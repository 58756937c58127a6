---------------------------- MODULE ConnPoolProofs ----------------------------
(***************************************************************************)
(* Proofs about ConnPool, for any number of requests and connections: no    *)
(* slot of the pool is lost or held twice, and, as long as reads outside a  *)
(* transaction decode, connections are handed out clean, work is done under *)
(* the tenant of its request, and who is told of success has committed.     *)
(***************************************************************************)
EXTENDS ConnPool, TLAPS

----------------------------------------------------------------------------
(* The inductive invariant. *)

\* The connections of a stack of frames.
HeldBy(st) == {st[i].conn : i \in DOMAIN st} \ {None}

\* A transaction waits at WORK for the one inside it, which has another connection, and
\* only a frame that is looking for a connection has none.
Shape(st) ==
    /\ Len(st) <= 2
    /\ Len(st) = 2 => st[1].at = "WORK" /\ st[1].conn # st[2].conn
    /\ \A i \in DOMAIN st : st[i].conn = None <=> st[i].at = "acquire"

\* Connections in use are those that requests hold, and no two requests hold the same.
Slots ==
    /\ \A r \in Requests : Shape(stack[r])
    /\ \A r \in Requests : \A c \in HeldBy(stack[r]) : conn[c].state = "used"
    /\ \A r, q \in Requests : r # q => HeldBy(stack[r]) \cap HeldBy(stack[q]) = {}
    /\ \A c \in Conns : conn[c].state = "used" => \E r \in Requests : c \in HeldBy(stack[r])

\* No transaction is open, and every answer was read.
Clean(k) == ~k.bad /\ k.srv = "I" /\ k.tenant = None /\ k.unread = << >>

\* A transaction is open and well, and every answer was read.
Opened(k) == ~k.bad /\ k.srv = "T" /\ k.unread = << >>

\* What the server's session is like when a frame is at a statement.  Before ROLLBACK an
\* answer may be left that says that the transaction is open.
Session(r, at, k) ==
    /\ at \in {"tls", "startup", "scram", "BEGIN", "QUERY"} => Clean(k)
    /\ at \in {"SET", "WORK", "COMMIT"} => Opened(k)
    /\ at \in {"WORK", "COMMIT"} => k.tenant = TenantOf[r]
    /\ at = "ROLLBACK" => k.bad \/ k.unread = << >> \/ (Len(k.unread) = 1 /\ k.unread[1].status = "T")
    /\ at = "QUERY" => r \in PoolReads

\* A connection that lies in the pool is clean, or ResetSession turns it away.
RestOK(k) ==
    /\ k.state = "closed" => k = Closed
    /\ k.state = "idle" => ~k.bad /\ k.srv = "I" /\ k.tenant = None /\ (k.tx = "I" => k.unread = << >>)

\* Every frame finds its session as it expects it, and every connection at rest is fit for
\* ResetSession to judge.
Right ==
    /\ \A r \in Requests : \A i \in DOMAIN stack[r] :
          stack[r][i].conn # None => Session(r, stack[r][i].at, conn[stack[r][i].conn])
    /\ \A c \in Conns : RestOK(conn[c])

\* A read outside a transaction finds only values that decodeValue converts.  Where one does
\* not, rows.Close leaves the rest of the answer on a connection whose status is idle, and
\* the next holder of the connection reads it.
PoolReadsDecode == Misdecodes \cap PoolReads = {}

SInv == TypeOK /\ Slots
IInv == SInv /\ Right /\ ToldCommitted

----------------------------------------------------------------------------
(* How a step of one request changes the pool. *)

LEMMA HeldAreConns ==
    ASSUME NEW st \in Seq(Frames)
    PROVE  HeldBy(st) \subseteq Conns
  <1>1. \A i \in DOMAIN st : st[i] \in Frames
    OBVIOUS
  <1>2. \A f \in Frames : f.conn \in Conns \cup {None}
    BY DEF Frames
  <1> QED BY <1>1, <1>2 DEF HeldBy

\* A request may give connections back, take ones that nobody has, and change its own:
\* the connections of the others stay as they are.
LEMMA RequestStep ==
    ASSUME SInv, NEW r \in Requests, NEW st \in Seq(Frames), Shape(st),
           stack' = [stack EXCEPT ![r] = st], conn' \in [Conns -> Sessions],
           \A c \in HeldBy(st) : c \in HeldBy(stack[r]) \/ conn[c].state # "used",
           \A c \in HeldBy(st) : conn'[c].state = "used",
           \A c \in Conns : c \notin HeldBy(st) /\ (c \in HeldBy(stack[r]) \/ conn[c].state # "used")
                              => conn'[c].state # "used",
           \A c \in Conns : c \notin HeldBy(stack[r]) /\ conn[c].state = "used" => conn'[c] = conn[c]
    PROVE  /\ stack' \in [Requests -> Seq(Frames)] /\ Slots'
           /\ (/\ Right /\ \A c \in Conns : RestOK(conn'[c])
               /\ \A i \in DOMAIN st : st[i].conn # None => Session(r, st[i].at, conn'[st[i].conn]))
              => Right'
  <1>1. stack' \in [Requests -> Seq(Frames)] /\ stack'[r] = st
        /\ \A q \in Requests : q # r => stack'[q] = stack[q]
    BY DEF SInv, TypeOK
  <1>2. \A q \in Requests : HeldBy(stack[q]) \subseteq Conns
    BY HeldAreConns DEF SInv, TypeOK
  <1>4. \A q \in Requests : q # r => \A c \in HeldBy(stack[q]) :
           conn[c].state = "used" /\ c \notin HeldBy(stack[r]) /\ c \notin HeldBy(st) /\ conn'[c] = conn[c]
    BY <1>2 DEF SInv, Slots
  <1>5. \A q \in Requests : Shape(stack'[q])
    BY <1>1 DEF SInv, Slots
  <1>6. \A q \in Requests : \A c \in HeldBy(stack'[q]) : conn'[c].state = "used"
    BY <1>1, <1>4
  <1>7. \A p, q \in Requests : p # q => HeldBy(stack'[p]) \cap HeldBy(stack'[q]) = {}
    <2> SUFFICES ASSUME NEW p \in Requests, NEW q \in Requests, p # q
                 PROVE  HeldBy(stack'[p]) \cap HeldBy(stack'[q]) = {}
      OBVIOUS
    <2>1. CASE p = r
      BY <2>1, <1>1, <1>4
    <2>2. CASE q = r
      BY <2>2, <1>1, <1>4
    <2>3. CASE p # r /\ q # r
      BY <2>3, <1>1 DEF SInv, Slots
    <2> QED BY <2>1, <2>2, <2>3
  <1>8. \A c \in Conns : conn'[c].state = "used" => \E q \in Requests : c \in HeldBy(stack'[q])
    <2> SUFFICES ASSUME NEW c \in Conns, conn'[c].state = "used"
                 PROVE  \E q \in Requests : c \in HeldBy(stack'[q])
      OBVIOUS
    <2>1. CASE c \in HeldBy(st)
      BY <2>1, <1>1
    <2>2. CASE c \notin HeldBy(st)
      <3>1. c \notin HeldBy(stack[r]) /\ conn[c].state = "used"
        BY <2>2
      <3>2. PICK q \in Requests : c \in HeldBy(stack[q])
        BY <3>1 DEF SInv, Slots
      <3> QED BY <3>1, <3>2, <1>1
    <2> QED BY <2>1, <2>2
  <1>9. Slots'
    BY <1>5, <1>6, <1>7, <1>8 DEF Slots, Shape, HeldBy
  <1>10. ASSUME Right, \A c \in Conns : RestOK(conn'[c]),
                \A i \in DOMAIN st : st[i].conn # None => Session(r, st[i].at, conn'[st[i].conn])
         PROVE  Right'
    <2>1. ASSUME NEW q \in Requests, NEW i \in DOMAIN stack'[q], stack'[q][i].conn # None
          PROVE  Session(q, stack'[q][i].at, conn'[stack'[q][i].conn])
      <3>1. CASE q = r
        BY <3>1, <2>1, <1>1, <1>10
      <3>2. CASE q # r
        <4>1. stack'[q] = stack[q]
          BY <3>2, <1>1
        <4>2. stack[q][i].conn \in HeldBy(stack[q])
          BY <4>1, <2>1 DEF HeldBy
        <4> QED BY <4>1, <4>2, <3>2, <2>1, <1>4, <1>10 DEF Right
      <3> QED BY <3>1, <3>2
    <2> QED BY <2>1, <1>10 DEF Right, RestOK, Session, Clean, Opened, Closed
  <1> QED BY <1>1, <1>9, <1>10

\* A connection that nobody has changes and stays with nobody, or nothing changes.
LEMMA IdleStep ==
    ASSUME SInv, UNCHANGED stack, conn' \in [Conns -> Sessions],
           \A c \in Conns : conn'[c] = conn[c] \/ (conn[c].state # "used" /\ conn'[c] = Closed)
    PROVE  Slots' /\ (Right => Right')
  <1>1. \A q \in Requests : HeldBy(stack[q]) \subseteq Conns
    BY HeldAreConns DEF SInv, TypeOK
  <1>2. \A c \in Conns : (conn'[c].state = "used" <=> conn[c].state = "used")
                         /\ (conn[c].state = "used" => conn'[c] = conn[c])
    BY DEF Closed
  <1>3. Slots'
    <2>1. stack' = stack /\ \A q \in Requests : Shape(stack'[q])
      BY DEF SInv, Slots
    <2>2. \A q \in Requests : \A c \in HeldBy(stack'[q]) : conn'[c].state = "used"
      BY <2>1, <1>1, <1>2 DEF SInv, Slots
    <2>3. \A p, q \in Requests : p # q => HeldBy(stack'[p]) \cap HeldBy(stack'[q]) = {}
      BY <2>1 DEF SInv, Slots
    <2>4. \A c \in Conns : conn'[c].state = "used" => \E q \in Requests : c \in HeldBy(stack'[q])
      BY <2>1, <1>2 DEF SInv, Slots
    <2> QED BY <2>1, <2>2, <2>3, <2>4 DEF Slots, Shape, HeldBy
  <1>4. ASSUME Right PROVE Right'
    <2>1. \A c \in Conns : RestOK(conn'[c])
      BY <1>4 DEF Right, RestOK, Closed
    <2>2. ASSUME NEW q \in Requests, NEW i \in DOMAIN stack[q], stack[q][i].conn # None
          PROVE  Session(q, stack[q][i].at, conn'[stack[q][i].conn])
      <3>1. stack[q][i].conn \in HeldBy(stack[q])
        BY <2>2 DEF HeldBy
      <3> QED BY <3>1, <2>2, <1>1, <1>2, <1>4 DEF SInv, Slots, Right
    <2> QED BY <2>1, <2>2 DEF Right, RestOK, Session, Clean, Opened, Closed
  <1> QED BY <1>3, <1>4

\* What is known of the frame on top.
LEMMA TopFacts ==
    ASSUME SInv, NEW r \in Requests, stack[r] # << >>
    PROVE  /\ stack[r] \in Seq(Frames) /\ Shape(stack[r])
           /\ Len(stack[r]) \in 1 .. 2 /\ Top(r) = stack[r][Len(stack[r])] /\ Top(r) \in Frames
           /\ Top(r).conn = None <=> Top(r).at = "acquire"
           /\ Top(r).conn # None => /\ Top(r).conn \in Conns /\ Top(r).conn \in HeldBy(stack[r])
                                    /\ conn[Top(r).conn].state = "used"
           /\ Len(stack[r]) = 2 => /\ stack[r][1] \in Frames /\ stack[r][1].at = "WORK"
                                   /\ stack[r][1].conn \in Conns /\ stack[r][1].conn # Top(r).conn
                                   /\ conn[stack[r][1].conn].state = "used"
  <1>1. stack[r] \in Seq(Frames) /\ Shape(stack[r])
    BY DEF SInv, TypeOK, Slots
  <1>2. Len(stack[r]) \in 1 .. 2 /\ Top(r) = stack[r][Len(stack[r])] /\ Top(r) \in Frames
    <2>1. Len(stack[r]) \in Nat /\ Len(stack[r]) # 0
      BY <1>1
    <2>2. Len(stack[r]) <= 2
      BY <1>1 DEF Shape
    <2>3. Len(stack[r]) \in 1 .. 2
      <3>1. \A n \in Nat : n # 0 /\ n <= 2 => n \in 1 .. 2
        OBVIOUS
      <3> QED BY <3>1, <2>1, <2>2
    <2>4. \A i \in 1 .. Len(stack[r]) : stack[r][i] \in Frames
      BY <1>1
    <2> QED BY <2>3, <2>4 DEF Top
  <1>3. \A i \in DOMAIN stack[r] : /\ stack[r][i] \in Frames
                                   /\ stack[r][i].conn = None <=> stack[r][i].at = "acquire"
    BY <1>1 DEF Shape
  <1>4. \A f \in Frames : f.conn # None => f.conn \in Conns
    BY DEF Frames
  <1>5. \A i \in DOMAIN stack[r] : stack[r][i].conn # None =>
           /\ stack[r][i].conn \in HeldBy(stack[r]) /\ conn[stack[r][i].conn].state = "used"
    BY DEF SInv, Slots, HeldBy
  <1>6. Len(stack[r]) \in DOMAIN stack[r] /\ (Len(stack[r]) = 2 => 1 \in DOMAIN stack[r])
    BY <1>1, <1>2
  <1>7. Len(stack[r]) = 2 => stack[r][1].at = "WORK" /\ stack[r][1].conn # stack[r][2].conn
    BY <1>1 DEF Shape
  <1>8. (Top(r).conn = None <=> Top(r).at = "acquire")
        /\ (Top(r).conn # None => /\ Top(r).conn \in Conns /\ Top(r).conn \in HeldBy(stack[r])
                                  /\ conn[Top(r).conn].state = "used")
    BY <1>2, <1>3, <1>4, <1>5, <1>6
  <1>9. Len(stack[r]) = 2 => /\ stack[r][1] \in Frames /\ stack[r][1].conn \in Conns
                             /\ stack[r][1].conn # Top(r).conn /\ conn[stack[r][1].conn].state = "used"
    BY <1>2, <1>3, <1>4, <1>5, <1>6, <1>7
  <1> QED BY <1>1, <1>2, <1>7, <1>8, <1>9

\* Where a frame is decides that there is one.
LEMMA AtFacts ==
    ASSUME SInv, NEW r \in Requests, At(r) \in Ready \cup Statements
    PROVE  stack[r] # << >> /\ Top(r).at = At(r)
  BY NoneAssumption DEF At, Ready, Statements

\* The frame on top is replaced, and with it at most its connection and the one it takes.
LEMMA TopStep ==
    ASSUME SInv, NEW r \in Requests, stack[r] # << >>, NEW g \in Frames,
           g.conn = None <=> g.at = "acquire", Goto(r, g), conn' \in [Conns -> Sessions],
           g.conn # None => /\ g.conn = Top(r).conn \/ conn[g.conn].state # "used"
                            /\ conn'[g.conn].state = "used",
           Top(r).conn # None /\ Top(r).conn # g.conn => conn'[Top(r).conn].state # "used",
           \A c \in Conns \ {Top(r).conn, g.conn} : conn'[c] = conn[c]
    PROVE  /\ stack' \in [Requests -> Seq(Frames)] /\ Slots'
           /\ (/\ Right /\ (g.conn # None => Session(r, g.at, conn'[g.conn]))
               /\ Top(r).conn # None => RestOK(conn'[Top(r).conn]))
              => Right'
  <1> DEFINE n == Len(stack[r])
             f == Top(r)
             st == [stack[r] EXCEPT ![n] = g]
             low == {stack[r][i].conn : i \in 1 .. n - 1}
  <1>0. /\ stack[r] \in Seq(Frames) /\ Shape(stack[r]) /\ n \in 1 .. 2 /\ f = stack[r][n] /\ f \in Frames
        /\ f.conn # None => f.conn \in Conns /\ f.conn \in HeldBy(stack[r]) /\ conn[f.conn].state = "used"
        /\ n = 2 => /\ stack[r][1].at = "WORK" /\ stack[r][1].conn \in Conns
                    /\ stack[r][1].conn # f.conn /\ conn[stack[r][1].conn].state = "used"
    BY TopFacts
  <1>1. st \in Seq(Frames) /\ Len(st) = n /\ st[n] = g /\ DOMAIN st = 1 .. n /\ DOMAIN stack[r] = 1 .. n
        /\ (n = 2 => st[1] = stack[r][1])
    BY <1>0
  <1>2. stack' = [stack EXCEPT ![r] = st]
    BY DEF Goto
  <1>3. None \notin Conns /\ g.conn \in Conns \cup {None}
    BY NoneAssumption DEF Frames
  <1>4. n = 2 => stack[r][1].conn # g.conn
    BY <1>0, <1>3
  <1>5. Shape(st)
    <2>1. Len(st) <= 2 /\ (Len(st) = 2 => st[1].at = "WORK" /\ st[1].conn # st[2].conn)
      BY <1>0, <1>1, <1>4
    <2>2. ASSUME NEW i \in DOMAIN st PROVE st[i].conn = None <=> st[i].at = "acquire"
      <3>1. CASE i = n
        BY <3>1, <1>1
      <3>2. CASE i # n
        BY <3>2, <2>2, <1>0, <1>1 DEF Shape
      <3> QED BY <3>1, <3>2
    <2> QED BY <2>1, <2>2 DEF Shape
  <1>6. low = IF n = 2 THEN {stack[r][1].conn} ELSE {}
    BY <1>0
  <1>7. HeldBy(stack[r]) = (low \cup {f.conn}) \ {None}
    BY <1>0, <1>1, <1>6 DEF HeldBy
  <1>8. HeldBy(st) = (low \cup {g.conn}) \ {None}
    BY <1>0, <1>1, <1>6 DEF HeldBy
  <1>9. \A c \in low : c \in Conns /\ c # None /\ c # f.conn /\ c # g.conn /\ conn[c].state = "used" /\ conn'[c] = conn[c]
    BY <1>0, <1>3, <1>4, <1>6
  <1> HIDE DEF n, f, st, low
  <1>10. \A c \in HeldBy(st) : (c \in HeldBy(stack[r]) \/ conn[c].state # "used") /\ conn'[c].state = "used"
    BY <1>7, <1>8, <1>9 DEF f
  <1>11. \A c \in Conns : c \notin HeldBy(st) /\ (c \in HeldBy(stack[r]) \/ conn[c].state # "used")
                             => conn'[c].state # "used"
    BY <1>3, <1>7, <1>8, <1>9 DEF f
  <1>12. \A c \in Conns : c \notin HeldBy(stack[r]) /\ conn[c].state = "used" => conn'[c] = conn[c]
    BY <1>3, <1>7, <1>9 DEF f
  <1>13. /\ stack' \in [Requests -> Seq(Frames)] /\ Slots'
         /\ (/\ Right /\ \A c \in Conns : RestOK(conn'[c])
             /\ \A i \in DOMAIN st : st[i].conn # None => Session(r, st[i].at, conn'[st[i].conn]))
            => Right'
    BY <1>1, <1>2, <1>5, <1>10, <1>11, <1>12, RequestStep
  <1>14. ASSUME Right, g.conn # None => Session(r, g.at, conn'[g.conn]), f.conn # None => RestOK(conn'[f.conn])
         PROVE  Right'
    <2>1. \A c \in Conns : RestOK(conn'[c])
      <3>1. g.conn # None => RestOK(conn'[g.conn])
        BY DEF RestOK
      <3>2. \A c \in Conns \ {f.conn, g.conn} : RestOK(conn'[c])
        BY <1>14 DEF Right, f
      <3> QED BY <3>1, <3>2, <1>3, <1>14
    <2>2. \A i \in DOMAIN st : st[i].conn # None => Session(r, st[i].at, conn'[st[i].conn])
      <3> SUFFICES ASSUME NEW i \in DOMAIN st, st[i].conn # None
                   PROVE  Session(r, st[i].at, conn'[st[i].conn])
        OBVIOUS
      <3>1. CASE i = n
        BY <3>1, <1>1, <1>14
      <3>2. CASE i # n
        <4>1. n = 2 /\ i = 1 /\ i \in DOMAIN stack[r] /\ st[i] = stack[r][i] /\ stack[r][i].conn \in low
          BY <3>2, <1>0, <1>1, <1>6
        <4> QED BY <4>1, <1>9, <1>14 DEF Right
      <3> QED BY <3>1, <3>2
    <2> QED BY <2>1, <2>2, <1>13, <1>14
  <1> QED BY <1>13, <1>14 DEF f

\* The frame on top is over, and its connection is in use no more.
LEMMA PopStep ==
    ASSUME SInv, NEW r \in Requests, stack[r] # << >>, NEW ok \in BOOLEAN, Ends(r, ok),
           conn' \in [Conns -> Sessions],
           Top(r).conn # None => conn'[Top(r).conn].state # "used",
           \A c \in Conns \ {Top(r).conn} : conn'[c] = conn[c]
    PROVE  /\ stack' \in [Requests -> Seq(Frames)] /\ Slots'
           /\ Right /\ (Top(r).conn # None => RestOK(conn'[Top(r).conn])) => Right'
  <1> DEFINE n == Len(stack[r])
             f == Top(r)
             g == [stack[r][1] EXCEPT !.at = IF ok THEN "COMMIT" ELSE "ROLLBACK"]
             st == IF n = 1 THEN << >> ELSE <<g>>
             low == IF n = 1 THEN {} ELSE {stack[r][1].conn}
  <1>0. /\ stack[r] \in Seq(Frames) /\ n \in 1 .. 2 /\ f = stack[r][n] /\ f \in Frames
        /\ f.conn # None => f.conn \in Conns /\ conn[f.conn].state = "used"
        /\ n = 2 => /\ stack[r][1] \in Frames /\ stack[r][1].at = "WORK" /\ stack[r][1].conn \in Conns
                    /\ stack[r][1].conn # f.conn /\ conn[stack[r][1].conn].state = "used"
    BY TopFacts
  <1>1. None \notin Conns
    BY NoneAssumption
  <1>2. n = 2 => g \in Frames /\ g.conn = stack[r][1].conn /\ g.conn # None
                 /\ g.at \in {"COMMIT", "ROLLBACK"}
    BY <1>0, <1>1 DEF Frames, Statements
  <1>3. st \in Seq(Frames) /\ (n = 1 => st = << >>) /\ (n = 2 => Len(st) = 1 /\ st[1] = g /\ DOMAIN st = {1})
    BY <1>0, <1>2
  <1>5. stack' = [stack EXCEPT ![r] = st]
    <2>1. CASE n = 1
      BY <2>1 DEF Ends
    <2>2. CASE n = 2
      BY <2>2 DEF Ends
    <2> QED BY <2>1, <2>2, <1>0
  <1>6. DOMAIN stack[r] = 1 .. n
    BY <1>0
  <1>7. HeldBy(stack[r]) = (low \cup {f.conn}) \ {None}
    BY <1>0, <1>6 DEF HeldBy
  <1>9. \A c \in low : c \in Conns /\ c # None /\ c # f.conn /\ conn[c].state = "used" /\ conn'[c] = conn[c]
    BY <1>0, <1>1
  <1>10. n = 2 => stack[r][1].conn \in low
    BY <1>0
  <1> HIDE DEF n, f, g, st, low
  <1>4. Shape(st)
    <2>1. CASE n = 1
      BY <2>1, <1>3 DEF Shape
    <2>2. CASE n = 2
      <3>1. g.at # "acquire" /\ g.conn # None
        BY <2>2, <1>2
      <3>2. \A i \in DOMAIN st : st[i] = g
        BY <2>2, <1>3
      <3>3. Len(st) = 1
        BY <2>2, <1>3
      <3>4. \A i \in DOMAIN st : st[i].conn = None <=> st[i].at = "acquire"
        BY <3>1, <3>2
      <3> QED BY <3>3, <3>4 DEF Shape
    <2> QED BY <2>1, <2>2, <1>0
  <1>8. HeldBy(st) = low
    <2>1. CASE n = 1
      BY <2>1, <1>3 DEF HeldBy, low
    <2>2. CASE n = 2
      <3>1. HeldBy(st) = {g.conn}
        BY <2>2, <1>2, <1>3 DEF HeldBy
      <3> QED BY <2>2, <3>1, <1>2 DEF low
    <2> QED BY <2>1, <2>2, <1>0
  <1>11. \A c \in HeldBy(st) : (c \in HeldBy(stack[r]) \/ conn[c].state # "used") /\ conn'[c].state = "used"
    BY <1>7, <1>8, <1>9
  <1>12. \A c \in Conns : c \notin HeldBy(st) /\ (c \in HeldBy(stack[r]) \/ conn[c].state # "used")
                             => conn'[c].state # "used"
    BY <1>1, <1>7, <1>8 DEF f
  <1>13. \A c \in Conns : c \notin HeldBy(stack[r]) /\ conn[c].state = "used" => conn'[c] = conn[c]
    BY <1>1, <1>7 DEF f
  <1>14. /\ stack' \in [Requests -> Seq(Frames)] /\ Slots'
         /\ (/\ Right /\ \A c \in Conns : RestOK(conn'[c])
             /\ \A i \in DOMAIN st : st[i].conn # None => Session(r, st[i].at, conn'[st[i].conn]))
            => Right'
    BY <1>3, <1>4, <1>5, <1>11, <1>12, <1>13, RequestStep
  <1>15. ASSUME Right, f.conn # None => RestOK(conn'[f.conn]) PROVE Right'
    <2>1. \A c \in Conns : RestOK(conn'[c])
      BY <1>1, <1>15 DEF Right, f
    <2>2. ASSUME NEW i \in DOMAIN st PROVE Session(r, st[i].at, conn'[st[i].conn])
      <3>1. n = 2 /\ i = 1 /\ st[i] = g
        BY <2>2, <1>0, <1>3
      <3>2. 1 \in DOMAIN stack[r] /\ stack[r][1].at = "WORK" /\ stack[r][1].conn # None
            /\ conn'[stack[r][1].conn] = conn[stack[r][1].conn]
        BY <3>1, <1>0, <1>6, <1>9, <1>10
      <3>3. Session(r, "WORK", conn'[stack[r][1].conn])
        BY <3>2, <1>15 DEF Right
      <3>4. Session(r, "COMMIT", conn'[stack[r][1].conn]) /\ Session(r, "ROLLBACK", conn'[stack[r][1].conn])
        BY <3>3 DEF Session, Opened
      <3> QED BY <3>1, <3>4, <1>2
    <2> QED BY <2>1, <2>2, <1>14, <1>15
  <1> QED BY <1>14, <1>15 DEF f

\* A second transaction begins inside the first, whose statement has left its connection.
LEMMA PushStep ==
    ASSUME SInv, NEW r \in Requests, Len(stack[r]) = 1, Top(r).at = "WORK",
           stack' = [stack EXCEPT ![r] = Append(@, [at |-> "acquire", conn |-> None, cut |-> FALSE])],
           conn' \in [Conns -> Sessions], conn'[Top(r).conn].state = "used",
           \A c \in Conns \ {Top(r).conn} : conn'[c] = conn[c]
    PROVE  /\ stack' \in [Requests -> Seq(Frames)] /\ Slots'
           /\ Right /\ Session(r, "WORK", conn'[Top(r).conn]) => Right'
  <1> DEFINE f == Top(r)
             g == [at |-> "acquire", conn |-> None, cut |-> FALSE]
             st == Append(stack[r], g)
  <1>0. /\ stack[r] \in Seq(Frames) /\ f = stack[r][1] /\ f \in Frames
        /\ f.conn # None /\ f.conn \in Conns /\ conn[f.conn].state = "used"
    <2>1. stack[r] # << >>
      BY DEF SInv, TypeOK
    <2> QED BY <2>1, TopFacts
  <1>1. g \in Frames
    BY DEF Frames, Ready
  <1>2. st \in Seq(Frames) /\ Len(st) = 2 /\ DOMAIN st = {1, 2} /\ st[1] = f /\ st[2] = g
        /\ DOMAIN stack[r] = {1}
    BY <1>0, <1>1
  <1>3. g.at = "acquire" /\ g.conn = None
    OBVIOUS
  <1>4. stack' = [stack EXCEPT ![r] = st]
    OBVIOUS
  <1>5. f.at = "WORK"
    OBVIOUS
  <1> HIDE DEF f, g, st
  <1>6. Shape(st)
    BY <1>0, <1>2, <1>3, <1>5 DEF Shape
  <1>7. HeldBy(stack[r]) = {f.conn}
    BY <1>0, <1>2 DEF HeldBy
  <1>8. HeldBy(st) = {f.conn}
    BY <1>0, <1>2, <1>3 DEF HeldBy
  <1>9. \A c \in HeldBy(st) : c \in HeldBy(stack[r]) /\ conn'[c].state = "used"
    BY <1>7, <1>8 DEF f
  <1>10. \A c \in Conns : c \notin HeldBy(st) => c \notin HeldBy(stack[r]) /\ conn'[c] = conn[c]
    BY <1>7, <1>8 DEF f
  <1>11. /\ stack' \in [Requests -> Seq(Frames)] /\ Slots'
         /\ (/\ Right /\ \A c \in Conns : RestOK(conn'[c])
             /\ \A i \in DOMAIN st : st[i].conn # None => Session(r, st[i].at, conn'[st[i].conn]))
            => Right'
    <2>1. \A c \in HeldBy(st) : (c \in HeldBy(stack[r]) \/ conn[c].state # "used") /\ conn'[c].state = "used"
      BY <1>9
    <2>2. \A c \in Conns : c \notin HeldBy(st) /\ (c \in HeldBy(stack[r]) \/ conn[c].state # "used")
                             => conn'[c].state # "used"
      BY <1>10
    <2>3. \A c \in Conns : c \notin HeldBy(stack[r]) /\ conn[c].state = "used" => conn'[c] = conn[c]
      BY <1>7, <1>8, <1>10
    <2>4. st \in Seq(Frames)
      BY <1>2
    <2> QED BY <2>1, <2>2, <2>3, <2>4, <1>4, <1>6, RequestStep
  <1>12. ASSUME Right, Session(r, "WORK", conn'[f.conn]) PROVE Right'
    <2>1. \A c \in Conns : RestOK(conn'[c])
      <3>1. RestOK(conn'[f.conn])
        BY DEF RestOK, f
      <3> QED BY <3>1, <1>12 DEF Right, f
    <2>2. \A i \in DOMAIN st : st[i].conn # None => Session(r, st[i].at, conn'[st[i].conn])
      BY <1>2, <1>3, <1>5, <1>12
    <2> QED BY <2>1, <2>2, <1>11, <1>12
  <1> QED BY <1>11, <1>12 DEF f

----------------------------------------------------------------------------
(* Statements. *)

\* What a statement has to leave behind for its frame, or for the pool.
LeftRight(r, k, s, ok) == IF Over(s, ok) THEN RestOK(Put(k)) ELSE Session(r, Following(s, ok), k)

LEMMA ClosedType == Closed \in Sessions /\ Closed.state = "closed" /\ RestOK(Closed)
  <1>1. << >> \in Seq(Replies)
    OBVIOUS
  <1>2. Closed.state = "closed"
    BY DEF Closed
  <1>3. Closed \in Sessions
    BY <1>1 DEF Closed, Sessions
  <1>4. RestOK(Closed)
    BY <1>2 DEF RestOK
  <1> QED BY <1>2, <1>3, <1>4

LEMMA PutType ==
    ASSUME NEW k \in Sessions
    PROVE  Put(k) \in Sessions /\ Put(k).state # "used"
  <1>1. CASE k.bad
    BY <1>1, ClosedType DEF Put
  <1>2. CASE ~k.bad
    BY <1>2 DEF Put, Sessions
  <1> QED BY <1>1, <1>2

\* What the end of a frame does to the other variables.
LEMMA EndsSets ==
    ASSUME TypeOK, NEW r \in Requests, NEW ok \in BOOLEAN, Ends(r, ok)
    PROVE  /\ told' \subseteq Requests /\ expired' \subseteq Requests
           /\ told' = told \/ (ok /\ Len(stack[r]) = 1 /\ told' = told \cup {r})
  BY DEF TypeOK, Ends

\* A statement leaves its connection as k: the frame goes on with it, or the pool has it.
LEMMA LeavesStep ==
    ASSUME SInv, NEW r \in Requests, NEW s \in Statements, At(r) = s, NEW k \in Sessions, k.state = "used",
           NEW ok \in BOOLEAN, NEW cut \in BOOLEAN, Leaves(r, k, s, ok, cut)
    PROVE  /\ conn' \in [Conns -> Sessions] /\ stack' \in [Requests -> Seq(Frames)]
           /\ told' \subseteq Requests /\ expired' \subseteq Requests /\ Slots'
           /\ told' = told \/ (Succeeded(s, ok) /\ Len(stack[r]) = 1 /\ told' = told \cup {r})
           /\ Right /\ LeftRight(r, k, s, ok) => Right'
  <1> DEFINE f == Top(r)
             c == f.conn
  <1>0. stack[r] # << >> /\ f.at = s /\ f \in Frames /\ c \in Conns /\ c # None /\ conn[c].state = "used"
        /\ conn \in [Conns -> Sessions]
    <2>1. stack[r] # << >> /\ f.at = s
      BY AtFacts
    <2>2. s # "acquire"
      BY DEF Statements
    <2> QED BY <2>1, <2>2, TopFacts DEF SInv, TypeOK
  <1>1. Put(k) \in Sessions /\ Put(k).state # "used"
    BY PutType
  <1>2. CASE Over(s, ok)
    <2>1. conn' = [conn EXCEPT ![c] = Put(k)] /\ Ends(r, Succeeded(s, ok))
      BY <1>2 DEF Leaves, After
    <2>2. conn' \in [Conns -> Sessions] /\ conn'[c] = Put(k) /\ \A d \in Conns \ {c} : conn'[d] = conn[d]
      BY <2>1, <1>0, <1>1
    <2>3. Succeeded(s, ok) \in BOOLEAN
      BY DEF Succeeded
    <2>4. /\ stack' \in [Requests -> Seq(Frames)] /\ Slots'
          /\ Right /\ (c # None => RestOK(conn'[c])) => Right'
      BY <2>1, <2>2, <2>3, <1>0, <1>1, PopStep
    <2>5. LeftRight(r, k, s, ok) => RestOK(conn'[c])
      BY <1>2, <2>2 DEF LeftRight
    <2>6. /\ told' \subseteq Requests /\ expired' \subseteq Requests
          /\ told' = told \/ (Succeeded(s, ok) /\ Len(stack[r]) = 1 /\ told' = told \cup {r})
      BY <2>1, <2>3, EndsSets DEF SInv
    <2> QED BY <2>2, <2>4, <2>5, <2>6
  <1>3. CASE ~Over(s, ok)
    <2>1. conn' = [conn EXCEPT ![c] = k] /\ UNCHANGED <<told, expired>>
      BY <1>3 DEF Leaves, After
    <2>2. conn' \in [Conns -> Sessions] /\ conn'[c] = k /\ \A d \in Conns \ {c} : conn'[d] = conn[d]
      BY <2>1, <1>0
    <2>3. Following(s, ok) \in {"SET", "WORK", "COMMIT", "ROLLBACK"} /\ (s = "WORK" /\ ok => Following(s, ok) = "COMMIT")
      <3>1. CASE ~ok
        BY <3>1 DEF Following
      <3>2. CASE ok
        <4>1. s \in {"BEGIN", "SET", "WORK"}
          BY <3>2, <1>3 DEF Over, Statements
        <4> QED BY <3>2, <4>1 DEF Following
      <3> QED BY <3>1, <3>2
    <2>4. CASE s = "WORK" /\ ok /\ r \in Nested /\ Len(stack[r]) = 1
      <3>1. stack' = [stack EXCEPT ![r] = Append(@, [at |-> "acquire", conn |-> None, cut |-> FALSE])]
        BY <1>3, <2>4 DEF Leaves, After
      <3>2. /\ stack' \in [Requests -> Seq(Frames)] /\ Slots'
            /\ Right /\ Session(r, "WORK", conn'[c]) => Right'
        BY <3>1, <2>2, <2>4, <1>0, PushStep
      <3>3. LeftRight(r, k, s, ok) => Session(r, "COMMIT", k)
        BY <1>3, <2>3, <2>4 DEF LeftRight
      <3>4. Session(r, "COMMIT", k) => Session(r, "WORK", k)
        BY DEF Session
      <3> QED BY <3>2, <3>3, <3>4, <2>1, <2>2 DEF SInv, TypeOK
    <2>5. CASE ~(s = "WORK" /\ ok /\ r \in Nested /\ Len(stack[r]) = 1)
      <3> DEFINE g == [f EXCEPT !.at = Following(s, ok), !.cut = cut]
      <3>1. Goto(r, g)
        BY <1>3, <2>5 DEF Leaves, After
      <3>2. g \in Frames /\ g.at = Following(s, ok) /\ g.conn = c
        BY <1>0, <2>3 DEF Frames, Statements
      <3>3. g.at # "acquire"
        BY <3>2, <2>3
      <3> HIDE DEF g
      <3>4. RestOK(conn'[c])
        BY <2>2 DEF RestOK
      <3>5. /\ stack' \in [Requests -> Seq(Frames)] /\ Slots'
            /\ (/\ Right /\ (g.conn # None => Session(r, g.at, conn'[g.conn]))
                /\ c # None => RestOK(conn'[c]))
               => Right'
        BY <3>1, <3>2, <3>3, <2>2, <1>0, TopStep
      <3>6. LeftRight(r, k, s, ok) => Session(r, g.at, conn'[g.conn])
        BY <1>3, <2>2, <3>2 DEF LeftRight
      <3> QED BY <3>4, <3>5, <3>6, <2>1, <2>2 DEF SInv, TypeOK
    <2> QED BY <2>4, <2>5
  <1> QED BY <1>2, <1>3

Tenants == {None} \cup {TenantOf[r] : r \in Requests}

\* What the server does to a session.
LEMMA ServerFacts ==
    ASSUME NEW k \in Sessions, NEW s \in Statements, NEW t \in Tenants, NEW ok \in BOOLEAN
    PROVE  LET x == Server(k, s, t, ok)
           IN /\ x \in Sessions /\ x.state = k.state /\ x.bad = k.bad /\ x.unread = k.unread
              /\ s \in {"COMMIT", "ROLLBACK"} => x.srv = "I" /\ x.tenant = None
              /\ s \in {"BEGIN", "QUERY"} => x.tenant = k.tenant
              /\ s \in {"BEGIN", "QUERY"} /\ ~ok /\ k.srv = "I" => x.srv = "I"
              /\ s = "BEGIN" /\ ok => x.srv = "T"
              /\ s = "SET" /\ ok => x.srv = k.srv /\ x.tenant = t
              /\ s \in {"WORK", "QUERY"} /\ ok => x = k
  <1>1. CASE s \in {"COMMIT", "ROLLBACK"}
    <2>1. Server(k, s, t, ok) = [k EXCEPT !.srv = "I", !.tenant = None]
      BY <1>1 DEF Server, EndTransaction
    <2> QED BY <2>1, <1>1 DEF Sessions
  <1>2. CASE s \notin {"COMMIT", "ROLLBACK"} /\ ~ok
    <2>1. Server(k, s, t, ok) = IF k.srv = "T" THEN [k EXCEPT !.srv = "E"] ELSE k
      BY <1>2 DEF Server
    <2> QED BY <2>1, <1>2 DEF Sessions
  <1>3. CASE s = "BEGIN" /\ ok
    <2>1. Server(k, s, t, ok) = [k EXCEPT !.srv = "T"]
      BY <1>3 DEF Server
    <2> QED BY <2>1, <1>3 DEF Sessions
  <1>4. CASE s = "SET" /\ ok
    <2>1. Server(k, s, t, ok) = [k EXCEPT !.tenant = t]
      BY <1>4 DEF Server
    <2> QED BY <2>1, <1>4 DEF Sessions, Tenants
  <1>5. CASE s \in {"WORK", "QUERY"} /\ ok
    <2>1. Server(k, s, t, ok) = k
      BY <1>5 DEF Server
    <2> QED BY <2>1, <1>5 DEF Sessions
  <1> QED BY <1>1, <1>2, <1>3, <1>4, <1>5 DEF Statements

\* What the driver makes of the answers: it takes the first one that it has not read.
LEMMA ReadFacts ==
    ASSUME NEW k \in Sessions, NEW ok \in BOOLEAN
    PROVE  LET x == Read(k, ok)
           IN /\ x \in Sessions /\ x.state = k.state /\ x.bad = k.bad /\ x.srv = k.srv /\ x.tenant = k.tenant
              /\ Told(k, ok) \in BOOLEAN
              /\ k.unread = << >> => x.tx = k.srv /\ x.unread = << >> /\ Told(k, ok) = ok
              /\ Len(k.unread) = 1 => x.tx = k.unread[1].status
  <1> DEFINE a == [ok |-> ok, status |-> k.srv]
             replies == Append(k.unread, a)
  <1>1. k.unread \in Seq(Replies) /\ k.srv \in {"I", "T", "E"}
    BY DEF Sessions
  <1>2. a \in Replies /\ a.status = k.srv
    BY <1>1 DEF Replies
  <1>3. k.unread # << >> => Head(k.unread) \in Replies
    BY <1>1
  <1>4. \A x \in Replies : x.status \in {"I", "T", "E"} /\ x.ok \in BOOLEAN
    BY DEF Replies
  <1>5. Told(k, ok) \in BOOLEAN /\ (k.unread = << >> => Told(k, ok) = ok)
    BY <1>3, <1>4 DEF Told
  <1> HIDE DEF a
  <1>6. Head(replies) \in Replies /\ Tail(replies) \in Seq(Replies)
    <2>1. replies \in Seq(Replies) /\ replies # << >>
      BY <1>1, <1>2
    <2> QED BY <2>1
  <1>7. k.unread = << >> => Head(replies) = a /\ Tail(replies) = << >>
    BY <1>2
  <1>8. Len(k.unread) = 1 => Head(replies) = k.unread[1]
    BY <1>1, <1>2
  <1>9. Read(k, ok) = [k EXCEPT !.tx = Head(replies).status, !.unread = Tail(replies)]
    BY DEF Read, a
  <1> HIDE DEF replies
  <1>10. Head(replies).status \in {"I", "T", "E"}
    BY <1>4, <1>6
  <1>11. /\ Read(k, ok) \in Sessions /\ Read(k, ok).state = k.state /\ Read(k, ok).bad = k.bad
         /\ Read(k, ok).srv = k.srv /\ Read(k, ok).tenant = k.tenant
         /\ Read(k, ok).tx = Head(replies).status /\ Read(k, ok).unread = Tail(replies)
    BY <1>6, <1>9, <1>10 DEF Sessions
  <1> QED BY <1>2, <1>5, <1>7, <1>8, <1>11

\* A connection that is well and has only this transaction to show is fit for the pool.
LEMMA PutRight ==
    ASSUME NEW k \in Sessions, k.bad \/ (k.srv = "I" /\ k.tenant = None /\ (k.tx = "I" => k.unread = << >>))
    PROVE  RestOK(Put(k))
  <1>1. CASE k.bad
    BY <1>1, ClosedType DEF Put
  <1>2. CASE ~k.bad
    <2>1. Put(k) = [k EXCEPT !.state = "idle"]
      BY <1>2 DEF Put
    <2>2. /\ Put(k).state = "idle" /\ Put(k).bad = k.bad /\ Put(k).srv = k.srv /\ Put(k).tenant = k.tenant
          /\ Put(k).tx = k.tx /\ Put(k).unread = k.unread
      BY <2>1 DEF Sessions
    <2> QED BY <1>2, <2>2 DEF RestOK
  <1> QED BY <1>1, <1>2

\* An answer, however it turns out, leaves the session as the next statement or the next
\* holder expects it.
LEMMA AnswerRight ==
    ASSUME NEW r \in Requests, NEW s \in Statements, NEW k \in Sessions, Session(r, s, k), ~k.bad,
           NEW ok \in BOOLEAN
    PROVE  LET x == Server(k, s, TenantOf[r], ok)
           IN LeftRight(r, Read(x, ok), s, Told(x, ok))
  <1> DEFINE x == Server(k, s, TenantOf[r], ok)
             y == Read(x, ok)
             said == Told(x, ok)
  <1> SUFFICES LeftRight(r, y, s, said)
    OBVIOUS
  <1>1. TenantOf[r] \in Tenants
    BY DEF Tenants
  <1>2. /\ x \in Sessions /\ ~x.bad /\ x.unread = k.unread
        /\ s \in {"COMMIT", "ROLLBACK"} => x.srv = "I" /\ x.tenant = None
        /\ s \in {"BEGIN", "QUERY"} => x.tenant = k.tenant
        /\ s \in {"BEGIN", "QUERY"} /\ ~ok /\ k.srv = "I" => x.srv = "I"
        /\ s = "BEGIN" /\ ok => x.srv = "T"
        /\ s = "SET" /\ ok => x.srv = k.srv /\ x.tenant = TenantOf[r]
        /\ s \in {"WORK", "QUERY"} /\ ok => x = k
    BY <1>1, ServerFacts
  <1> HIDE DEF x
  <1>3. /\ y \in Sessions /\ ~y.bad /\ y.srv = x.srv /\ y.tenant = x.tenant
        /\ x.unread = << >> => y.tx = x.srv /\ y.unread = << >> /\ said = ok
        /\ Len(x.unread) = 1 => y.tx = x.unread[1].status
        /\ said \in BOOLEAN
    BY <1>2, ReadFacts
  <1> HIDE DEF y, said
  <1>4. CASE s \in {"BEGIN", "QUERY"}
    <2>1. k.srv = "I" /\ k.tenant = None /\ x.unread = << >>
      BY <1>2, <1>4 DEF Session, Clean
    <2>2. y.tx = y.srv /\ y.unread = << >> /\ said = ok /\ y.tenant = None
      BY <2>1, <1>2, <1>3, <1>4
    <2>3. CASE Over(s, said)
      <3>1. s = "QUERY" \/ ~ok
        BY <2>2, <2>3, <1>4 DEF Over
      <3>2. y.srv = "I"
        BY <3>1, <2>1, <1>2, <1>3, <1>4
      <3> QED BY <3>2, <2>2, <2>3, <1>3, PutRight DEF LeftRight
    <2>4. CASE ~Over(s, said)
      <3>1. s = "BEGIN" /\ ok
        BY <2>2, <2>4, <1>4 DEF Over
      <3>2. Following(s, said) = "SET"
        BY <3>1, <2>2 DEF Following
      <3>3. Opened(y)
        BY <3>1, <2>2, <1>2, <1>3 DEF Opened
      <3> QED BY <3>2, <3>3, <2>4 DEF LeftRight, Session
    <2> QED BY <2>3, <2>4
  <1>5. CASE s \in {"SET", "WORK"}
    <2>1. k.srv = "T" /\ x.unread = << >> /\ (s = "WORK" => k.tenant = TenantOf[r])
      BY <1>2, <1>5 DEF Session, Opened
    <2>2. y.unread = << >> /\ said = ok /\ ~Over(s, said)
      BY <2>1, <1>3, <1>5 DEF Over
    <2>3. CASE ok
      <3>1. Opened(y) /\ y.tenant = TenantOf[r]
        BY <2>1, <2>2, <2>3, <1>2, <1>3, <1>5 DEF Opened
      <3>2. Following(s, said) \in {"WORK", "COMMIT"}
        BY <2>2, <2>3, <1>5 DEF Following
      <3> QED BY <3>1, <3>2, <2>2 DEF LeftRight, Session
    <2>4. CASE ~ok
      <3>1. Following(s, said) = "ROLLBACK"
        BY <2>2, <2>4 DEF Following
      <3> QED BY <3>1, <2>2 DEF LeftRight, Session
    <2> QED BY <2>3, <2>4
  <1>6. CASE s \in {"COMMIT", "ROLLBACK"}
    <2>1. Over(s, said)
      BY <1>6 DEF Over
    <2>2. y.srv = "I" /\ y.tenant = None
      BY <1>2, <1>3, <1>6
    <2>3. x.unread = << >> \/ (Len(x.unread) = 1 /\ x.unread[1].status = "T")
      BY <1>2, <1>6 DEF Session, Opened
    <2>4. y.tx = "I" => y.unread = << >>
      BY <2>3, <1>3
    <2> QED BY <2>1, <2>2, <2>4, <1>3, PutRight DEF LeftRight
  <1> QED BY <1>4, <1>5, <1>6 DEF Statements

\* The connection of the statement that runs.
LEMMA RunsOn ==
    ASSUME SInv, NEW r \in Requests, At(r) \in Statements
    PROVE  /\ stack[r] # << >> /\ Top(r).at = At(r) /\ Top(r) \in Frames
           /\ Top(r).conn \in Conns /\ Top(r).conn # None
           /\ conn[Top(r).conn] \in Sessions /\ conn[Top(r).conn].state = "used"
           /\ Right => Session(r, At(r), conn[Top(r).conn])
  <1>1. stack[r] # << >> /\ Top(r).at = At(r)
    BY AtFacts
  <1>2. Top(r).at # "acquire"
    BY <1>1 DEF Statements
  <1>3. /\ Len(stack[r]) \in 1 .. 2 /\ stack[r] \in Seq(Frames) /\ Top(r) = stack[r][Len(stack[r])]
        /\ Top(r) \in Frames /\ Top(r).conn \in Conns /\ Top(r).conn # None /\ conn[Top(r).conn].state = "used"
    BY <1>1, <1>2, TopFacts
  <1>4. Len(stack[r]) \in DOMAIN stack[r]
    <2>1. \A q \in Seq(Frames) : Len(q) \in 1 .. 2 => Len(q) \in DOMAIN q
      OBVIOUS
    <2> QED BY <2>1, <1>3
  <1>5. Right => Session(r, At(r), conn[Top(r).conn])
    BY <1>1, <1>3, <1>4 DEF Right
  <1> QED BY <1>1, <1>3, <1>5 DEF SInv, TypeOK

\* What every step keeps.
Kept == TypeOK' /\ Slots' /\ (PoolReadsDecode /\ Right => Right')

LEMMA AnsweredKeeps ==
    ASSUME SInv, NEW r \in Requests, At(r) \in Statements, Answered(r, At(r))
    PROVE  Kept
  <1> DEFINE s == At(r)
             c == Top(r).conn
  <1>1. PICK ok \in BOOLEAN :
           LET k == Server(conn[c], s, TenantOf[r], ok)
           IN /\ Leaves(r, Read(k, ok), s, Told(k, ok), FALSE)
              /\ committed' = committed \cup
                    IF s = "COMMIT" /\ ok /\ conn[c].srv = "T" /\ Len(stack[r]) = 1 THEN {r} ELSE {}
    BY DEF Answered
  <1> DEFINE k == Server(conn[c], s, TenantOf[r], ok)
  <1>2. conn[c] \in Sessions /\ conn[c].state = "used" /\ (Right => Session(r, s, conn[c]))
    BY RunsOn
  <1>3. ~conn[c].bad /\ UNCHANGED late
    BY DEF Answered, May
  <1>4. k \in Sessions /\ k.state = "used"
    BY <1>2, ServerFacts DEF Tenants
  <1>5. Read(k, ok) \in Sessions /\ Read(k, ok).state = "used" /\ Told(k, ok) \in BOOLEAN
    BY <1>4, ReadFacts
  <1>6. Right => LeftRight(r, Read(k, ok), s, Told(k, ok))
    BY <1>2, <1>3, AnswerRight
  <1>7. Leaves(r, Read(k, ok), s, Told(k, ok), FALSE)
    BY <1>1
  <1>8. committed' \subseteq Requests
    BY <1>1 DEF SInv, TypeOK
  <1>9. late' \subseteq Conns
    BY <1>3 DEF SInv, TypeOK
  <1> HIDE DEF k
  <1> QED BY <1>5, <1>6, <1>7, <1>8, <1>9, LeavesStep DEF Kept, TypeOK

\* A connection that broke.
Broken == [Closed EXCEPT !.state = "used", !.bad = TRUE]

LEMMA BrokenFacts ==
    ASSUME NEW r \in Requests, NEW s \in Statements
    PROVE  Broken \in Sessions /\ Broken.state = "used" /\ LeftRight(r, Broken, s, FALSE)
  <1>1. Broken \in Sessions /\ Broken.state = "used" /\ Broken.bad
    BY ClosedType DEF Broken, Sessions
  <1>2. RestOK(Put(Broken))
    BY <1>1, PutRight
  <1>3. Following(s, FALSE) = "ROLLBACK"
    BY DEF Following
  <1>4. Session(r, "ROLLBACK", Broken)
    BY <1>1 DEF Session
  <1> QED BY <1>1, <1>2, <1>3, <1>4 DEF LeftRight

LEMMA LostKeeps ==
    ASSUME SInv, NEW r \in Requests, At(r) \in Statements, Lost(r, At(r))
    PROVE  Kept
  <1>1. Leaves(r, Broken, At(r), FALSE, FALSE)
    BY DEF Lost, Broken
  <1>2. committed' \subseteq Requests /\ late' \subseteq Conns
    BY DEF Lost, SInv, TypeOK
  <1>3. Broken \in Sessions /\ Broken.state = "used" /\ LeftRight(r, Broken, At(r), FALSE)
    BY BrokenFacts
  <1> QED BY <1>1, <1>2, <1>3, LeavesStep DEF Kept, TypeOK

LEMMA RetriedKeeps ==
    ASSUME SInv, NEW r \in Requests, At(r) \in Statements, Retried(r, At(r))
    PROVE  Kept
  <1> DEFINE c == Top(r).conn
             g == Again(Top(r))
  <1>1. /\ stack[r] # << >> /\ Top(r) \in Frames /\ c \in Conns /\ c # None
        /\ conn \in [Conns -> Sessions]
    BY RunsOn DEF SInv, TypeOK
  <1>2. conn' = [conn EXCEPT ![c] = Closed] /\ late' = late \ {c} /\ Goto(r, g)
        /\ UNCHANGED <<expired, committed, told>>
    BY DEF Retried
  <1>3. g \in Frames /\ g.conn = None /\ g.at = "acquire"
    BY <1>1 DEF Again, Frames, Ready
  <1>4. conn' \in [Conns -> Sessions] /\ conn'[c] = Closed /\ \A d \in Conns \ {c} : conn'[d] = conn[d]
    BY <1>1, <1>2, ClosedType
  <1> HIDE DEF g
  <1>5. /\ stack' \in [Requests -> Seq(Frames)] /\ Slots'
        /\ (/\ Right /\ (g.conn # None => Session(r, g.at, conn'[g.conn]))
            /\ c # None => RestOK(conn'[c]))
           => Right'
    BY <1>1, <1>2, <1>3, <1>4, ClosedType, TopStep
  <1> QED BY <1>2, <1>3, <1>4, <1>5, ClosedType DEF Kept, SInv, TypeOK

LEMMA MisdecodedKeeps ==
    ASSUME SInv, NEW r \in Requests, At(r) \in Statements, Misdecoded(r, At(r))
    PROVE  Kept
  <1> DEFINE s == At(r)
             c == Top(r).conn
             a == [ok |-> TRUE, status |-> conn[c].srv]
             k == [conn[c] EXCEPT !.unread = Append(@, a)]
  <1>1. conn[c] \in Sessions /\ conn[c].state = "used" /\ (Right => Session(r, s, conn[c]))
    BY RunsOn
  <1>2. /\ s \in {"WORK", "QUERY"} /\ r \in Misdecodes /\ Leaves(r, k, s, FALSE, FALSE)
        /\ UNCHANGED <<late, committed>>
    BY DEF Misdecoded
  <1>3. a \in Replies /\ a.status = conn[c].srv /\ conn[c].unread \in Seq(Replies)
    BY <1>1 DEF Replies, Sessions
  <1> HIDE DEF a
  <1>4. Append(conn[c].unread, a) \in Seq(Replies)
        /\ (conn[c].unread = << >> => Len(Append(conn[c].unread, a)) = 1 /\ Append(conn[c].unread, a)[1] = a)
    BY <1>3
  <1>5. k \in Sessions /\ k.state = "used" /\ k.unread = Append(conn[c].unread, a)
    BY <1>1, <1>4 DEF Sessions
  <1> HIDE DEF k
  <1>6. ASSUME PoolReadsDecode, Right PROVE LeftRight(r, k, s, FALSE)
    <2>1. s = "WORK"
      BY <1>1, <1>2, <1>6 DEF PoolReadsDecode, Session
    <2>2. conn[c].unread = << >> /\ conn[c].srv = "T"
      BY <2>1, <1>1, <1>6 DEF Session, Opened
    <2>3. Session(r, "ROLLBACK", k)
      BY <2>2, <1>3, <1>4, <1>5 DEF Session
    <2>4. Following(s, FALSE) = "ROLLBACK" /\ ~Over(s, FALSE)
      BY <2>1 DEF Following, Over
    <2> QED BY <2>3, <2>4 DEF LeftRight
  <1> QED BY <1>2, <1>5, <1>6, LeavesStep DEF Kept, SInv, TypeOK

LEMMA CancelledKeeps ==
    ASSUME SInv, NEW r \in Requests, At(r) \in Statements, Cancelled(r, At(r))
    PROVE  Kept
  <1> DEFINE s == At(r)
             c == Top(r).conn
             k == Server(conn[c], s, TenantOf[r], FALSE)
  <1>1. conn[c] \in Sessions /\ conn[c].state = "used" /\ (Right => Session(r, s, conn[c]))
    BY RunsOn
  <1>2. ~conn[c].bad /\ late' = late \ {c} /\ UNCHANGED committed
        /\ (Leaves(r, Read(k, FALSE), s, Told(k, FALSE), TRUE) \/ Leaves(r, Broken, s, FALSE, TRUE))
    BY DEF Cancelled, Broken
  <1>3. k \in Sessions /\ k.state = "used"
    <2>1. TenantOf[r] \in Tenants /\ s \in Statements
      BY DEF Tenants
    <2>2. \A ok \in BOOLEAN : LET x == Server(conn[c], s, TenantOf[r], ok)
                              IN x \in Sessions /\ x.state = "used"
      BY <2>1, <1>1, ServerFacts
    <2> QED BY <2>2
  <1>4. Read(k, FALSE) \in Sessions /\ Read(k, FALSE).state = "used" /\ Told(k, FALSE) \in BOOLEAN
    BY <1>3, ReadFacts
  <1>5. Right => LeftRight(r, Read(k, FALSE), s, Told(k, FALSE))
    BY <1>1, <1>2, AnswerRight
  <1>6. late' \subseteq Conns /\ committed' \subseteq Requests
    BY <1>2 DEF SInv, TypeOK
  <1> HIDE DEF k
  <1>7. CASE Leaves(r, Read(k, FALSE), s, Told(k, FALSE), TRUE)
    BY <1>4, <1>5, <1>6, <1>7, LeavesStep DEF Kept, TypeOK
  <1>8. CASE Leaves(r, Broken, s, FALSE, TRUE)
    BY <1>6, <1>8, BrokenFacts, LeavesStep DEF Kept, TypeOK
  <1> QED BY <1>2, <1>7, <1>8

\* The frame on top goes on to another place with the connection it has, which stays as it is.
LEMMA ProceedsStep ==
    ASSUME SInv, NEW r \in Requests, stack[r] # << >>, Top(r).conn # None,
           NEW at \in (Ready \cup Statements) \ {"acquire"},
           Goto(r, [Top(r) EXCEPT !.at = at]), UNCHANGED conn
    PROVE  /\ stack' \in [Requests -> Seq(Frames)] /\ Slots'
           /\ Right /\ Session(r, at, conn[Top(r).conn]) => Right'
  <1> DEFINE c == Top(r).conn
             g == [Top(r) EXCEPT !.at = at]
  <1>1. c \in Conns /\ conn[c].state = "used" /\ Top(r) \in Frames /\ conn \in [Conns -> Sessions]
    BY TopFacts DEF SInv, TypeOK
  <1>2. g \in Frames /\ g.at = at /\ g.conn = c
    BY <1>1 DEF Frames
  <1>3. g.at # "acquire" /\ g.conn # None /\ Goto(r, g)
    BY <1>2
  <1> HIDE DEF g
  <1>4. RestOK(conn'[c])
    BY <1>1 DEF RestOK
  <1>5. /\ stack' \in [Requests -> Seq(Frames)] /\ Slots'
        /\ (/\ Right /\ (g.conn # None => Session(r, g.at, conn'[g.conn]))
            /\ c # None => RestOK(conn'[c]))
           => Right'
    BY <1>1, <1>2, <1>3, TopStep
  <1> QED BY <1>2, <1>4, <1>5

LEMMA NotSentKeeps ==
    ASSUME SInv, NEW r \in Requests, At(r) \in Statements, NotSent(r, At(r))
    PROVE  Kept
  <1> DEFINE s == At(r)
             c == Top(r).conn
             k == conn[c]
  <1>1. /\ stack[r] # << >> /\ Top(r) \in Frames /\ Top(r).cut \in BOOLEAN /\ c # None
        /\ k \in Sessions /\ k.state = "used" /\ (Right => Session(r, s, k))
    BY RunsOn DEF Frames
  <1>2. late' \subseteq Conns /\ committed' \subseteq Requests
    BY DEF NotSent, SInv, TypeOK
  <1>3. CASE s \in WithContext /\ Leaves(r, k, s, FALSE, Top(r).cut)
    <2>1. Right => LeftRight(r, k, s, FALSE)
      <3> HAVE Right
      <3>1. CASE s \in {"BEGIN", "QUERY"}
        <4>1. Clean(k)
          BY <3>1, <1>1 DEF Session
        <4>2. RestOK(Put(k))
          BY <4>1, <1>1, PutRight DEF Clean
        <4>3. Over(s, FALSE)
          BY <3>1 DEF Over
        <4> QED BY <4>2, <4>3 DEF LeftRight
      <3>2. CASE s \in {"SET", "WORK"}
        <4>1. Session(r, "ROLLBACK", k)
          BY <3>2, <1>1 DEF Session, Opened
        <4>2. Following(s, FALSE) = "ROLLBACK" /\ ~Over(s, FALSE)
          BY <3>2 DEF Following, Over
        <4> QED BY <4>1, <4>2 DEF LeftRight
      <3> QED BY <3>1, <3>2, <1>3 DEF WithContext, Statements
    <2> QED BY <2>1, <1>1, <1>2, <1>3, LeavesStep DEF Kept, TypeOK
  <1>4. CASE s = "COMMIT" /\ Goto(r, [Top(r) EXCEPT !.at = "ROLLBACK"]) /\ UNCHANGED <<conn, told, expired>>
    <2>1. Right => Session(r, "ROLLBACK", k)
      BY <1>1, <1>4 DEF Session, Opened
    <2>2. "ROLLBACK" \in (Ready \cup Statements) \ {"acquire"}
      BY DEF Statements
    <2>3. stack' \in [Requests -> Seq(Frames)] /\ Slots' /\ (Right /\ Session(r, "ROLLBACK", k) => Right')
      BY <1>1, <1>4, <2>2, ProceedsStep
    <2> QED BY <2>1, <2>3, <1>2, <1>4 DEF Kept, SInv, TypeOK
  <1>5. CASE s = "ROLLBACK" /\ k.bad /\ Leaves(r, k, s, FALSE, Top(r).cut)
    <2>1. RestOK(Put(k)) /\ Over(s, FALSE)
      BY <1>1, <1>5, PutRight DEF Over
    <2>2. LeftRight(r, k, s, FALSE)
      BY <2>1 DEF LeftRight
    <2> QED BY <2>2, <1>1, <1>2, <1>5, LeavesStep DEF Kept, TypeOK
  <1> QED BY <1>3, <1>4, <1>5 DEF NotSent

----------------------------------------------------------------------------
(* Getting a connection. *)

\* The frame on top, which waits, takes a connection that nobody has.
LEMMA TakeStep ==
    ASSUME SInv, NEW r \in Requests, At(r) = "acquire", NEW c \in Conns, conn[c].state # "used",
           NEW at \in (Ready \cup Statements) \ {"acquire"},
           Goto(r, [Top(r) EXCEPT !.conn = c, !.at = at]), conn' = [conn EXCEPT ![c].state = "used"]
    PROVE  /\ conn' \in [Conns -> Sessions] /\ stack' \in [Requests -> Seq(Frames)] /\ Slots'
           /\ Right /\ Session(r, at, [conn[c] EXCEPT !.state = "used"]) => Right'
  <1> DEFINE g == [Top(r) EXCEPT !.conn = c, !.at = at]
             k == [conn[c] EXCEPT !.state = "used"]
  <1>1. stack[r] # << >> /\ Top(r).at = "acquire"
    BY AtFacts DEF Ready
  <1>2. Top(r) \in Frames /\ Top(r).conn = None /\ None \notin Conns
    BY <1>1, TopFacts, NoneAssumption
  <1>3. g \in Frames /\ g.at = at /\ g.conn = c
    BY <1>2 DEF Frames
  <1>4. k \in Sessions /\ k.state = "used" /\ conn \in [Conns -> Sessions]
    BY DEF SInv, TypeOK, Sessions
  <1>5. conn' = [conn EXCEPT ![c] = k]
    OBVIOUS
  <1> HIDE DEF g, k
  <1>6. conn' \in [Conns -> Sessions] /\ conn'[c] = k /\ \A d \in Conns \ {c} : conn'[d] = conn[d]
    BY <1>4, <1>5
  <1>7. Goto(r, g)
    BY DEF g
  <1>8. /\ stack' \in [Requests -> Seq(Frames)] /\ Slots'
        /\ (/\ Right /\ (g.conn # None => Session(r, g.at, conn'[g.conn]))
            /\ Top(r).conn # None => RestOK(conn'[Top(r).conn]))
           => Right'
    BY <1>1, <1>2, <1>3, <1>4, <1>6, <1>7, TopStep
  <1> QED BY <1>2, <1>3, <1>6, <1>8 DEF k

LEMMA FirstType == \A r \in Requests : First(r) \in {"BEGIN", "QUERY"} /\ (First(r) = "QUERY" => r \in PoolReads)
  BY DEF First

LEMMA TakeKeeps ==
    ASSUME SInv, NEW r \in Requests, NEW c \in Conns, Take(r, c)
    PROVE  Kept
  <1> DEFINE k == conn[c]
             u == [k EXCEPT !.state = "used"]
  <1>1. k \in Sessions /\ k.state = "idle" /\ At(r) = "acquire" /\ UNCHANGED <<expired, committed, told>>
    BY DEF Take, SInv, TypeOK
  <1>2. CASE ResetSession(k)
    <2>1. /\ conn' = [conn EXCEPT ![c].state = "used"] /\ UNCHANGED late
          /\ Goto(r, [Top(r) EXCEPT !.conn = c, !.at = First(r)])
      BY <1>2 DEF Take
    <2>2. First(r) \in (Ready \cup Statements) \ {"acquire"}
      BY FirstType DEF Statements
    <2>3. /\ conn' \in [Conns -> Sessions] /\ stack' \in [Requests -> Seq(Frames)] /\ Slots'
          /\ Right /\ Session(r, First(r), u) => Right'
      BY <2>1, <2>2, <1>1, TakeStep
    <2>4. Right => Session(r, First(r), u)
      <3> HAVE Right
      <3>1. RestOK(k)
        BY DEF Right
      <3>2. u.bad = k.bad /\ u.srv = k.srv /\ u.tenant = k.tenant /\ u.unread = k.unread
        BY <1>1 DEF Sessions
      <3>3. Clean(u)
        BY <3>1, <3>2, <1>1, <1>2 DEF RestOK, ResetSession, Clean
      <3> QED BY <3>3, FirstType DEF Session
    <2> QED BY <2>1, <2>3, <2>4, <1>1 DEF Kept, SInv, TypeOK
  <1>3. CASE ~ResetSession(k)
    <2>1. conn' = [conn EXCEPT ![c] = Closed] /\ late' = late \ {c} /\ UNCHANGED stack
      BY <1>3 DEF Take
    <2>2. conn' \in [Conns -> Sessions]
          /\ \A d \in Conns : conn'[d] = conn[d] \/ (conn[d].state # "used" /\ conn'[d] = Closed)
      BY <2>1, <1>1, ClosedType DEF SInv, TypeOK
    <2>3. Slots' /\ (Right => Right')
      BY <2>1, <2>2, IdleStep
    <2> QED BY <2>1, <2>2, <2>3, <1>1 DEF Kept, SInv, TypeOK
  <1> QED BY <1>2, <1>3

\* A frame that has no connection ends.
LEMMA GivesUp ==
    ASSUME SInv, NEW r \in Requests, At(r) = "acquire", Ends(r, FALSE), UNCHANGED <<conn, late, committed>>
    PROVE  Kept
  <1>1. stack[r] # << >> /\ Top(r).at = "acquire"
    BY AtFacts DEF Ready
  <1>2. Top(r).conn = None
    BY <1>1, TopFacts
  <1>3. conn' \in [Conns -> Sessions] /\ \A d \in Conns \ {Top(r).conn} : conn'[d] = conn[d]
    BY DEF SInv, TypeOK
  <1>4. /\ stack' \in [Requests -> Seq(Frames)] /\ Slots'
        /\ Right /\ (Top(r).conn # None => RestOK(conn'[Top(r).conn])) => Right'
    BY <1>1, <1>2, <1>3, PopStep
  <1>5. told' \subseteq Requests /\ expired' \subseteq Requests
    BY EndsSets DEF SInv
  <1> QED BY <1>2, <1>3, <1>4, <1>5 DEF Kept, SInv, TypeOK

LEMMA ConnectKeeps ==
    ASSUME SInv, NEW r \in Requests, NEW c \in Conns, Connect(r, c)
    PROVE  Kept
  <1> DEFINE k == conn[c]
             u == [k EXCEPT !.state = "used"]
             at == IF SSL THEN "tls" ELSE "startup"
  <1>1. k \in Sessions /\ k.state = "closed" /\ At(r) = "acquire" /\ UNCHANGED <<late, committed>>
    BY DEF Connect, SInv, TypeOK
  <1>2. CASE Ends(r, FALSE) /\ UNCHANGED conn
    BY <1>1, <1>2, GivesUp
  <1>3. CASE /\ Goto(r, [Top(r) EXCEPT !.conn = c, !.at = at])
             /\ conn' = [conn EXCEPT ![c].state = "used"] /\ UNCHANGED <<told, expired>>
    <2>1. at \in {"tls", "startup"} /\ at \in (Ready \cup Statements) \ {"acquire"}
      BY DEF Ready
    <2> HIDE DEF at
    <2>2. /\ conn' \in [Conns -> Sessions] /\ stack' \in [Requests -> Seq(Frames)] /\ Slots'
          /\ Right /\ Session(r, at, u) => Right'
      BY <2>1, <1>1, <1>3, TakeStep
    <2>3. Right => Session(r, at, u)
      <3> HAVE Right
      <3>1. k = Closed
        BY <1>1 DEF Right, RestOK
      <3>2. Clean(u)
        BY <3>1 DEF Clean, Closed
      <3> QED BY <3>2, <2>1 DEF Session
    <2> QED BY <2>2, <2>3, <1>1, <1>3 DEF Kept, SInv, TypeOK
  <1> QED BY <1>2, <1>3 DEF Connect

Handshake == {"tls", "startup", "scram"}

\* The handshake goes on to another of its phases or to the first statement, or is refused.
LEMMA HandshakeKeeps ==
    ASSUME SInv, NEW r \in Requests, At(r) \in Handshake, UNCHANGED <<late, committed>>,
           NEW at \in Handshake \cup {First(r)}, Proceeds(r, at) \/ Refused(r)
    PROVE  Kept
  <1> DEFINE c == Top(r).conn
             k == conn[c]
  <1>1. stack[r] # << >> /\ Top(r).at = At(r)
    BY AtFacts DEF Ready, Handshake
  <1>2. /\ c # None /\ c \in Conns /\ Len(stack[r]) \in 1 .. 2 /\ stack[r] \in Seq(Frames)
        /\ Top(r) = stack[r][Len(stack[r])] /\ conn \in [Conns -> Sessions]
    BY <1>1, TopFacts DEF Handshake, SInv, TypeOK
  <1>3. CASE Refused(r)
    <2>1. conn' = [conn EXCEPT ![c] = Closed] /\ Ends(r, FALSE)
      BY <1>3 DEF Refused
    <2>2. conn' \in [Conns -> Sessions] /\ conn'[c] = Closed /\ \A d \in Conns \ {c} : conn'[d] = conn[d]
      BY <2>1, <1>2, ClosedType
    <2>3. /\ stack' \in [Requests -> Seq(Frames)] /\ Slots'
          /\ Right /\ (c # None => RestOK(conn'[c])) => Right'
      BY <2>1, <2>2, <1>1, ClosedType, PopStep
    <2>4. told' \subseteq Requests /\ expired' \subseteq Requests
      BY <2>1, EndsSets DEF SInv
    <2> QED BY <2>2, <2>3, <2>4, ClosedType DEF Kept, SInv, TypeOK
  <1>4. CASE Proceeds(r, at)
    <2>1. Goto(r, [Top(r) EXCEPT !.at = at]) /\ UNCHANGED <<conn, told, expired>>
      BY <1>4 DEF Proceeds
    <2>2. at \in (Ready \cup Statements) \ {"acquire"}
      BY FirstType DEF Handshake, Ready, Statements
    <2>3. stack' \in [Requests -> Seq(Frames)] /\ Slots' /\ (Right /\ Session(r, at, k) => Right')
      BY <2>1, <2>2, <1>1, <1>2, ProceedsStep
    <2>4. Right => Session(r, at, k)
      <3> HAVE Right
      <3>1. Len(stack[r]) \in DOMAIN stack[r]
        <4>1. \A q \in Seq(Frames) : Len(q) \in 1 .. 2 => Len(q) \in DOMAIN q
          OBVIOUS
        <4> QED BY <4>1, <1>2
      <3>2. Session(r, At(r), k)
        BY <3>1, <1>1, <1>2 DEF Right
      <3>3. Clean(k)
        BY <3>2 DEF Session, Handshake
      <3> QED BY <3>3, FirstType DEF Session, Handshake
    <2> QED BY <2>1, <2>3, <2>4 DEF Kept, SInv, TypeOK
  <1> QED BY <1>3, <1>4

LEMMA ArriveKeeps ==
    ASSUME SInv, NEW r \in Requests, Arrive(r)
    PROVE  Kept
  <1> DEFINE g == [at |-> "acquire", conn |-> None, cut |-> FALSE]
             st == <<g>>
  <1>1. stack[r] = << >> /\ stack' = [stack EXCEPT ![r] = st] /\ UNCHANGED <<conn, expired, late>>
        /\ committed' = committed \ {r} /\ told' = told \ {r}
    BY DEF Arrive
  <1>2. g \in Frames /\ g.at = "acquire" /\ g.conn = None
    BY DEF Frames, Ready
  <1> HIDE DEF g
  <1>3. st \in Seq(Frames) /\ Len(st) = 1 /\ \A i \in DOMAIN st : st[i] = g
    BY <1>2
  <1> HIDE DEF st
  <1>4. Shape(st)
    BY <1>2, <1>3 DEF Shape
  <1>5. HeldBy(st) = {} /\ HeldBy(stack[r]) = {}
    BY <1>1, <1>2, <1>3 DEF HeldBy
  <1>6. conn' \in [Conns -> Sessions] /\ \A c \in Conns : conn'[c] = conn[c]
    BY <1>1 DEF SInv, TypeOK
  <1>7. /\ stack' \in [Requests -> Seq(Frames)] /\ Slots'
        /\ (/\ Right /\ \A c \in Conns : RestOK(conn'[c])
            /\ \A i \in DOMAIN st : st[i].conn # None => Session(r, st[i].at, conn'[st[i].conn]))
           => Right'
    BY <1>1, <1>3, <1>4, <1>5, <1>6, RequestStep
  <1>8. Right => \A c \in Conns : RestOK(conn'[c])
    BY <1>6 DEF Right
  <1>9. \A i \in DOMAIN st : st[i].conn = None
    BY <1>2, <1>3
  <1> QED BY <1>1, <1>6, <1>7, <1>8, <1>9 DEF Kept, SInv, TypeOK

\* Steps in which no frame moves.
LEMMA StillKeeps ==
    ASSUME SInv, UNCHANGED <<stack, committed, told>>, expired' \subseteq Requests, late' \subseteq Conns,
           \/ UNCHANGED conn
           \/ \E c \in Conns : conn[c].state = "idle" /\ conn' = [conn EXCEPT ![c] = Closed]
    PROVE  Kept
  <1>1. conn' \in [Conns -> Sessions]
        /\ \A d \in Conns : conn'[d] = conn[d] \/ (conn[d].state # "used" /\ conn'[d] = Closed)
    BY ClosedType DEF SInv, TypeOK
  <1>2. Slots' /\ (Right => Right')
    BY <1>1, IdleStep
  <1> QED BY <1>1, <1>2 DEF Kept, SInv, TypeOK

LEMMA TimeoutKeeps ==
    ASSUME SInv, NEW r \in Requests, Timeout(r)
    PROVE  Kept
  <1>1. UNCHANGED <<conn, stack, committed, told>> /\ expired' \subseteq Requests
    BY DEF Timeout, SInv, TypeOK
  <1>2. At(r) \in Statements => Top(r).conn \in Conns
    BY RunsOn
  <1>3. late' \subseteq Conns
    BY <1>2 DEF Timeout, SInv, TypeOK
  <1> QED BY <1>1, <1>3, StillKeeps

LEMMA StatementKeeps ==
    ASSUME SInv, NEW r \in Requests, Statement(r)
    PROVE  Kept
  <1>1. At(r) \in Statements
    BY DEF Statement
  <1> QED BY <1>1, AnsweredKeeps, LostKeeps, RetriedKeeps, MisdecodedKeeps, CancelledKeeps, NotSentKeeps DEF Statement

LEMMA NextKeeps ==
    ASSUME SInv, Next
    PROVE  Kept
  <1>1. ASSUME NEW r \in Requests, WaitFails(r) PROVE Kept
    BY <1>1, GivesUp DEF WaitFails
  <1>2. ASSUME NEW r \in Requests, startTLS(r) PROVE Kept
    <2>1. At(r) \in Handshake /\ "startup" \in Handshake \cup {First(r)}
      BY <1>2 DEF startTLS, Handshake
    <2> QED BY <1>2, <2>1, HandshakeKeeps DEF startTLS
  <1>3. ASSUME NEW r \in Requests, startup(r) PROVE Kept
    <2>1. At(r) \in Handshake /\ "scram" \in Handshake \cup {First(r)} /\ First(r) \in Handshake \cup {First(r)}
      BY <1>3 DEF startup, Handshake
    <2> QED BY <1>3, <2>1, HandshakeKeeps DEF startup
  <1>4. ASSUME NEW r \in Requests, authSCRAM(r) PROVE Kept
    <2>1. At(r) \in Handshake /\ First(r) \in Handshake \cup {First(r)}
      BY <1>4 DEF authSCRAM, Handshake
    <2> QED BY <1>4, <2>1, HandshakeKeeps DEF authSCRAM
  <1>5. ASSUME NEW r \in Requests, DeadlineFails(r) PROVE Kept
    <2>1. At(r) \in Handshake /\ First(r) \in Handshake \cup {First(r)}
      BY <1>5 DEF DeadlineFails, Handshake
    <2> QED BY <1>5, <2>1, HandshakeKeeps DEF DeadlineFails
  <1>6. ASSUME NEW c \in Conns, CancelFades(c) PROVE Kept
    BY <1>6, StillKeeps DEF CancelFades, SInv, TypeOK
  <1>7. ASSUME NEW c \in Conns, CloseIdle(c) PROVE Kept
    BY <1>7, StillKeeps DEF CloseIdle, SInv, TypeOK
  <1> QED BY <1>1, <1>2, <1>3, <1>4, <1>5, <1>6, <1>7, ArriveKeeps, TimeoutKeeps, StatementKeeps, TakeKeeps,
             ConnectKeeps DEF Next

----------------------------------------------------------------------------
(* What callers are told. *)

\* An answer is read where no other is left, so that it is the one of the statement.
LEMMA SaidIsSo ==
    ASSUME SInv, Right, NEW r \in Requests, At(r) \in {"COMMIT", "QUERY"}, NEW ok \in BOOLEAN
    PROVE  /\ Told(Server(conn[Top(r).conn], At(r), TenantOf[r], ok), ok) = ok
           /\ At(r) = "COMMIT" => conn[Top(r).conn].srv = "T"
           /\ At(r) = "QUERY" => r \in PoolReads
  <1> DEFINE k == conn[Top(r).conn]
             x == Server(k, At(r), TenantOf[r], ok)
  <1>1. At(r) \in Statements
    BY DEF Statements
  <1>2. k \in Sessions /\ Session(r, At(r), k)
    BY <1>1, RunsOn
  <1>3. k.unread = << >> /\ (At(r) = "COMMIT" => k.srv = "T") /\ (At(r) = "QUERY" => r \in PoolReads)
    BY <1>2 DEF Session, Clean, Opened
  <1>4. TenantOf[r] \in Tenants
    BY DEF Tenants
  <1>5. x \in Sessions /\ x.unread = << >>
    BY <1>1, <1>2, <1>3, <1>4, ServerFacts
  <1> HIDE DEF x
  <1>6. Told(x, ok) = ok
    BY <1>5, ReadFacts
  <1> QED BY <1>3, <1>6 DEF x

\* A statement that failed tells nobody of success.
LEMMA FailureIsTold ==
    ASSUME SInv, NEW r \in Requests, At(r) \in Statements, NEW k \in Sessions, k.state = "used",
           NEW cut \in BOOLEAN, Leaves(r, k, At(r), FALSE, cut)
    PROVE  told' = told
  <1>1. ~Succeeded(At(r), FALSE)
    BY DEF Succeeded
  <1> QED BY <1>1, LeavesStep

LEMMA EndsFailed ==
    ASSUME TypeOK, NEW r \in Requests, Ends(r, FALSE)
    PROVE  told' = told
  BY EndsSets

LEMMA AnsweredTold ==
    ASSUME SInv, Right, ToldCommitted, NEW r \in Requests, At(r) \in Statements, Answered(r, At(r))
    PROVE  ToldCommitted'
  <1> DEFINE s == At(r)
             c == Top(r).conn
  <1>1. PICK ok \in BOOLEAN :
           LET k == Server(conn[c], s, TenantOf[r], ok)
           IN /\ Leaves(r, Read(k, ok), s, Told(k, ok), FALSE)
              /\ committed' = committed \cup
                    IF s = "COMMIT" /\ ok /\ conn[c].srv = "T" /\ Len(stack[r]) = 1 THEN {r} ELSE {}
    BY DEF Answered
  <1> DEFINE k == Server(conn[c], s, TenantOf[r], ok)
  <1>2. conn[c] \in Sessions /\ conn[c].state = "used" /\ TenantOf[r] \in Tenants
    BY RunsOn DEF Tenants
  <1>3. k \in Sessions /\ k.state = "used"
    BY <1>2, ServerFacts
  <1>4. Read(k, ok) \in Sessions /\ Read(k, ok).state = "used" /\ Told(k, ok) \in BOOLEAN
    BY <1>3, ReadFacts
  <1>5. Leaves(r, Read(k, ok), s, Told(k, ok), FALSE)
    BY <1>1
  <1>6. s \in {"COMMIT", "QUERY"} => /\ Told(k, ok) = ok /\ (s = "COMMIT" => conn[c].srv = "T")
                                     /\ (s = "QUERY" => r \in PoolReads)
    BY SaidIsSo
  <1> HIDE DEF k
  <1>7. told' = told \/ (Succeeded(s, Told(k, ok)) /\ Len(stack[r]) = 1 /\ told' = told \cup {r})
    BY <1>4, <1>5, LeavesStep
  <1>8. CASE told' = told
    BY <1>1, <1>8 DEF ToldCommitted
  <1>9. CASE Succeeded(s, Told(k, ok)) /\ Len(stack[r]) = 1 /\ told' = told \cup {r}
    <2>1. ok /\ (s = "COMMIT" \/ r \in PoolReads)
      BY <1>6, <1>9 DEF Succeeded
    <2>2. r \in PoolReads \/ r \in committed'
      BY <2>1, <1>1, <1>6, <1>9
    <2> QED BY <2>2, <1>1, <1>9 DEF ToldCommitted
  <1> QED BY <1>7, <1>8, <1>9

LEMMA CancelledTold ==
    ASSUME SInv, Right, NEW r \in Requests, At(r) \in Statements, Cancelled(r, At(r))
    PROVE  told' = told /\ UNCHANGED committed
  <1> DEFINE s == At(r)
             c == Top(r).conn
             k == Server(conn[c], s, TenantOf[r], FALSE)
  <1>1. conn[c] \in Sessions /\ conn[c].state = "used" /\ TenantOf[r] \in Tenants
    BY RunsOn DEF Tenants
  <1>2. UNCHANGED committed
        /\ (Leaves(r, Read(k, FALSE), s, Told(k, FALSE), TRUE) \/ Leaves(r, Broken, s, FALSE, TRUE))
    BY DEF Cancelled, Broken
  <1>3. k \in Sessions /\ k.state = "used"
    <2>1. \A ok \in BOOLEAN : LET x == Server(conn[c], s, TenantOf[r], ok)
                              IN x \in Sessions /\ x.state = "used"
      BY <1>1, ServerFacts
    <2> QED BY <2>1
  <1>4. Read(k, FALSE) \in Sessions /\ Read(k, FALSE).state = "used" /\ Told(k, FALSE) \in BOOLEAN
    BY <1>3, ReadFacts
  <1>5. s \in {"COMMIT", "QUERY"} => Told(k, FALSE) = FALSE
    BY SaidIsSo
  <1> HIDE DEF k
  <1>6. ~Succeeded(s, Told(k, FALSE))
    BY <1>5 DEF Succeeded
  <1>7. CASE Leaves(r, Read(k, FALSE), s, Told(k, FALSE), TRUE)
    BY <1>2, <1>4, <1>6, <1>7, LeavesStep
  <1>8. CASE Leaves(r, Broken, s, FALSE, TRUE)
    BY <1>2, <1>8, BrokenFacts, FailureIsTold
  <1> QED BY <1>2, <1>7, <1>8

LEMMA StatementTold ==
    ASSUME SInv, Right, ToldCommitted, NEW r \in Requests, Statement(r)
    PROVE  ToldCommitted'
  <1> DEFINE k == conn[Top(r).conn]
  <1>0. At(r) \in Statements
    BY DEF Statement
  <1>1. k \in Sessions /\ k.state = "used" /\ Top(r).cut \in BOOLEAN
    BY <1>0, RunsOn DEF Frames
  <1>2. ASSUME Lost(r, At(r)) PROVE told' = told /\ committed \subseteq committed'
    <2>1. Leaves(r, Broken, At(r), FALSE, FALSE) /\ committed \subseteq committed'
      BY <1>2 DEF Lost, Broken
    <2> QED BY <2>1, <1>0, BrokenFacts, FailureIsTold
  <1>3. ASSUME Retried(r, At(r)) PROVE told' = told /\ UNCHANGED committed
    BY <1>3 DEF Retried
  <1>4. ASSUME Misdecoded(r, At(r)) PROVE told' = told /\ UNCHANGED committed
    <2> DEFINE a == [ok |-> TRUE, status |-> k.srv]
               x == [k EXCEPT !.unread = Append(@, a)]
    <2>1. Leaves(r, x, At(r), FALSE, FALSE) /\ UNCHANGED committed
      BY <1>4 DEF Misdecoded
    <2>2. a \in Replies /\ k.unread \in Seq(Replies)
      BY <1>1 DEF Replies, Sessions
    <2> HIDE DEF a
    <2>3. Append(k.unread, a) \in Seq(Replies)
      BY <2>2
    <2>4. x \in Sessions /\ x.state = "used"
      BY <1>1, <2>3 DEF Sessions
    <2> HIDE DEF x
    <2> QED BY <2>1, <2>4, <1>0, FailureIsTold
  <1>5. ASSUME NotSent(r, At(r)) PROVE told' = told /\ UNCHANGED committed
    <2>1. Leaves(r, k, At(r), FALSE, Top(r).cut) \/ UNCHANGED told
      BY <1>5 DEF NotSent
    <2>2. UNCHANGED committed
      BY <1>5 DEF NotSent
    <2> QED BY <2>1, <2>2, <1>0, <1>1, FailureIsTold
  <1>6. CASE Answered(r, At(r))
    BY <1>0, <1>6, AnsweredTold
  <1>7. CASE told' = told /\ committed \subseteq committed'
    BY <1>7 DEF ToldCommitted
  <1> QED BY <1>0, <1>2, <1>3, <1>4, <1>5, <1>6, <1>7, CancelledTold DEF Statement

LEMMA NextTold ==
    ASSUME SInv, Right, ToldCommitted, Next
    PROVE  ToldCommitted'
  <1>0. TypeOK
    BY DEF SInv
  <1>1. CASE told' = told /\ UNCHANGED committed
    BY <1>1 DEF ToldCommitted
  <1>2. ASSUME NEW r \in Requests, Arrive(r) PROVE ToldCommitted'
    BY <1>2 DEF Arrive, ToldCommitted
  <1>3. ASSUME NEW r \in Requests, Timeout(r) \/ WaitFails(r) PROVE told' = told /\ UNCHANGED committed
    BY <1>0, <1>3, EndsFailed DEF Timeout, WaitFails
  <1>4. ASSUME NEW r \in Requests, startTLS(r) \/ startup(r) \/ authSCRAM(r) \/ DeadlineFails(r)
        PROVE  told' = told /\ UNCHANGED committed
    BY <1>0, <1>4, EndsFailed DEF startTLS, startup, authSCRAM, DeadlineFails, Proceeds, Refused
  <1>5. ASSUME NEW r \in Requests, NEW c \in Conns, Take(r, c) \/ Connect(r, c)
        PROVE  told' = told /\ UNCHANGED committed
    BY <1>0, <1>5, EndsFailed DEF Take, Connect
  <1>6. ASSUME NEW c \in Conns, CancelFades(c) \/ CloseIdle(c) PROVE told' = told /\ UNCHANGED committed
    BY <1>6 DEF CancelFades, CloseIdle
  <1> QED BY <1>1, <1>2, <1>3, <1>4, <1>5, <1>6, StatementTold DEF Next

----------------------------------------------------------------------------
(* Theorems. *)

LEMMA InitSInv == Init => SInv /\ Right /\ ToldCommitted
  <1> SUFFICES ASSUME Init PROVE SInv /\ Right /\ ToldCommitted
    OBVIOUS
  <1>1. conn = [c \in Conns |-> Closed] /\ stack = [r \in Requests |-> << >>] /\ told = {}
        /\ expired = {} /\ late = {} /\ committed = {}
    BY DEF Init
  <1>2. << >> \in Seq(Frames) /\ DOMAIN << >> = {} /\ Len(<< >>) = 0
    OBVIOUS
  <1>3. TypeOK
    BY <1>1, <1>2, ClosedType DEF TypeOK
  <1>4. \A r \in Requests : Shape(stack[r]) /\ HeldBy(stack[r]) = {}
    <2>1. \A st : st = << >> => DOMAIN st = {} /\ Len(st) = 0
      OBVIOUS
    <2>2. \A st : st = << >> => Shape(st) /\ HeldBy(st) = {}
      BY <2>1 DEF Shape, HeldBy
    <2> QED BY <1>1, <2>2
  <1>5. Slots
    BY <1>1, <1>4, ClosedType DEF Slots
  <1>6. Right
    BY <1>1, <1>2, ClosedType DEF Right
  <1> QED BY <1>1, <1>3, <1>5, <1>6 DEF SInv, ToldCommitted

LEMMA StepSInv == SInv /\ [Next]_vars => SInv' /\ (PoolReadsDecode /\ Right /\ ToldCommitted => Right' /\ ToldCommitted')
  <1> SUFFICES ASSUME SInv, [Next]_vars
               PROVE  SInv' /\ (PoolReadsDecode /\ Right /\ ToldCommitted => Right' /\ ToldCommitted')
    OBVIOUS
  <1>1. CASE Next
    BY <1>1, NextKeeps, NextTold DEF Kept, SInv
  <1>2. CASE UNCHANGED vars
    <2>1. UNCHANGED <<conn, stack, expired, late, committed, told>>
      BY <1>2 DEF vars
    <2>2. Kept
      BY <2>1, StillKeeps DEF SInv, TypeOK
    <2>3. ToldCommitted => ToldCommitted'
      BY <2>1 DEF ToldCommitted
    <2> QED BY <2>2, <2>3 DEF Kept, SInv
  <1> QED BY <1>1, <1>2

LEMMA AlwaysSInv == Spec => []SInv
  <1> QED BY InitSInv, StepSInv, PTL DEF Spec

LEMMA AlwaysRight ==
    ASSUME PoolReadsDecode
    PROVE  Spec => []IInv
  <1>1. IInv /\ [Next]_vars => IInv'
    BY StepSInv DEF IInv
  <1>2. Init => IInv
    BY InitSInv DEF IInv
  <1> QED BY <1>1, <1>2, PTL DEF Spec

\* The variables keep their types: each connection its record, each request a sequence of
\* frames, for any number of both.
THEOREM TypeCorrect == Spec => []TypeOK
  <1>1. SInv => TypeOK
    BY DEF SInv
  <1> QED BY <1>1, AlwaysSInv, PTL

\* No slot of the pool is lost and none is held twice, whatever breaks, is cancelled or
\* refused (TxWith, markBad, IsValid, database/sql).
THEOREM NoSlotLost == Spec => []SlotsAccounted
  <1>1. SInv => SlotsAccounted
    <2> SUFFICES ASSUME SInv PROVE SlotsAccounted
      OBVIOUS
    <2> DEFINE ConnOf(h) == stack[h[1]][h[2]].conn
               held == {h \in Requests \X (1 .. 2) : h[2] <= Len(stack[h[1]]) /\ ConnOf(h) # None}
    <2>1. \A r \in Requests : /\ stack[r] \in Seq(Frames) /\ Shape(stack[r]) /\ DOMAIN stack[r] = 1 .. Len(stack[r])
                              /\ Len(stack[r]) \in Nat /\ Len(stack[r]) <= 2 /\ HeldBy(stack[r]) \subseteq Conns
      <3> SUFFICES ASSUME NEW r \in Requests
                   PROVE  /\ stack[r] \in Seq(Frames) /\ Shape(stack[r]) /\ DOMAIN stack[r] = 1 .. Len(stack[r])
                          /\ Len(stack[r]) \in Nat /\ Len(stack[r]) <= 2 /\ HeldBy(stack[r]) \subseteq Conns
        OBVIOUS
      <3>1. stack[r] \in Seq(Frames) /\ Shape(stack[r])
        BY DEF SInv, TypeOK, Slots
      <3>2. DOMAIN stack[r] = 1 .. Len(stack[r]) /\ Len(stack[r]) \in Nat
        BY <3>1
      <3>3. Len(stack[r]) <= 2
        BY <3>1 DEF Shape
      <3> QED BY <3>1, <3>2, <3>3, HeldAreConns
    <2>2. \A h \in held : /\ h[1] \in Requests /\ h[2] \in DOMAIN stack[h[1]] /\ h[2] \in {1, 2}
                          /\ ConnOf(h) \in HeldBy(stack[h[1]]) /\ h = <<h[1], h[2]>>
      BY <2>1 DEF HeldBy
    <2>3. \A r \in Requests : \A c \in HeldBy(stack[r]) : \E h \in held : ConnOf(h) = c
      <3> SUFFICES ASSUME NEW r \in Requests, NEW c \in HeldBy(stack[r]) PROVE \E h \in held : ConnOf(h) = c
        OBVIOUS
      <3>1. PICK i \in DOMAIN stack[r] : stack[r][i].conn = c /\ c # None
        BY DEF HeldBy
      <3>2. i \in 1 .. 2 /\ i <= Len(stack[r])
        BY <3>1, <2>1
      <3>3. <<r, i>> \in held /\ ConnOf(<<r, i>>) = c
        BY <3>1, <3>2
      <3> QED BY <3>3
    <2>4. {ConnOf(h) : h \in held} = {c \in Conns : conn[c].state = "used"}
      <3>1. ASSUME NEW h \in held PROVE ConnOf(h) \in Conns /\ conn[ConnOf(h)].state = "used"
        BY <2>1, <2>2 DEF SInv, Slots
      <3>2. ASSUME NEW c \in Conns, conn[c].state = "used" PROVE \E h \in held : ConnOf(h) = c
        BY <3>2, <2>3 DEF SInv, Slots
      <3> HIDE DEF ConnOf, held
      <3> QED BY <3>1, <3>2
    <2>5. ASSUME NEW g \in held, NEW h \in held, ConnOf(g) = ConnOf(h) PROVE g = h
      <3>1. g[1] = h[1]
        BY <2>2, <2>5 DEF SInv, Slots
      <3>2. g[2] = h[2]
        <4> SUFFICES ASSUME g[2] # h[2] PROVE FALSE
          OBVIOUS
        <4>1. Len(stack[g[1]]) = 2
          BY <3>1, <2>1, <2>2
        <4>2. stack[g[1]][1].conn # stack[g[1]][2].conn
          BY <4>1, <2>1, <2>2 DEF Shape
        <4> QED BY <4>2, <3>1, <2>2, <2>5
      <3> QED BY <3>1, <3>2, <2>2
    <2>6. \A r \in Requests : \A i \in DOMAIN stack[r] : stack[r][i].conn = None <=> stack[r][i].at = "acquire"
      BY <2>1 DEF Shape
    <2> QED BY <2>4, <2>5, <2>6 DEF SlotsAccounted
  <1> QED BY <1>1, AlwaysSInv, PTL

\* Work is done under the tenant of its own request, and a read from the pool under none,
\* as long as reads outside a transaction decode (db.go Tx, SET LOCAL).
THEOREM SessionsOwn ==
    ASSUME PoolReadsDecode
    PROVE  Spec => []SessionIsOwn
  <1>1. IInv => SessionIsOwn
    <2> SUFFICES ASSUME SInv, Right, NEW r \in Requests, At(r) \in {"WORK", "QUERY"}
                 PROVE  /\ At(r) = "WORK" => conn[Top(r).conn].tenant = TenantOf[r]
                        /\ At(r) = "QUERY" => conn[Top(r).conn].tenant = None
      BY DEF SessionIsOwn, IInv
    <2>1. At(r) \in Statements
      BY DEF Statements
    <2> QED BY <2>1, RunsOn DEF Session, Clean
  <1> QED BY <1>1, AlwaysRight, PTL

\* A caller that is told of success has its transaction committed, through cancel requests,
\* lost connections and answers left unread, as long as reads outside a transaction decode.
THEOREM OnlyCommittedIsTold ==
    ASSUME PoolReadsDecode
    PROVE  Spec => []ToldCommitted
  <1>1. IInv => ToldCommitted
    BY DEF IInv
  <1> QED BY <1>1, AlwaysRight, PTL
===============================================================================
