------------------------------- MODULE ConnPool -------------------------------
(***************************************************************************)
(* Transactions on pooled connections: the tenant session of a transaction, *)
(* the connection pool, the driver's view of each connection and the server *)
(* session behind it.                                                      *)
(*                                                                         *)
(* Code: internal/platform/db/db.go and internal/platform/db/pgwire.  The  *)
(* pool itself is database/sql, an external part.                          *)
(*                                                                         *)
(* A request runs a stack of frames: its transaction and, when the code in  *)
(* it reads through ReadOnly, a second transaction on a second connection.  *)
(* A statement and its answer are one step; a cancel request travels on a   *)
(* connection of its own and may come late.                                *)
(***************************************************************************)
EXTENDS Naturals, Sequences

CONSTANTS
    Requests,
    PoolReads,    \* requests that read from the pool without a transaction
    Nested,       \* requests that call ReadOnly inside their transaction
    TenantOf,     \* the tenant of each request
    Conns,        \* SetMaxOpenConns: the slots of the pool
    Misdecodes,   \* requests that may read a value decodeValue cannot convert
    SSL,          \* whether sslmode is something other than disable
    None

ASSUME RequestSetsAssumption == PoolReads \subseteq Requests /\ Nested \subseteq Requests
ASSUME SSLAssumption == SSL \in BOOLEAN

\* Where a frame is: getting its connection, or at a statement.
Ready == {"acquire", "tls", "startup", "scram"}
Statements == {"BEGIN", "SET", "WORK", "COMMIT", "ROLLBACK", "QUERY"}

ASSUME NoneAssumption == None \notin Conns \cup Ready \cup Statements

VARIABLES
    conn,        \* each slot: the driver's state and the server's session
    stack,       \* each request: its frames
    expired,     \* requests whose context has ended
    late,        \* connections a cancel request is still on its way to
    committed,   \* requests whose transaction the server committed
    told         \* requests whose caller was told that all went well

vars == <<conn, stack, expired, late, committed, told>>

Closed == [state |-> "closed", bad |-> FALSE, tx |-> "I", srv |-> "I", tenant |-> None, unread |-> << >>]

Init ==
    /\ conn = [c \in Conns |-> Closed]
    /\ stack = [r \in Requests |-> << >>]
    /\ expired = {} /\ late = {} /\ committed = {} /\ told = {}

Top(r) == stack[r][Len(stack[r])]
At(r) == IF stack[r] = << >> THEN None ELSE Top(r).at
Goto(r, f) == stack' = [stack EXCEPT ![r] = [@ EXCEPT ![Len(@)] = f]]

\* TxWith or a query on the pool begins: it waits for a connection.
Arrive(r) ==
    /\ stack[r] = << >>
    /\ stack' = [stack EXCEPT ![r] = <<[at |-> "acquire", conn |-> None, cut |-> FALSE]>>]
    /\ committed' = committed \ {r} /\ told' = told \ {r}
    /\ UNCHANGED <<conn, expired, late>>

\* The top frame of r is over.  A second transaction hands its outcome to the first.
Ends(r, ok) ==
    IF Len(stack[r]) = 1
    THEN /\ stack' = [stack EXCEPT ![r] = << >>]
         /\ told' = IF ok THEN told \cup {r} ELSE told
         /\ expired' = expired \ {r}
    ELSE /\ stack' = [stack EXCEPT ![r] =
                         <<[@[1] EXCEPT !.at = IF ok THEN "COMMIT" ELSE "ROLLBACK"]>>]
         /\ UNCHANGED <<told, expired>>

----------------------------------------------------------------------------
(* Getting a connection. *)

First(r) == IF r \in PoolReads THEN "QUERY" ELSE "BEGIN"

\* A connection that is not idle by its last ReadyForQuery is not handed out.
ResetSession(k) == ~k.bad /\ k.tx = "I"

\* An idle connection is taken, or thrown away and another one looked for.
Take(r, c) ==
    /\ At(r) = "acquire" /\ r \notin expired /\ conn[c].state = "idle"
    /\ IF ResetSession(conn[c])
       THEN /\ conn' = [conn EXCEPT ![c].state = "used"]
            /\ Goto(r, [Top(r) EXCEPT !.conn = c, !.at = First(r)])
            /\ UNCHANGED late
       ELSE conn' = [conn EXCEPT ![c] = Closed] /\ late' = late \ {c} /\ UNCHANGED stack
    /\ UNCHANGED <<expired, committed, told>>

\* The dial: with no idle connection and a slot to spare.
Connect(r, c) ==
    /\ At(r) = "acquire" /\ r \notin expired
    /\ conn[c].state = "closed" /\ \A d \in Conns : conn[d].state # "idle"
    /\ \/ /\ Goto(r, [Top(r) EXCEPT !.conn = c, !.at = IF SSL THEN "tls" ELSE "startup"])
          /\ conn' = [conn EXCEPT ![c].state = "used"] /\ UNCHANGED <<told, expired>>
       \/ Ends(r, FALSE) /\ UNCHANGED conn
    /\ UNCHANGED <<late, committed>>

Refused(r) == conn' = [conn EXCEPT ![Top(r).conn] = Closed] /\ Ends(r, FALSE)

\* The handshake goes on to the next phase.
Proceeds(r, phase) == Goto(r, [Top(r) EXCEPT !.at = phase]) /\ UNCHANGED <<conn, told, expired>>

\* SSLRequest and the TLS handshake.  No deadline is set yet: only an answer ends it.
startTLS(r) ==
    /\ At(r) = "tls"
    /\ Proceeds(r, "startup") \/ Refused(r)
    /\ UNCHANGED <<late, committed>>

\* The startup message: a password at once, a SCRAM exchange, or a refusal.
startup(r) ==
    /\ At(r) = "startup"
    /\ Proceeds(r, First(r)) \/ Proceeds(r, "scram") \/ Refused(r)
    /\ UNCHANGED <<late, committed>>

\* The challenge, our proof, and the server's signature, which must verify.
authSCRAM(r) ==
    /\ At(r) = "scram"
    /\ Proceeds(r, First(r)) \/ Refused(r)
    /\ UNCHANGED <<late, committed>>

\* The deadline of the context is on the socket from the startup message on.
DeadlineFails(r) ==
    /\ At(r) \in {"startup", "scram"} /\ r \in expired
    /\ Refused(r)
    /\ UNCHANGED <<late, committed>>

----------------------------------------------------------------------------
(* Statements. *)

\* COMMIT and ROLLBACK are sent under a context that never ends.
WithContext == Statements \ {"COMMIT", "ROLLBACK"}

\* The settings are made with SET and stay (mutation of EndTransaction).
EndTransactionKeeps(k) == [k EXCEPT !.srv = "I"]

\* SET LOCAL: the settings end with the transaction.
EndTransaction(k) == [k EXCEPT !.srv = "I", !.tenant = None]

\* The server runs the statement: an error in a transaction fails the transaction.
Server(k, s, t, ok) ==
    IF s \in {"COMMIT", "ROLLBACK"} THEN EndTransaction(k)
    ELSE IF ~ok THEN IF k.srv = "T" THEN [k EXCEPT !.srv = "E"] ELSE k
    ELSE CASE s = "BEGIN" -> [k EXCEPT !.srv = "T"]
           [] s = "SET" -> [k EXCEPT !.tenant = t]
           [] OTHER -> k

\* The driver reads up to the first ReadyForQuery it meets and takes its status over.
Read(k, ok) ==
    LET replies == Append(k.unread, [ok |-> ok, status |-> k.srv])
    IN [k EXCEPT !.tx = Head(replies).status, !.unread = Tail(replies)]

\* The answer the driver reports: that of the first reply it finds.
Told(k, ok) == IF k.unread = << >> THEN ok ELSE Head(k.unread).ok

\* A broken connection is not given back (mutation of Put).
PutNot(k) == IF k.bad THEN k ELSE [k EXCEPT !.state = "idle"]

\* The last statement of a frame returns the connection: a broken one is closed.
Put(k) == IF k.bad THEN Closed ELSE [k EXCEPT !.state = "idle"]

Over(s, ok) == s \in {"COMMIT", "ROLLBACK", "QUERY"} \/ (s = "BEGIN" /\ ~ok)

\* The errors of COMMIT are not looked at (mutation of Succeeded).
SucceededAnyway(s, ok) == s = "COMMIT" \/ (s = "QUERY" /\ ok)

Succeeded(s, ok) == s \in {"COMMIT", "QUERY"} /\ ok

Following(s, ok) ==
    CASE ~ok -> "ROLLBACK"
      [] s = "BEGIN" /\ ok -> "SET"
      [] s = "SET" /\ ok -> "WORK"
      [] s = "WORK" /\ ok -> "COMMIT"

\* Where a frame goes on.  In WORK a nested ReadOnly waits for a connection of its own.
After(r, s, ok, cut) ==
    IF Over(s, ok) THEN Ends(r, Succeeded(s, ok))
    ELSE /\ IF s = "WORK" /\ ok /\ r \in Nested /\ Len(stack[r]) = 1
            THEN stack' = [stack EXCEPT ![r] =
                              Append(@, [at |-> "acquire", conn |-> None, cut |-> FALSE])]
            ELSE Goto(r, [Top(r) EXCEPT !.at = Following(s, ok), !.cut = cut])
         /\ UNCHANGED <<told, expired>>

\* The statement leaves its connection as k, and the pool gets it back when it was the last.
Leaves(r, k, s, ok, cut) ==
    /\ conn' = [conn EXCEPT ![Top(r).conn] = IF Over(s, ok) THEN Put(k) ELSE k]
    /\ After(r, s, ok, cut)

May(r, s) == /\ ~conn[Top(r).conn].bad
             /\ s \in WithContext \cup {"COMMIT"} => r \notin expired

\* The server answers, with success or an error.
Answered(r, s) ==
    LET c == Top(r).conn
    IN /\ May(r, s)
       /\ \E ok \in IF s = "ROLLBACK" THEN {TRUE} ELSE BOOLEAN :
            LET k == Server(conn[c], s, TenantOf[r], ok)
            IN /\ Leaves(r, Read(k, ok), s, Told(k, ok), FALSE)
               /\ committed' = committed \cup
                     IF s = "COMMIT" /\ ok /\ conn[c].srv = "T" /\ Len(stack[r]) = 1 THEN {r} ELSE {}
       /\ UNCHANGED late

\* The connection breaks, before or after the server did what it was told, and the server
\* ends the session.  The caller is told of an error.
Lost(r, s) ==
    LET c == Top(r).conn
    IN /\ May(r, s)
       /\ Leaves(r, [Closed EXCEPT !.state = "used", !.bad = TRUE], s, FALSE, FALSE)
       /\ committed' \in {committed, committed \cup
              IF s = "COMMIT" /\ conn[c].srv = "T" /\ Len(stack[r]) = 1 THEN {r} ELSE {}}
       /\ late' = late \ {c}

Again(f) == [f EXCEPT !.conn = None, !.at = "acquire"]

\* The first statement meets a connection the server has closed (io.EOF is ErrBadConn):
\* database/sql takes another one.
Retried(r, s) ==
    LET c == Top(r).conn
    IN /\ May(r, s) /\ s \in {"BEGIN", "QUERY"}
       /\ conn' = [conn EXCEPT ![c] = Closed] /\ late' = late \ {c}
       /\ Goto(r, Again(Top(r)))
       /\ UNCHANGED <<expired, committed, told>>

\* rows.Next cannot decode a value: the error is kept, and rows.Close reads no further.
Misdecoded(r, s) ==
    LET c == Top(r).conn
    IN /\ May(r, s) /\ s \in {"WORK", "QUERY"} /\ r \in Misdecodes
       /\ Leaves(r, [conn[c] EXCEPT !.unread = Append(@, [ok |-> TRUE, status |-> conn[c].srv])],
                 s, FALSE, FALSE)
       /\ UNCHANGED <<late, committed>>

\* A cancel request, or the read deadline set after it, meets the statement that is
\* running now, whoever sent it.
Cancelled(r, s) ==
    LET c == Top(r).conn
    IN /\ ~conn[c].bad /\ c \in late
       /\ late' = late \ {c}
       /\ \/ LET k == Server(conn[c], s, TenantOf[r], FALSE)
             IN Leaves(r, Read(k, FALSE), s, Told(k, FALSE), TRUE)
          \/ Leaves(r, [Closed EXCEPT !.state = "used", !.bad = TRUE], s, FALSE, TRUE)
       /\ UNCHANGED committed

\* Nothing is sent under a context that has ended; Commit turns into a rollback, and a
\* rollback on a broken connection fails at once.
NotSent(r, s) ==
    /\ \/ s \in WithContext /\ r \in expired /\ Leaves(r, conn[Top(r).conn], s, FALSE, Top(r).cut)
       \/ /\ s = "COMMIT" /\ r \in expired
          /\ Goto(r, [Top(r) EXCEPT !.at = "ROLLBACK"]) /\ UNCHANGED <<conn, told, expired>>
       \/ /\ s = "ROLLBACK" /\ conn[Top(r).conn].bad
          /\ Leaves(r, conn[Top(r).conn], s, FALSE, Top(r).cut)
    /\ UNCHANGED <<late, committed>>

Statement(r) ==
    /\ At(r) \in Statements
    /\ LET s == At(r)
       IN \/ Answered(r, s) \/ Lost(r, s) \/ Retried(r, s)
          \/ Misdecoded(r, s) \/ Cancelled(r, s) \/ NotSent(r, s)

----------------------------------------------------------------------------
(* Contexts and cancellation. *)

\* The deadline of the request passes, and watchCancel starts a cancel request for the
\* statement that runs.
Timeout(r) ==
    /\ stack[r] # << >> /\ r \notin expired
    /\ expired' = expired \cup {r}
    /\ late' = late \cup IF At(r) \in Statements THEN {Top(r).conn} ELSE {}
    /\ UNCHANGED <<conn, stack, committed, told>>

\* The read inside a transaction is made under a context of its own (mutation of WaitFails).
WaitFailsOutside(r) ==
    /\ At(r) = "acquire" /\ r \in expired /\ Len(stack[r]) = 1
    /\ Ends(r, FALSE)
    /\ UNCHANGED <<conn, late, committed>>

\* A context that ends gives up waiting for a connection.
WaitFails(r) ==
    /\ At(r) = "acquire" /\ r \in expired
    /\ Ends(r, FALSE)
    /\ UNCHANGED <<conn, late, committed>>

\* The cancel request comes to a session that runs nothing, and the deadline it leaves is
\* taken back by the next statement that ends in time.
CancelFades(c) ==
    /\ c \in late /\ late' = late \ {c}
    /\ UNCHANGED <<conn, stack, expired, committed, told>>

\* SetMaxIdleConns, SetConnMaxLifetime, SetConnMaxIdleTime.
CloseIdle(c) ==
    /\ conn[c].state = "idle"
    /\ conn' = [conn EXCEPT ![c] = Closed] /\ late' = late \ {c}
    /\ UNCHANGED <<stack, expired, committed, told>>

Next ==
    \/ \E r \in Requests :
          \/ Arrive(r) \/ Timeout(r) \/ WaitFails(r) \/ Statement(r)
          \/ startTLS(r) \/ startup(r) \/ authSCRAM(r) \/ DeadlineFails(r)
          \/ \E c \in Conns : Take(r, c) \/ Connect(r, c)
    \/ \E c \in Conns : CancelFades(c) \/ CloseIdle(c)

\* Every context has a deadline (Timeout middleware), and what waits under an ended context
\* gives up.  A server may never answer a statement; only the TLS handshake, COMMIT and
\* ROLLBACK, which no deadline covers, are taken to be answered or to break.
Fairness ==
    \A r \in Requests :
        /\ WF_vars(Timeout(r)) /\ WF_vars(WaitFails(r)) /\ WF_vars(DeadlineFails(r))
        /\ WF_vars(startTLS(r))
        /\ WF_vars((r \in expired \/ At(r) \in {"COMMIT", "ROLLBACK"}) /\ Statement(r))

Spec == Init /\ [][Next]_vars /\ Fairness

----------------------------------------------------------------------------
(* Properties. *)

Frames == [at : Ready \cup Statements, conn : Conns \cup {None}, cut : BOOLEAN]
Replies == [ok : BOOLEAN, status : {"I", "T", "E"}]
Sessions == [state : {"closed", "idle", "used"}, bad : BOOLEAN, tx : {"I", "T", "E"}, srv : {"I", "T", "E"},
             tenant : {None} \cup {TenantOf[r] : r \in Requests}, unread : Seq(Replies)]

\* The variables have their types.
TypeOK ==
    /\ conn \in [Conns -> Sessions]
    /\ stack \in [Requests -> Seq(Frames)]
    /\ told \subseteq Requests /\ expired \subseteq Requests /\ committed \subseteq Requests /\ late \subseteq Conns

\* No slot of the pool is lost: one that is in use is held by exactly one frame, whichever
\* way the frame before it ended, and only a frame that waits holds none (TxWith, markBad,
\* IsValid).
SlotsAccounted ==
    LET ConnOf(h) == stack[h[1]][h[2]].conn
        held == {h \in Requests \X (1 .. 2) : h[2] <= Len(stack[h[1]]) /\ ConnOf(h) # None}
    IN /\ {ConnOf(h) : h \in held} = {c \in Conns : conn[c].state = "used"}
       /\ \A g, h \in held : ConnOf(g) = ConnOf(h) => g = h
       /\ \A r \in Requests : \A i \in DOMAIN stack[r] :
             stack[r][i].conn = None <=> stack[r][i].at = "acquire"

\* Work is done under the tenant of its own request and nothing of an earlier tenant's
\* session is left for a read from the pool (db.go Tx: the session variables cannot
\* outlive the transaction on a pooled connection).  A read outside a transaction whose rows
\* cannot be decoded breaks it: the answers of the connection are then one statement late.
SessionIsOwn ==
    \A r \in Requests :
        /\ At(r) = "WORK" => conn[Top(r).conn].tenant = TenantOf[r]
        /\ At(r) = "QUERY" => conn[Top(r).conn].tenant = None

\* A caller that is told its transaction went through has it committed, whatever cancel
\* requests and lost connections came between, and whatever answer a statement of a
\* transaction left unread (TxWith, simpleExec); not after a read outside a transaction
\* whose rows cannot be decoded.
ToldCommitted == told \ PoolReads \subseteq committed

\* Every request ends, also when all connections are held by transactions that wait for a
\* second one: the deadline of the request undoes the embrace (TxWith, ReadOnly).
EveryRequestEnds == \A r \in Requests : stack[r] # << >> ~> stack[r] = << >>

\* What pgwire/conn.go:464 says of watchCancel, that the query cancelled is the one whose
\* context is done.
OnlyOwnCancel ==
    \A r \in Requests : \A i \in DOMAIN stack[r] : stack[r][i].cut => r \in expired
===============================================================================
