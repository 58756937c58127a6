--------------------------- MODULE AuditChainProofs ---------------------------
(***************************************************************************)
(* Proofs about AuditChain, for any number of transactions, workers,       *)
(* verifications and records: the chain, its anchors and what a            *)
(* verification may report while all of them go on.                        *)
(*                                                                         *)
(* The counter's head names every committed entry in order, so each stored *)
(* record is described by it: RecordsOnChain says which records there are, *)
(* what is wrong with the one that was damaged, and that the links of all  *)
(* others are prefixes of the head, which no later append changes.         *)
(***************************************************************************)
EXTENDS AuditChain, FiniteSetTheorems, WellFoundedInduction, TLAPS

----------------------------------------------------------------------------
(* The inductive invariant. *)

Length == Len(counter.head)

\* The hash of the n-th record, and the previous hash of the next.
Prefix(n) == [i \in 1..n |-> counter.head[i]]

\* The counter counts the entries its head covers.
CounterOnHead ==
    /\ counter.head \in Hashes
    /\ counter.next = Length + 1
    /\ \A i \in 1..Length : counter.head[i][1] = i

\* Records that retention or a loss has taken away.
Missing(n) ==
    \/ damage.kind = "detached" /\ n <= damage.seq
    \/ damage.kind = "lost" /\ n = damage.seq

Altered(n) == damage.kind = "altered" /\ n = damage.seq

\* A stored record continues the chain, with the payload the head covers unless it is the
\* one that was altered.
OnChain(x) ==
    /\ x.seq \in 1..Length /\ ~Missing(x.seq)
    /\ x.prev = Prefix(x.seq - 1) /\ x.hash = Prefix(x.seq)
    /\ x.payload = counter.head[x.seq][2] <=> ~Altered(x.seq)

RecordsOnChain ==
    /\ IsFiniteSet(records)
    /\ \A x \in records : OnChain(x)
    /\ \A x, y \in records : x.seq = y.seq => x = y
    /\ \A n \in 1..Length : ~Missing(n) => \E x \in records : x.seq = n
    /\ damage.kind # "none" => damage.seq \in 1..Length

\* Only the transaction that holds the counter has written, and it continues the head.
DraftsOnHead ==
    \A t \in Txs : draft[t] # None =>
        /\ holder = t
        /\ \E p \in Payloads : draft[t] = Record(counter.next, counter.head, p)

\* An anchor was read from a committed counter row.
Genuine(x) ==
    /\ x \in AnchorRows /\ x.time <= clock
    /\ x.seq \in 1..Length /\ x.head = Prefix(x.seq)

AnchorsGenuine ==
    /\ \A x \in objects : Genuine(x)
    /\ anchors \subseteq objects
    /\ \A a \in Anchorers : pending[a] # None => Genuine(pending[a])
    /\ \A a \in Anchorers : stored[a] => /\ pending[a] # None /\ pending[a].time # 0
                                         /\ pending[a] \in objects

\* What a verification read: all records from some sequence on, up to the last it has.
Complete(from, s) ==
    /\ s \in Seq(records) /\ s # <<>> /\ Ascending(s)
    /\ \A i \in 1..Len(s) : s[i].seq >= from
    /\ \A x \in records : from <= x.seq /\ x.seq <= s[Len(s)].seq => \E i \in 1..Len(s) : s[i] = x

VerifiersRead ==
    \A v \in Verifiers :
        /\ vpc[v] = "get" => Genuine(ref[v])
        /\ vpc[v] = "prev" => span[v].from > 1 /\ Complete(span[v].from, span[v].rows)

\* A report that is neither a false alarm nor covers damage.
Right(rep) ==
    /\ damage.kind = "none" => rep.valid
    /\ damage.kind = "detached" /\ rep.from # 1 => rep.valid
    /\ damage.kind \in {"altered", "lost"} /\ rep.valid =>
          ~(rep.from <= damage.seq /\ damage.seq <= rep.to)

ReportsRight == \A v \in Verifiers : report[v] # None => Right(report[v])

IInv ==
    /\ TypeOK /\ CounterOnHead /\ RecordsOnChain /\ DraftsOnHead /\ AnchorsGenuine
    /\ VerifiersRead /\ ReportsRight

----------------------------------------------------------------------------
(* ORDER BY sequence. *)

\* A set of natural numbers has a least one; the inductions below take the least
\* counterexample.
LEMMA Least ==
    ASSUME NEW T \in SUBSET Nat, T # {}
    PROVE  \E x \in T : \A y \in T : x <= y
  <1>1. PICK x \in T : \A y \in T : <<y, x>> \notin OpToRel(<, Nat)
    BY NatLessThanWellFounded, WFMin
  <1>2. \A y \in T : ~(y < x)
    BY <1>1 DEF OpToRel
  <1> QED BY <1>2

Numbered(S) == /\ IsFiniteSet(S)
               /\ \A x \in S : x.seq \in Nat
               /\ \A x, y \in S : x.seq = y.seq => x = y

\* The rows of a set in which the sequence numbers differ can be put in order: the least
\* of them, and the others in order behind it.
LEMMA Sortable ==
    ASSUME NEW S, Numbered(S)
    PROVE  \E s \in SetToSeqs(S) : Ascending(s)
  <1> DEFINE Sorted(T) == \E s \in SetToSeqs(T) : Ascending(s)
             Bad == {n \in Nat : \E T \in SUBSET S : Cardinality(T) = n /\ ~Sorted(T)}
  <1>1. \A T \in SUBSET S : Numbered(T) /\ Cardinality(T) \in Nat
    BY FS_Subset, FS_CardinalityType DEF Numbered
  <1>2. CASE Bad = {}
    <2>1. Cardinality(S) \in Nat /\ S \in SUBSET S
      BY <1>1
    <2>2. Sorted(S)
      BY <1>2, <2>1
    <2> QED BY <2>2
  <1>3. CASE Bad # {}
    <2>1. PICK n \in Bad : \A m \in Bad : n <= m
      <3>1. Bad \in SUBSET Nat
        OBVIOUS
      <3> HIDE DEF Bad
      <3> QED BY <1>3, <3>1, Least
    <2>2. PICK T \in SUBSET S : Cardinality(T) = n /\ ~Sorted(T)
      BY <2>1
    <2>3. n \in Nat /\ Numbered(T) /\ IsFiniteSet(T)
      BY <1>1, <2>1, <2>2 DEF Numbered
    <2>4. CASE T = {}
      <3>1. Cardinality(T) = 0
        BY <2>4, FS_EmptySet
      <3>2. <<>> \in [1..0 -> T]
        OBVIOUS
      <3>3. <<>> \in SetToSeqs(T) /\ Ascending(<<>>)
        BY <3>1, <3>2 DEF SetToSeqs, Ascending
      <3> QED BY <2>2, <3>3
    <2>5. CASE T # {}
      <3>1. PICK x \in T : \A y \in T : x.seq <= y.seq
        <4> DEFINE seqs == {y.seq : y \in T}
        <4>1. seqs \in SUBSET Nat /\ seqs # {}
          BY <2>3, <2>5 DEF Numbered
        <4>2. PICK k \in seqs : \A m \in seqs : k <= m
          <5> HIDE DEF seqs
          <5> QED BY <4>1, Least
        <4> QED BY <4>2
      <3> DEFINE R == T \ {x}
      <3>2. IsFiniteSet(R) /\ Cardinality(R) = n - 1 /\ R \in SUBSET S /\ n - 1 \in Nat
        <4>1. IsFiniteSet(R) /\ Cardinality(R) = n - 1
          BY <2>2, <2>3, <3>1, FS_RemoveElement
        <4>2. n # 0
          BY <2>2, <2>3, <2>5, FS_EmptySet
        <4> QED BY <2>3, <4>1, <4>2
      <3>3. Sorted(R)
        <4>1. n - 1 \notin Bad
          <5> HIDE DEF Bad
          <5> QED BY <2>1, <2>3, <3>2
        <4> QED BY <3>2, <4>1
      <3>4. PICK s \in SetToSeqs(R) : Ascending(s)
        BY <3>3
      <3>5. /\ s \in [1..n - 1 -> R]
            /\ \A i, j \in 1..n - 1 : i # j => s[i] # s[j]
            /\ \A i, j \in 1..n - 1 : i < j => s[i].seq < s[j].seq
        BY <3>2, <3>4 DEF SetToSeqs, Ascending
      <3> DEFINE u == [i \in 1..n |-> IF i = 1 THEN x ELSE s[i - 1]]
      <3>6. u \in [1..n -> T] /\ \A i, j \in 1..n : i # j => u[i] # u[j]
        BY <2>3, <3>1, <3>2, <3>5
      <3>7. \A i, j \in 1..n : i < j => u[i].seq < u[j].seq
        <4> SUFFICES ASSUME NEW i \in 1..n, NEW j \in 1..n, i < j PROVE u[i].seq < u[j].seq
          OBVIOUS
        <4>1. j - 1 \in 1..n - 1 /\ u[j] = s[j - 1] /\ u[j] \in R
          BY <2>3, <3>5
        <4>2. CASE i = 1
          <5>1. u[i] = x /\ x.seq <= u[j].seq /\ x.seq # u[j].seq
            BY <2>3, <3>1, <4>1, <4>2 DEF Numbered
          <5>2. x.seq \in Nat /\ u[j].seq \in Nat
            BY <2>3, <3>1, <4>1 DEF Numbered
          <5> HIDE DEF u
          <5> QED BY <5>1, <5>2
        <4>3. CASE i # 1
          BY <2>3, <3>5, <4>1, <4>3
        <4> QED BY <4>2, <4>3
      <3>8. u \in SetToSeqs(T)
        BY <2>2, <3>6 DEF SetToSeqs
      <3>9. Ascending(u)
        BY <3>6, <3>7 DEF Ascending
      <3> QED BY <2>2, <3>8, <3>9
    <2> QED BY <2>4, <2>5
  <1> QED BY <1>2, <1>3

\* What ORDER BY sequence returns: every row once, in order.
LEMMA Ordered ==
    ASSUME NEW S, Numbered(S)
    PROVE  /\ InOrder(S) \in Seq(S) /\ Ascending(InOrder(S))
           /\ Len(InOrder(S)) = Cardinality(S) /\ Cardinality(S) \in Nat
           /\ \A x \in S : \E i \in 1..Len(InOrder(S)) : InOrder(S)[i] = x
           /\ InOrder(S) = <<>> <=> S = {}
  <1> DEFINE s == InOrder(S)
             n == Cardinality(S)
  <1>1. s \in SetToSeqs(S) /\ Ascending(s)
    BY Sortable DEF InOrder
  <1>2. n \in Nat /\ IsFiniteSet(S)
    BY FS_CardinalityType DEF Numbered
  <1>3. s \in [1..n -> S] /\ \A i, j \in 1..n : i # j => s[i] # s[j]
    BY <1>1 DEF SetToSeqs
  <1> HIDE DEF s, n
  <1>4. s \in Seq(S) /\ Len(s) = n
    BY <1>2, <1>3
  <1>5. \A x \in S : \E i \in 1..n : s[i] = x
    <2>1. s \in Injection(1..n, S)
      BY <1>3 DEF Injection, IsInjective
    <2>2. Cardinality(1..n) = n
      BY <1>2, FS_Interval
    <2>3. s \in Surjection(1..n, S)
      BY <1>2, <2>1, <2>2, FS_Injection DEF n
    <2> QED BY <2>3 DEF Surjection
  <1>6. s = <<>> <=> S = {}
    BY <1>2, <1>4, <1>5
  <1> QED BY <1>1, <1>2, <1>4, <1>5, <1>6 DEF s, n

----------------------------------------------------------------------------
(* Hashes are prefixes of the counter's head. *)

LEMMA PrefixIs ==
    ASSUME CounterOnHead, NEW n \in 0..Length
    PROVE  /\ Length \in Nat /\ n \in Nat
           /\ Prefix(n) \in Hashes /\ Len(Prefix(n)) = n
           /\ \A i \in 1..n : Prefix(n)[i] = counter.head[i]
  <1>1. counter.head \in Seq(Nat \X Payloads) /\ Length \in Nat /\ n \in Nat
    BY DEF CounterOnHead, Hashes, Length
  <1>2. \A i \in 1..n : counter.head[i] \in Nat \X Payloads
    BY <1>1 DEF Length
  <1> QED BY <1>1, <1>2 DEF Prefix, Hashes

\* Chain: the hash of a record is that of the one before and the record's own content.
LEMMA PrefixStep ==
    ASSUME CounterOnHead, NEW n \in 1..Length
    PROVE  /\ counter.head[n][2] \in Payloads
           /\ counter.head[n] = <<n, counter.head[n][2]>>
           /\ \A p \in Payloads : Chain(Prefix(n - 1), <<n, p>>) = Prefix(n)
                                    <=> p = counter.head[n][2]
  <1>1. counter.head \in Seq(Nat \X Payloads) /\ Length \in Nat /\ n \in Nat
    BY DEF CounterOnHead, Hashes, Length
  <1>2. counter.head[n] \in Nat \X Payloads /\ counter.head[n][1] = n
    BY <1>1 DEF Length, CounterOnHead
  <1>3. counter.head[n][2] \in Payloads /\ counter.head[n] = <<n, counter.head[n][2]>>
    BY <1>2
  <1>4. n - 1 \in 0..Length /\ n \in 0..Length
    BY <1>1
  <1>5. /\ Prefix(n - 1) \in Hashes /\ Len(Prefix(n - 1)) = n - 1
        /\ \A i \in 1..n - 1 : Prefix(n - 1)[i] = counter.head[i]
    BY <1>4, PrefixIs
  <1>6. /\ Prefix(n) \in Hashes /\ Len(Prefix(n)) = n
        /\ \A i \in 1..n : Prefix(n)[i] = counter.head[i]
    BY <1>4, PrefixIs
  <1>7. ASSUME NEW p \in Payloads
        PROVE  Chain(Prefix(n - 1), <<n, p>>) = Prefix(n) <=> p = counter.head[n][2]
    <2> DEFINE a == Prefix(n - 1)
               b == Prefix(n)
               c == Append(a, <<n, p>>)
    <2>1. a \in Seq(Nat \X Payloads) /\ Len(a) = n - 1 /\ <<n, p>> \in Nat \X Payloads
      BY <1>1, <1>5 DEF Hashes
    <2>2. b \in Seq(Nat \X Payloads) /\ Len(b) = n
      BY <1>6 DEF Hashes
    <2> HIDE DEF a, b
    <2>3. /\ c \in Seq(Nat \X Payloads) /\ Len(c) = n /\ c[n] = <<n, p>>
          /\ \A i \in 1..n - 1 : c[i] = a[i]
      BY <1>1, <2>1
    <2>4. \A i \in 1..n - 1 : c[i] = b[i]
      <3> HIDE DEF c
      <3>1. \A i \in 1..n - 1 : b[i] = counter.head[i]
        BY <1>1, <1>6 DEF b
      <3>2. \A i \in 1..n - 1 : a[i] = counter.head[i]
        BY <1>5 DEF a
      <3> QED BY <2>3, <3>1, <3>2
    <2>5. b[n] = <<n, counter.head[n][2]>>
      BY <1>1, <1>3, <1>6 DEF b
    <2>6. c = b => p = counter.head[n][2]
      BY <2>3, <2>5
    <2>7. ASSUME p = counter.head[n][2] PROVE c = b
      <3> HIDE DEF c
      <3>1. \A i \in 1..n : c[i] = b[i]
        <4>1. c[n] = b[n]
          BY <2>3, <2>5, <2>7
        <4> QED BY <1>1, <2>4, <4>1
      <3> QED BY <1>1, <2>2, <2>3, <3>1
    <2> QED BY <2>6, <2>7 DEF a, b, Chain
  <1> QED BY <1>3, <1>7

\* The whole head, and the genesis value.
LEMMA PrefixEnds ==
    ASSUME CounterOnHead
    PROVE  Prefix(Length) = counter.head /\ Prefix(0) = ZeroChainHash /\ Length \in Nat
  <1>1. counter.head \in Seq(Nat \X Payloads) /\ Length \in Nat
    BY DEF CounterOnHead, Hashes, Length
  <1>2. Prefix(Length) = counter.head
    BY <1>1 DEF Prefix, Length
  <1>3. Prefix(0) = ZeroChainHash
    BY DEF Prefix, ZeroChainHash
  <1> QED BY <1>1, <1>2, <1>3

----------------------------------------------------------------------------
(* What the reads of a verification return, and what VerifyChain concludes. *)

Stored ==
    /\ records \subseteq Rows
    /\ damage \in [kind: {"none", "detached", "altered", "lost"}, seq: Nat]
    /\ CounterOnHead /\ RecordsOnChain

LEMMA RecordIs ==
    ASSUME Stored, NEW x \in records
    PROVE  /\ x.seq \in 1..Length /\ x.seq \in Nat /\ Length \in Nat /\ ~Missing(x.seq)
           /\ x \in Rows /\ x.payload \in Payloads
           /\ x.prev = Prefix(x.seq - 1) /\ x.hash = Prefix(x.seq)
           /\ Len(x.prev) = x.seq - 1
           /\ x.hash = Chain(x.prev, <<x.seq, x.payload>>) <=> ~Altered(x.seq)
  <1>1. x \in Rows /\ OnChain(x) /\ CounterOnHead
    BY DEF Stored, RecordsOnChain
  <1>2. /\ x.seq \in 1..Length /\ ~Missing(x.seq)
        /\ x.prev = Prefix(x.seq - 1) /\ x.hash = Prefix(x.seq)
        /\ (x.payload = counter.head[x.seq][2]) = (~Altered(x.seq))
    BY <1>1 DEF OnChain
  <1>3. x.seq \in Nat /\ x.payload \in Payloads
    BY <1>1 DEF Rows
  <1>4. Length \in Nat
    BY <1>1, PrefixEnds
  <1>5. Len(x.prev) = x.seq - 1
    BY <1>1, <1>2, <1>3, <1>4, PrefixIs
  <1>6. x.hash = Chain(x.prev, <<x.seq, x.payload>>) <=> x.payload = counter.head[x.seq][2]
    BY <1>1, <1>2, <1>3, PrefixStep
  <1> QED BY <1>1, <1>2, <1>3, <1>4, <1>5, <1>6

\* Range returns all the records asked for, or at least all up to the last it returns.
LEMMA ReadIsComplete ==
    ASSUME Stored, NEW from \in Nat, NEW to \in Nat
    PROVE  /\ ReadRange(from, to) \in Seq(records)
           /\ ReadRange(from, to) # <<>> => Complete(from, ReadRange(from, to))
  <1> DEFINE R == { x \in records : x.seq >= from /\ (to > 0 => x.seq <= to) }
             s == InOrder(R)
  <1>1. \A x \in records : x.seq \in Nat
    BY RecordIs
  <1>2. Numbered(R)
    <2>1. IsFiniteSet(records) /\ R \subseteq records /\ \A x, y \in records : x.seq = y.seq => x = y
      BY DEF Stored, RecordsOnChain
    <2> QED BY <1>1, <2>1, FS_Subset DEF Numbered
  <1>3. /\ s \in Seq(R) /\ Ascending(s)
        /\ \A x \in R : \E i \in 1..Len(s) : s[i] = x
    <2> HIDE DEF R
    <2> QED BY <1>2, Ordered
  <1> HIDE DEF s
  <1>4. s \in Seq(records)
    <2>1. \A i \in 1..Len(s) : s[i] \in records
      BY <1>3
    <2> QED BY <1>3, <2>1
  <1>5. ASSUME s # <<>> PROVE Complete(from, s)
    <2>1. Len(s) \in Nat /\ Len(s) \in 1..Len(s)
      BY <1>3, <1>5
    <2>2. \A i \in 1..Len(s) : s[i].seq >= from /\ (to > 0 => s[i].seq <= to) /\ s[i] \in records
      BY <1>3
    <2>3. ASSUME NEW x \in records, from <= x.seq, x.seq <= s[Len(s)].seq
          PROVE  \E i \in 1..Len(s) : s[i] = x
      <3>1. x.seq \in Nat /\ s[Len(s)].seq \in Nat
        BY <1>1, <2>1, <2>2
      <3>2. x \in R
        BY <2>1, <2>2, <2>3, <3>1
      <3> QED BY <1>3, <3>2
    <2> QED BY <1>3, <1>4, <1>5, <2>2, <2>3 DEF Complete
  <1> QED BY <1>4, <1>5 DEF ReadRange, s

\* Where nothing but old records is missing, a run that starts where it was asked to has
\* no gap: the least gap would be a record that was not read.
LEMMA Consecutive ==
    ASSUME Stored, NEW from \in Nat \ {0}, NEW s, Complete(from, s), s[1].seq = from,
           damage.kind \in {"none", "detached"}
    PROVE  \A i \in 1..Len(s) : s[i] \in records /\ s[i].seq = from + i - 1
  <1>1. s \in Seq(records) /\ Len(s) \in Nat /\ 1 \in 1..Len(s)
    BY DEF Complete
  <1>2. \A i \in 1..Len(s) : s[i] \in records /\ s[i].seq \in 1..Length /\ s[i].seq \in Nat
    <2>1. \A i \in 1..Len(s) : s[i] \in records
      BY <1>1
    <2> QED BY <2>1, RecordIs
  <1>3. \A i, j \in 1..Len(s) : i < j => s[i].seq < s[j].seq
    BY <1>1 DEF Complete, Ascending
  <1> DEFINE bad == { i \in 1..Len(s) : s[i].seq # from + i - 1 }
  <1>4. ASSUME bad # {} PROVE FALSE
    <2>1. PICK i \in bad : \A j \in bad : i <= j
      <3>1. bad \in SUBSET Nat
        OBVIOUS
      <3> HIDE DEF bad
      <3> QED BY <1>4, <3>1, Least
    <2>2. i \in 1..Len(s) /\ s[i].seq # from + i - 1 /\ i # 1
      BY <2>1
    <2>3. i - 1 \in 1..Len(s) /\ s[i - 1].seq = from + (i - 1) - 1
      <3>1. i - 1 \in 1..Len(s) /\ ~(i <= i - 1)
        BY <1>1, <2>2
      <3>2. i - 1 \notin bad
        <4> HIDE DEF bad
        <4> QED BY <2>1, <3>1
      <3> QED BY <3>1, <3>2
    <2> DEFINE n == from + i - 1
    <2>4. n \in Nat /\ s[i - 1].seq < n /\ n < s[i].seq
      BY <1>1, <1>2, <1>3, <2>2, <2>3
    <2>5. n \in 1..Length /\ n >= from
      <3>1. Length \in Nat /\ s[i].seq \in 1..Length
        BY <1>2, <2>2, PrefixEnds DEF Stored
      <3> QED BY <1>1, <2>2, <2>4, <3>1
    <2>6. ~Missing(n)
      <3>1. ~Missing(from) /\ damage.seq \in Nat
        BY <1>1, <1>2, RecordIs DEF Stored
      <3> HIDE DEF n
      <3> QED BY <2>5, <3>1 DEF Missing
    <2>7. PICK x \in records : x.seq = n
      <3> HIDE DEF n
      <3> QED BY <2>5, <2>6 DEF Stored, RecordsOnChain
    <2>8. s[i].seq <= s[Len(s)].seq
      BY <1>1, <1>2, <1>3, <2>2
    <2>9. n <= s[Len(s)].seq
      <3> HIDE DEF n
      <3> QED BY <1>1, <1>2, <2>2, <2>4, <2>8
    <2>10. PICK j \in 1..Len(s) : s[j].seq = n
      <3> HIDE DEF n
      <3> QED BY <2>5, <2>7, <2>9 DEF Complete
    <2>11. i - 1 < j /\ j < i
      <3> HIDE DEF n
      <3>1. ~(j < i - 1) /\ j # i - 1 /\ ~(i < j) /\ j # i
        BY <1>2, <1>3, <2>2, <2>3, <2>4, <2>10
      <3> QED BY <1>1, <2>2, <2>10, <3>1
    <2> QED BY <2>2, <2>11
  <1> QED BY <1>2, <1>4

\* No false alarm: such a run is found valid.
LEMMA GoodIsValid ==
    ASSUME Stored, NEW from \in Nat \ {0}, NEW s, Complete(from, s), s[1].seq = from,
           damage.kind \in {"none", "detached"}
    PROVE  VerifyChain(s, Prefix(from - 1))
  <1>1. \A i \in 1..Len(s) : s[i] \in records /\ s[i].seq = from + i - 1
    BY Consecutive
  <1>2. s \in Seq(records) /\ Len(s) \in Nat
    BY DEF Complete
  <1>3. SUFFICES ASSUME NEW i \in 1..Len(s)
                 PROVE  Contiguous(s, i) /\ Linked(s, i, Prefix(from - 1)) /\ HashOK(s, i)
    BY DEF VerifyChain
  <1>4. Contiguous(s, i)
    BY <1>1, <1>2 DEF Contiguous
  <1>5. Linked(s, i, Prefix(from - 1))
    <2>1. s[i].prev = Prefix(s[i].seq - 1)
      BY <1>1, RecordIs
    <2>2. CASE i = 1
      BY <2>1, <2>2 DEF Linked
    <2>3. CASE i # 1
      <3>1. i - 1 \in 1..Len(s) /\ s[i - 1] \in records /\ s[i].seq - 1 = s[i - 1].seq
        BY <1>1, <1>2, <2>3
      <3>2. s[i - 1].hash = Prefix(s[i - 1].seq)
        BY <3>1, RecordIs
      <3> QED BY <2>1, <2>3, <3>1, <3>2 DEF Linked
    <2> QED BY <2>2, <2>3
  <1>6. HashOK(s, i)
    <2>1. ~Altered(s[i].seq)
      BY DEF Altered
    <2> QED BY <1>1, <2>1, RecordIs DEF HashOK
  <1> QED BY <1>4, <1>5, <1>6

\* Damage is never covered: a run that is found valid holds no altered record, and no
\* record is lost between the sequence asked for and the last of the run.
LEMMA ValidHasNoDamage ==
    ASSUME Stored, NEW from \in Nat \ {0}, NEW s, Complete(from, s), from - 1 <= Length,
           damage.kind \in {"altered", "lost"}, VerifyChain(s, Prefix(from - 1))
    PROVE  ~(from <= damage.seq /\ damage.seq <= s[Len(s)].seq)
  <1>1. s \in Seq(records) /\ Len(s) \in Nat /\ 1 \in 1..Len(s)
    BY DEF Complete
  <1>2. \A i \in 1..Len(s) : s[i] \in records
    BY <1>1
  <1>3. \A i \in 1..Len(s) :
          Contiguous(s, i) /\ Linked(s, i, Prefix(from - 1)) /\ HashOK(s, i)
    BY DEF VerifyChain
  <1>4. damage.seq \in 1..Length /\ Length \in Nat /\ damage.seq \in Nat
    BY PrefixEnds DEF Stored, RecordsOnChain
  <1> SUFFICES ASSUME from <= damage.seq, damage.seq <= s[Len(s)].seq
               PROVE  FALSE
    OBVIOUS
  <1>5. CASE damage.kind = "altered"
    <2>1. PICK x \in records : x.seq = damage.seq
      BY <1>4, <1>5 DEF Stored, RecordsOnChain, Missing
    <2>2. PICK i \in 1..Len(s) : s[i] = x
      BY <2>1 DEF Complete
    <2>3. Altered(x.seq)
      BY <1>5, <2>1 DEF Altered
    <2>4. ~HashOK(s, i)
      BY <2>2, <2>3, RecordIs DEF HashOK
    <2> QED BY <1>3, <2>4
  <1>6. CASE damage.kind = "lost"
    <2>1. s[1].prev = Prefix(from - 1) /\ s[1] \in records
      BY <1>1, <1>2, <1>3 DEF Linked
    <2>2. Len(s[1].prev) = s[1].seq - 1 /\ s[1].seq \in Nat
      BY <2>1, RecordIs
    <2>3. Len(Prefix(from - 1)) = from - 1
      BY <1>4, PrefixIs DEF Stored
    <2>4. s[1].seq = from
      BY <2>1, <2>2, <2>3
    <2>5. \A i \in 1..Len(s) : s[i].seq = from + i - 1
      BY <1>3, <2>4 DEF Contiguous
    <2> DEFINE i == damage.seq - from + 1
    <2>6. i \in 1..Len(s) /\ s[i].seq = damage.seq
      BY <1>1, <1>4, <2>5
    <2>7. ~Missing(damage.seq)
      <3> HIDE DEF i
      <3> QED BY <1>2, <2>6, RecordIs
    <2> QED BY <1>6, <2>7 DEF Missing
  <1> QED BY <1>5, <1>6

\* The report on a run that was read from a record whose predecessor is known.
LEMMA ReportIsRight ==
    ASSUME Stored, NEW from \in Nat \ {0}, NEW s, Complete(from, s),
           \/ from = 1
           \/ \E r \in records : r.seq = from - 1
    PROVE  LET rep == Report(from, s, Prefix(from - 1)) IN rep \in Reports /\ Right(rep)
  <1> DEFINE rep == Report(from, s, Prefix(from - 1))
  <1>1. s \in Seq(records) /\ Len(s) \in Nat /\ 1 \in 1..Len(s) /\ Len(s) \in 1..Len(s) /\ s # <<>>
    BY DEF Complete
  <1>2. \A i \in 1..Len(s) : s[i] \in records
    BY <1>1
  <1>3. Length \in Nat /\ \A i \in 1..Len(s) : s[i].seq \in 1..Length /\ s[i].seq \in Nat
    BY <1>2, RecordIs, PrefixEnds DEF Stored
  <1>4. /\ rep.valid = VerifyChain(s, Prefix(from - 1)) /\ rep.from = from
        /\ rep.to = s[Len(s)].seq
    BY <1>1 DEF Report
  <1>5. rep \in Reports
    <2>1. VerifyChain(s, Prefix(from - 1)) \in BOOLEAN
      BY DEF VerifyChain
    <2> QED BY <1>1, <1>3, <2>1 DEF Report, Reports
  <1>6. from <= s[1].seq /\ from \in 1..Length
    BY <1>1, <1>3 DEF Complete
  <1>7. ASSUME damage.kind = "none" \/ (damage.kind = "detached" /\ from # 1)
        PROVE  VerifyChain(s, Prefix(from - 1))
    <2>1. ~Missing(from)
      <3>1. CASE damage.kind = "none"
        BY <3>1 DEF Missing
      <3>2. CASE damage.kind = "detached" /\ from # 1
        <4>1. PICK r \in records : r.seq = from - 1
          BY <3>2
        <4>2. ~Missing(from - 1) /\ damage.seq \in Nat
          BY <4>1, RecordIs DEF Stored
        <4> QED BY <3>2, <4>2 DEF Missing
      <3> QED BY <1>7, <3>1, <3>2
    <2>2. PICK x \in records : x.seq = from
      BY <1>6, <2>1 DEF Stored, RecordsOnChain
    <2>3. s[1].seq <= s[Len(s)].seq
      BY <1>1, <1>3 DEF Complete, Ascending
    <2>4. PICK i \in 1..Len(s) : s[i] = x
      BY <1>1, <1>3, <1>6, <2>2, <2>3 DEF Complete
    <2>5. ~(1 < i)
      BY <1>1, <1>3, <1>6, <2>2, <2>4 DEF Complete, Ascending
    <2>6. s[1].seq = from
      BY <1>1, <2>2, <2>4, <2>5
    <2> QED BY <1>7, <2>6, GoodIsValid
  <1>8. ASSUME damage.kind \in {"altered", "lost"}, VerifyChain(s, Prefix(from - 1))
        PROVE  ~(from <= damage.seq /\ damage.seq <= s[Len(s)].seq)
    BY <1>3, <1>6, <1>8, ValidHasNoDamage
  <1>9. Right(rep)
    <2> HIDE DEF rep
    <2> QED BY <1>4, <1>7, <1>8 DEF Right
  <1> QED BY <1>5, <1>9

\* An empty run is reported as valid, up to nothing.
LEMMA EmptyIsRight ==
    ASSUME Stored, NEW from \in Nat
    PROVE  LET rep == Report(from, <<>>, ZeroChainHash) IN rep \in Reports /\ Right(rep)
  <1> DEFINE rep == Report(from, <<>>, ZeroChainHash)
  <1>1. VerifyChain(<<>>, ZeroChainHash)
    BY DEF VerifyChain
  <1>2. rep.valid = TRUE /\ rep.from = from /\ rep.to = 0 /\ rep \in Reports
    BY <1>1 DEF Report, Reports
  <1>3. damage.kind # "none" => damage.seq \in Nat /\ ~(damage.seq <= 0)
    BY PrefixEnds DEF Stored, RecordsOnChain
  <1> HIDE DEF rep
  <1>4. Right(rep)
    BY <1>2, <1>3 DEF Right
  <1> QED BY <1>2, <1>4 DEF rep

----------------------------------------------------------------------------
(* What stays as it is. *)

LEMMA StoredStays ==
    ASSUME UNCHANGED <<counter, records, damage>>, CounterOnHead, RecordsOnChain
    PROVE  CounterOnHead' /\ RecordsOnChain'
  <1>1. CounterOnHead'
    BY DEF CounterOnHead, Length
  <1>2. RecordsOnChain'
    BY DEF RecordsOnChain, OnChain, Missing, Altered, Length, Prefix
  <1> QED BY <1>1, <1>2

LEMMA GenuineStays ==
    ASSUME counter' = counter, clock \in Nat, clock' \in Nat, clock <= clock'
    PROVE  \A x : Genuine(x) => Genuine(x)'
  BY DEF Genuine, AnchorRows, Length, Prefix

LEMMA DraftsStay ==
    ASSUME UNCHANGED <<counter, holder, draft>>, DraftsOnHead
    PROVE  DraftsOnHead'
  BY DEF DraftsOnHead

LEMMA AnchorsStay ==
    ASSUME UNCHANGED anchoring, AnchorsGenuine, \A x : Genuine(x) => Genuine(x)'
    PROVE  AnchorsGenuine'
  BY DEF AnchorsGenuine, anchoring

LEMMA VerifiersStay ==
    ASSUME UNCHANGED <<vpc, ref, span, records>>, VerifiersRead,
           \A x : Genuine(x) => Genuine(x)'
    PROVE  VerifiersRead'
  <1>1. \A f, s : Complete(f, s) => Complete(f, s)'
    BY DEF Complete
  <1> QED BY <1>1 DEF VerifiersRead

LEMMA ReportsStay ==
    ASSUME UNCHANGED <<report, damage>>, ReportsRight
    PROVE  ReportsRight'
  BY DEF ReportsRight, Right

----------------------------------------------------------------------------
(* The initial state. *)

LEMMA InitInv == Init => IInv
  <1> SUFFICES ASSUME Init PROVE IInv
    OBVIOUS
  <1>1. TypeOK
    BY NoneAssumption DEF Init, TypeOK, Hashes, ZeroChainHash
  <1>2. CounterOnHead
    BY DEF Init, CounterOnHead, Hashes, Length, ZeroChainHash
  <1>3. RecordsOnChain
    <2>1. IsFiniteSet({})
      BY FS_EmptySet
    <2> QED BY <2>1 DEF Init, RecordsOnChain, Length, ZeroChainHash
  <1>4. DraftsOnHead /\ AnchorsGenuine
    BY DEF Init, DraftsOnHead, AnchorsGenuine
  <1>5. VerifiersRead /\ ReportsRight
    BY DEF Init, VerifiersRead, ReportsRight
  <1> QED BY <1>1, <1>2, <1>3, <1>4, <1>5 DEF IInv

----------------------------------------------------------------------------
(* Append. *)

\* Before the commit only the lock and the draft change.
LEMMA DraftStep ==
    ASSUME IInv, UNCHANGED <<counter, records, anchoring, verifying, damage>>,
           holder' \in Txs \cup {None}, draft' \in [Txs -> Rows \cup {None}], DraftsOnHead'
    PROVE  IInv'
  <1>1. clock \in Nat /\ counter' = counter /\ clock' = clock
    BY DEF IInv, TypeOK, anchoring
  <1>2. \A x : Genuine(x) => Genuine(x)'
    BY <1>1, GenuineStays
  <1>3. CounterOnHead' /\ RecordsOnChain'
    BY StoredStays DEF IInv
  <1>4. AnchorsGenuine'
    BY <1>2, AnchorsStay DEF IInv
  <1>5. VerifiersRead' /\ ReportsRight'
    BY <1>2, VerifiersStay, ReportsStay DEF IInv, verifying
  <1>6. TypeOK'
    <2>1. \A t \in Txs : draft'[t] # None => holder' = t
      BY DEF DraftsOnHead
    <2> QED BY <2>1 DEF IInv, TypeOK, anchoring, verifying
  <1> QED BY <1>3, <1>4, <1>5, <1>6 DEF IInv

LEMMA NextSequenceInv ==
    ASSUME IInv, NEW t \in Txs, NextSequence(t) PROVE IInv'
  <1>1. UNCHANGED <<counter, records, anchoring, verifying, damage>>
    BY DEF NextSequence
  <1>2. holder' \in Txs \cup {None} /\ draft' \in [Txs -> Rows \cup {None}]
    BY DEF NextSequence, IInv, TypeOK
  <1>3. \A u \in Txs : draft[u] = None
    BY NoneAssumption DEF NextSequence, IInv, TypeOK
  <1>4. DraftsOnHead'
    BY <1>3 DEF NextSequence, DraftsOnHead
  <1> QED BY <1>1, <1>2, <1>4, DraftStep

\* Seal makes a row that continues the head.
LEMMA AppendRecordInv ==
    ASSUME IInv, NEW t \in Txs, NEW p \in Payloads, AppendRecord(t, p) PROVE IInv'
  <1>1. UNCHANGED <<counter, records, anchoring, verifying, damage>> /\ holder' = holder
    BY DEF AppendRecord
  <1>2. counter.next \in Nat /\ counter.head \in Seq(Nat \X Payloads)
    BY DEF IInv, TypeOK, Hashes
  <1>3. Record(counter.next, counter.head, p) \in Rows
    BY <1>2 DEF Record, Rows, Chain, Hashes
  <1>4. /\ draft \in [Txs -> Rows \cup {None}] /\ holder = t
        /\ draft' = [draft EXCEPT ![t] = Record(counter.next, counter.head, p)]
    BY DEF AppendRecord, IInv, TypeOK
  <1>5. holder' \in Txs \cup {None} /\ draft' \in [Txs -> Rows \cup {None}]
    BY <1>1, <1>3, <1>4
  <1>6. DraftsOnHead'
    <2> SUFFICES ASSUME NEW u \in Txs, draft'[u] # None
                 PROVE  /\ holder' = u
                        /\ \E q \in Payloads : draft'[u] = Record(counter.next, counter.head, q)'
      BY DEF DraftsOnHead
    <2>1. CASE u = t
      BY <1>1, <1>4, <2>1 DEF Record
    <2>2. CASE u # t
      <3>1. draft'[u] = draft[u]
        BY <1>4, <2>2
      <3>2. holder = u
        BY <3>1 DEF IInv, DraftsOnHead
      <3> QED BY <1>4, <2>2, <3>2
    <2> QED BY <2>1, <2>2
  <1> QED BY <1>1, <1>5, <1>6, DraftStep

LEMMA RollbackTxInv ==
    ASSUME IInv, NEW t \in Txs, RollbackTx(t) PROVE IInv'
  <1>1. UNCHANGED <<counter, records, anchoring, verifying, damage>>
    BY DEF RollbackTx
  <1>2. holder' \in Txs \cup {None} /\ draft' \in [Txs -> Rows \cup {None}]
    BY DEF RollbackTx, IInv, TypeOK
  <1>3. \A u \in Txs : draft'[u] = None
    BY DEF RollbackTx, IInv, TypeOK
  <1>4. DraftsOnHead'
    BY <1>3 DEF DraftsOnHead
  <1> QED BY <1>1, <1>2, <1>4, DraftStep

\* A commit extends the head by one entry and leaves its prefixes alone.
LEMMA HeadGrows ==
    ASSUME CounterOnHead, NEW p \in Payloads,
           counter' = [next |-> counter.next + 1,
                       head |-> Append(counter.head, <<counter.next, p>>)]
    PROVE  /\ CounterOnHead' /\ Length \in Nat /\ Length' = Length + 1
           /\ \A n : n = Length + 1 => counter'.head = Prefix(n)'
           /\ counter'.head[Length + 1] = <<Length + 1, p>>
           /\ \A n \in 0..Length : Prefix(n)' = Prefix(n)
           /\ \A i \in 1..Length : counter'.head[i] = counter.head[i]
  <1> DEFINE h == counter.head
             k == Append(h, <<counter.next, p>>)
  <1>1. /\ h \in Seq(Nat \X Payloads) /\ Length \in Nat /\ counter.next = Length + 1
        /\ \A i \in 1..Length : h[i][1] = i /\ Len(h) = Length
    BY DEF CounterOnHead, Hashes, Length
  <1>2. <<counter.next, p>> \in Nat \X Payloads /\ Len(h) = Length
    BY <1>1 DEF Length
  <1>3. counter'.head = k /\ counter'.next = counter.next + 1 /\ Length' = Len(k)
    BY DEF Length
  <1>4. /\ k \in Seq(Nat \X Payloads) /\ Len(k) = Length + 1
        /\ k[Length + 1] = <<Length + 1, p>>
        /\ \A i \in 1..Length : k[i] = h[i]
    <2> HIDE DEF h
    <2> QED BY <1>1, <1>2
  <1> HIDE DEF k, h
  <1>5. k[Length + 1][1] = Length + 1
    BY <1>4
  <1>6. CounterOnHead'
    <2>1. \A i \in 1..Length + 1 : k[i][1] = i
      <3> TAKE i \in 1..Length + 1
      <3>1. CASE i = Length + 1
        BY <1>5, <3>1
      <3>2. CASE i # Length + 1
        <4>1. i \in 1..Length
          BY <1>1, <3>2
        <4> QED BY <1>1, <1>4, <4>1
      <3> QED BY <3>1, <3>2
    <2> QED BY <1>1, <1>3, <1>4, <2>1 DEF CounterOnHead, Hashes
  <1>7. \A n : n = Length + 1 => counter'.head = Prefix(n)'
    BY <1>1, <1>3, <1>4 DEF Prefix
  <1>8. \A n \in 0..Length : Prefix(n)' = Prefix(n)
    <2> TAKE n \in 0..Length
    <2>1. \A i \in 1..n : counter'.head[i] = counter.head[i]
      BY <1>1, <1>3, <1>4 DEF h
    <2> QED BY <2>1 DEF Prefix
  <1> QED BY <1>1, <1>3, <1>4, <1>6, <1>7, <1>8 DEF h

LEMMA CommitTxInv ==
    ASSUME IInv, NEW t \in Txs, CommitTx(t) PROVE IInv'
  <1>0. PICK rec : rec = draft[t]
    OBVIOUS
  <1>1. PICK p \in Payloads : rec = Record(counter.next, counter.head, p)
    BY <1>0 DEF IInv, DraftsOnHead, CommitTx
  <1>2. CounterOnHead /\ RecordsOnChain /\ TypeOK /\ Stored
    BY DEF IInv, TypeOK, Stored
  <1>3. /\ counter' = [next |-> counter.next + 1,
                       head |-> Append(counter.head, <<counter.next, p>>)]
        /\ records' = records \cup {rec} /\ holder' = None
        /\ draft' = [draft EXCEPT ![t] = None]
        /\ UNCHANGED <<anchoring, verifying, damage>>
    BY <1>0, <1>1 DEF CommitTx, Advanced, Record, Chain
  <1>4. /\ CounterOnHead' /\ Length \in Nat /\ Length' = Length + 1
        /\ \A n : n = Length + 1 => counter'.head = Prefix(n)'
        /\ counter'.head[Length + 1] = <<Length + 1, p>>
        /\ \A n \in 0..Length : Prefix(n)' = Prefix(n)
        /\ \A i \in 1..Length : counter'.head[i] = counter.head[i]
    BY <1>2, <1>3, HeadGrows
  <1>5. rec \in Rows /\ rec # None
    BY <1>0, <1>2 DEF TypeOK, CommitTx
  <1>6. /\ rec.seq = Length + 1 /\ rec.payload = p
        /\ rec.prev = Prefix(rec.seq - 1)' /\ rec.hash = Prefix(rec.seq)'
    <2>1. counter.next = Length + 1
      BY <1>2 DEF CounterOnHead
    <2>2. rec.seq = Length + 1 /\ rec.payload = p /\ rec.prev = counter.head
          /\ rec.hash = counter'.head
      BY <1>1, <1>3, <2>1 DEF Record, Chain
    <2>3. counter.head = Prefix(Length) /\ Length \in 0..Length
      BY <1>2, <1>4, PrefixEnds
    <2>4. rec.seq - 1 = Length
      BY <1>4, <2>2
    <2>5. Prefix(rec.seq - 1)' = Prefix(rec.seq - 1)
      BY <1>4, <2>3, <2>4
    <2> QED BY <1>4, <2>2, <2>3, <2>4, <2>5
  <1>7. \A x \in records : x.seq \in 1..Length
    BY <1>2, RecordIs
  <1>8. damage' = damage /\ damage.seq \in Nat /\ (damage.kind # "none" => damage.seq \in 1..Length)
    BY <1>2, <1>3 DEF Stored, RecordsOnChain
  <1>9. RecordsOnChain'
    <2>1. IsFiniteSet(records')
      BY <1>2, <1>3, FS_AddElement DEF RecordsOnChain
    <2>2. ASSUME NEW x \in records PROVE OnChain(x)'
      <3>1. /\ x.seq \in 1..Length /\ ~Missing(x.seq)
            /\ x.prev = Prefix(x.seq - 1) /\ x.hash = Prefix(x.seq)
            /\ (x.payload = counter.head[x.seq][2]) <=> ~Altered(x.seq)
        BY <1>2 DEF RecordsOnChain, OnChain
      <3>2. x.seq - 1 \in 0..Length /\ x.seq \in 0..Length
        BY <1>4, <3>1
      <3>3. ~Missing(x.seq)' /\ (Altered(x.seq)' <=> Altered(x.seq))
        BY <1>8, <3>1 DEF Missing, Altered
      <3>4. x.prev = Prefix(x.seq - 1)' /\ x.hash = Prefix(x.seq)'
        BY <1>4, <3>1, <3>2
      <3>5. x.seq \in 1..Length'
        BY <1>4, <3>1
      <3> QED BY <1>4, <3>1, <3>3, <3>4, <3>5 DEF OnChain
    <2>3. OnChain(rec)'
      <3>1. ~Missing(rec.seq)' /\ ~Altered(rec.seq)'
        BY <1>4, <1>6, <1>8 DEF Missing, Altered
      <3>2. rec.seq \in 1..Length'
        BY <1>4, <1>6
      <3>3. rec.payload = counter'.head[rec.seq][2]
        BY <1>4, <1>6
      <3> QED BY <1>6, <3>1, <3>2, <3>3 DEF OnChain
    <2>4. ASSUME NEW x \in records', NEW y \in records', x.seq = y.seq PROVE x = y
      <3>1. \A z \in records : z.seq # rec.seq
        BY <1>4, <1>6, <1>7
      <3> QED BY <1>2, <1>3, <2>4, <3>1 DEF RecordsOnChain
    <2>5. ASSUME NEW n \in 1..Length', ~Missing(n)' PROVE \E x \in records' : x.seq = n
      <3>1. CASE n = Length + 1
        BY <1>3, <1>6, <3>1
      <3>2. CASE n # Length + 1
        <4>1. n \in 1..Length /\ ~Missing(n)
          BY <1>4, <1>8, <2>5, <3>2 DEF Missing
        <4> QED BY <1>2, <1>3, <4>1 DEF RecordsOnChain
      <3> QED BY <3>1, <3>2
    <2>6. damage'.kind # "none" => damage'.seq \in 1..Length'
      BY <1>4, <1>8
    <2> QED BY <1>3, <2>1, <2>2, <2>3, <2>4, <2>5, <2>6 DEF RecordsOnChain
  <1>10. \A u \in Txs : draft'[u] = None
    BY <1>2, <1>3 DEF TypeOK, CommitTx
  <1>11. DraftsOnHead'
    BY <1>10 DEF DraftsOnHead
  <1>12. \A x : Genuine(x) => Genuine(x)'
    <2> SUFFICES ASSUME NEW x, Genuine(x) PROVE Genuine(x)'
      OBVIOUS
    <2>1. x \in AnchorRows /\ x.time <= clock /\ x.seq \in 1..Length /\ x.head = Prefix(x.seq)
      BY DEF Genuine
    <2>2. x.seq \in 1..Length' /\ x.seq \in 0..Length
      BY <1>4, <2>1
    <2>3. clock' = clock /\ AnchorRows' = AnchorRows
      BY <1>3 DEF anchoring, AnchorRows, Hashes
    <2> QED BY <1>4, <2>1, <2>2, <2>3 DEF Genuine
  <1>13. AnchorsGenuine'
    BY <1>3, <1>12, AnchorsStay DEF IInv
  <1>14. \A f, s : f \in Nat /\ Complete(f, s) => Complete(f, s)'
    <2> SUFFICES ASSUME NEW f \in Nat, NEW s, Complete(f, s) PROVE Complete(f, s)'
      OBVIOUS
    <2>1. s \in Seq(records) /\ s # <<>> /\ Len(s) \in Nat /\ Len(s) \in 1..Len(s)
      BY DEF Complete
    <2>2. \A i \in 1..Len(s) : s[i] \in records
      BY <2>1
    <2>3. s \in Seq(records')
      BY <1>3, <2>1, <2>2
    <2>4. s[Len(s)].seq \in 1..Length
      BY <1>7, <2>1, <2>2
    <2>5. ~(rec.seq <= s[Len(s)].seq)
      BY <1>4, <1>6, <2>4
    <2>6. \A x \in records' : f <= x.seq /\ x.seq <= s[Len(s)].seq => x \in records
      BY <1>3, <2>5
    <2> QED BY <2>1, <2>3, <2>6 DEF Complete
  <1>15. VerifiersRead'
    <2>1. UNCHANGED <<vpc, ref, span>>
      BY <1>3 DEF verifying
    <2>2. \A v \in Verifiers : vpc[v] = "prev" => span[v].from \in Nat
      BY <1>2 DEF TypeOK, Spans
    <2> QED BY <1>12, <1>14, <2>1, <2>2 DEF VerifiersRead, IInv
  <1>16. ReportsRight'
    BY <1>3, ReportsStay DEF IInv, verifying
  <1>17. TypeOK'
    <2>1. counter' \in [next: Nat, head: Hashes]
      <3>1. counter'.head \in Hashes /\ counter.next \in Nat
        BY <1>2, <1>4 DEF CounterOnHead, TypeOK
      <3> QED BY <1>3, <3>1
    <2>2. records' \subseteq Rows
      BY <1>2, <1>3, <1>5 DEF TypeOK
    <2>3. draft' \in [Txs -> Rows \cup {None}]
      BY <1>2, <1>3 DEF TypeOK
    <2>4. damage' \in [kind: {"none", "detached", "altered", "lost"}, seq: Nat]
      BY <1>2, <1>3 DEF TypeOK
    <2> QED BY <1>2, <1>3, <1>10, <2>1, <2>2, <2>3, <2>4 DEF TypeOK, anchoring, verifying
  <1> QED BY <1>4, <1>9, <1>11, <1>13, <1>15, <1>16, <1>17 DEF IInv

----------------------------------------------------------------------------
(* Anchor. *)

\* Anchoring leaves the records and the verifications alone.
LEMMA AnchorStep ==
    ASSUME IInv, UNCHANGED <<writing, verifying, damage>>,
           objects' \subseteq AnchorRows, anchors' \subseteq AnchorRows,
           clock' \in Nat, clock <= clock',
           pending' \in [Anchorers -> AnchorRows \cup {None}],
           stored' \in [Anchorers -> BOOLEAN], AnchorsGenuine'
    PROVE  IInv'
  <1>1. \A x : Genuine(x) => Genuine(x)'
    BY GenuineStays DEF IInv, TypeOK, writing
  <1>2. CounterOnHead' /\ RecordsOnChain'
    BY StoredStays DEF IInv, writing
  <1>3. DraftsOnHead'
    BY DraftsStay DEF IInv, writing
  <1>4. VerifiersRead' /\ ReportsRight'
    BY <1>1, VerifiersStay, ReportsStay DEF IInv, verifying, writing
  <1>5. TypeOK'
    BY DEF IInv, TypeOK, writing, verifying
  <1> QED BY <1>2, <1>3, <1>4, <1>5 DEF IInv

\* The counter row that Head reads names a committed record.
LEMMA AnchorHeadInv ==
    ASSUME IInv, NEW a \in Anchorers, AnchorHead(a) PROVE IInv'
  <1>0. PICK x : x = [time |-> 0, seq |-> counter.next - 1, head |-> counter.head]
    OBVIOUS
  <1>1. /\ UNCHANGED <<writing, verifying, damage>> /\ UNCHANGED <<objects, anchors, clock, stored>>
        /\ pending' = [pending EXCEPT ![a] = x]
        /\ pending[a] = None /\ counter' = counter
    BY <1>0 DEF AnchorHead, writing
  <1>2. TypeOK /\ AnchorsGenuine /\ CounterOnHead /\ clock \in Nat
    BY DEF IInv, TypeOK
  <1>3. Genuine(x)
    <2>1. counter.next = Length + 1 /\ counter.next > 1 /\ counter.head \in Hashes
          /\ counter.head = Prefix(Length) /\ Length \in Nat
      BY <1>2, PrefixEnds DEF AnchorHead, CounterOnHead
    <2>2. x.time = 0 /\ x.seq = Length /\ x.head = counter.head /\ x \in AnchorRows
      BY <1>0, <2>1 DEF AnchorRows
    <2> QED BY <1>2, <2>1, <2>2 DEF Genuine
  <1>4. \A y : Genuine(y) => Genuine(y)'
    BY <1>1, <1>2, GenuineStays
  <1>5. x \in AnchorRows /\ pending' \in [Anchorers -> AnchorRows \cup {None}]
    BY <1>1, <1>2, <1>3 DEF Genuine, TypeOK
  <1>6. ~stored[a]
    BY <1>1, <1>2 DEF AnchorsGenuine
  <1>7. AnchorsGenuine'
    <2>1. (\A y \in objects : Genuine(y))' /\ (anchors \subseteq objects)'
      BY <1>1, <1>2, <1>4 DEF AnchorsGenuine
    <2>2. ASSUME NEW b \in Anchorers, pending'[b] # None PROVE Genuine(pending[b])'
      <3>1. CASE b = a
        <4>1. pending'[b] = x
          BY <1>1, <1>2, <3>1 DEF TypeOK
        <4> QED BY <1>3, <1>4, <4>1
      <3>2. CASE b # a
        <4>1. pending'[b] = pending[b]
          BY <1>1, <1>2, <3>2 DEF TypeOK
        <4>2. Genuine(pending[b])
          BY <1>2, <2>2, <4>1 DEF AnchorsGenuine
        <4> QED BY <1>4, <4>1, <4>2
      <3> QED BY <3>1, <3>2
    <2>3. ASSUME NEW b \in Anchorers, stored'[b]
          PROVE  pending'[b] # None /\ pending'[b].time # 0 /\ pending'[b] \in objects'
      BY <1>1, <1>2, <1>6, <2>3 DEF AnchorsGenuine, TypeOK
    <2> QED BY <2>1, <2>2, <2>3 DEF AnchorsGenuine
  <1> QED BY <1>1, <1>2, <1>5, <1>7, AnchorStep DEF TypeOK

LEMMA AnchorStampInv ==
    ASSUME IInv, NEW a \in Anchorers, AnchorStamp(a) PROVE IInv'
  <1>0. PICK x : x = [pending[a] EXCEPT !.time = clock + 1]
    OBVIOUS
  <1>1. /\ UNCHANGED <<writing, verifying, damage>> /\ UNCHANGED <<objects, anchors, stored>>
        /\ clock' = clock + 1 /\ pending[a] # None /\ pending[a].time = 0 /\ counter' = counter
    BY DEF AnchorStamp, writing
  <1>2. TypeOK /\ AnchorsGenuine /\ CounterOnHead /\ clock \in Nat
    BY DEF IInv, TypeOK
  <1>3. pending' = [pending EXCEPT ![a] = x]
    BY <1>0, <1>2 DEF AnchorStamp, TypeOK
  <1>4. \A y : Genuine(y) => Genuine(y)'
    BY <1>1, <1>2, GenuineStays
  <1>5. Genuine(pending[a])
    BY <1>1, <1>2 DEF AnchorsGenuine
  <1>6. /\ x \in AnchorRows /\ x.time = clock + 1
        /\ x.seq = pending[a].seq /\ x.head = pending[a].head
    BY <1>0, <1>2, <1>5 DEF Genuine, AnchorRows
  <1>7. Genuine(x)'
    BY <1>1, <1>2, <1>5, <1>6 DEF Genuine, AnchorRows, Length, Prefix
  <1>8. pending' \in [Anchorers -> AnchorRows \cup {None}]
    BY <1>2, <1>3, <1>6 DEF TypeOK
  <1>9. ~stored[a]
    BY <1>1, <1>2 DEF AnchorsGenuine
  <1>10. AnchorsGenuine'
    <2>1. (\A y \in objects : Genuine(y))' /\ (anchors \subseteq objects)'
      BY <1>1, <1>2, <1>4 DEF AnchorsGenuine
    <2>2. ASSUME NEW b \in Anchorers, pending'[b] # None PROVE Genuine(pending[b])'
      <3>1. CASE b = a
        <4>1. pending'[b] = x
          BY <1>2, <1>3, <3>1 DEF TypeOK
        <4> QED BY <1>7, <4>1
      <3>2. CASE b # a
        <4>1. pending'[b] = pending[b]
          BY <1>2, <1>3, <3>2 DEF TypeOK
        <4>2. Genuine(pending[b])
          BY <1>2, <2>2, <4>1 DEF AnchorsGenuine
        <4> QED BY <1>4, <4>1, <4>2
      <3> QED BY <3>1, <3>2
    <2>3. ASSUME NEW b \in Anchorers, stored'[b]
          PROVE  pending'[b] # None /\ pending'[b].time # 0 /\ pending'[b] \in objects'
      BY <1>1, <1>2, <1>3, <1>9, <2>3 DEF AnchorsGenuine, TypeOK
    <2> QED BY <2>1, <2>2, <2>3 DEF AnchorsGenuine
  <1>11. objects' \subseteq AnchorRows /\ anchors' \subseteq AnchorRows
         /\ stored' \in [Anchorers -> BOOLEAN] /\ clock' \in Nat /\ clock <= clock'
    BY <1>1, <1>2 DEF TypeOK
  <1> QED BY <1>1, <1>8, <1>10, <1>11, AnchorStep

LEMMA AnchorPutInv ==
    ASSUME IInv, NEW a \in Anchorers, AnchorPut(a) PROVE IInv'
  <1>1. /\ UNCHANGED <<writing, verifying, damage>> /\ UNCHANGED <<anchors, clock, pending>>
        /\ objects' = objects \cup {pending[a]} /\ stored' = [stored EXCEPT ![a] = TRUE]
        /\ pending[a] # None /\ pending[a].time # 0 /\ counter' = counter
    BY DEF AnchorPut, writing
  <1>2. TypeOK /\ AnchorsGenuine /\ clock \in Nat
    BY DEF IInv, TypeOK
  <1>3. \A y : Genuine(y) => Genuine(y)'
    BY <1>1, <1>2, GenuineStays
  <1>4. Genuine(pending[a])
    BY <1>1, <1>2 DEF AnchorsGenuine
  <1>5. AnchorsGenuine'
    <2>1. ASSUME NEW y \in objects' PROVE Genuine(y)'
      BY <1>1, <1>2, <1>3, <1>4 DEF AnchorsGenuine
    <2>2. anchors' \subseteq objects' /\ \A b \in Anchorers : pending'[b] # None => Genuine(pending[b])'
      BY <1>1, <1>2, <1>3 DEF AnchorsGenuine
    <2>3. ASSUME NEW b \in Anchorers, stored'[b]
          PROVE  pending'[b] # None /\ pending'[b].time # 0 /\ pending'[b] \in objects'
      <3>1. CASE b = a
        BY <1>1, <3>1
      <3>2. CASE b # a
        BY <1>1, <1>2, <2>3, <3>2 DEF AnchorsGenuine, TypeOK
      <3> QED BY <3>1, <3>2
    <2> QED BY <2>1, <2>2, <2>3 DEF AnchorsGenuine
  <1>6. /\ objects' \subseteq AnchorRows /\ anchors' \subseteq AnchorRows
        /\ stored' \in [Anchorers -> BOOLEAN] /\ clock' \in Nat /\ clock <= clock'
        /\ pending' \in [Anchorers -> AnchorRows \cup {None}]
    BY <1>1, <1>2, <1>4 DEF TypeOK, Genuine
  <1> QED BY <1>1, <1>5, <1>6, AnchorStep

\* Saving and giving up both end the work on the anchor; only the first adds a row, and it
\* is one that is in the bucket.
LEMMA AnchorEnds ==
    ASSUME IInv, NEW a \in Anchorers, SaveAnchor(a) \/ AnchorFails(a) PROVE IInv'
  <1>1. TypeOK /\ AnchorsGenuine /\ clock \in Nat
    BY DEF IInv, TypeOK
  <1>2. /\ UNCHANGED <<writing, verifying, damage>> /\ UNCHANGED <<objects, clock>>
        /\ pending' = [pending EXCEPT ![a] = None] /\ stored' = [stored EXCEPT ![a] = FALSE]
        /\ counter' = counter
    BY DEF SaveAnchor, AnchorFails, writing
  <1>3. anchors' \subseteq objects /\ anchors' \subseteq AnchorRows
    <2>1. CASE SaveAnchor(a)
      BY <1>1, <2>1 DEF SaveAnchor, Saveable, AnchorsGenuine, TypeOK
    <2>2. CASE AnchorFails(a)
      BY <1>1, <2>2 DEF AnchorFails, AnchorsGenuine, TypeOK
    <2> QED BY <2>1, <2>2
  <1>4. \A y : Genuine(y) => Genuine(y)'
    BY <1>1, <1>2, GenuineStays
  <1>5. /\ objects' \subseteq AnchorRows
        /\ stored' \in [Anchorers -> BOOLEAN] /\ clock' \in Nat /\ clock <= clock'
        /\ pending' \in [Anchorers -> AnchorRows \cup {None}]
    BY <1>1, <1>2 DEF TypeOK
  <1>6. AnchorsGenuine'
    <2>1. (\A y \in objects : Genuine(y))' /\ anchors' \subseteq objects'
      BY <1>1, <1>2, <1>3, <1>4 DEF AnchorsGenuine
    <2>2. ASSUME NEW b \in Anchorers
          PROVE  \/ pending'[b] = None /\ ~stored'[b]
                 \/ pending'[b] = pending[b] /\ stored'[b] = stored[b]
      BY <1>1, <1>2 DEF TypeOK
    <2>3. ASSUME NEW b \in Anchorers, pending'[b] # None PROVE Genuine(pending[b])'
      <3>1. pending'[b] = pending[b] /\ Genuine(pending[b])
        BY <1>1, <2>2, <2>3 DEF AnchorsGenuine
      <3> QED BY <1>4, <3>1
    <2>4. ASSUME NEW b \in Anchorers, stored'[b]
          PROVE  pending'[b] # None /\ pending'[b].time # 0 /\ pending'[b] \in objects'
      <3>1. pending'[b] = pending[b] /\ stored[b]
        BY <2>2, <2>4
      <3>2. pending[b] # None /\ pending[b].time # 0 /\ pending[b] \in objects
        BY <1>1, <3>1 DEF AnchorsGenuine
      <3> QED BY <1>2, <3>1, <3>2
    <2> QED BY <2>1, <2>3, <2>4 DEF AnchorsGenuine
  <1> QED BY <1>2, <1>3, <1>5, <1>6, AnchorStep

----------------------------------------------------------------------------
(* VerifyAgainstAnchor and Verify. *)

\* What the other verifications have stays right.
LEMMA OthersStay ==
    ASSUME IInv, UNCHANGED <<writing, anchoring, damage>>
    PROVE  /\ Stored
           /\ \A x : Genuine(x) => Genuine(x)'
           /\ \A f, s : Complete(f, s) => Complete(f, s)'
           /\ \A rep : Right(rep) => Right(rep)'
  <1>1. \A x : Genuine(x) => Genuine(x)'
    BY GenuineStays DEF IInv, TypeOK, writing, anchoring
  <1>2. \A f, s : Complete(f, s) => Complete(f, s)'
    BY DEF Complete, writing
  <1>3. \A rep : Right(rep) => Right(rep)'
    BY DEF Right
  <1>4. Stored
    BY DEF Stored, IInv, TypeOK
  <1> QED BY <1>1, <1>2, <1>3, <1>4

\* There is a latest anchor: times are bounded by the clock.
LEMMA LatestIsAnchor ==
    ASSUME IInv, LatestAnchor # None
    PROVE  Genuine(LatestAnchor)
  <1>1. anchors # {} /\ clock \in Nat
    BY DEF LatestAnchor, IInv, TypeOK
  <1>2. \A x \in anchors : Genuine(x) /\ x.time \in Nat /\ x.time <= clock
    BY DEF IInv, AnchorsGenuine, Genuine, AnchorRows
  <1> DEFINE ages == {clock - x.time : x \in anchors}
  <1>3. PICK k \in ages : \A m \in ages : k <= m
    <2>1. ages \in SUBSET Nat /\ ages # {}
      BY <1>1, <1>2
    <2> HIDE DEF ages
    <2> QED BY <2>1, Least
  <1>4. \E x \in anchors : \A y \in anchors : y.time <= x.time
    <2>1. PICK x \in anchors : k = clock - x.time
      BY <1>3
    <2>2. ASSUME NEW y \in anchors PROVE y.time <= x.time
      <3>1. clock - x.time <= clock - y.time
        BY <1>3, <2>1
      <3>2. x.time \in Nat /\ y.time \in Nat
        BY <1>2
      <3> QED BY <1>1, <3>1, <3>2
    <2> QED BY <2>2
  <1>5. LatestAnchor \in anchors
    BY <1>1, <1>4 DEF LatestAnchor
  <1> QED BY <1>2, <1>5

\* One verification moves on: it suffices that what it holds now is right.
LEMMA VerifyStep ==
    ASSUME IInv, UNCHANGED <<writing, anchoring, damage>>, NEW v \in Verifiers,
           NEW pc \in {"idle", "get", "range", "prev"}, NEW x \in AnchorRows \cup {None},
           NEW rep \in Reports \cup {None}, NEW sp,
           vpc' = [vpc EXCEPT ![v] = pc], ref' = [ref EXCEPT ![v] = x],
           report' = [report EXCEPT ![v] = rep], span' = [span EXCEPT ![v] = sp],
           pc = "get" => Genuine(x), rep # None => Right(rep),
           pc # "prev" => sp = None,
           pc = "prev" => sp \in Spans /\ sp.from > 1 /\ Complete(sp.from, sp.rows)
    PROVE  IInv'
  <1>1. TypeOK /\ VerifiersRead /\ ReportsRight
    BY DEF IInv
  <1>2. /\ \A y : Genuine(y) => Genuine(y)'
        /\ \A f, s : Complete(f, s) => Complete(f, s)'
        /\ \A r : Right(r) => Right(r)'
    BY OthersStay
  <1>3. /\ vpc'[v] = pc /\ ref'[v] = x /\ report'[v] = rep /\ span'[v] = sp
        /\ \A u \in Verifiers : u # v => /\ vpc'[u] = vpc[u] /\ ref'[u] = ref[u]
                                         /\ report'[u] = report[u] /\ span'[u] = span[u]
    BY <1>1 DEF TypeOK
  <1>4. CounterOnHead' /\ RecordsOnChain'
    BY StoredStays DEF IInv, writing
  <1>5. DraftsOnHead' /\ AnchorsGenuine'
    BY <1>2, DraftsStay, AnchorsStay DEF IInv, writing
  <1>6. VerifiersRead'
    <2> SUFFICES ASSUME NEW u \in Verifiers
                 PROVE  /\ vpc'[u] = "get" => Genuine(ref[u])'
                        /\ vpc'[u] = "prev" => span'[u].from > 1
                                               /\ Complete(span[u].from, span[u].rows)'
      BY DEF VerifiersRead
    <2>1. CASE u = v
      BY <1>2, <1>3, <2>1
    <2>2. CASE u # v
      BY <1>1, <1>2, <1>3, <2>2 DEF VerifiersRead
    <2> QED BY <2>1, <2>2
  <1>7. ReportsRight'
    <2> SUFFICES ASSUME NEW u \in Verifiers, report'[u] # None PROVE Right(report[u])'
      BY DEF ReportsRight
    <2>1. CASE u = v
      BY <1>2, <1>3, <2>1
    <2>2. CASE u # v
      BY <1>1, <1>2, <1>3, <2>2 DEF ReportsRight
    <2> QED BY <2>1, <2>2
  <1>8. TypeOK'
    <2>1. /\ vpc' \in [Verifiers -> {"idle", "get", "range", "prev"}]
          /\ ref' \in [Verifiers -> AnchorRows \cup {None}]
          /\ report' \in [Verifiers -> Reports \cup {None}]
      BY <1>1 DEF TypeOK
    <2>2. span' \in [Verifiers -> Spans \cup {None}]
      BY <1>1 DEF TypeOK
    <2>3. \A u \in Verifiers : IF vpc'[u] = "prev" THEN span'[u] \in Spans ELSE span'[u] = None
      BY <1>1, <1>3 DEF TypeOK
    <2> QED BY <1>1, <2>1, <2>2, <2>3 DEF TypeOK, writing, anchoring
  <1> QED BY <1>4, <1>5, <1>6, <1>7, <1>8 DEF IInv

LEMMA VerifyStartInv ==
    ASSUME IInv, NEW v \in Verifiers, VerifyStart(v) PROVE IInv'
  <1>0. PICK x : x = LatestAnchor
    OBVIOUS
  <1> DEFINE pc == IF x = None THEN "range" ELSE "get"
  <1>1. /\ UNCHANGED <<writing, anchoring, damage>> /\ span' = span /\ vpc[v] = "idle"
        /\ ref' = [ref EXCEPT ![v] = x] /\ report' = [report EXCEPT ![v] = None]
        /\ vpc' = [vpc EXCEPT ![v] = pc]
    BY <1>0 DEF VerifyStart
  <1>2. x # None => Genuine(x) /\ x \in AnchorRows
    BY <1>0, LatestIsAnchor DEF Genuine
  <1>3. span' = [span EXCEPT ![v] = None]
    BY <1>1 DEF IInv, TypeOK
  <1>4. pc \in {"idle", "get", "range", "prev"} /\ pc # "prev" /\ (pc = "get" => Genuine(x))
    BY <1>2
  <1> HIDE DEF pc
  <1> QED BY <1>1, <1>2, <1>3, <1>4, VerifyStep

\* The record an anchor names is there unless something was done to the records.
LEMMA VerifyGetInv ==
    ASSUME IInv, NEW v \in Verifiers, VerifyGet(v) PROVE IInv'
  <1> DEFINE held == \E r \in records : r.seq = ref[v].seq /\ r.hash = ref[v].head
             pc == IF held THEN "range" ELSE "idle"
             rep == IF held THEN None ELSE [valid |-> FALSE, from |-> 1, to |-> ref[v].seq]
  <1>1. /\ UNCHANGED <<writing, anchoring, damage>> /\ ref' = ref /\ span' = span
        /\ vpc[v] = "get"
        /\ vpc' = [vpc EXCEPT ![v] = pc] /\ report' = [report EXCEPT ![v] = rep]
    BY DEF VerifyGet
  <1>2. TypeOK /\ Genuine(ref[v]) /\ Stored
    BY <1>1, OthersStay DEF IInv, VerifiersRead
  <1>3. ref' = [ref EXCEPT ![v] = ref[v]] /\ span' = [span EXCEPT ![v] = None]
    BY <1>1, <1>2 DEF TypeOK
  <1>4. ref[v] \in AnchorRows /\ ref[v].seq \in Nat
    BY <1>2 DEF Genuine, AnchorRows
  <1>5. rep \in Reports \cup {None} /\ pc \in {"idle", "get", "range", "prev"} /\ pc # "prev" /\ pc # "get"
    BY <1>4 DEF Reports
  <1>6. damage.kind = "none" => held
    <2> SUFFICES ASSUME damage.kind = "none" PROVE held
      OBVIOUS
    <2>1. PICK r \in records : r.seq = ref[v].seq
      BY <1>2 DEF Genuine, Stored, RecordsOnChain, Missing
    <2>2. r.hash = ref[v].head
      BY <1>2, <2>1, RecordIs DEF Genuine
    <2> QED BY <2>1, <2>2
  <1>7. rep # None => Right(rep)
    BY <1>6 DEF Right
  <1>8. PICK x : x = ref[v]
    OBVIOUS
  <1>9. PICK q, r : q = pc /\ r = rep
    OBVIOUS
  <1> HIDE DEF pc, rep
  <1>10. Right(r) <=> Right(rep)
    BY <1>9 DEF Right
  <1> QED BY <1>1, <1>3, <1>4, <1>5, <1>7, <1>8, <1>9, <1>10, VerifyStep

\* A run from the start is judged at once; any other waits for the record before it.
LEMMA VerifyRangeInv ==
    ASSUME IInv, NEW v \in Verifiers, NEW from \in 1..MaxRecords, NEW to \in 0..MaxRecords,
           VerifyRange(v, from, to)
    PROVE  IInv'
  <1>0. PICK s : s = ReadRange(from, to)
    OBVIOUS
  <1>1. /\ UNCHANGED <<writing, anchoring, damage>> /\ ref' = ref
        /\ vpc[v] \in {"idle", "range"}
        /\ \/ /\ from = 1 \/ s = <<>>
              /\ report' = [report EXCEPT ![v] = Report(from, s, ZeroChainHash)]
              /\ vpc' = [vpc EXCEPT ![v] = "idle"]
              /\ span' = span
           \/ /\ from # 1 /\ s # <<>>
              /\ report' = [report EXCEPT ![v] = None]
              /\ vpc' = [vpc EXCEPT ![v] = "prev"]
              /\ span' = [span EXCEPT ![v] = [from |-> from, rows |-> s]]
    BY <1>0 DEF VerifyRange
  <1>2. TypeOK /\ Stored /\ from \in Nat \ {0} /\ to \in Nat
    BY <1>1, OthersStay, BoundsAssumption DEF IInv
  <1>3. s \in Seq(records) /\ (s # <<>> => Complete(from, s))
    BY <1>0, <1>2, ReadIsComplete
  <1>4. PICK x \in AnchorRows \cup {None} : ref' = [ref EXCEPT ![v] = x]
    BY <1>1, <1>2 DEF TypeOK
  <1>5. CASE from = 1 \/ s = <<>>
    <2>1. PICK rep : rep = Report(from, s, ZeroChainHash)
      OBVIOUS
    <2>2. rep \in Reports /\ Right(rep)
      <3>1. CASE s = <<>>
        BY <1>2, <2>1, <3>1, EmptyIsRight
      <3>2. CASE s # <<>>
        <4>1. from = 1 /\ Complete(from, s) /\ Prefix(0) = ZeroChainHash
          BY <1>2, <1>3, <1>5, <3>2, PrefixEnds DEF Stored
        <4>2. Prefix(from - 1) = ZeroChainHash
          BY <4>1
        <4> QED BY <1>2, <2>1, <4>1, <4>2, ReportIsRight
      <3> QED BY <3>1, <3>2
    <2>3. /\ report' = [report EXCEPT ![v] = rep] /\ vpc' = [vpc EXCEPT ![v] = "idle"]
          /\ span' = [span EXCEPT ![v] = None]
      BY <1>1, <1>2, <1>5, <2>1 DEF TypeOK
    <2> QED BY <1>1, <1>4, <2>2, <2>3, VerifyStep
  <1>6. CASE from # 1 /\ s # <<>>
    <2>1. PICK sp : sp = [from |-> from, rows |-> s]
      OBVIOUS
    <2>2. s \in Seq(Rows)
      <3>1. records \subseteq Rows
        BY <1>2 DEF Stored
      <3>2. \A i \in 1..Len(s) : s[i] \in Rows
        BY <1>3, <3>1
      <3> QED BY <1>3, <3>2
    <2>3. sp \in Spans /\ sp.from > 1 /\ Complete(sp.from, sp.rows)
      BY <1>2, <1>3, <1>6, <2>1, <2>2 DEF Spans
    <2>4. /\ report' = [report EXCEPT ![v] = None] /\ vpc' = [vpc EXCEPT ![v] = "prev"]
          /\ span' = [span EXCEPT ![v] = sp]
      BY <1>1, <1>6, <2>1
    <2> QED BY <1>1, <1>4, <2>3, <2>4, VerifyStep
  <1> QED BY <1>5, <1>6

LEMMA VerifyPrevInv ==
    ASSUME IInv, NEW v \in Verifiers, VerifyPrev(v) PROVE IInv'
  <1>0. PICK from, s : from = span[v].from /\ s = span[v].rows
    OBVIOUS
  <1>1. /\ UNCHANGED <<writing, anchoring, damage>> /\ ref' = ref /\ vpc[v] = "prev"
        /\ vpc' = [vpc EXCEPT ![v] = "idle"] /\ span' = [span EXCEPT ![v] = None]
        /\ \/ \E r \in records : /\ r.seq = from - 1
                                 /\ report' = [report EXCEPT ![v] = Report(from, s, r.hash)]
           \/ report' = report
    BY <1>0 DEF VerifyPrev
  <1>2. TypeOK /\ Stored /\ ReportsRight
    BY <1>1, OthersStay DEF IInv
  <1>3. from \in Nat \ {0} /\ from > 1 /\ Complete(from, s)
    BY <1>0, <1>1, <1>2 DEF IInv, VerifiersRead, TypeOK, Spans
  <1>4. PICK x \in AnchorRows \cup {None} : ref' = [ref EXCEPT ![v] = x]
    BY <1>1, <1>2 DEF TypeOK
  <1>5. \E rep \in Reports \cup {None} :
          report' = [report EXCEPT ![v] = rep] /\ (rep # None => Right(rep))
    <2>1. CASE report' = report
      BY <1>2, <2>1 DEF TypeOK, ReportsRight
    <2>2. ASSUME NEW r \in records, r.seq = from - 1,
                 report' = [report EXCEPT ![v] = Report(from, s, r.hash)]
          PROVE  \E rep \in Reports \cup {None} :
                   report' = [report EXCEPT ![v] = rep] /\ (rep # None => Right(rep))
      <3>1. r.hash = Prefix(from - 1)
        BY <1>2, <2>2, RecordIs
      <3>2. Report(from, s, r.hash) \in Reports /\ Right(Report(from, s, r.hash))
        BY <1>2, <1>3, <2>2, <3>1, ReportIsRight
      <3> QED BY <2>2, <3>2
    <2> QED BY <1>1, <2>1, <2>2
  <1>6. PICK rep \in Reports \cup {None} :
          report' = [report EXCEPT ![v] = rep] /\ (rep # None => Right(rep))
    BY <1>5
  <1> QED BY <1>1, <1>4, <1>6, VerifyStep

----------------------------------------------------------------------------
(* From outside. *)

\* Nothing is being verified, so the records are all there is to show.
LEMMA OutsideStep ==
    ASSUME IInv, NEW rows, NEW kind \in {"detached", "altered", "lost"}, NEW n \in Nat,
           Outside(rows, kind, n), rows \subseteq Rows, RecordsOnChain'
    PROVE  IInv'
  <1>1. /\ UNCHANGED <<counter, holder, draft, anchoring, vpc, ref, span>>
        /\ records' = rows /\ report' = [v \in Verifiers |-> None]
        /\ damage' = [kind |-> kind, seq |-> n] /\ \A v \in Verifiers : vpc[v] = "idle"
    BY DEF Outside
  <1>2. CounterOnHead'
    BY <1>1 DEF IInv, CounterOnHead, Length
  <1>3. \A x : Genuine(x) => Genuine(x)'
    BY <1>1, GenuineStays DEF IInv, TypeOK, anchoring
  <1>4. DraftsOnHead' /\ AnchorsGenuine'
    BY <1>1, <1>3, DraftsStay, AnchorsStay DEF IInv
  <1>5. VerifiersRead' /\ ReportsRight'
    BY <1>1 DEF VerifiersRead, ReportsRight
  <1>6. TypeOK'
    BY <1>1 DEF IInv, TypeOK, anchoring
  <1> QED BY <1>2, <1>4, <1>5, <1>6 DEF IInv

\* An undamaged store, and what the outside does to it.
LEMMA Undamaged ==
    ASSUME IInv, damage.kind = "none"
    PROVE  /\ records \subseteq Rows /\ IsFiniteSet(records) /\ Length \in Nat
           /\ \A x \in records : /\ x.seq \in 1..Length /\ x.prev = Prefix(x.seq - 1)
                                 /\ x.hash = Prefix(x.seq) /\ x.payload = counter.head[x.seq][2]
           /\ \A x, y \in records : x.seq = y.seq => x = y
           /\ \A n \in 1..Length : \E x \in records : x.seq = n
  BY PrefixEnds DEF IInv, TypeOK, RecordsOnChain, OnChain, Missing, Altered

LEMMA DetachInv ==
    ASSUME IInv, NEW r \in records, Detach(r) PROVE IInv'
  <1> DEFINE rows == { x \in records : x.seq > r.seq }
  <1>1. /\ Outside(rows, "detached", r.seq) /\ damage.kind = "none" /\ records' = rows
        /\ damage' = [kind |-> "detached", seq |-> r.seq] /\ counter' = counter
    BY DEF Detach, Outside
  <1>2. /\ records \subseteq Rows /\ IsFiniteSet(records) /\ Length \in Nat
        /\ \A x \in records : /\ x.seq \in 1..Length /\ x.prev = Prefix(x.seq - 1)
                              /\ x.hash = Prefix(x.seq) /\ x.payload = counter.head[x.seq][2]
        /\ \A x, y \in records : x.seq = y.seq => x = y
        /\ \A n \in 1..Length : \E x \in records : x.seq = n
    BY <1>1, Undamaged
  <1>3. Length' = Length /\ \A n : Prefix(n)' = Prefix(n)
    BY <1>1 DEF Length, Prefix
  <1>4. IsFiniteSet(rows) /\ rows \subseteq Rows /\ r.seq \in Nat
    BY <1>2, FS_Subset
  <1>5. \A n : Missing(n)' <=> n <= r.seq
    BY <1>1 DEF Missing
  <1>6. \A n : ~Altered(n)'
    BY <1>1 DEF Altered
  <1>7. \A x \in rows : OnChain(x)'
    <2> TAKE x \in rows
    <2>1. ~(x.seq <= r.seq) /\ x \in records
      BY <1>2
    <2> QED BY <1>1, <1>2, <1>3, <1>5, <1>6, <2>1 DEF OnChain
  <1>8. \A n \in 1..Length : ~(n <= r.seq) => \E x \in rows : x.seq = n
    BY <1>2, <1>4
  <1>9. RecordsOnChain'
    BY <1>1, <1>2, <1>3, <1>4, <1>5, <1>7, <1>8 DEF RecordsOnChain
  <1> QED BY <1>1, <1>4, <1>9, OutsideStep

LEMMA LoseInv ==
    ASSUME IInv, NEW r \in records, Lose(r) PROVE IInv'
  <1> DEFINE rows == records \ {r}
  <1>1. /\ Outside(rows, "lost", r.seq) /\ damage.kind = "none" /\ records' = rows
        /\ damage' = [kind |-> "lost", seq |-> r.seq] /\ counter' = counter
    BY DEF Lose, Outside
  <1>2. /\ records \subseteq Rows /\ IsFiniteSet(records) /\ Length \in Nat
        /\ \A x \in records : /\ x.seq \in 1..Length /\ x.prev = Prefix(x.seq - 1)
                              /\ x.hash = Prefix(x.seq) /\ x.payload = counter.head[x.seq][2]
        /\ \A x, y \in records : x.seq = y.seq => x = y
        /\ \A n \in 1..Length : \E x \in records : x.seq = n
    BY <1>1, Undamaged
  <1>3. Length' = Length /\ \A n : Prefix(n)' = Prefix(n)
    BY <1>1 DEF Length, Prefix
  <1>4. IsFiniteSet(rows) /\ rows \subseteq Rows /\ r.seq \in Nat
    BY <1>2, FS_Subset
  <1>5. \A n : Missing(n)' <=> n = r.seq
    BY <1>1 DEF Missing
  <1>6. \A n : ~Altered(n)'
    BY <1>1 DEF Altered
  <1>7. \A x \in rows : OnChain(x)'
    <2> TAKE x \in rows
    <2>1. x.seq # r.seq /\ x \in records
      BY <1>2
    <2> QED BY <1>1, <1>2, <1>3, <1>5, <1>6, <2>1 DEF OnChain
  <1>8. \A n \in 1..Length : n # r.seq => \E x \in rows : x.seq = n
    BY <1>2
  <1>9. RecordsOnChain'
    BY <1>1, <1>2, <1>3, <1>4, <1>5, <1>7, <1>8 DEF RecordsOnChain
  <1> QED BY <1>1, <1>4, <1>9, OutsideStep

\* The record keeps its place and its links; only its payload is no longer the one that
\* its hash covers.
LEMMA AlterInv ==
    ASSUME IInv, NEW r \in records, NEW p \in Payloads, Alter(r, p) PROVE IInv'
  <1>0. PICK y : y = [r EXCEPT !.payload = p]
    OBVIOUS
  <1> DEFINE rows == (records \ {r}) \cup {y}
  <1>1. /\ Outside(rows, "altered", r.seq) /\ damage.kind = "none" /\ records' = rows
        /\ damage' = [kind |-> "altered", seq |-> r.seq] /\ counter' = counter /\ p # r.payload
    BY <1>0 DEF Alter, Outside
  <1>2. /\ records \subseteq Rows /\ IsFiniteSet(records) /\ Length \in Nat
        /\ \A x \in records : /\ x.seq \in 1..Length /\ x.prev = Prefix(x.seq - 1)
                              /\ x.hash = Prefix(x.seq) /\ x.payload = counter.head[x.seq][2]
        /\ \A x, z \in records : x.seq = z.seq => x = z
        /\ \A n \in 1..Length : \E x \in records : x.seq = n
    BY <1>1, Undamaged
  <1>3. Length' = Length /\ \A n : Prefix(n)' = Prefix(n)
    BY <1>1 DEF Length, Prefix
  <1>4. /\ y \in Rows /\ y.seq = r.seq /\ y.prev = r.prev /\ y.hash = r.hash /\ y.payload = p
        /\ r.seq \in Nat
    BY <1>0, <1>2 DEF Rows
  <1>5. IsFiniteSet(rows) /\ rows \subseteq Rows
    <2>1. IsFiniteSet(records \ {r})
      BY <1>2, FS_Subset
    <2> QED BY <1>2, <1>4, <2>1, FS_AddElement
  <1>6. \A n : ~Missing(n)'
    BY <1>1 DEF Missing
  <1>7. \A n : Altered(n)' <=> n = r.seq
    BY <1>1 DEF Altered
  <1>8. \A x \in rows : OnChain(x)'
    <2> TAKE x \in rows
    <2>1. CASE x = y
      BY <1>1, <1>2, <1>3, <1>4, <1>6, <1>7, <2>1 DEF OnChain
    <2>2. CASE x # y
      <3>1. x \in records /\ x.seq # r.seq
        BY <1>2, <2>2
      <3> QED BY <1>1, <1>2, <1>3, <1>6, <1>7, <3>1 DEF OnChain
    <2> QED BY <2>1, <2>2
  <1>9. \A n \in 1..Length : \E x \in rows : x.seq = n
    BY <1>2, <1>4
  <1>10. \A x, z \in rows : x.seq = z.seq => x = z
    BY <1>2, <1>4
  <1>11. RecordsOnChain'
    BY <1>1, <1>2, <1>3, <1>5, <1>8, <1>9, <1>10 DEF RecordsOnChain
  <1> QED BY <1>1, <1>4, <1>5, <1>11, OutsideStep

----------------------------------------------------------------------------
(* The theorems. *)

LEMMA NextInv == IInv /\ [Next]_vars => IInv'
  <1> SUFFICES ASSUME IInv, [Next]_vars PROVE IInv'
    OBVIOUS
  <1>1. CASE UNCHANGED vars
    <2>1. UNCHANGED <<counter, records, anchoring, verifying, damage>>
          /\ UNCHANGED <<holder, draft>>
      BY <1>1 DEF vars, anchoring, verifying
    <2>2. DraftsOnHead'
      BY <2>1, DraftsStay DEF IInv
    <2> QED BY <2>1, <2>2, DraftStep DEF IInv, TypeOK
  <1>2. ASSUME NEW t \in Txs,
               \/ NextSequence(t) \/ CommitTx(t) \/ RollbackTx(t)
               \/ \E p \in Payloads : AppendRecord(t, p)
        PROVE  IInv'
    BY <1>2, NextSequenceInv, AppendRecordInv, CommitTxInv, RollbackTxInv
  <1>3. ASSUME NEW a \in Anchorers,
               \/ AnchorHead(a) \/ AnchorStamp(a) \/ AnchorPut(a)
               \/ SaveAnchor(a) \/ AnchorFails(a)
        PROVE  IInv'
    BY <1>3, AnchorHeadInv, AnchorStampInv, AnchorPutInv, AnchorEnds
  <1>4. ASSUME NEW v \in Verifiers,
               \/ VerifyStart(v) \/ VerifyGet(v) \/ VerifyPrev(v)
               \/ \E from \in 1..MaxRecords, to \in 0..MaxRecords : VerifyRange(v, from, to)
        PROVE  IInv'
    BY <1>4, VerifyStartInv, VerifyGetInv, VerifyRangeInv, VerifyPrevInv
  <1>5. ASSUME NEW r \in records, Detach(r) \/ Lose(r) \/ \E p \in Payloads : Alter(r, p)
        PROVE  IInv'
    BY <1>5, DetachInv, LoseInv, AlterInv
  <1> QED BY <1>1, <1>2, <1>3, <1>4, <1>5 DEF Next

LEMMA Inductive == Spec => []IInv
  BY InitInv, NextInv, PTL DEF Spec

\* Every variable keeps its type, and only the holder of the counter row has written a
\* record (Append).
THEOREM TypeCorrect == Spec => []TypeOK
  <1>1. IInv => TypeOK
    BY DEF IInv
  <1> QED BY <1>1, Inductive, PTL

\* Whichever transactions interleave and roll back, the committed records form one chain
\* without a gap from genesis to the counter's head (NextSequence, Seal, AdvanceHead).
THEOREM ChainStaysIntact == Spec => []ChainIntact
  <1>1. IInv => ChainIntact
    <2> SUFFICES ASSUME IInv, damage.kind = "none"
                 PROVE  LET s == InOrder(records)
                        IN /\ Len(s) = counter.next - 1
                           /\ \A i \in 1..Len(s) :
                                s[i] = Record(i, IF i = 1 THEN ZeroChainHash ELSE s[i - 1].hash,
                                              s[i].payload)
                           /\ counter.head = IF s = <<>> THEN ZeroChainHash ELSE s[Len(s)].hash
      BY DEF ChainIntact
    <2> DEFINE s == InOrder(records)
    <2>1. Stored /\ CounterOnHead
      BY DEF IInv, TypeOK, Stored
    <2>2. counter.next = Length + 1 /\ Length \in Nat /\ Prefix(Length) = counter.head
          /\ Prefix(0) = ZeroChainHash
      BY <2>1, PrefixEnds DEF CounterOnHead
    <2>3. Numbered(records)
      BY <2>1, RecordIs DEF Numbered, Stored, RecordsOnChain
    <2>4. /\ s \in Seq(records) /\ Ascending(s) /\ Len(s) \in Nat
          /\ \A x \in records : \E i \in 1..Len(s) : s[i] = x
          /\ s = <<>> <=> records = {}
      BY <2>3, Ordered
    <2>5. \A n \in 1..Length : \E x \in records : x.seq = n
      BY DEF IInv, RecordsOnChain, Missing
    <2>6. \A x \in records : x.seq \in 1..Length /\ x.seq \in Nat
      BY <2>1, RecordIs
    <2> HIDE DEF s
    <2>7. CASE s = <<>>
      <3>1. Length = 0
        BY <2>2, <2>4, <2>5, <2>7
      <3>2. Len(s) = 0
        BY <2>7
      <3> QED BY <2>2, <2>7, <3>1, <3>2 DEF s
    <2>8. CASE s # <<>>
      <3>1. \A i \in 1..Len(s) : s[i] \in records /\ s[i].seq >= 1
        BY <2>4, <2>6
      <3>2. Complete(1, s) /\ 1 \in 1..Len(s) /\ Len(s) \in 1..Len(s)
        BY <2>4, <2>8, <3>1 DEF Complete
      <3>3. s[1].seq = 1
        <4>1. PICK x \in records : x.seq = 1
          BY <2>2, <2>5, <2>6, <3>1, <3>2
        <4>2. PICK i \in 1..Len(s) : s[i] = x
          BY <2>4, <4>1
        <4>3. ~(1 < i)
          BY <2>6, <3>1, <3>2, <4>1, <4>2 DEF Complete, Ascending
        <4> QED BY <4>1, <4>2, <4>3
      <3>4. \A i \in 1..Len(s) : s[i].seq = i
        <4>1. 1 \in Nat \ {0} /\ damage.kind \in {"none", "detached"}
          OBVIOUS
        <4>2. \A i \in 1..Len(s) : s[i].seq = 1 + i - 1
          BY <2>1, <3>2, <3>3, <4>1, Consecutive
        <4> QED BY <2>4, <4>2
      <3>5. Len(s) = Length
        <4>1. Len(s) <= Length
          <5>1. s[Len(s)].seq = Len(s) /\ s[Len(s)].seq \in 1..Length
            BY <2>6, <3>1, <3>2, <3>4
          <5> QED BY <2>2, <2>4, <5>1
        <4>2. PICK x \in records : x.seq = Length
          BY <2>2, <2>4, <2>5, <3>2, <4>1
        <4>3. PICK i \in 1..Len(s) : s[i] = x
          BY <2>4, <4>2
        <4>4. i = Length
          BY <3>4, <4>2, <4>3
        <4> QED BY <2>2, <2>4, <4>1, <4>3, <4>4
      <3>6. \A i \in 1..Len(s) : s[i].prev = Prefix(i - 1) /\ s[i].hash = Prefix(i)
        BY <2>1, <3>1, <3>4, RecordIs
      <3>7. ASSUME NEW i \in 1..Len(s)
            PROVE  s[i] = Record(i, IF i = 1 THEN ZeroChainHash ELSE s[i - 1].hash, s[i].payload)
        <4>1. s[i].prev = IF i = 1 THEN ZeroChainHash ELSE s[i - 1].hash
          <5>1. CASE i = 1
            BY <2>2, <3>6, <5>1
          <5>2. CASE i # 1
            <6>1. i - 1 \in 1..Len(s)
              BY <2>4, <5>2
            <6> QED BY <3>6, <5>2, <6>1
          <5> QED BY <5>1, <5>2
        <4>2. s[i].hash = Chain(s[i].prev, <<i, s[i].payload>>)
          <5>1. ~Altered(s[i].seq)
            BY DEF Altered
          <5> QED BY <2>1, <3>1, <3>4, <5>1, RecordIs
        <4>3. s[i] \in Rows /\ s[i].seq = i
          BY <2>1, <3>1, <3>4 DEF Stored
        <4>4. s[i] = [seq |-> i, prev |-> s[i].prev, payload |-> s[i].payload, hash |-> s[i].hash]
          BY <4>3 DEF Rows
        <4> QED BY <4>1, <4>2, <4>4 DEF Record
      <3>8. counter.head = s[Len(s)].hash
        BY <2>2, <3>2, <3>5, <3>6
      <3> QED BY <2>2, <2>8, <3>5, <3>7, <3>8 DEF s
    <2> QED BY <2>7, <2>8
  <1> QED BY <1>1, Inductive, PTL

\* A saved anchor is in the write-once bucket and names a record of the chain by its hash:
\* Anchor reads a committed counter row and saves after PutAt.
THEOREM AnchorsStayOnChain == Spec => []AnchorsOnChain
  <1>1. IInv => AnchorsOnChain
    <2> SUFFICES ASSUME IInv, NEW x \in anchors
                 PROVE  /\ x \in objects
                        /\ damage.kind = "none" =>
                             \E r \in records : r.seq = x.seq /\ r.hash = x.head
      BY DEF AnchorsOnChain
    <2>1. x \in objects /\ Genuine(x)
      BY DEF IInv, AnchorsGenuine
    <2>2. ASSUME damage.kind = "none"
          PROVE  \E r \in records : r.seq = x.seq /\ r.hash = x.head
      <3>1. Stored
        BY DEF IInv, TypeOK, Stored
      <3>2. PICK r \in records : r.seq = x.seq
        BY <2>1, <2>2 DEF Genuine, IInv, RecordsOnChain, Missing
      <3>3. r.hash = x.head
        BY <2>1, <3>1, <3>2, RecordIs DEF Genuine
      <3> QED BY <3>2, <3>3
    <2> QED BY <2>1, <2>2
  <1> QED BY <1>1, Inductive, PTL

\* Verification never calls an undamaged chain invalid, whatever is appended, rolled back
\* and anchored between its reads (VerifyAgainstAnchor, Verify).
THEOREM NeverFalseAlarm == Spec => []NoFalseAlarm
  <1>1. IInv => NoFalseAlarm
    <2> SUFFICES ASSUME IInv, NEW v \in Verifiers, report[v] # None
                 PROVE  report[v].valid \/ damage.kind \in {"altered", "lost"}
                          \/ (damage.kind = "detached" /\ report[v].from = 1)
      BY DEF NoFalseAlarm
    <2>1. Right(report[v])
      BY DEF IInv, ReportsRight
    <2>2. damage.kind \in {"none", "detached", "altered", "lost"}
      BY DEF IInv, TypeOK
    <2> QED BY <2>1, <2>2 DEF Right
  <1> QED BY <1>1, Inductive, PTL

\* A report that says valid covers neither an altered record nor a hole: the three checks of
\* VerifyChain and the hash of the record before the run leave no way around.
THEOREM DamageIsNeverCovered == Spec => []DamageNeverCovered
  <1>1. IInv => DamageNeverCovered
    BY DEF IInv, ReportsRight, Right, DamageNeverCovered
  <1> QED BY <1>1, Inductive, PTL

----------------------------------------------------------------------------
(* The log. *)

\* A commit appends the payload of its record; no other step touches the head.
LEMMA LogStep == IInv /\ [Next]_vars => [Log!Next]_Entries
  <1> SUFFICES ASSUME IInv, [Next]_vars PROVE [Log!Next]_Entries
    OBVIOUS
  <1>1. ASSUME counter' = counter PROVE [Log!Next]_Entries
    BY <1>1 DEF Entries
  <1>2. ASSUME NEW t \in Txs, CommitTx(t) PROVE [Log!Next]_Entries
    <2>1. PICK p \in Payloads : draft[t] = Record(counter.next, counter.head, p)
      BY <1>2 DEF IInv, DraftsOnHead, CommitTx
    <2>2. counter'.head = Append(counter.head, <<counter.next, p>>)
      BY <1>2, <2>1 DEF CommitTx, Advanced, Record, Chain
    <2>3. counter.head \in Seq(Nat \X Payloads) /\ counter.next \in Nat
      BY DEF IInv, TypeOK, Hashes
    <2>4. <<counter.next, p>> \in Nat \X Payloads
      BY <2>3
    <2> DEFINE h == counter.head
               k == Append(h, <<counter.next, p>>)
    <2>5. /\ Len(k) = Len(h) + 1 /\ Len(h) \in Nat /\ k[Len(h) + 1] = <<counter.next, p>>
          /\ \A i \in 1..Len(h) : k[i] = h[i] /\ h[i] \in Nat \X Payloads
      <3> HIDE DEF h
      <3>1. h \in Seq(Nat \X Payloads)
        BY <2>3 DEF h
      <3> QED BY <2>4, <3>1
    <2>6. k[Len(h) + 1][2] = p
      <3> HIDE DEF k, h
      <3> QED BY <2>5
    <2>7. Entries' = [i \in 1..Len(h) + 1 |-> k[i][2]]
      <3> HIDE DEF k
      <3> QED BY <2>2, <2>5 DEF Entries, k
    <2>8. Entries = [i \in 1..Len(h) |-> h[i][2]]
      BY DEF Entries
    <2> HIDE DEF k, h
    <2>9. Entries \in Seq(Payloads) /\ Len(Entries) = Len(h)
      BY <2>5, <2>8
    <2>10. Entries' = Append(Entries, p)
      BY <2>5, <2>6, <2>7, <2>8, <2>9
    <2> QED BY <2>10 DEF Log!Next
  <1>3. CASE UNCHANGED vars
    BY <1>1, <1>3 DEF vars
  <1>4. ASSUME NEW t \in Txs,
               \/ NextSequence(t) \/ RollbackTx(t) \/ \E p \in Payloads : AppendRecord(t, p)
        PROVE  counter' = counter
    BY <1>4 DEF NextSequence, RollbackTx, AppendRecord
  <1>5. ASSUME NEW a \in Anchorers,
               \/ AnchorHead(a) \/ AnchorStamp(a) \/ AnchorPut(a)
               \/ SaveAnchor(a) \/ AnchorFails(a)
        PROVE  counter' = counter
    BY <1>5 DEF AnchorHead, AnchorStamp, AnchorPut, SaveAnchor, AnchorFails, writing
  <1>6. ASSUME NEW v \in Verifiers,
               \/ VerifyStart(v) \/ VerifyGet(v) \/ VerifyPrev(v)
               \/ \E from \in 1..MaxRecords, to \in 0..MaxRecords : VerifyRange(v, from, to)
        PROVE  counter' = counter
    BY <1>6 DEF VerifyStart, VerifyGet, VerifyPrev, VerifyRange, writing
  <1>7. ASSUME NEW r \in records, Detach(r) \/ Lose(r) \/ \E p \in Payloads : Alter(r, p)
        PROVE  counter' = counter
    BY <1>7 DEF Detach, Lose, Alter, Outside
  <1> QED BY <1>1, <1>2, <1>3, <1>4, <1>5, <1>6, <1>7 DEF Next

\* The trail implements the log: one entry for each committed operation, in order, and
\* nothing that happens to the stored records takes one back.
THEOREM RefinesLog == Spec => ImplementsLog
  <1>1. Init => Log!Init
    BY DEF Init, Log!Init, Entries, ZeroChainHash
  <1> QED BY <1>1, Inductive, LogStep, PTL DEF Spec, ImplementsLog, Log!Spec

===============================================================================
