----------------------------- MODULE PlatformProofs -----------------------------
(***************************************************************************)
(* Proofs about two components of internal/platform that share no state:   *)
(* the outbox with its relays, and the object store.                       *)
(*                                                                         *)
(* The outbox: any number of events, transactions and relays, and any      *)
(* batch size.  None of the three invariants is inductive.  What a relay   *)
(* does to an event is right because of what the same batch did before:    *)
(* Apart says whose rows they are (SKIP LOCKED), LoggedSoFar and           *)
(* ConsumedSoFar what the events behind the relay's position went through, *)
(* and LineBudget how many lines an event may have before it is written    *)
(* again.                                                                  *)
(***************************************************************************)
EXTENDS OutboxRelay, ObjectStore, FiniteSetTheorems, TLAPS

----------------------------------------------------------------------------
(* The inductive invariant. *)

Positions(q) == 1..Len(batch[q])

\* The rows of a batch are committed and unpublished, and no two positions of any
\* batches hold the same row.
Apart ==
    /\ \A q \in Relays : \A i \in Positions(q) : batch[q][i] \in Visible \ published
    /\ \A q, r \in Relays : \A i \in Positions(q), j \in Positions(r) :
          batch[q][i] = batch[r][j] => q = r /\ i = j

\* A relay still has to write the event at position i.
ToWrite(q, i) == rpc[q] = "log" /\ at[q] <= i

\* A relay with a topic file has written every event of its batch behind its position.
LoggedSoFar ==
    \A q \in LogRelays : \A i \in Positions(q) : ~ToWrite(q, i) => batch[q][i] \in InLog

\* A relay that was not told to stop has given them to the consumer group.
ConsumedSoFar ==
    \A q \in Subscribed : ~cancelled[q] =>
        \A i \in Positions(q) :
            rpc[q] = "mark" \/ (rpc[q] = "deliver" /\ i < at[q])
            => batch[q][i] \in handled \cup dead

\* What a process remembers as seen was handled.
SeenHandled == \A q \in Relays : seen[q] \subseteq handled

\* No relay has written the event since its last batch was given up.
Unwritten(e) ==
    /\ e \notin published
    /\ \A q \in Relays : \A i \in Positions(q) : batch[q][i] = e => ToWrite(q, i)

\* Such an event has at most as many lines as batches were given up; the counter of
\* those saturates.
LineBudget ==
    \A e \in Events : Unwritten(e) => topicLog[e] <= retried[e] \/ MaxRetried <= retried[e]

Invariants == FactsLoggedFirst /\ DuplicatesOnlyAfterRollback /\ PublishedWasConsumed

IInv ==
    /\ TypeOK /\ Apart /\ LoggedSoFar /\ ConsumedSoFar /\ SeenHandled /\ LineBudget
    /\ Invariants

----------------------------------------------------------------------------
(* The operators. *)

\* What selectPendingSQL returns is a non-empty sequence of pending rows, each once.
LEMMA BatchIsPending ==
    ASSUME NEW P, P \subseteq Events, P # {}, NEW s \in Batches(P)
    PROVE  /\ s \in Seq(Events) /\ Len(s) >= 1
           /\ \A i \in 1..Len(s) : s[i] \in P
           /\ \A i, j \in 1..Len(s) : s[i] = s[j] => i = j
  <1>1. IsFiniteSet(P) /\ Cardinality(P) \in Nat /\ Cardinality(P) # 0
    BY EventsAssumption, FS_Subset, FS_EmptySet, FS_CardinalityType
  <1>2. PICK S \in SUBSET P : /\ s \in SetToSeqs(S)
                              /\ Cardinality(S) = IF Cardinality(P) < BatchSize
                                                  THEN Cardinality(P) ELSE BatchSize
    BY DEF Batches
  <1> DEFINE n == Cardinality(S)
  <1>3. n \in Nat /\ n >= 1
    BY <1>1, <1>2, LimitsAssumption
  <1>4. /\ s \in [1..n -> S]
        /\ \A i, j \in 1..n : i # j => s[i] # s[j]
    BY <1>2 DEF SetToSeqs
  <1> HIDE DEF n
  <1>5. s \in Seq(Events) /\ Len(s) = n
    BY <1>3, <1>4
  <1> QED BY <1>2, <1>3, <1>4, <1>5

\* The set of a sequence is that of its positions.
LEMMA ToSetPositions ==
    ASSUME NEW s \in Seq(Events), NEW e
    PROVE  e \in ToSet(s) <=> \E i \in 1..Len(s) : s[i] = e
  BY DEF ToSet

\* The event a busy relay is at.
LEMMA Current ==
    ASSUME TypeOK, NEW q \in Relays, rpc[q] # "idle"
    PROVE  /\ at[q] \in Positions(q) /\ batch[q] \in Seq(Events)
           /\ batch[q][at[q]] \in Events
  BY DEF TypeOK, Positions

\* The initial state satisfies the invariant.
LEMMA InitInv == Init => IInv
  <1> SUFFICES ASSUME Init PROVE IInv
    OBVIOUS
  <1> USE EventsAssumption, LimitsAssumption
  <1>1. TypeOK
    BY DEF Init, TypeOK
  <1>2. Apart /\ LoggedSoFar /\ ConsumedSoFar /\ SeenHandled /\ LineBudget
    BY RelaysAssumption DEF Init, Apart, LoggedSoFar, ConsumedSoFar, SeenHandled, LineBudget, Positions
  <1>3. Invariants
    BY DEF Init, Invariants, FactsLoggedFirst, DuplicatesOnlyAfterRollback, PublishedWasConsumed,
           InLog, Visible
  <1> QED BY <1>1, <1>2, <1>3 DEF IInv

----------------------------------------------------------------------------
(* The steps. *)

\* What is committed stays committed, and nothing else looks at transactions.
LEMMA TxStep ==
    ASSUME NEW t \in Txs, IInv, Begin(t) \/ CommitTx(t) \/ AbortTx(t)
    PROVE  IInv'
  <1> USE EventsAssumption, RelaysAssumption
  <1>1. /\ UNCHANGED <<poison, published, attempts, rpc, batch, at, cancelled, topicLog, seen, dlq,
                      handled, dead, retried, faults>>
        /\ clock' \in Nat /\ started' \in [Txs -> Nat]
        /\ txState' \in [Txs -> {"new", "open", "committed", "aborted"}]
    <2>1. clock \in Nat /\ started \in [Txs -> Nat]
          /\ txState \in [Txs -> {"new", "open", "committed", "aborted"}]
      BY DEF IInv, TypeOK
    <2>2. CASE Begin(t)
      BY <2>1, <2>2 DEF Begin, memory
    <2>3. CASE CommitTx(t)
      BY <2>1, <2>3 DEF CommitTx, memory
    <2>4. CASE AbortTx(t)
      BY <2>1, <2>4 DEF AbortTx, memory
    <2> QED BY <2>2, <2>3, <2>4
  <1>2. Visible \subseteq Visible'
    BY DEF Begin, CommitTx, AbortTx, IInv, TypeOK, Visible
  <1>3. TypeOK'
    BY <1>1 DEF IInv, TypeOK
  <1>4. Apart'
    <2>1. published' = published /\ batch' = batch
      BY <1>1
    <2>2. \A q \in Relays : Positions(q)' = Positions(q)
      BY <2>1 DEF Positions
    <2>3. \A q \in Relays : \A i \in Positions(q) : batch[q][i] \in Visible' \ published
      BY <1>2 DEF IInv, Apart
    <2>4. \A q, r \in Relays : \A i \in Positions(q), j \in Positions(r) :
             batch[q][i] = batch[r][j] => q = r /\ i = j
      BY DEF IInv, Apart
    <2> QED BY <2>1, <2>2, <2>3, <2>4 DEF Apart
  <1>5. LoggedSoFar' /\ ConsumedSoFar' /\ SeenHandled'
    BY <1>1 DEF IInv, LoggedSoFar, ConsumedSoFar, SeenHandled, Positions, ToWrite, InLog
  <1>6. LineBudget'
    BY <1>1 DEF IInv, LineBudget, Unwritten, Positions, ToWrite
  <1>7. Invariants'
    BY <1>1, <1>2 DEF IInv, Invariants, FactsLoggedFirst, DuplicatesOnlyAfterRollback,
                      PublishedWasConsumed, InLog
  <1> QED BY <1>3, <1>4, <1>5, <1>6, <1>7 DEF IInv

\* Shutting down only takes away from what a relay has to have done.
LEMMA CancelStep == ASSUME NEW q \in Relays, IInv, Cancel(q) PROVE IInv'
  <1> USE RelaysAssumption
  <1>1. /\ UNCHANGED <<poison, clock, started, txState, published, attempts, rpc, batch, at,
                      topicLog, seen, dlq, handled, dead, retried>>
        /\ cancelled' = [cancelled EXCEPT ![q] = TRUE]
        /\ faults' \in 0..MaxFaults
    BY LimitsAssumption DEF Cancel, memory, txVars, IInv, TypeOK
  <1>2. TypeOK'
    BY <1>1 DEF IInv, TypeOK
  <1>3. Apart' /\ LoggedSoFar' /\ SeenHandled'
    BY <1>1 DEF IInv, Apart, LoggedSoFar, SeenHandled, Positions, ToWrite, InLog, Visible
  <1>4. ConsumedSoFar'
    BY <1>1 DEF IInv, TypeOK, ConsumedSoFar, Positions
  <1>5. LineBudget' /\ Invariants'
    BY <1>1 DEF IInv, LineBudget, Unwritten, Positions, ToWrite, Invariants, FactsLoggedFirst,
                DuplicatesOnlyAfterRollback, PublishedWasConsumed, InLog, Visible
  <1> QED BY <1>2, <1>3, <1>4, <1>5 DEF IInv

\* The rows a relay selects are pending and nobody else holds them.
LEMMA SelectStep == ASSUME NEW q \in Relays, IInv, SelectBatch(q) PROVE IInv'
  <1> USE RelaysAssumption
  <1>1. PICK s \in Batches(Pending) : batch' = [batch EXCEPT ![q] = s]
    BY DEF SelectBatch
  <1>2. Pending \subseteq Events /\ Pending # {}
    BY DEF Pending, Visible, SelectBatch
  <1>3. /\ s \in Seq(Events) /\ Len(s) >= 1 /\ Len(s) \in Nat
        /\ \A i \in 1..Len(s) : s[i] \in Pending
        /\ \A i, j \in 1..Len(s) : s[i] = s[j] => i = j
    BY <1>2, BatchIsPending
  <1>4. /\ rpc[q] = "idle"
        /\ at' = [at EXCEPT ![q] = 1] /\ rpc' = [rpc EXCEPT ![q] = Publishing(q)]
        /\ UNCHANGED <<poison, clock, started, txState, published, attempts, cancelled, topicLog,
                       seen, dlq, handled, dead, retried, faults>>
    BY DEF SelectBatch, txVars, memory
  <1>5. /\ Publishing(q) \in {"log", "deliver", "mark"}
        /\ q \in LogRelays => Publishing(q) = "log"
        /\ q \in Subscribed => Publishing(q) # "mark"
    BY DEF Publishing, Dispatch
  <1>6. \A i \in 1..Len(s) : /\ s[i] \in Visible \ published
                             /\ \A r \in Relays : \A j \in Positions(r) : s[i] # batch[r][j]
    <2> SUFFICES ASSUME NEW i \in 1..Len(s), NEW r \in Relays, NEW j \in Positions(r),
                        s[i] = batch[r][j]
                 PROVE  FALSE
      BY <1>3 DEF Pending
    <2>1. batch[r] \in Seq(Events)
      BY DEF IInv, TypeOK
    <2>2. batch[r][j] \in ToSet(batch[r])
      BY <2>1, ToSetPositions DEF Positions
    <2> QED BY <1>3, <2>2 DEF Pending, Locked
  <1>7. batch \in [Relays -> Seq(Events)] /\ at \in [Relays -> Nat] 
        /\ rpc \in [Relays -> {"idle", "log", "deliver", "mark"}]
    BY DEF IInv, TypeOK
  <1>8. TypeOK'
    <2>1. \A r \in Relays : IF rpc'[r] = "idle" THEN batch'[r] = <<>> /\ at'[r] = 0
                                               ELSE at'[r] \in 1..Len(batch'[r])
      BY <1>1, <1>3, <1>4, <1>5, <1>7 DEF IInv, TypeOK
    <2>2. /\ batch' \in [Relays -> Seq(Events)] /\ at' \in [Relays -> Nat]
          /\ rpc' \in [Relays -> {"idle", "log", "deliver", "mark"}]
      BY <1>1, <1>3, <1>4, <1>5, <1>7
    <2> QED BY <1>4, <2>1, <2>2 DEF IInv, TypeOK
  <1>9. Apart'
    BY <1>1, <1>3, <1>4, <1>6, <1>7 DEF IInv, Apart, Positions, Visible
  <1>10. LoggedSoFar' /\ SeenHandled'
    BY <1>1, <1>3, <1>4, <1>5, <1>7 DEF IInv, LoggedSoFar, SeenHandled, Positions, ToWrite, InLog
  <1>11. ConsumedSoFar'
    BY <1>1, <1>3, <1>4, <1>5, <1>7 DEF IInv, ConsumedSoFar, Positions
  <1>12. LineBudget'
    <2> SUFFICES ASSUME NEW e \in Events, Unwritten(e)'
                 PROVE  topicLog[e] <= retried[e] \/ MaxRetried <= retried[e]
      BY <1>4 DEF LineBudget
    <2>1. Unwritten(e)
      <3> SUFFICES ASSUME NEW r \in Relays, NEW i \in Positions(r), batch[r][i] = e
                   PROVE  ToWrite(r, i)
        BY <1>4 DEF Unwritten
      <3>1. r # q
        BY <1>4 DEF IInv, TypeOK, Positions
      <3> QED BY <1>1, <1>4, <1>7, <3>1 DEF Unwritten, ToWrite, Positions
    <2> QED BY <2>1 DEF IInv, LineBudget
  <1>13. Invariants'
    BY <1>4 DEF IInv, Invariants, FactsLoggedFirst, DuplicatesOnlyAfterRollback,
                PublishedWasConsumed, InLog, Visible
  <1> QED BY <1>8, <1>9, <1>10, <1>11, <1>12, <1>13 DEF IInv

\* A relay goes on to the next event of its batch, or from the last one to the next phase.
LEMMA AdvanceFacts ==
    ASSUME TypeOK, NEW q \in Relays, rpc[q] # "idle", NEW next \in {"deliver", "mark"},
           Advance(q, next), UNCHANGED batch
    PROVE  /\ at' \in [Relays -> Nat]
           /\ rpc' \in [Relays -> {"idle", "log", "deliver", "mark"}]
           /\ \A r \in Relays : IF rpc'[r] = "idle" THEN batch'[r] = <<>> /\ at'[r] = 0
                                                    ELSE at'[r] \in 1..Len(batch'[r])
           /\ \A r \in Relays \ {q} : at'[r] = at[r] /\ rpc'[r] = rpc[r]
           /\ \/ at[q] < Len(batch[q]) /\ at'[q] = at[q] + 1 /\ rpc'[q] = rpc[q]
              \/ at[q] = Len(batch[q]) /\ at'[q] = 1 /\ rpc'[q] = next
  <1>1. /\ at \in [Relays -> Nat] /\ rpc \in [Relays -> {"idle", "log", "deliver", "mark"}]
        /\ at[q] \in 1..Len(batch[q]) /\ Len(batch[q]) \in Nat
    BY DEF TypeOK
  <1>2. CASE at[q] < Len(batch[q])
    <2>1. at' = [at EXCEPT ![q] = at[q] + 1] /\ rpc' = rpc
      BY <1>2 DEF Advance
    <2>2. at'[q] = at[q] + 1 /\ at[q] + 1 \in 1..Len(batch[q])
      BY <1>1, <1>2, <2>1
    <2>3. \A r \in Relays \ {q} : at'[r] = at[r] /\ rpc'[r] = rpc[r]
      BY <1>1, <2>1
    <2>4. \A r \in Relays : IF rpc'[r] = "idle" THEN batch'[r] = <<>> /\ at'[r] = 0
                                               ELSE at'[r] \in 1..Len(batch'[r])
      BY <2>1, <2>2, <2>3 DEF TypeOK
    <2> QED BY <1>1, <1>2, <2>1, <2>2, <2>3, <2>4
  <1>3. CASE ~(at[q] < Len(batch[q]))
    <2>1. at' = [at EXCEPT ![q] = 1] /\ rpc' = [rpc EXCEPT ![q] = next]
      BY <1>3 DEF Advance
    <2>2. at[q] = Len(batch[q])
      BY <1>1, <1>3
    <2>3. at'[q] = 1 /\ rpc'[q] = next /\ 1 \in 1..Len(batch[q])
      BY <1>1, <2>1, <2>2
    <2>4. \A r \in Relays \ {q} : at'[r] = at[r] /\ rpc'[r] = rpc[r]
      BY <1>1, <2>1
    <2>5. \A r \in Relays : IF rpc'[r] = "idle" THEN batch'[r] = <<>> /\ at'[r] = 0
                                               ELSE at'[r] \in 1..Len(batch'[r])
      BY <2>3, <2>4 DEF TypeOK
    <2> QED BY <1>1, <2>1, <2>2, <2>3, <2>4, <2>5
  <1> QED BY <1>2, <1>3

\* Writing a line: the event is in the topic file, within its budget.
LEMMA WriteStep == ASSUME NEW q \in Relays, IInv, WriteLog(q) PROVE IInv'
  <1> USE RelaysAssumption
  <1> DEFINE e == batch[q][at[q]]
  <1>1. /\ rpc[q] = "log" /\ topicLog' = Logged(e) /\ Advance(q, Dispatch(q))
        /\ UNCHANGED <<poison, clock, started, txState, published, attempts, batch, cancelled,
                       seen, dlq, handled, dead, retried, faults>>
    BY DEF WriteLog, txVars, memory
  <1>2. /\ e \in Events /\ at[q] \in Positions(q) /\ batch \in [Relays -> Seq(Events)]
        /\ topicLog \in [Events -> 0 .. MaxRetried + 1] /\ retried \in [Events -> Nat]
        /\ at \in [Relays -> Nat] /\ rpc \in [Relays -> {"idle", "log", "deliver", "mark"}]
    BY <1>1, Current DEF IInv, TypeOK
  <1>3. /\ topicLog' \in [Events -> 0 .. MaxRetried + 1]
        /\ topicLog'[e] > 0
        /\ topicLog'[e] <= topicLog[e] + 1
        /\ \A f \in Events \ {e} : topicLog'[f] = topicLog[f]
    BY <1>1, <1>2, LimitsAssumption DEF Logged
  <1>4. Dispatch(q) \in {"deliver", "mark"} /\ (q \in Subscribed => Dispatch(q) = "deliver")
    BY DEF Dispatch
  <1>5. /\ at' \in [Relays -> Nat]
        /\ rpc' \in [Relays -> {"idle", "log", "deliver", "mark"}]
        /\ \A r \in Relays : IF rpc'[r] = "idle" THEN batch'[r] = <<>> /\ at'[r] = 0
                                                 ELSE at'[r] \in 1..Len(batch'[r])
        /\ \A r \in Relays \ {q} : at'[r] = at[r] /\ rpc'[r] = rpc[r]
        /\ \/ at[q] < Len(batch[q]) /\ at'[q] = at[q] + 1 /\ rpc'[q] = rpc[q]
           \/ at[q] = Len(batch[q]) /\ at'[q] = 1 /\ rpc'[q] = Dispatch(q)
    BY <1>1, <1>4, AdvanceFacts DEF IInv
  <1>6. TypeOK'
    BY <1>1, <1>3, <1>5 DEF IInv, TypeOK
  <1>7. Apart' /\ SeenHandled'
    BY <1>1 DEF IInv, Apart, SeenHandled, Positions, Visible
  <1>8. e \in Visible /\ e \in InLog' /\ InLog \subseteq InLog' /\ InLog' \subseteq InLog \cup {e}
    BY <1>2, <1>3 DEF IInv, Apart, InLog
  <1>9. LoggedSoFar'
    <2> SUFFICES ASSUME NEW r \in LogRelays, NEW i \in Positions(r), ~ToWrite(r, i)'
                 PROVE  batch[r][i] \in InLog'
      BY <1>1 DEF LoggedSoFar, Positions
    <2>1. CASE ~ToWrite(r, i)
      BY <1>8, <2>1 DEF IInv, LoggedSoFar
    <2>2. CASE ToWrite(r, i)
      <3>1. r = q
        BY <1>5, <2>2 DEF ToWrite
      <3>2. i = at[q]
        BY <1>1, <1>2, <1>5, <2>2, <3>1 DEF ToWrite, Positions
      <3> QED BY <1>8, <3>1, <3>2
    <2> QED BY <2>1, <2>2
  <1>10. ConsumedSoFar'
    <2> SUFFICES ASSUME NEW r \in Subscribed, ~cancelled[r], NEW i \in Positions(r),
                        rpc'[r] = "mark" \/ (rpc'[r] = "deliver" /\ i < at'[r])
                 PROVE  batch[r][i] \in handled \cup dead
      BY <1>1 DEF ConsumedSoFar, Positions
    <2>1. i \in Nat /\ i >= 1
      BY <1>2 DEF Positions
    <2>2. r # q
      BY <1>1, <1>4, <1>5, <2>1
    <2> QED BY <1>5, <2>2 DEF IInv, ConsumedSoFar
  <1>11. Unwritten(e)
    <2>1. e \notin published
      BY <1>2 DEF IInv, Apart
    <2>2. ASSUME NEW r \in Relays, NEW i \in Positions(r), batch[r][i] = e PROVE ToWrite(r, i)
      <3>1. r = q /\ i = at[q]
        BY <1>2, <2>2 DEF IInv, Apart
      <3> QED BY <1>1, <1>2, <3>1 DEF ToWrite
    <2> QED BY <2>1, <2>2 DEF Unwritten
  <1>12. LineBudget'
    <2> SUFFICES ASSUME NEW f \in Events, Unwritten(f)'
                 PROVE  topicLog'[f] <= retried[f] \/ MaxRetried <= retried[f]
      BY <1>1 DEF LineBudget
    <2>1. f # e
      BY <1>1, <1>2, <1>4, <1>5 DEF Unwritten, ToWrite, Positions
    <2>2. Unwritten(f)
      <3> SUFFICES ASSUME NEW r \in Relays, NEW i \in Positions(r), batch[r][i] = f
                   PROVE  ToWrite(r, i)
        BY <1>1 DEF Unwritten
      <3>1. ToWrite(r, i)'
        BY <1>1 DEF Unwritten, Positions
      <3>2. CASE r # q
        BY <1>5, <3>1, <3>2 DEF ToWrite
      <3>3. CASE r = q
        <4>1. at'[q] = at[q] + 1 /\ rpc[q] = "log"
          BY <1>1, <1>4, <1>5, <3>1, <3>3 DEF ToWrite
        <4>2. at'[q] <= i /\ i \in Nat /\ at[q] \in Nat
          BY <1>2, <3>1, <3>3 DEF ToWrite, Positions
        <4> QED BY <3>3, <4>1, <4>2 DEF ToWrite
      <3> QED BY <3>2, <3>3
    <2>3. topicLog[f] <= retried[f] \/ MaxRetried <= retried[f]
      BY <2>2 DEF IInv, LineBudget
    <2> QED BY <1>3, <2>1, <2>3
  <1>13. DuplicatesOnlyAfterRollback'
    <2>1. topicLog'[e] <= retried[e] + 1
      <3>1. topicLog[e] <= retried[e] \/ MaxRetried <= retried[e]
        BY <1>2, <1>11 DEF IInv, LineBudget
      <3>2. topicLog[e] \in 0 .. MaxRetried + 1 /\ retried[e] \in Nat
        BY <1>2
      <3>3. topicLog'[e] \in 0 .. MaxRetried + 1
        BY <1>2, <1>3
      <3>4. topicLog'[e] <= topicLog[e] + 1
        BY <1>3
      <3> HIDE DEF e
      <3> QED BY <3>1, <3>2, <3>3, <3>4, LimitsAssumption
    <2> QED BY <1>1, <1>3, <2>1 DEF IInv, Invariants, DuplicatesOnlyAfterRollback
  <1>14. FactsLoggedFirst' /\ PublishedWasConsumed'
    BY <1>1, <1>8 DEF IInv, Invariants, FactsLoggedFirst, PublishedWasConsumed, Visible
  <1> QED BY <1>6, <1>7, <1>9, <1>10, <1>12, <1>13, <1>14 DEF IInv, Invariants

\* Delivering, however it ends: unless the relay is being shut down, the event was handled
\* or is in the dead-letter list when the relay goes on.
LEMMA DeliverStep ==
    ASSUME NEW q \in Relays, IInv, rpc[q] = "deliver", Advance(q, "mark"),
           UNCHANGED <<poison, clock, started, txState, published, attempts, batch, cancelled,
                       topicLog, retried, faults>>,
           handled \subseteq handled', handled' \subseteq handled \cup {batch[q][at[q]]},
           dead \subseteq dead', dead' \subseteq dead \cup {batch[q][at[q]]},
           seen' \in [Relays -> SUBSET Events], dlq' \in [Relays -> SUBSET Events],
           SeenHandled', cancelled[q] \/ batch[q][at[q]] \in handled' \cup dead'
    PROVE  IInv'
  <1> USE RelaysAssumption
  <1> DEFINE e == batch[q][at[q]]
  <1>1. /\ e \in Events /\ at[q] \in Positions(q) /\ batch \in [Relays -> Seq(Events)]
        /\ at \in [Relays -> Nat] /\ rpc \in [Relays -> {"idle", "log", "deliver", "mark"}]
    BY Current DEF IInv, TypeOK
  <1>2. /\ at' \in [Relays -> Nat]
        /\ rpc' \in [Relays -> {"idle", "log", "deliver", "mark"}]
        /\ \A r \in Relays : IF rpc'[r] = "idle" THEN batch'[r] = <<>> /\ at'[r] = 0
                                                 ELSE at'[r] \in 1..Len(batch'[r])
        /\ \A r \in Relays \ {q} : at'[r] = at[r] /\ rpc'[r] = rpc[r]
        /\ \/ at[q] < Len(batch[q]) /\ at'[q] = at[q] + 1 /\ rpc'[q] = rpc[q]
           \/ at[q] = Len(batch[q]) /\ at'[q] = 1 /\ rpc'[q] = "mark"
    BY AdvanceFacts DEF IInv
  <1>3. TypeOK'
    BY <1>1, <1>2 DEF IInv, TypeOK
  <1>4. Apart'
    BY DEF IInv, Apart, Positions, Visible
  <1>5. e \in Visible /\ (q \in LogRelays => e \in InLog)
    BY <1>1 DEF IInv, Apart, LoggedSoFar, ToWrite
  <1>6. \A r \in Relays, i \in Int : ToWrite(r, i)' <=> ToWrite(r, i)
    BY <1>1, <1>2 DEF ToWrite
  <1>7. LoggedSoFar' /\ LineBudget'
    BY <1>6 DEF IInv, LoggedSoFar, LineBudget, Unwritten, Positions, InLog
  <1>8. ConsumedSoFar'
    <2> SUFFICES ASSUME NEW r \in Subscribed, ~cancelled[r], NEW i \in Positions(r),
                        rpc'[r] = "mark" \/ (rpc'[r] = "deliver" /\ i < at'[r])
                 PROVE  batch[r][i] \in handled' \cup dead'
      BY DEF ConsumedSoFar, Positions
    <2>1. CASE r # q
      BY <1>2, <2>1 DEF IInv, ConsumedSoFar
    <2>2. CASE r = q /\ i = at[q]
      BY <2>2
    <2>3. CASE r = q /\ i # at[q]
      BY <1>1, <1>2, <2>3 DEF IInv, ConsumedSoFar, Positions
    <2> QED BY <2>1, <2>2, <2>3
  <1>9. Invariants'
    BY <1>5 DEF IInv, Invariants, FactsLoggedFirst, PublishedWasConsumed,
                DuplicatesOnlyAfterRollback, Visible, InLog
  <1> QED BY <1>3, <1>4, <1>7, <1>8, <1>9 DEF IInv

\* The four ways deliver ends.
LEMMA DeliveriesStep ==
    ASSUME NEW q \in Relays, IInv,
           \/ DeliverDuplicate(q) \/ DeliverHandled(q) \/ DeliverDead(q) \/ DeliverDropped(q)
    PROVE  IInv'
  <1> DEFINE e == batch[q][at[q]]
  <1>1. rpc[q] = "deliver"
    BY DEF DeliverDuplicate, DeliverHandled, DeliverDead, DeliverDropped
  <1>2. /\ e \in Events /\ SeenHandled
        /\ seen \in [Relays -> SUBSET Events] /\ dlq \in [Relays -> SUBSET Events]
    BY <1>1, Current DEF IInv, TypeOK
  <1>3. CASE DeliverDuplicate(q)
    <2>1. e \in handled /\ SeenHandled'
      BY <1>2, <1>3 DEF SeenHandled, DeliverDuplicate, memory
    <2> QED BY <1>2, <1>3, <2>1, DeliverStep DEF DeliverDuplicate, txVars, memory
  <1>4. CASE DeliverHandled(q)
    <2>1. seen' \in [Relays -> SUBSET Events] /\ SeenHandled'
      BY <1>2, <1>4 DEF SeenHandled, DeliverHandled
    <2> QED BY <1>2, <1>4, <2>1, DeliverStep DEF DeliverHandled, txVars
  <1>5. CASE DeliverDead(q)
    <2>1. dlq' \in [Relays -> SUBSET Events] /\ SeenHandled'
      BY <1>2, <1>5 DEF SeenHandled, DeliverDead
    <2> QED BY <1>2, <1>5, <2>1, DeliverStep DEF DeliverDead, txVars
  <1>6. CASE DeliverDropped(q)
    <2>1. SeenHandled'
      BY <1>2, <1>6 DEF SeenHandled, DeliverDropped, memory
    <2> QED BY <1>2, <1>6, <2>1, DeliverStep DEF DeliverDropped, txVars, memory
  <1> QED BY <1>3, <1>4, <1>5, <1>6

\* The rows are let go, and no position is left.
LEMMA EndFacts ==
    ASSUME TypeOK, NEW q \in Relays, EndBatch(q)
    PROVE  /\ batch' \in [Relays -> Seq(Events)] /\ at' \in [Relays -> Nat]
           /\ rpc' \in [Relays -> {"idle", "log", "deliver", "mark"}]
           /\ \A r \in Relays : IF rpc'[r] = "idle" THEN batch'[r] = <<>> /\ at'[r] = 0
                                                    ELSE at'[r] \in 1..Len(batch'[r])
           /\ Positions(q)' = {} /\ rpc'[q] = "idle"
           /\ \A r \in Relays \ {q} : /\ batch'[r] = batch[r] /\ at'[r] = at[r] /\ rpc'[r] = rpc[r]
                                      /\ Positions(r)' = Positions(r)
  <1>1. /\ batch' = [batch EXCEPT ![q] = <<>>] /\ at' = [at EXCEPT ![q] = 0]
        /\ rpc' = [rpc EXCEPT ![q] = "idle"]
    BY DEF EndBatch
  <1>2. batch \in [Relays -> Seq(Events)] /\ at \in [Relays -> Nat]
        /\ rpc \in [Relays -> {"idle", "log", "deliver", "mark"}]
    BY DEF TypeOK
  <1>3. batch'[q] = <<>> /\ at'[q] = 0 /\ rpc'[q] = "idle"
    BY <1>1, <1>2
  <1>4. \A r \in Relays \ {q} : batch'[r] = batch[r] /\ at'[r] = at[r] /\ rpc'[r] = rpc[r]
    BY <1>1, <1>2
  <1>5. \A r \in Relays : IF rpc'[r] = "idle" THEN batch'[r] = <<>> /\ at'[r] = 0
                                             ELSE at'[r] \in 1..Len(batch'[r])
    BY <1>3, <1>4 DEF TypeOK
  <1> QED BY <1>1, <1>2, <1>3, <1>4, <1>5 DEF Positions

\* A batch is given up, and possibly the process with it: every event of the batch is
\* owed one more line.
LEMMA GiveUpStep ==
    ASSUME NEW q \in Relays, IInv, GiveUp(q),
           UNCHANGED <<poison, clock, started, txState, topicLog, handled, dead>>,
           faults' \in 0..MaxFaults, cancelled' \in [Relays -> BOOLEAN],
           \A r \in Relays \ {q} : cancelled'[r] = cancelled[r] /\ seen'[r] = seen[r],
           seen'[q] \in SUBSET seen[q],
           seen' \in [Relays -> SUBSET Events], dlq' \in [Relays -> SUBSET Events]
    PROVE  IInv'
  <1> USE RelaysAssumption
  <1>1. EndBatch(q) /\ UNCHANGED <<published, attempts>>
    BY DEF GiveUp
  <1>2. /\ batch' \in [Relays -> Seq(Events)] /\ at' \in [Relays -> Nat]
        /\ rpc' \in [Relays -> {"idle", "log", "deliver", "mark"}]
        /\ \A r \in Relays : IF rpc'[r] = "idle" THEN batch'[r] = <<>> /\ at'[r] = 0
                                                 ELSE at'[r] \in 1..Len(batch'[r])
        /\ Positions(q)' = {} /\ rpc'[q] = "idle"
        /\ \A r \in Relays \ {q} : /\ batch'[r] = batch[r] /\ at'[r] = at[r] /\ rpc'[r] = rpc[r]
                                   /\ Positions(r)' = Positions(r)
    BY <1>1, EndFacts DEF IInv
  <1>3. /\ topicLog \in [Events -> 0 .. MaxRetried + 1] /\ retried \in [Events -> Nat]
        /\ batch[q] \in Seq(Events) /\ MaxRetried \in Nat
    BY LimitsAssumption DEF IInv, TypeOK
  <1>4. /\ retried' \in [Events -> Nat]
        /\ \A e \in Events : retried[e] <= retried'[e]
        /\ \A i \in Positions(q) : \/ retried'[batch[q][i]] = retried[batch[q][i]] + 1
                                    \/ MaxRetried <= retried'[batch[q][i]]
    <2>1. retried' = [e \in Events |-> IF e \in ToSet(batch[q]) /\ retried[e] < MaxRetried
                                       THEN retried[e] + 1 ELSE retried[e]]
      BY DEF GiveUp
    <2>2. retried' \in [Events -> Nat] /\ \A e \in Events : retried[e] <= retried'[e]
      BY <1>3, <2>1
    <2>3. ASSUME NEW i \in Positions(q)
          PROVE  \/ retried'[batch[q][i]] = retried[batch[q][i]] + 1
                 \/ MaxRetried <= retried'[batch[q][i]]
      <3>1. batch[q][i] \in Events /\ batch[q][i] \in ToSet(batch[q])
        BY <1>3, ToSetPositions DEF Positions
      <3> QED BY <1>3, <2>1, <3>1
    <2> QED BY <2>2, <2>3
  <1>5. TypeOK'
    BY <1>1, <1>2, <1>4 DEF IInv, TypeOK
  <1>6. Apart'
    <2>1. ASSUME NEW r \in Relays, NEW i \in Positions(r)'
          PROVE  r # q /\ i \in Positions(r) /\ batch'[r][i] = batch[r][i]
      <3>1. r # q
        BY <1>2, <2>1
      <3> QED BY <1>2, <2>1, <3>1
    <2> QED BY <1>1, <2>1 DEF IInv, Apart, Visible
  <1>7. LoggedSoFar' /\ ConsumedSoFar' /\ SeenHandled'
    BY <1>2 DEF IInv, LoggedSoFar, ConsumedSoFar, SeenHandled, ToWrite, InLog
  <1>8. DuplicatesOnlyAfterRollback'
    BY <1>3, <1>4 DEF IInv, Invariants, DuplicatesOnlyAfterRollback
  <1>9. LineBudget'
    <2> SUFFICES ASSUME NEW e \in Events, Unwritten(e)'
                 PROVE  topicLog[e] <= retried'[e] \/ MaxRetried <= retried'[e]
      BY DEF LineBudget
    <2>1. topicLog[e] <= retried[e] + 1 /\ topicLog[e] \in Nat /\ retried[e] \in Nat /\ retried'[e] \in Nat
          /\ retried[e] <= retried'[e]
      BY <1>3, <1>4 DEF IInv, Invariants, DuplicatesOnlyAfterRollback
    <2>2. CASE \E i \in Positions(q) : batch[q][i] = e
      BY <1>4, <2>1, <2>2
    <2>3. CASE ~\E i \in Positions(q) : batch[q][i] = e
      <3>1. Unwritten(e)
        <4> SUFFICES ASSUME NEW r \in Relays, NEW i \in Positions(r), batch[r][i] = e
                     PROVE  ToWrite(r, i)
          BY <1>1 DEF Unwritten
        <4>1. r # q
          BY <2>3
        <4> QED BY <1>2, <4>1 DEF Unwritten, ToWrite
      <3>2. topicLog[e] <= retried[e] \/ MaxRetried <= retried[e]
        BY <3>1 DEF IInv, LineBudget
      <3> QED BY <1>3, <2>1, <3>2
    <2> QED BY <2>2, <2>3
  <1>10. FactsLoggedFirst' /\ PublishedWasConsumed'
    BY <1>1 DEF IInv, Invariants, FactsLoggedFirst, PublishedWasConsumed, Visible, InLog
  <1> QED BY <1>5, <1>6, <1>7, <1>8, <1>9, <1>10 DEF IInv, Invariants

\* The five ways a batch ends without being published.
LEMMA GiveUpsStep ==
    ASSUME NEW q \in Relays, IInv,
           \/ PublishPoison(q) \/ BatchFails(q) \/ MarkRefused(q) \/ Restart(q) \/ Crash(q)
    PROVE  IInv'
  <1>1. /\ faults \in 0..MaxFaults /\ cancelled \in [Relays -> BOOLEAN]
        /\ seen \in [Relays -> SUBSET Events] /\ dlq \in [Relays -> SUBSET Events]
        /\ MaxFaults \in Nat
    BY LimitsAssumption DEF IInv, TypeOK
  <1>2. CASE PublishPoison(q) \/ BatchFails(q) \/ MarkRefused(q)
    <2>1. /\ GiveUp(q) /\ UNCHANGED <<poison, clock, started, txState, topicLog, handled, dead>>
          /\ UNCHANGED <<cancelled, seen, dlq>> /\ faults' \in 0..MaxFaults
      BY <1>1, <1>2 DEF PublishPoison, BatchFails, MarkRefused, txVars, memory
    <2> QED BY <1>1, <2>1, GiveUpStep
  <1>3. CASE Restart(q) \/ Crash(q)
    <2>1. Reborn(q) /\ faults' \in 0..MaxFaults
      BY <1>1, <1>3 DEF Restart, Crash
    <2>2. /\ GiveUp(q) /\ UNCHANGED <<poison, clock, started, txState, topicLog, handled, dead>>
          /\ cancelled' = [cancelled EXCEPT ![q] = FALSE] /\ seen' = [seen EXCEPT ![q] = {}]
          /\ dlq' = [dlq EXCEPT ![q] = {}]
      BY <2>1 DEF Reborn, txVars
    <2>3. /\ cancelled' \in [Relays -> BOOLEAN]
          /\ \A r \in Relays \ {q} : cancelled'[r] = cancelled[r] /\ seen'[r] = seen[r]
          /\ seen'[q] \in SUBSET seen[q]
          /\ seen' \in [Relays -> SUBSET Events] /\ dlq' \in [Relays -> SUBSET Events]
      BY <1>1, <2>2
    <2> QED BY <2>1, <2>2, <2>3, GiveUpStep
  <1> QED BY <1>2, <1>3

\* Marking: the whole batch was written and, as the relay is not being shut down,
\* consumed.
LEMMA MarkStep == ASSUME NEW q \in Relays, IInv, MarkPublished(q) PROVE IInv'
  <1> USE RelaysAssumption
  <1>1. /\ rpc[q] = "mark" /\ ~cancelled[q] /\ EndBatch(q)
        /\ published' = published \cup ToSet(batch[q])
        /\ UNCHANGED <<poison, clock, started, txState, attempts, cancelled, topicLog, seen, dlq,
                       handled, dead, retried, faults>>
    BY DEF MarkPublished, MayMark, txVars, memory
  <1>2. /\ batch' \in [Relays -> Seq(Events)] /\ at' \in [Relays -> Nat]
        /\ rpc' \in [Relays -> {"idle", "log", "deliver", "mark"}]
        /\ \A r \in Relays : IF rpc'[r] = "idle" THEN batch'[r] = <<>> /\ at'[r] = 0
                                                 ELSE at'[r] \in 1..Len(batch'[r])
        /\ Positions(q)' = {} /\ rpc'[q] = "idle"
        /\ \A r \in Relays \ {q} : /\ batch'[r] = batch[r] /\ at'[r] = at[r] /\ rpc'[r] = rpc[r]
                                   /\ Positions(r)' = Positions(r)
    BY <1>1, EndFacts DEF IInv
  <1>3. batch[q] \in Seq(Events)
    BY DEF IInv, TypeOK
  <1>4. \A e : e \in published' <=> e \in published \/ \E i \in Positions(q) : batch[q][i] = e
    BY <1>1, <1>3, ToSetPositions DEF Positions
  <1>5. \A i \in Positions(q) : /\ batch[q][i] \in Events /\ batch[q][i] \in Visible
                                /\ q \in LogRelays => batch[q][i] \in InLog
                                /\ q \in Subscribed => batch[q][i] \in handled \cup dead
    BY <1>1, <1>3 DEF IInv, Apart, LoggedSoFar, ConsumedSoFar, ToWrite, Positions
  <1>6. TypeOK'
    <2>1. published' \subseteq Events
      BY <1>4, <1>5 DEF IInv, TypeOK
    <2> QED BY <1>1, <1>2, <2>1 DEF IInv, TypeOK
  <1>7. Apart'
    <2>1. ASSUME NEW r \in Relays, NEW i \in Positions(r)'
          PROVE  /\ r # q /\ i \in Positions(r) /\ batch'[r][i] = batch[r][i]
                 /\ batch[r][i] \in Visible \ published'
      <3>1. r # q
        BY <1>2, <2>1
      <3>2. i \in Positions(r) /\ batch'[r][i] = batch[r][i]
        BY <1>2, <2>1, <3>1
      <3> QED BY <1>4, <3>1, <3>2 DEF IInv, Apart
    <2> QED BY <1>1, <2>1 DEF IInv, Apart, Visible
  <1>8. LoggedSoFar' /\ ConsumedSoFar' /\ SeenHandled'
    BY <1>1, <1>2 DEF IInv, LoggedSoFar, ConsumedSoFar, SeenHandled, ToWrite, InLog
  <1>9. LineBudget'
    <2> SUFFICES ASSUME NEW e \in Events, Unwritten(e)'
                 PROVE  Unwritten(e)
      BY <1>1 DEF IInv, LineBudget
    <2> SUFFICES ASSUME NEW r \in Relays, NEW i \in Positions(r), batch[r][i] = e
                 PROVE  ToWrite(r, i)
      BY <1>4 DEF Unwritten
    <2>1. r # q
      BY <1>4 DEF Unwritten
    <2> QED BY <1>2, <2>1 DEF Unwritten, ToWrite
  <1>10. Invariants'
    BY <1>1, <1>4, <1>5 DEF IInv, Invariants, FactsLoggedFirst, DuplicatesOnlyAfterRollback,
                            PublishedWasConsumed, Visible, InLog
  <1> QED BY <1>6, <1>7, <1>8, <1>9, <1>10 DEF IInv

\* Every step, and stuttering, keeps the invariant.
LEMMA NextInv == IInv /\ [Next]_vars => IInv'
  <1> SUFFICES ASSUME IInv, [Next]_vars PROVE IInv'
    OBVIOUS
  <1>1. CASE UNCHANGED vars
    BY <1>1 DEF vars, IInv, TypeOK, Apart, LoggedSoFar, ConsumedSoFar, SeenHandled, LineBudget,
                Unwritten, Positions, ToWrite, Invariants, FactsLoggedFirst,
                DuplicatesOnlyAfterRollback, PublishedWasConsumed, InLog, Visible
  <1>2. CASE Next
    BY <1>2, TxStep, CancelStep, SelectStep, WriteStep, DeliveriesStep, GiveUpsStep, MarkStep
    DEF Next, RelayStep
  <1> QED BY <1>1, <1>2

\* The invariant holds throughout.
LEMMA Inductive == Spec => []IInv
  BY InitInv, NextInv, PTL DEF Spec

----------------------------------------------------------------------------
(* What follows. *)

\* Every reachable state is well typed, and a busy relay is at an event of its batch.
THEOREM TypeCorrect == Spec => []TypeOK
  BY Inductive, PTL DEF IInv

\* No phantom facts and nothing a replay would lose: published and handled events are in
\* the topic file, and the topic file holds committed events only (Append, FileLog.Publish).
THEOREM LoggedFirst == Spec => []FactsLoggedFirst
  BY Inductive, PTL DEF IInv, Invariants

\* Any further line for an event is owed to a batch that was given up (FOR UPDATE SKIP
\* LOCKED keeps relays off each other's rows).
THEOREM NoDuplicates == Spec => []DuplicatesOnlyAfterRollback
  BY Inductive, PTL DEF IInv, Invariants

\* A row marked published was handled or dead-lettered, although a shutdown makes deliver
\* return without doing either (MarkPublished under the same context).
THEOREM Consumed == Spec => []PublishedWasConsumed
  BY Inductive, PTL DEF IInv, Invariants

----------------------------------------------------------------------------
(***************************************************************************)
(* The object store: any keys, bodies, processes, writes and retentions.   *)
(* Evidence is kept, and both adapters implement WriteOnce.                *)
(*                                                                         *)
(* Neither EvidenceKept nor LockedIsIntact is inductive.  Halfway is what  *)
(* makes the second write of a PutAt safe: the bytes it renamed are still  *)
(* in place when its metadata follows, because whoever else writes the key *)
(* writes the same bytes and nobody else may delete it.  Covered ties what *)
(* a caller was told to the metadata that refuses the next write.          *)
(***************************************************************************)

----------------------------------------------------------------------------
(* The inductive invariant. *)

\* A process half way through a write finds its own bytes in place.
Halfway ==
    \A q \in Procs : busy[q] # None =>
        busy[q].proc = q /\ body[busy[q].key] = busy[q].body

\* A promise that still runs is backed by metadata that locks those bytes as long.
Covered ==
    \A k \in Keys : promised[k] # None /\ now < promised[k].until =>
        /\ Found(k) /\ meta[k].locked
        /\ meta[k].digest = promised[k].body
        /\ promised[k].until <= meta[k].until

\* A row of the database is its content and its metadata together.
WholeRows == adapter = "db" => \A k \in Keys : body[k] = None <=> meta[k] = None

StoreInv == StoreTypeOK /\ Halfway /\ Covered /\ WholeRows /\ LockedIsIntact

----------------------------------------------------------------------------
(* The operators. *)

\* A write has the fields of a put.
LEMMA PutFields ==
    ASSUME NEW p \in Puts
    PROVE  /\ p.proc \in Procs /\ p.key \in Keys /\ p.body \in Bodies
           /\ p.lock \in BOOLEAN /\ p.retain \in Nat
           /\ p # None /\ p.body # None
  BY PutsAssumption, NoneAssumption

\* The metadata a write makes is readable metadata of its bytes.
LEMMA MetaFields ==
    ASSUME NEW p \in Puts, now \in Clock
    PROVE  /\ Meta(p) \in Metas /\ Meta(p) # None
           /\ Meta(p).digest = p.body /\ Meta(p).readable
           /\ Meta(p).locked = p.lock /\ Meta(p).until = now + p.retain
  <1>1. p.body \in Bodies /\ p.lock \in BOOLEAN /\ p.retain \in Nat
    BY PutFields
  <1>2. now + p.retain \in Nat
    BY <1>1, ClockAssumption DEF Clock
  <1>3. Meta(p) \in Metas
    BY <1>1, <1>2 DEF Meta, Metas
  <1>4. Meta(p) # None
    BY <1>3, NoneAssumption
  <1>5. Meta(p).digest = p.body /\ Meta(p).readable /\ Meta(p).until = now + p.retain
    BY DEF Meta
  <1>6. Meta(p).locked = p.lock
    BY DEF Meta
  <1> QED BY <1>3, <1>4, <1>5, <1>6

\* The row that ON CONFLICT leaves keeps a lock and the later date.
LEMMA MergedFields ==
    ASSUME NEW p \in Puts, StoreTypeOK, WholeRows, adapter = "db"
    PROVE  /\ Merged(p) \in Metas /\ Merged(p) # None
           /\ Merged(p).digest = p.body /\ Merged(p).readable
           /\ meta[p.key] # None => /\ meta[p.key].locked => Merged(p).locked
                                    /\ meta[p.key].until <= Merged(p).until
  <1>1. p.key \in Keys /\ p.body \in Bodies /\ p.lock \in BOOLEAN /\ p.retain \in Nat
    BY PutFields
  <1>2. now \in Nat /\ RetainUntil(p) \in Nat
    BY <1>1, ClockAssumption DEF StoreTypeOK, Clock, RetainUntil
  <1>3. meta[p.key] # None => meta[p.key] \in Metas /\ body[p.key] # None
    BY <1>1 DEF StoreTypeOK, WholeRows
  <1>4. meta[p.key] = None => body[p.key] = None
    BY <1>1 DEF StoreTypeOK, WholeRows
  <1>5. now \in Clock
    BY DEF StoreTypeOK
  <1> DEFINE row == IF body[p.key] = None THEN [locked |-> FALSE, until |-> 0] ELSE meta[p.key]
  <1>6. row.locked \in BOOLEAN /\ row.until \in Nat
    BY <1>3, <1>4 DEF Metas
  <1>7. meta[p.key] # None => row = meta[p.key]
    BY <1>3
  <1> DEFINE l == row.locked \/ p.lock
             u == IF row.until > RetainUntil(p) THEN row.until ELSE RetainUntil(p)
  <1>8. Merged(p) = [Meta(p) EXCEPT !.locked = l, !.until = u]
    BY DEF Merged
  <1>9. /\ l \in BOOLEAN /\ u \in Nat /\ row.until <= u
        /\ row.locked => l
    BY <1>1, <1>2, <1>6
  <1> HIDE DEF l, u, row
  <1>10. Merged(p) = [digest |-> p.body, locked |-> l, until |-> u, readable |-> TRUE]
    BY <1>8 DEF Meta
  <1>11. Merged(p) \in Metas
    BY <1>1, <1>9, <1>10 DEF Metas
  <1>12. Merged(p) # None
    BY <1>11, NoneAssumption
  <1> QED BY <1>7, <1>9, <1>10, <1>11, <1>12
----------------------------------------------------------------------------
(* The invariant is inductive. *)

\* The empty store satisfies the invariant.
LEMMA StoreInitInv == StoreInit => StoreInv
  <1> SUFFICES ASSUME StoreInit PROVE StoreInv
    OBVIOUS
  <1>1. StoreTypeOK
    BY ClockAssumption DEF StoreInit, StoreTypeOK, Found, Clock
  <1>2. Halfway /\ Covered /\ WholeRows /\ LockedIsIntact
    BY DEF StoreInit, Halfway, Covered, WholeRows, LockedIsIntact, Found
  <1> QED BY <1>1, <1>2 DEF StoreInv

\* Time passing ends promises and makes none.
LEMMA TickStep == StoreInv /\ Tick => StoreInv'
  <1> SUFFICES ASSUME StoreInv, Tick PROVE StoreInv'
    OBVIOUS
  <1>1. /\ now' = now + 1 /\ now \in Nat /\ now' \in Clock
        /\ UNCHANGED <<adapter, body, meta, busy, promised>>
    BY ClockAssumption DEF StoreInv, StoreTypeOK, Tick, Clock
  <1>2. StoreTypeOK' /\ Halfway' /\ WholeRows' /\ LockedIsIntact'
    BY <1>1 DEF StoreInv, StoreTypeOK, Halfway, WholeRows, LockedIsIntact, Found
  <1>3. Covered'
    <2>1. ASSUME NEW k \in Keys, promised[k] # None PROVE promised[k].until \in Nat
      BY <2>1 DEF StoreInv, StoreTypeOK, Promises
    <2> QED BY <1>1, <2>1 DEF StoreInv, Covered, Found
  <1> QED BY <1>2, <1>3 DEF StoreInv

\* The first half of a write on the file system puts its bytes in place, or finds them
\* locked there already.
LEMMA FSPutAtStep == ASSUME NEW p \in Puts, StoreInv, FSPutAt(p) PROVE StoreInv'
  <1>1. /\ p.proc \in Procs /\ p.key \in Keys /\ p.body \in Bodies /\ p # None
    BY PutFields
  <1>2. /\ adapter = "fs" /\ busy[p.proc] = None /\ ~LockedAgainst(p.key, p.body)
        /\ UNCHANGED <<adapter, now>>
    BY DEF FSPutAt
  <1>3. CASE NoOp(p.key, p.body)
    <2>1. /\ Found(p.key) /\ meta[p.key].locked /\ meta[p.key].digest = p.body
          /\ meta[p.key] \in Metas /\ meta[p.key].until \in Nat
      BY <1>1, <1>3 DEF NoOp, StoreInv, StoreTypeOK, Found, Metas
    <2>2. /\ \/ UNCHANGED promised
             \/ promised' = [promised EXCEPT ![p.key] = [body |-> p.body, until |-> meta[p.key].until]]
          /\ UNCHANGED <<body, meta, busy>>
      <3>1. promised \in [Keys -> Promises \cup {None}]
        BY DEF StoreInv, StoreTypeOK
      <3> QED BY <1>1, <1>3, <2>1, <3>1 DEF FSPutAt, Tell
    <2>3. [body |-> p.body, until |-> meta[p.key].until] \in Promises
      BY <1>1, <2>1 DEF Promises
    <2>4. StoreTypeOK' /\ Halfway' /\ WholeRows' /\ LockedIsIntact'
      BY <1>1, <1>2, <2>2, <2>3 DEF StoreInv, StoreTypeOK, Halfway, WholeRows, LockedIsIntact, Found
    <2>5. Covered'
      BY <1>1, <1>2, <2>1, <2>2 DEF StoreInv, StoreTypeOK, Covered, Found
    <2> QED BY <2>4, <2>5 DEF StoreInv
  <1>4. CASE ~NoOp(p.key, p.body)
    <2>1. /\ body' = [body EXCEPT ![p.key] = p.body] /\ busy' = [busy EXCEPT ![p.proc] = p]
          /\ UNCHANGED <<meta, promised>>
      BY <1>4 DEF FSPutAt, First
    <2>2. ~(Found(p.key) /\ meta[p.key].locked)
      BY <1>2, <1>4 DEF NoOp, LockedAgainst
    <2>3. StoreTypeOK'
      BY <1>1, <1>2, <2>1 DEF StoreInv, StoreTypeOK, Found
    <2>4. Halfway'
      BY <1>1, <2>1, AddressedAssumption DEF StoreInv, StoreTypeOK, Halfway
    <2>5. Covered' /\ WholeRows' /\ LockedIsIntact'
      BY <1>1, <1>2, <2>1, <2>2 DEF StoreInv, StoreTypeOK, Covered, WholeRows, LockedIsIntact, Found
    <2> QED BY <2>3, <2>4, <2>5 DEF StoreInv
  <1> QED BY <1>3, <1>4

\* The second half writes the metadata of the bytes that are in place.
LEMMA FSPutMetaStep == ASSUME NEW q \in Procs, StoreInv, FSPutMeta(q) PROVE StoreInv'
  <1> DEFINE p == busy[q]
  <1>1. /\ p \in Puts /\ p # None /\ adapter = "fs" /\ body[p.key] = p.body
        /\ now \in Clock /\ now \in Nat
    BY ClockAssumption DEF FSPutMeta, StoreInv, StoreTypeOK, Halfway, Clock
  <1>2. /\ p.proc \in Procs /\ p.key \in Keys /\ p.body \in Bodies /\ p.retain \in Nat
        /\ p.lock \in BOOLEAN
    BY <1>1, PutFields
  <1>3. /\ busy' = [busy EXCEPT ![q] = None]
        /\ UNCHANGED <<adapter, now, body>>
    BY DEF FSPutMeta
  <1>4. CASE Found(p.key) /\ meta[p.key].locked
    <2>1. UNCHANGED <<meta, promised>>
      BY <1>4 DEF FSPutMeta
    <2> QED BY <1>3, <2>1 DEF StoreInv, StoreTypeOK, Halfway, Covered, WholeRows, LockedIsIntact, Found
  <1>5. CASE ~(Found(p.key) /\ meta[p.key].locked)
    <2> DEFINE m == Meta(p)
    <2>1. /\ m \in Metas /\ m # None /\ m.digest = p.body /\ m.readable
          /\ m.locked = p.lock /\ m.until \in Nat
      BY <1>1, <1>2, MetaFields
    <2>0. ~Outlives(promised[p.key], p.body, m.until)
      BY <1>2, <1>5 DEF Outlives, StoreInv, Covered
    <2>2. /\ meta' = [meta EXCEPT ![p.key] = m]
          /\ promised' = [promised EXCEPT ![p.key] =
                             IF m.locked THEN [body |-> p.body, until |-> m.until] ELSE @]
      BY <1>5, <2>0 DEF FSPutMeta, Tell
    <2>3. [body |-> p.body, until |-> m.until] \in Promises
      BY <1>2, <2>1 DEF Promises
    <2> HIDE DEF m
    <2>4. StoreTypeOK'
      BY <1>1, <1>2, <1>3, <2>1, <2>2, <2>3 DEF StoreInv, StoreTypeOK, Found
    <2>5. Halfway' /\ WholeRows'
      BY <1>1, <1>2, <1>3 DEF StoreInv, StoreTypeOK, Halfway, WholeRows
    <2>6. LockedIsIntact'
      BY <1>1, <1>2, <1>3, <2>1, <2>2 DEF StoreInv, StoreTypeOK, LockedIsIntact, Found
    <2>7. Covered'
      <3> SUFFICES ASSUME NEW k \in Keys, promised'[k] # None, now < promised'[k].until
                   PROVE  /\ Found(k)' /\ meta'[k].locked
                          /\ meta'[k].digest = promised'[k].body
                          /\ promised'[k].until <= meta'[k].until
        BY <1>3 DEF Covered
      <3>1. CASE k # p.key
        BY <3>1, <1>2, <2>2 DEF StoreInv, StoreTypeOK, Covered, Found
      <3>2. CASE k = p.key /\ m.locked
        BY <3>2, <1>2, <2>1, <2>2 DEF StoreInv, StoreTypeOK, Found
      <3>3. CASE k = p.key /\ ~m.locked
        BY <3>3, <1>2, <1>5, <2>1, <2>2 DEF StoreInv, StoreTypeOK, Covered
      <3> QED BY <3>1, <3>2, <3>3
    <2> QED BY <2>4, <2>5, <2>6, <2>7 DEF StoreInv
  <1> QED BY <1>4, <1>5

\* A process that dies half way leaves the metadata as it was, or cut short where
\* nothing was locked.
LEMMA FSCrashStep == ASSUME NEW q \in Procs, StoreInv, FSCrash(q) PROVE StoreInv'
  <1> DEFINE k == busy[q].key
  <1>1. /\ busy[q] \in Puts /\ k \in Keys /\ adapter = "fs"
    BY PutFields DEF FSCrash, StoreInv, StoreTypeOK
  <1>2. /\ busy' = [busy EXCEPT ![q] = None]
        /\ UNCHANGED <<adapter, now, body, promised>>
    BY DEF FSCrash
  <1>3. CASE meta' = meta
    BY <1>2, <1>3 DEF StoreInv, StoreTypeOK, Halfway, Covered, WholeRows, LockedIsIntact, Found
  <1>4. CASE meta' # meta
    <2>1. /\ ~(Found(k) /\ meta[k].locked)
          /\ meta' = [meta EXCEPT ![k] = Corrupt]
      BY <1>4 DEF FSCrash
    <2>2. Corrupt \in Metas /\ ~Corrupt.readable
      BY DEF Corrupt, Metas
    <2>3. StoreTypeOK'
      BY <1>1, <1>2, <2>1, <2>2 DEF StoreInv, StoreTypeOK, Found
    <2>4. Halfway' /\ WholeRows'
      BY <1>1, <1>2 DEF StoreInv, StoreTypeOK, Halfway, WholeRows
    <2>5. Covered' /\ LockedIsIntact'
      BY <1>1, <1>2, <2>1, <2>2 DEF StoreInv, StoreTypeOK, Covered, LockedIsIntact, Found
    <2> QED BY <2>3, <2>4, <2>5 DEF StoreInv
  <1> QED BY <1>3, <1>4

\* Deleting what is not under retention breaks no promise: a promise that still runs is
\* one of a retained object.
LEMMA DeleteStep ==
    ASSUME NEW k \in Keys, StoreInv, ~Retained(k),
           body' = [body EXCEPT ![k] = None], meta' = [meta EXCEPT ![k] = None],
           UNCHANGED <<adapter, now, busy, promised>>,
           \A q \in Procs : busy[q] # None => busy[q].key # k
    PROVE  StoreInv'
  <1>1. now \in Nat
    BY ClockAssumption DEF StoreInv, StoreTypeOK, Clock
  <1>2. StoreTypeOK' /\ WholeRows' /\ LockedIsIntact'
    BY DEF StoreInv, StoreTypeOK, WholeRows, LockedIsIntact, Found
  <1>3. Halfway'
    BY PutFields DEF StoreInv, StoreTypeOK, Halfway
  <1>4. Covered'
    <2>1. ~(promised[k] # None /\ now < promised[k].until)
      <3> SUFFICES ASSUME promised[k] # None, now < promised[k].until PROVE FALSE
        OBVIOUS
      <3>1. promised[k].until \in Nat
        BY DEF StoreInv, StoreTypeOK, Promises
      <3>2. Found(k) /\ meta[k].locked /\ promised[k].until <= meta[k].until
        BY DEF StoreInv, Covered
      <3>3. meta[k].until \in Nat
        BY <3>2 DEF StoreInv, StoreTypeOK, Found, Metas
      <3> QED BY <1>1, <3>1, <3>2, <3>3 DEF Retained
    <2> QED BY <2>1 DEF StoreInv, StoreTypeOK, Covered, Found
  <1> QED BY <1>2, <1>3, <1>4 DEF StoreInv

\* On the file system only the process that alone writes a key deletes it, and not in
\* the middle of a write.
LEMMA FSDeleteStep == ASSUME NEW q \in Procs, NEW k \in Keys, StoreInv, FSDelete(q, k) PROVE StoreInv'
  <1>1. \A r \in Procs : busy[r] # None => busy[r].key # k
    <2> SUFFICES ASSUME NEW r \in Procs, busy[r] # None, busy[r].key = k PROVE FALSE
      OBVIOUS
    <2>1. busy[r] \in Puts /\ busy[r].proc = r
      BY DEF StoreInv, StoreTypeOK, Halfway
    <2>2. busy[r].proc = q
      BY <2>1, PutsAssumption DEF FSDelete
    <2> QED BY <2>1, <2>2 DEF FSDelete
  <1> QED BY <1>1, DeleteStep DEF FSDelete

\* In the database nothing is ever half written.
LEMMA DBDeleteStep == ASSUME NEW k \in Keys, StoreInv, DBDelete(k) PROVE StoreInv'
  <1>1. \A q \in Procs : busy[q] = None
    BY DEF DBDelete, StoreInv, StoreTypeOK
  <1> QED BY <1>1, DeleteStep DEF DBDelete

\* A statement of the database keeps the lock and the later date, and under retention
\* the bytes.
LEMMA DBPutAtStep == ASSUME NEW p \in Puts, StoreInv, DBPutAt(p) PROVE StoreInv'
  <1> DEFINE m == Merged(p)
  <1>1. p.key \in Keys /\ p.body \in Bodies /\ p.body # None
    BY PutFields
  <1>2. /\ adapter = "db" /\ now \in Nat
        /\ UNCHANGED <<adapter, now, busy>>
    BY ClockAssumption DEF DBPutAt, StoreInv, StoreTypeOK, Clock
  <1>3. /\ m \in Metas /\ m # None /\ m.digest = p.body /\ m.readable
        /\ meta[p.key] # None => /\ meta[p.key].locked => m.locked
                                 /\ meta[p.key].until <= m.until
    BY <1>2, MergedFields DEF StoreInv
  <1>a. Retained(p.key) => meta[p.key].digest = p.body
    BY <1>3 DEF DBPutAt, EnforceObjectLock
  <1>b. ~Outlives(promised[p.key], p.body, m.until)
    <2> SUFFICES ASSUME promised[p.key] # None, now < promised[p.key].until
                 PROVE  promised[p.key].body = p.body /\ ~(m.until < promised[p.key].until)
      BY DEF Outlives
    <2>1. promised[p.key].until \in Nat
      BY <1>1 DEF StoreInv, StoreTypeOK, Promises
    <2>2. /\ Found(p.key) /\ meta[p.key].locked /\ meta[p.key].digest = promised[p.key].body
          /\ promised[p.key].until <= meta[p.key].until
      BY <1>1 DEF StoreInv, Covered
    <2>3. meta[p.key] # None /\ meta[p.key].until \in Nat /\ m.until \in Nat
      BY <1>1, <1>3, <2>2 DEF StoreInv, StoreTypeOK, Found, Metas
    <2>4. Retained(p.key)
      BY <1>2, <2>1, <2>2, <2>3 DEF Retained
    <2>5. meta[p.key].until <= m.until
      BY <1>3, <2>3
    <2> HIDE DEF m
    <2> QED BY <1>a, <2>1, <2>2, <2>3, <2>4, <2>5
  <1>4. /\ body' = [body EXCEPT ![p.key] = p.body] /\ meta' = [meta EXCEPT ![p.key] = m]
        /\ promised' = [promised EXCEPT ![p.key] =
                           IF m.locked THEN [body |-> p.body, until |-> m.until] ELSE @]
        /\ Retained(p.key) => meta[p.key].digest = p.body
    BY <1>a, <1>b DEF DBPutAt, Tell
  <1> HIDE DEF m
  <1>5. m.until \in Nat /\ [body |-> p.body, until |-> m.until] \in Promises
    BY <1>1, <1>3 DEF Metas, Promises
  <1>6. StoreTypeOK'
    BY <1>1, <1>2, <1>3, <1>4, <1>5 DEF StoreInv, StoreTypeOK, Found
  <1>7. Halfway' /\ WholeRows' /\ LockedIsIntact'
    BY <1>1, <1>2, <1>3, <1>4 DEF StoreInv, StoreTypeOK, Halfway, WholeRows, LockedIsIntact, Found
  <1>8. Covered'
    <2> SUFFICES ASSUME NEW k \in Keys, promised'[k] # None, now < promised'[k].until
                 PROVE  /\ Found(k)' /\ meta'[k].locked
                        /\ meta'[k].digest = promised'[k].body
                        /\ promised'[k].until <= meta'[k].until
      BY <1>2 DEF Covered
    <2>1. CASE k # p.key
      BY <2>1, <1>1, <1>4 DEF StoreInv, StoreTypeOK, Covered, Found
    <2>2. CASE k = p.key /\ m.locked
      BY <2>2, <1>1, <1>3, <1>4, <1>5 DEF StoreInv, StoreTypeOK, Found
    <2>3. CASE k = p.key /\ ~m.locked
      BY <2>3, <1>1, <1>3, <1>4 DEF StoreInv, StoreTypeOK, Covered, Found
    <2> QED BY <2>1, <2>2, <2>3
  <1> QED BY <1>6, <1>7, <1>8 DEF StoreInv

\* Every step, and stuttering, keeps the invariant.
LEMMA StoreNextInv == StoreInv /\ [StoreNext]_storeVars => StoreInv'
  <1> SUFFICES ASSUME StoreInv, [StoreNext]_storeVars PROVE StoreInv'
    OBVIOUS
  <1>1. CASE UNCHANGED storeVars
    BY <1>1 DEF storeVars, StoreInv, StoreTypeOK, Halfway, Covered, WholeRows, LockedIsIntact, Found
  <1>2. CASE StoreNext
    BY <1>2, FSPutAtStep, DBPutAtStep, FSPutMetaStep, FSCrashStep, DBDeleteStep, FSDeleteStep,
       TickStep DEF StoreNext
  <1> QED BY <1>1, <1>2

\* The invariant holds throughout.
LEMMA StoreInductive == StoreSpec => []StoreInv
  BY StoreInitInv, StoreNextInv, PTL DEF StoreSpec

----------------------------------------------------------------------------
(* What follows. *)

\* Every reachable state of both adapters is well typed.
THEOREM StoreTypeCorrect == StoreSpec => []StoreTypeOK
  BY StoreInductive, PTL DEF StoreInv

\* Metadata that locks an object is that of the bytes it locks (PutAt: bytes first, then
\* metadata), whatever crashes and however two processes interleave.
THEOREM LocksIntact == StoreSpec => []LockedIsIntact
  BY StoreInductive, PTL DEF StoreInv

\* What a caller was told is under retention is there, byte for byte, until then.
THEOREM EvidenceStays == StoreSpec => []EvidenceKept
  <1>1. StoreInv => EvidenceKept
    <2> SUFFICES ASSUME StoreInv, NEW k \in Keys, promised[k] # None, now < promised[k].until
                 PROVE  GetVerified(k, promised[k].body) = promised[k].body
      BY DEF EvidenceKept
    <2>1. body[k] = promised[k].body
      BY DEF StoreInv, Covered, LockedIsIntact
    <2> QED BY <2>1 DEF GetVerified, Get
  <1> QED BY <1>1, StoreInductive, PTL

----------------------------------------------------------------------------
(* The write-once store. *)

\* Before and after a step the evidence is what is retained.
LEMMA EvidenceType == StoreInv => Evidence \in [Keys -> Bodies \cup {None}]
  BY DEF StoreInv, StoreTypeOK, Evidence

\* No step replaces the bytes of a key that is, and stays, under retention.
LEMMA RetainedStays ==
    ASSUME StoreInv, StoreNext, NEW k \in Keys, Retained(k), Retained(k)'
    PROVE  body'[k] = body[k]
  <1>1. Found(k) /\ meta[k].locked /\ meta[k].digest = body[k]
    BY DEF StoreInv, LockedIsIntact, Retained
  <1>2. ASSUME NEW p \in Puts, FSPutAt(p) PROVE body'[k] = body[k]
    BY <1>1, <1>2, PutFields DEF FSPutAt, NoOp, LockedAgainst, First, StoreInv, StoreTypeOK
  <1>3. ASSUME NEW p \in Puts, DBPutAt(p) PROVE body'[k] = body[k]
    <2>1. adapter = "db" /\ body' = [body EXCEPT ![p.key] = p.body]
          /\ EnforceObjectLock(p.key, Merged(p))
      BY <1>3 DEF DBPutAt
    <2>2. Merged(p).digest = p.body
      BY <1>3, <2>1, MergedFields DEF StoreInv
    <2> QED BY <1>1, <2>1, <2>2, PutFields DEF EnforceObjectLock, StoreInv, StoreTypeOK
  <1>4. ASSUME NEW q \in Procs, FSPutMeta(q) \/ FSCrash(q) PROVE body'[k] = body[k]
    BY <1>4 DEF FSPutMeta, FSCrash
  <1>5. ASSUME NEW j \in Keys, DBDelete(j) \/ \E q \in Procs : FSDelete(q, j)
        PROVE  body'[k] = body[k]
    BY <1>5 DEF DBDelete, FSDelete, StoreInv, StoreTypeOK
  <1>6. CASE Tick
    BY <1>6 DEF Tick
  <1> QED BY <1>2, <1>3, <1>4, <1>5, <1>6 DEF StoreNext

\* Every step of the adapters is a step of the write-once store or leaves it as it is.
LEMMA WriteOnceStep == StoreInv /\ StoreInv' /\ [StoreNext]_storeVars => [W!Next]_Evidence
  <1> SUFFICES ASSUME StoreInv, StoreInv', [StoreNext]_storeVars PROVE [W!Next]_Evidence
    OBVIOUS
  <1>1. CASE UNCHANGED storeVars
    BY <1>1 DEF storeVars, Evidence, Retained, Found
  <1>2. CASE StoreNext
    <2>1. Evidence' \in [Keys -> Bodies \cup {None}]
      BY DEF StoreInv, StoreTypeOK, Evidence
    <2>2. ASSUME NEW k \in Keys, Evidence[k] # None PROVE Evidence'[k] \in {Evidence[k], None}
      <3>1. Retained(k) /\ Evidence[k] = body[k]
        BY <2>2 DEF Evidence
      <3>2. CASE Retained(k)'
        <4>1. body'[k] = body[k]
          BY <1>2, <3>1, <3>2, RetainedStays
        <4> QED BY <3>1, <3>2, <4>1 DEF Evidence
      <3>3. CASE ~Retained(k)'
        BY <3>3 DEF Evidence
      <3> QED BY <3>2, <3>3
    <2> QED BY <2>1, <2>2 DEF W!Next
  <1> QED BY <1>1, <1>2

\* Both adapters implement the write-once store.
THEOREM RefinesWriteOnce == StoreSpec => ImplementsWriteOnce
  <1>1. StoreInit => W!Init
    BY DEF StoreInit, W!Init, Evidence, Retained, Found
  <1> QED BY <1>1, StoreInductive, WriteOnceStep, PTL DEF StoreSpec, ImplementsWriteOnce, W!Spec

===============================================================================
