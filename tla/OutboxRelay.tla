----------------------------- MODULE OutboxRelay -----------------------------
(***************************************************************************)
(* The transactional outbox of one aggregate and the relays that drain it. *)
(*                                                                         *)
(* Code: internal/platform/outbox/outbox.go (Append, PublishBatch, Run),   *)
(* internal/platform/eventbus/eventbus.go (FileLog and InProcess, the two  *)
(* publishers), migrations/0003_audit_outbox.sql (the table and its row    *)
(* security policy), internal/platform/db/db.go (commit or roll back).     *)
(*                                                                         *)
(* Every API replica and every worker runs one relay goroutine with a      *)
(* publisher of its own, so a relay stands for its process: the topic      *)
(* files survive a restart, the de-duplication map and the dead-letter     *)
(* list do not.  Domain transactions append their events when they commit; *)
(* created_at is now(), which PostgreSQL freezes at the START of the       *)
(* transaction.                                                            *)
(***************************************************************************)
EXTENDS Integers, Sequences, FiniteSets, SequencesExt

CONSTANTS
    Txs,           \* domain transactions on the aggregate, each run once
    Events,        \* the events they append
    TxOf,          \* the transaction of each event
    Relays,        \* relay processes
    LogRelays,     \* those whose publisher is a FileLog
    Subscribed,    \* those whose bus has the consumer group
    Poison,        \* events FileLog may be unable to write (topic not writable, not encodable)
    BypassRLS,     \* the database role is exempt from row security
    BatchSize,     \* RelayConfig.BatchSize
    MaxAttempts,   \* RelayConfig.MaxAttempts
    MaxFaults,     \* bound: crashes, shutdowns and passing failures
    MaxRetried     \* bound: where the history counter retried saturates

ASSUME EventsAssumption ==
    IsFiniteSet(Events) /\ Poison \subseteq Events /\ TxOf \in [Events -> Txs]
ASSUME RelaysAssumption == LogRelays \subseteq Relays /\ Subscribed \subseteq Relays
ASSUME LimitsAssumption ==
    /\ BatchSize \in Nat \ {0} /\ MaxAttempts \in Nat \ {0} /\ MaxFaults \in Nat
    /\ MaxRetried \in Nat
ASSUME RoleAssumption == BypassRLS \in BOOLEAN

VARIABLES
    poison,      \* those of Poison that it can never write
    clock,       \* transaction start times
    started,     \* now() of each transaction, 0 before it begins
    txState,     \* "new", "open", "committed" or "aborted"
    published,   \* rows with published_at set
    attempts,    \* column attempts
    rpc,         \* where each relay is in PublishBatch
    batch,       \* the rows it selected FOR UPDATE
    at,          \* index of the event it publishes next
    cancelled,   \* its context is cancelled (shutdown)
    topicLog,    \* lines of the topic file for each event, counted up to MaxRetried + 1
    seen,        \* InProcess.seen of the process
    dlq,         \* InProcess.dlq of the process
    handled,     \* events the consumer group handled
    dead,        \* history: events that went to some dead-letter list
    retried,     \* history: how often a batch holding the event was given up
    faults       \* faults so far

txVars == <<poison, clock, started, txState>>
memory == <<seen, dlq, handled, dead>>
vars == <<poison, clock, started, txState, published, attempts, rpc, batch, at, cancelled,
          topicLog, seen, dlq, handled, dead, retried, faults>>

Init ==
    /\ poison \in SUBSET Poison
    /\ clock = 0 /\ handled = {} /\ topicLog = [e \in Events |-> 0]
    /\ started = [t \in Txs |-> 0]
    /\ txState = [t \in Txs |-> "new"]
    /\ published = {} /\ dead = {} /\ faults = 0
    /\ attempts = [e \in Events |-> 0]
    /\ retried = [e \in Events |-> 0]
    /\ rpc = [q \in Relays |-> "idle"]
    /\ batch = [q \in Relays |-> <<>>]
    /\ at = [q \in Relays |-> 0]
    /\ cancelled = [q \in Relays |-> FALSE]
    /\ seen = [q \in Relays |-> {}]
    /\ dlq = [q \in Relays |-> {}]

----------------------------------------------------------------------------
(* Domain transactions. *)

Begin(t) ==
    /\ txState[t] = "new"
    /\ clock' = clock + 1
    /\ started' = [started EXCEPT ![t] = clock + 1]
    /\ txState' = [txState EXCEPT ![t] = "open"]
    /\ UNCHANGED <<poison, published, attempts, rpc, batch, at, cancelled, topicLog, memory,
                   retried, faults>>

\* Store.Append in the caller's transaction: state change and events become
\* visible together.
CommitTx(t) ==
    /\ txState[t] = "open"
    /\ txState' = [txState EXCEPT ![t] = "committed"]
    /\ UNCHANGED <<poison, clock, started, published, attempts, rpc, batch, at, cancelled, topicLog,
                   memory, retried, faults>>

\* If the transaction rolls back, so do the events.
AbortTx(t) ==
    /\ txState[t] = "open"
    /\ txState' = [txState EXCEPT ![t] = "aborted"]
    /\ UNCHANGED <<poison, clock, started, published, attempts, rpc, batch, at, cancelled,
                   topicLog, memory, retried, faults>>

----------------------------------------------------------------------------
(* PublishBatch. *)

Visible == { e \in Events : txState[TxOf[e]] = "committed" }
Locked == UNION { ToSet(batch[q]) : q \in Relays }

\* No FOR UPDATE SKIP LOCKED (mutation of Pending).
PendingUnlocked == { e \in Visible \ published : attempts[e] < MaxAttempts }

\* selectPendingSQL, its WHERE and SKIP LOCKED.
Pending == { e \in Visible \ (published \cup Locked) : attempts[e] < MaxAttempts }

\* Its ORDER BY created_at LIMIT $2: rows of one transaction tie.
Batches(pending) ==
    UNION { { s \in SetToSeqs(S) :
                \A i, j \in 1..Len(s) : i < j => started[TxOf[s[i]]] <= started[TxOf[s[j]]] } :
            S \in { S \in SUBSET pending :
                      /\ Cardinality(S) = IF Cardinality(pending) < BatchSize
                                          THEN Cardinality(pending) ELSE BatchSize
                      /\ \A e \in S, f \in pending \ S : started[TxOf[e]] <= started[TxOf[f]] } }

\* Where Publish starts: FileLog writes first, a bare InProcess delivers, and
\* with no subscription there is nothing to do.
Dispatch(q) == IF q \in Subscribed THEN "deliver" ELSE "mark"
Publishing(q) == IF q \in LogRelays THEN "log" ELSE Dispatch(q)

SelectBatch(q) ==
    /\ rpc[q] = "idle" /\ ~ cancelled[q]
    /\ Pending # {}
    /\ \E s \in Batches(Pending) : batch' = [batch EXCEPT ![q] = s]
    /\ at' = [at EXCEPT ![q] = 1]
    /\ rpc' = [rpc EXCEPT ![q] = Publishing(q)]
    /\ UNCHANGED <<txVars, published, attempts, cancelled, topicLog, memory, retried, faults>>

\* The step to the next event of the batch, or to what follows the last one.
Advance(q, next) ==
    IF at[q] < Len(batch[q])
    THEN at' = [at EXCEPT ![q] = at[q] + 1] /\ UNCHANGED rpc
    ELSE at' = [at EXCEPT ![q] = 1] /\ rpc' = [rpc EXCEPT ![q] = next]

\* One more line for the event.
Logged(e) == [topicLog EXCEPT ![e] = IF @ <= MaxRetried THEN @ + 1 ELSE @]

\* FileLog.Publish appends one line.
WriteLog(q) ==
    /\ rpc[q] = "log"
    /\ batch[q][at[q]] \notin poison
    /\ topicLog' = Logged(batch[q][at[q]])
    /\ Advance(q, Dispatch(q))
    /\ UNCHANGED <<txVars, published, attempts, batch, cancelled, memory, retried, faults>>

\* InProcess.deliver: the event was handled by this process before.
DeliverDuplicate(q) ==
    /\ rpc[q] = "deliver"
    /\ batch[q][at[q]] \in seen[q]
    /\ Advance(q, "mark")
    /\ UNCHANGED <<txVars, published, attempts, batch, cancelled, topicLog, memory, retried,
                   faults>>

\* Some attempt of the handler succeeds.
DeliverHandled(q) ==
    /\ rpc[q] = "deliver"
    /\ batch[q][at[q]] \notin seen[q]
    /\ handled' = handled \cup {batch[q][at[q]]}
    /\ seen' = [seen EXCEPT ![q] = @ \cup {batch[q][at[q]]}]
    /\ Advance(q, "mark")
    /\ UNCHANGED <<txVars, published, attempts, batch, cancelled, topicLog, dlq, dead, retried,
                   faults>>

\* Every attempt fails: the dead-letter list.
DeliverDead(q) ==
    /\ rpc[q] = "deliver"
    /\ batch[q][at[q]] \notin seen[q]
    /\ dlq' = [dlq EXCEPT ![q] = @ \cup {batch[q][at[q]]}]
    /\ dead' = dead \cup {batch[q][at[q]]}
    /\ Advance(q, "mark")
    /\ UNCHANGED <<txVars, published, attempts, batch, cancelled, topicLog, seen, handled,
                   retried, faults>>

\* The backoff meets a cancelled context: deliver returns, Publish goes on.
DeliverDropped(q) ==
    /\ rpc[q] = "deliver" /\ cancelled[q]
    /\ batch[q][at[q]] \notin seen[q]
    /\ Advance(q, "mark")
    /\ UNCHANGED <<txVars, published, attempts, batch, cancelled, topicLog, memory, retried,
                   faults>>

\* Marking that outlives its context (mutation of MayMark).
MayMarkDetached(q) == BypassRLS

\* UPDATE ... SET published_at under the relay session: the policy's WITH CHECK
\* asks for the tenant, which this session does not set; a cancelled context
\* makes the statement or the commit fail.
MayMark(q) == BypassRLS /\ ~ cancelled[q]

\* A transaction that is never closed (mutation of EndBatch).
EndBatchLeaked(q) == rpc' = [rpc EXCEPT ![q] = "idle"] /\ UNCHANGED <<batch, at>>

\* The transaction ends and its row locks with it.
EndBatch(q) ==
    /\ rpc' = [rpc EXCEPT ![q] = "idle"]
    /\ batch' = [batch EXCEPT ![q] = <<>>]
    /\ at' = [at EXCEPT ![q] = 0]

MarkPublished(q) ==
    /\ rpc[q] = "mark"
    /\ MayMark(q)
    /\ published' = published \cup ToSet(batch[q])
    /\ EndBatch(q)
    /\ UNCHANGED <<txVars, attempts, cancelled, topicLog, memory, retried, faults>>

\* The transaction is rolled back, whatever it wrote: the attempts + 1 of a
\* failed publish is written in this very transaction and goes with it.
GiveUp(q) ==
    /\ retried' = [e \in Events |-> IF e \in ToSet(batch[q]) /\ retried[e] < MaxRetried
                                   THEN retried[e] + 1 ELSE retried[e]]
    /\ EndBatch(q)
    /\ UNCHANGED <<published, attempts>>

\* A FileLog that skips what it cannot write (mutation of PublishPoison).
PublishPoisonSkipped(q) ==
    /\ rpc[q] = "log"
    /\ batch[q][at[q]] \in poison
    /\ Advance(q, Dispatch(q))
    /\ UNCHANGED <<txVars, published, attempts, batch, cancelled, topicLog, memory, retried,
                   faults>>

\* FileLog.Publish returns an error for an event it can never write.
PublishPoison(q) ==
    /\ rpc[q] = "log"
    /\ batch[q][at[q]] \in poison
    /\ GiveUp(q)
    /\ UNCHANGED <<txVars, cancelled, topicLog, memory, faults>>

\* A passing failure: of the write, of marking, of the commit or of the session.
BatchFails(q) ==
    /\ rpc[q] # "idle"
    /\ faults < MaxFaults
    /\ faults' = faults + 1
    /\ GiveUp(q)
    /\ UNCHANGED <<txVars, cancelled, topicLog, memory>>

\* Marking is refused: by row security, or because the context is cancelled.
MarkRefused(q) ==
    /\ rpc[q] = "mark"
    /\ ~ MayMark(q)
    /\ GiveUp(q)
    /\ UNCHANGED <<txVars, cancelled, topicLog, memory, faults>>

----------------------------------------------------------------------------
(* The process. *)

\* Shutdown begins: the context of Run and PublishBatch is cancelled.
Cancel(q) ==
    /\ ~ cancelled[q]
    /\ faults < MaxFaults
    /\ faults' = faults + 1
    /\ cancelled' = [cancelled EXCEPT ![q] = TRUE]
    /\ UNCHANGED <<txVars, published, attempts, rpc, batch, at, topicLog, memory, retried>>

\* The process is gone and a new one starts: its memory is lost.
Reborn(q) ==
    /\ cancelled' = [cancelled EXCEPT ![q] = FALSE]
    /\ seen' = [seen EXCEPT ![q] = {}]
    /\ dlq' = [dlq EXCEPT ![q] = {}]
    /\ GiveUp(q)
    /\ UNCHANGED <<txVars, topicLog, handled, dead>>

\* Run has returned after the shutdown.
Restart(q) == rpc[q] = "idle" /\ cancelled[q] /\ Reborn(q) /\ UNCHANGED faults

\* Killed at any point.
Crash(q) == faults < MaxFaults /\ faults' = faults + 1 /\ Reborn(q)

RelayStep(q) ==
    \/ SelectBatch(q)
    \/ WriteLog(q)
    \/ PublishPoison(q)
    \/ DeliverDuplicate(q)
    \/ DeliverHandled(q)
    \/ DeliverDead(q)
    \/ DeliverDropped(q)
    \/ MarkPublished(q)
    \/ MarkRefused(q)
    \/ Restart(q)

Next ==
    \/ \E t \in Txs : Begin(t) \/ CommitTx(t) \/ AbortTx(t)
    \/ \E q \in Relays : RelayStep(q) \/ BatchFails(q) \/ Cancel(q) \/ Crash(q)

\* Run's ticker keeps calling PublishBatch, and an orchestrator restarts a
\* process that stopped; nothing forces transactions or faults.
Fairness == \A q \in Relays : WF_vars(RelayStep(q))

Spec == Init /\ [][Next]_vars /\ Fairness

----------------------------------------------------------------------------
(* Properties. *)

InLog == { e \in Events : topicLog[e] > 0 }

\* Every variable has its type, and a relay in the middle of a batch is at one
\* of its events.
TypeOK ==
    /\ poison \subseteq Poison /\ clock \in Nat /\ faults \in 0..MaxFaults
    /\ started \in [Txs -> Nat]
    /\ txState \in [Txs -> {"new", "open", "committed", "aborted"}]
    /\ topicLog \in [Events -> 0 .. MaxRetried + 1] /\ handled \subseteq Events
    /\ published \subseteq Events /\ dead \subseteq Events
    /\ attempts \in [Events -> Nat] /\ retried \in [Events -> Nat]
    /\ rpc \in [Relays -> {"idle", "log", "deliver", "mark"}]
    /\ batch \in [Relays -> Seq(Events)] /\ at \in [Relays -> Nat]
    /\ cancelled \in [Relays -> BOOLEAN]
    /\ seen \in [Relays -> SUBSET Events] /\ dlq \in [Relays -> SUBSET Events]
    /\ \A q \in Relays : IF rpc[q] = "idle" THEN batch[q] = <<>> /\ at[q] = 0
                                            ELSE at[q] \in 1..Len(batch[q])

\* What is marked published or reached a handler is in the topic file, and what is in the
\* topic file became true in a committed transaction, whichever crashes, failed batches,
\* refused events and shutdowns happened on the way: no phantom facts (Append), and nothing
\* a replay of the log would lose (FileLog.Publish).
FactsLoggedFirst ==
    /\ InLog \cup handled \cup published \subseteq Visible
    /\ LogRelays = Relays => published \cup handled \cup dead \subseteq InLog

\* FOR UPDATE SKIP LOCKED: concurrent relays do not publish an event twice; each
\* further line for an event is owed to a batch that was given up.
DuplicatesOnlyAfterRollback == \A e \in Events : topicLog[e] <= retried[e] + 1

\* At least once: a published row was handled or dead-lettered, although a
\* shutdown makes deliver return without doing either.
PublishedWasConsumed ==
    Subscribed = Relays => published \subseteq handled \cup dead

\* Every committed event is eventually marked published, once faults cease, if the topic
\* file takes them all (Run; the policy of outbox_events, which its comment says lets the
\* relay read and mark).  It holds with a role that is exempt from row security, as the
\* database user of the compose file is, and fails with the role the migrations describe:
\* for that role the policy lets the relay read and not mark.
EventuallyPublished ==
    \A e \in Events : poison = {} /\ e \in Visible ~> e \in published

=============================================================================
