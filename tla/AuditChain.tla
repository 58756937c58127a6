------------------------------ MODULE AuditChain ------------------------------
(***************************************************************************)
(* The hash-chained audit trail of ONE tenant: appending, anchoring and    *)
(* verifying, all at the same time.                                        *)
(*                                                                         *)
(* Code: internal/audit/app/writer.go (Append, Anchor, Verify,             *)
(* VerifyAgainstAnchor), internal/audit/infra/postgres.go (NextSequence,   *)
(* AdvanceHead and the reads), internal/audit/domain/record.go (Seal,      *)
(* VerifyChain), internal/platform/hash/hash.go (Chain) and                *)
(* migrations/0003_audit_outbox.sql.                                       *)
(*                                                                         *)
(* Every operation of the platform appends one record in its own           *)
(* transaction, under the row lock of the tenant's audit_sequences row.    *)
(* Anchoring and verification read through transactions of their own, so   *)
(* appends commit between any two of their reads.                          *)
(***************************************************************************)
EXTENDS Integers, Sequences, FiniteSets, SequencesExt

CONSTANTS
    Txs,           \* transactions that append a record
    Payloads,      \* what a record says
    Anchorers,     \* workers that anchor the chain
    Verifiers,     \* running verifications
    None,
    MaxRecords,    \* bound: length of the chain
    MaxAnchors,    \* bound: anchors begun
    MayDetach,     \* retention detaches old partitions
    MayDamage      \* a stored record may be altered or lost

ASSUME BoundsAssumption == MaxRecords \in Nat /\ MaxAnchors \in Nat
ASSUME FaultsAssumption == MayDetach \in BOOLEAN /\ MayDamage \in BOOLEAN
ASSUME NoneAssumption == None \notin Txs

VARIABLES
    counter,     \* the audit_sequences row: next sequence and chain head
    records,     \* committed audit_records rows
    holder,      \* the transaction that holds the row lock of counter
    draft,       \* the record each transaction wrote, not yet committed
    objects,     \* anchors in the write-once bucket
    anchors,     \* committed audit_anchors rows
    clock,       \* anchored_at
    pending,     \* the anchor each worker is publishing
    stored,      \* whether it is in the bucket already
    vpc,         \* where each verification is
    ref,         \* the anchor it compares with
    span,        \* the records it read
    report,      \* its result
    damage       \* history: what happened to the stored records

vars == <<counter, records, holder, draft, objects, anchors, clock, pending, stored, vpc, ref,
          span, report, damage>>
writing == <<counter, records, holder, draft>>
anchoring == <<objects, anchors, clock, pending, stored>>
verifying == <<vpc, ref, span, report>>

----------------------------------------------------------------------------
(* The chain. *)

ZeroChainHash == <<>>

\* Chain: SHA-256(prev || payload), taken as injective; a hash stands for all the
\* payloads it covers.
Chain(prev, payload) == Append(prev, payload)

\* Seal: the digest covers everything but itself.
Record(n, prev, p) ==
    [seq |-> n, prev |-> prev, payload |-> p, hash |-> Chain(prev, <<n, p>>)]

\* Range: sequence >= from, and <= to unless to is 0, ORDER BY sequence.
Ascending(s) == \A i, j \in DOMAIN s : i < j => s[i].seq < s[j].seq
InOrder(rows) == CHOOSE s \in SetToSeqs(rows) : Ascending(s)
ReadRange(from, to) == InOrder({ x \in records : x.seq >= from /\ (to > 0 => x.seq <= to) })

\* The three checks of VerifyChain on the i-th record of a run.
Contiguous(s, i) == s[i].seq = s[1].seq + i - 1
Linked(s, i, start) == s[i].prev = IF i = 1 THEN start ELSE s[i - 1].hash
HashOK(s, i) == s[i].hash = Chain(s[i].prev, <<s[i].seq, s[i].payload>>)

\* VerifyChain that checks hashes and numbering but not the links (mutation).
VerifyChainUnlinked(s, start) ==
    LET bad == { i \in 1..Len(s) : ~ (Contiguous(s, i) /\ HashOK(s, i)) }
    IN bad = {}

\* VerifyChain: valid when no record fails a check.
VerifyChain(s, start) ==
    LET bad == { i \in 1..Len(s) :
                   ~ (Contiguous(s, i) /\ Linked(s, i, start) /\ HashOK(s, i)) }
    IN bad = {}

----------------------------------------------------------------------------

Init ==
    /\ counter = [next |-> 1, head |-> ZeroChainHash]
    /\ records = {} /\ objects = {} /\ anchors = {}
    /\ holder = None /\ clock = 0
    /\ draft = [t \in Txs |-> None]
    /\ pending = [a \in Anchorers |-> None]
    /\ stored = [a \in Anchorers |-> FALSE]
    /\ vpc = [v \in Verifiers |-> "idle"]
    /\ ref = [v \in Verifiers |-> None]
    /\ span = [v \in Verifiers |-> None]
    /\ report = [v \in Verifiers |-> None]
    /\ damage = [kind |-> "none", seq |-> 0]

(* Append. *)

\* SELECT ... FOR UPDATE.  A missing row is inserted first (EnsureChain), which
\* locks it in the same way and starts from the same values.
NextSequence(t) ==
    /\ holder = None
    /\ counter.next <= MaxRecords
    /\ holder' = t
    /\ UNCHANGED <<counter, records, draft, anchoring, verifying, damage>>

\* Seal that links to genesis instead of to the head (mutation of AppendRecord).
AppendRecordFromZero(t, p) ==
    /\ holder = t /\ draft[t] = None
    /\ draft' = [draft EXCEPT ![t] = Record(counter.next, ZeroChainHash, p)]
    /\ UNCHANGED <<counter, records, holder, anchoring, verifying, damage>>

\* Validate, Seal, INSERT and AdvanceHead, all inside the transaction.
AppendRecord(t, p) ==
    /\ holder = t /\ draft[t] = None
    /\ draft' = [draft EXCEPT ![t] = Record(counter.next, counter.head, p)]
    /\ UNCHANGED <<counter, records, holder, anchoring, verifying, damage>>

\* AdvanceHead that forgets the sequence (mutation of Advanced).
AdvancedHeadOnly(rec) == [counter EXCEPT !.head = rec.hash]

\* AdvanceHead: next_sequence and head_hash together.
Advanced(rec) == [next |-> rec.seq + 1, head |-> rec.hash]

CommitTx(t) ==
    /\ holder = t /\ draft[t] # None
    /\ records' = records \cup {draft[t]}
    /\ counter' = Advanced(draft[t])
    /\ holder' = None
    /\ draft' = [draft EXCEPT ![t] = None]
    /\ UNCHANGED <<anchoring, verifying, damage>>

\* A rollback that leaves the record behind (mutation of RollbackTx).
RollbackTxKeepsRecord(t) ==
    /\ holder = t
    /\ holder' = None
    /\ UNCHANGED <<counter, records, draft, anchoring, verifying, damage>>

\* The operation fails after taking the lock: nothing of it remains.
RollbackTx(t) ==
    /\ holder = t
    /\ holder' = None
    /\ draft' = [draft EXCEPT ![t] = None]
    /\ UNCHANGED <<counter, records, anchoring, verifying, damage>>

----------------------------------------------------------------------------
(* Anchor. *)

\* Head reads the counter row; an empty chain is not anchored.
AnchorHead(a) ==
    /\ pending[a] = None
    /\ counter.next > 1
    /\ clock < MaxAnchors
    /\ pending' = [pending EXCEPT ![a] = [time |-> 0, seq |-> counter.next - 1,
                                          head |-> counter.head]]
    /\ UNCHANGED <<writing, objects, anchors, clock, stored, verifying, damage>>

\* AnchoredAt is taken afterwards: a slow worker stamps an old head later.
AnchorStamp(a) ==
    /\ pending[a] # None /\ pending[a].time = 0
    /\ clock < MaxAnchors
    /\ clock' = clock + 1
    /\ pending' = [pending EXCEPT ![a].time = clock + 1]
    /\ UNCHANGED <<writing, objects, anchors, stored, verifying, damage>>

\* PutAt, locked, under a key made of the time and the sequence.
AnchorPut(a) ==
    /\ pending[a] # None /\ pending[a].time # 0 /\ ~ stored[a]
    /\ objects' = objects \cup {pending[a]}
    /\ stored' = [stored EXCEPT ![a] = TRUE]
    /\ UNCHANGED <<writing, anchors, clock, pending, verifying, damage>>

\* Saving before the object is stored (mutation of Saveable).
SaveableEarly(a) == pending[a] # None

\* SaveAnchor runs after PutAt returned.
Saveable(a) == pending[a] # None /\ stored[a]

SaveAnchor(a) ==
    /\ Saveable(a)
    /\ anchors' = anchors \cup {pending[a]}
    /\ pending' = [pending EXCEPT ![a] = None]
    /\ stored' = [stored EXCEPT ![a] = FALSE]
    /\ UNCHANGED <<writing, objects, clock, verifying, damage>>

\* The store or the database refuses, or the worker dies.
AnchorFails(a) ==
    /\ pending[a] # None
    /\ pending' = [pending EXCEPT ![a] = None]
    /\ stored' = [stored EXCEPT ![a] = FALSE]
    /\ UNCHANGED <<writing, objects, anchors, clock, verifying, damage>>

----------------------------------------------------------------------------
(* VerifyAgainstAnchor. *)

\* LatestAnchor: ORDER BY anchored_at DESC LIMIT 1.
LatestAnchor ==
    IF anchors = {} THEN None
    ELSE CHOOSE x \in anchors : \A y \in anchors : y.time <= x.time

VerifyStart(v) ==
    /\ vpc[v] = "idle"
    /\ ref' = [ref EXCEPT ![v] = LatestAnchor]
    /\ report' = [report EXCEPT ![v] = None]
    /\ vpc' = [vpc EXCEPT ![v] = IF LatestAnchor = None THEN "range" ELSE "get"]
    /\ UNCHANGED <<writing, anchoring, span, damage>>

\* Get of the anchored record: missing or different means invalid.
VerifyGet(v) ==
    /\ vpc[v] = "get"
    /\ LET held == \E r \in records : r.seq = ref[v].seq /\ r.hash = ref[v].head
       IN /\ vpc' = [vpc EXCEPT ![v] = IF held THEN "range" ELSE "idle"]
          /\ report' = [report EXCEPT ![v] = IF held THEN None
                          ELSE [valid |-> FALSE, from |-> 1, to |-> ref[v].seq]]
    /\ UNCHANGED <<writing, anchoring, ref, span, damage>>

(* Verify. *)

\* The report on a run of records that should continue the hash start.
Report(from, s, start) ==
    [valid |-> VerifyChain(s, start), from |-> from,
     to |-> IF s = <<>> THEN 0 ELSE s[Len(s)].seq]

\* Range, asked for by a caller or, as Verify(1, 0), after the anchor.  From 1
\* the chain must start at the genesis value; an empty run is valid.
VerifyRange(v, from, to) ==
    /\ vpc[v] = "idle" \/ (vpc[v] = "range" /\ from = 1 /\ to = 0)
    /\ LET s == ReadRange(from, to)
       IN IF from = 1 \/ s = <<>>
          THEN /\ report' = [report EXCEPT ![v] = Report(from, s, ZeroChainHash)]
               /\ vpc' = [vpc EXCEPT ![v] = "idle"]
               /\ UNCHANGED span
          ELSE /\ report' = [report EXCEPT ![v] = None]
               /\ vpc' = [vpc EXCEPT ![v] = "prev"]
               /\ span' = [span EXCEPT ![v] = [from |-> from, rows |-> s]]
    /\ UNCHANGED <<writing, anchoring, ref, damage>>

\* Get(from - 1), whose stored hash the run must continue; a missing record is
\* an error without a report.
VerifyPrev(v) ==
    /\ vpc[v] = "prev"
    /\ \/ \E r \in records :
            /\ r.seq = span[v].from - 1
            /\ report' = [report EXCEPT ![v] =
                            Report(span[v].from, span[v].rows, r.hash)]
       \/ /\ \A r \in records : r.seq # span[v].from - 1
          /\ UNCHANGED report
    /\ vpc' = [vpc EXCEPT ![v] = "idle"]
    /\ span' = [span EXCEPT ![v] = None]
    /\ UNCHANGED <<writing, anchoring, ref, damage>>

----------------------------------------------------------------------------
(* What may happen to the stored records from outside. *)

\* Between verifications; earlier reports are no longer looked at.
Outside(rows, kind, n) ==
    /\ damage.kind = "none"
    /\ \A v \in Verifiers : vpc[v] = "idle"
    /\ records' = rows
    /\ report' = [v \in Verifiers |-> None]
    /\ damage' = [kind |-> kind, seq |-> n]
    /\ UNCHANGED <<counter, holder, draft, anchoring, vpc, ref, span>>

\* Retention: the partition that holds the oldest records is detached.
Detach(r) == MayDetach /\ Outside({ x \in records : x.seq > r.seq }, "detached", r.seq)

\* A record is changed in place.
Alter(r, p) ==
    MayDamage /\ p # r.payload
      /\ Outside((records \ {r}) \cup {[r EXCEPT !.payload = p]}, "altered", r.seq)

\* A record is lost.
Lose(r) == MayDamage /\ Outside(records \ {r}, "lost", r.seq)

----------------------------------------------------------------------------

Next ==
    \/ \E t \in Txs : \/ NextSequence(t)
                      \/ \E p \in Payloads : AppendRecord(t, p)
                      \/ CommitTx(t)
                      \/ RollbackTx(t)
    \/ \E a \in Anchorers : \/ AnchorHead(a)
                            \/ AnchorStamp(a)
                            \/ AnchorPut(a)
                            \/ SaveAnchor(a)
                            \/ AnchorFails(a)
    \/ \E v \in Verifiers : \/ VerifyStart(v)
                            \/ VerifyGet(v)
                            \/ \E from \in 1..MaxRecords, to \in 0..MaxRecords :
                                  VerifyRange(v, from, to)
                            \/ VerifyPrev(v)
    \/ \E r \in records : Detach(r) \/ Lose(r) \/ \E p \in Payloads : Alter(r, p)

Spec == Init /\ [][Next]_vars

----------------------------------------------------------------------------
(* Properties. *)

Hashes == Seq(Nat \X Payloads)
Rows == [seq: Nat, prev: Hashes, payload: Payloads, hash: Hashes]
AnchorRows == [time: Nat, seq: Nat, head: Hashes]
Spans == [from: Nat, rows: Seq(Rows)]
Reports == [valid: BOOLEAN, from: Nat, to: Nat]

\* Every variable has its type, and only the holder of the row lock has written.
TypeOK ==
    /\ counter \in [next: Nat, head: Hashes]
    /\ records \subseteq Rows
    /\ holder \in Txs \cup {None}
    /\ draft \in [Txs -> Rows \cup {None}]
    /\ \A t \in Txs : draft[t] # None => holder = t
    /\ objects \subseteq AnchorRows /\ anchors \subseteq AnchorRows
    /\ clock \in Nat
    /\ pending \in [Anchorers -> AnchorRows \cup {None}]
    /\ stored \in [Anchorers -> BOOLEAN]
    /\ vpc \in [Verifiers -> {"idle", "get", "range", "prev"}]
    /\ ref \in [Verifiers -> AnchorRows \cup {None}]
    /\ report \in [Verifiers -> Reports \cup {None}]
    /\ span \in [Verifiers -> Spans \cup {None}]
    /\ \A v \in Verifiers : IF vpc[v] = "prev" THEN span[v] \in Spans ELSE span[v] = None
    /\ damage \in [kind: {"none", "detached", "altered", "lost"}, seq: Nat]

\* The chain is gapless and linked from genesis to the counter's head, whichever
\* transactions interleave and roll back (the comment of NextSequence).
ChainIntact ==
    damage.kind = "none" =>
      LET s == InOrder(records)
      IN /\ Len(s) = counter.next - 1
         /\ \A i \in 1..Len(s) :
              s[i] = Record(i, IF i = 1 THEN ZeroChainHash ELSE s[i - 1].hash, s[i].payload)
         /\ counter.head = IF s = <<>> THEN ZeroChainHash ELSE s[Len(s)].hash

\* A saved anchor is in the write-once bucket, and the record it names is on the
\* chain with that very hash: it was read from a committed counter row.
AnchorsOnChain ==
    \A x \in anchors :
        /\ x \in objects
        /\ damage.kind = "none" => \E r \in records : r.seq = x.seq /\ r.hash = x.head

\* Verification raises no false alarm while appends, rollbacks and anchoring go
\* on between its reads (VerifyAgainstAnchor, Verify).  Once old partitions are
\* detached this holds of ranges that do not ask for the first record.
NoFalseAlarm ==
    \A v \in Verifiers :
        report[v] # None =>
            report[v].valid \/ damage.kind \in {"altered", "lost"}
                            \/ (damage.kind = "detached" /\ report[v].from = 1)

\* A report that says valid covers no altered record and no hole between the
\* sequence asked for and the last one it found.
DamageNeverCovered ==
    damage.kind \in {"altered", "lost"} =>
      \A v \in Verifiers : report[v] # None /\ report[v].valid =>
          ~ (report[v].from <= damage.seq /\ damage.seq <= report[v].to)

\* The trail implements the log it promises: one entry per committed transaction.  The
\* entries are the payloads the head covers, which no damage to a stored record changes.
Entries == [i \in 1..Len(counter.head) |-> counter.head[i][2]]
Log == INSTANCE AuditLog WITH log <- Entries
ImplementsLog == Log!Spec

=============================================================================
