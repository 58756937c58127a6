------------------------------ MODULE ObjectStore ------------------------------
(***************************************************************************)
(* The object store: content-addressed and explicit keys, write-once        *)
(* retention, on the file system and in the database.                       *)
(*                                                                         *)
(* Code: internal/platform/objstore (objstore.go: FS, postgres.go: Postgres,*)
(* open.go), with the triggers of migrations/0005_object_store.sql; its     *)
(* callers artifactgraph/app/service.go and audit/app/writer.go.            *)
(*                                                                         *)
(* Bodies stand for their digests.  On the file system a write takes two    *)
(* files, the object and its metadata, each a step, under a lock that is    *)
(* the process's own; a process may die between the steps.  In the database *)
(* a write is one statement.                                                *)
(***************************************************************************)
EXTENDS Integers, FiniteSets

CONSTANTS
    Keys, Bodies, Procs,
    Puts,       \* the writes that are made: process, key, body, lock, retention
    Deletes,    \* the deletes a process may make on the file system
    MaxClock,
    None

Clock == 0 .. MaxClock

ASSUME PutsAssumption ==
    /\ Puts \subseteq [proc : Procs, key : Keys, body : Bodies, lock : BOOLEAN, retain : Nat]
    /\ Deletes \subseteq Procs \X Keys
    /\ \A d \in Deletes, p \in Puts : p.key = d[2] => p.proc = d[1]

\* Two processes write one key only where it is made of the content (ContentKey, and the
\* evidence of an approval).  An anchor is named by the tenant, the second it is made in
\* and the sequence number: every worker makes anchors, and two that anchor the same head of
\* a tenant in one second on a shared directory are outside this model.
ASSUME AddressedAssumption ==
    \A p, q \in Puts : p.key = q.key /\ p.proc # q.proc => p.body = q.body

Metas == [digest : Bodies \cup {None}, locked : BOOLEAN, until : Nat, readable : BOOLEAN]
Promises == [body : Bodies, until : Nat]

ASSUME NoneAssumption == None \notin Bodies \cup Puts \cup Metas \cup Promises
ASSUME ClockAssumption == MaxClock \in Nat

VARIABLES
    adapter,    \* Open: "fs" or "db"
    now,
    body,       \* what is stored at each key
    meta,       \* its metadata: digest, locked, until and whether it can be decoded; or None
    busy,       \* each process: the write it is half way through, under its lock
    promised    \* history: what a caller was told is under retention, and until when

storeVars == <<adapter, now, body, meta, busy, promised>>

StoreInit ==
    /\ adapter \in {"fs", "db"} /\ now = 0
    /\ body = [k \in Keys |-> None] /\ meta = [k \in Keys |-> None]
    /\ busy = [p \in Procs |-> None]
    /\ promised = [k \in Keys |-> None]

----------------------------------------------------------------------------
(* Reading. *)

\* Metadata cut short: json.Unmarshal refuses it.
Corrupt == [digest |-> None, locked |-> FALSE, until |-> 0, readable |-> FALSE]

\* The metadata of a write.
Meta(p) == [digest |-> p.body, locked |-> p.lock, until |-> now + p.retain, readable |-> TRUE]

\* statLocked: an object whose metadata is missing or unreadable is not found.
Found(k) == meta[k] # None /\ meta[k].readable

\* Get: metadata that is lost does not make the content unreadable.
Get(k) == body[k]

\* GetVerified: only bytes with the digest that is asked for.
GetVerified(k, want) == IF Get(k) = want THEN Get(k) ELSE None

\* A promise that still runs and that one for these bytes until then would not cover.
Outlives(pr, b, until) == pr # None /\ now < pr.until /\ (pr.body # b \/ until < pr.until)

\* The caller is told of what is now under retention.  What an earlier caller was told for
\* other bytes, or for longer, still holds.
Tell(k, m, b) ==
    promised' = [promised EXCEPT ![k] =
                    IF m.locked /\ ~Outlives(@, b, m.until)
                    THEN [body |-> b, until |-> m.until] ELSE @]

----------------------------------------------------------------------------
(* The file system. *)

\* The retention of an object that is there is not looked at (mutation of LockedAgainst).
LockedAgainstNot(k, b) == FALSE

\* Locked for good: only the same bytes may come again, also after the retention.
LockedAgainst(k, b) == Found(k) /\ meta[k].locked /\ meta[k].digest # b

\* The write that is locked already and has the same bytes changes nothing.
NoOp(k, b) == Found(k) /\ meta[k].locked /\ meta[k].digest = b

\* The metadata first, then the object (mutation of First).
FirstMeta(p) == /\ meta' = [meta EXCEPT ![p.key] = Meta(p)] /\ UNCHANGED body

\* The object is renamed into its place, with the metadata still to come.
First(p) == body' = [body EXCEPT ![p.key] = p.body] /\ UNCHANGED meta

\* PutAt, up to the rename.
FSPutAt(p) ==
    /\ adapter = "fs" /\ busy[p.proc] = None
    /\ ~LockedAgainst(p.key, p.body)
    /\ IF NoOp(p.key, p.body) THEN /\ Tell(p.key, meta[p.key], p.body)
                                   /\ UNCHANGED <<body, meta, busy>>
       ELSE /\ First(p) /\ busy' = [busy EXCEPT ![p.proc] = p]
            /\ UNCHANGED promised
    /\ UNCHANGED <<adapter, now>>

\* The rest of PutAt.  A locked object's metadata is a read-only file, which a second
\* process that came this far cannot replace: it is told of an error.
FSPutMeta(q) ==
    LET p == busy[q]
        m == Meta(p)
    IN /\ p # None /\ busy' = [busy EXCEPT ![q] = None]
       /\ IF Found(p.key) /\ meta[p.key].locked THEN UNCHANGED <<meta, promised>>
          ELSE meta' = [meta EXCEPT ![p.key] = m] /\ Tell(p.key, m, p.body)
       /\ UNCHANGED <<adapter, now, body>>

\* The process dies half way: before the metadata is written or while it is.
FSCrash(q) ==
    LET k == busy[q].key
    IN /\ busy[q] # None /\ busy' = [busy EXCEPT ![q] = None]
       /\ meta' \in {meta, IF Found(k) /\ meta[k].locked THEN meta ELSE [meta EXCEPT ![k] = Corrupt]}
       /\ UNCHANGED <<adapter, now, body, promised>>

\* Delete: refused under retention, and taken for unlocked without metadata.
Retained(k) == Found(k) /\ meta[k].locked /\ now < meta[k].until

\* Nothing in the repository calls it; a process deletes what it alone writes (Deletes).
FSDelete(q, k) ==
    /\ adapter = "fs" /\ <<q, k>> \in Deletes /\ busy[q] = None /\ body[k] # None
    /\ ~Retained(k)
    /\ body' = [body EXCEPT ![k] = None] /\ meta' = [meta EXCEPT ![k] = None]
    /\ UNCHANGED <<adapter, now, busy, promised>>

----------------------------------------------------------------------------
(* The database. *)

\* The trigger looks at the date and the lock, not at the bytes (mutation of EnforceObjectLock).
EnforceObjectLockDates(k, m) == Retained(k) => meta[k].until <= m.until /\ m.locked

\* sf_enforce_object_lock: under retention the new row has the same bytes, no shorter
\* retention, and the lock.
EnforceObjectLock(k, m) ==
    Retained(k) => m.digest = meta[k].digest /\ meta[k].until <= m.until /\ m.locked

\* retain_until is NULL, which GREATEST ignores, for a write that does not lock.
RetainUntil(p) == IF p.lock THEN now + p.retain ELSE 0

\* ON CONFLICT: a lock is kept, and the later of the two dates.
Merged(p) ==
    LET row == IF body[p.key] = None THEN [locked |-> FALSE, until |-> 0] ELSE meta[p.key]
    IN [Meta(p) EXCEPT !.locked = row.locked \/ p.lock,
                       !.until = IF row.until > RetainUntil(p) THEN row.until ELSE RetainUntil(p)]

DBPutAt(p) ==
    /\ adapter = "db"
    /\ LET m == Merged(p)
       IN /\ EnforceObjectLock(p.key, m)
          /\ body' = [body EXCEPT ![p.key] = p.body] /\ meta' = [meta EXCEPT ![p.key] = m]
          /\ Tell(p.key, m, p.body)
    /\ UNCHANGED <<adapter, now, busy>>

\* sf_forbid_locked_object_delete.
DBDelete(k) ==
    /\ adapter = "db" /\ body[k] # None /\ ~Retained(k)
    /\ body' = [body EXCEPT ![k] = None] /\ meta' = [meta EXCEPT ![k] = None]
    /\ UNCHANGED <<adapter, now, busy, promised>>

Tick == now < MaxClock /\ now' = now + 1 /\ UNCHANGED <<adapter, body, meta, busy, promised>>

StoreNext ==
    \/ \E p \in Puts : FSPutAt(p) \/ DBPutAt(p)
    \/ \E q \in Procs : FSPutMeta(q) \/ FSCrash(q)
    \/ \E k \in Keys : DBDelete(k) \/ \E q \in Procs : FSDelete(q, k)
    \/ Tick

StoreSpec == StoreInit /\ [][StoreNext]_storeVars

----------------------------------------------------------------------------
(* Properties. *)

\* The variables have their types; readable metadata has a digest, and only the file
\* system is written in two steps.
StoreTypeOK ==
    /\ adapter \in {"fs", "db"} /\ now \in Clock
    /\ body \in [Keys -> Bodies \cup {None}]
    /\ meta \in [Keys -> Metas \cup {None}]
    /\ busy \in [Procs -> Puts \cup {None}]
    /\ promised \in [Keys -> Promises \cup {None}]
    /\ \A k \in Keys : Found(k) => meta[k].digest \in Bodies
    /\ \A q \in Procs : busy[q] # None => adapter = "fs"

\* Evidence that a caller was told is under retention is there, byte for byte, until then,
\* through crashes, repeated writes with shorter retentions and a second process
\* (objstore.go: evidence that can be overwritten is not evidence).
EvidenceKept ==
    \A k \in Keys : promised[k] # None /\ now < promised[k].until =>
        GetVerified(k, promised[k].body) = promised[k].body

\* Metadata that locks an object is that of the bytes it locks: a write that died half way
\* never leaves a lock on other bytes, which would refuse the retry for ever (PutAt).
LockedIsIntact ==
    \A k \in Keys : Found(k) /\ meta[k].locked => body[k] = meta[k].digest

\* What is under retention, by the metadata.
Evidence == [k \in Keys |-> IF Retained(k) THEN body[k] ELSE None]

W == INSTANCE WriteOnce WITH evidence <- Evidence

\* Both adapters implement the write-once store.
ImplementsWriteOnce == W!Spec
===============================================================================
