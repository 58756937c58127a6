------------------------------ MODULE Idempotency ------------------------------
(***************************************************************************)
(* One Idempotency-Key of one tenant: the record in idempotency_keys and   *)
(* the requests that carry the key.                                        *)
(*                                                                         *)
(* Code: internal/platform/idempotency/idempotency.go (Begin, Complete,    *)
(* Abandon, GC), internal/server/middleware.go (idempotent),               *)
(* migrations/0003_audit_outbox.sql (the table and its policy).            *)
(*                                                                         *)
(* Begin, the wrapped handler, and Complete or Abandon are transactions of *)
(* their own, so anything may happen between two of them.  A request is    *)
(* one attempt; a client that retries is a further request with the same   *)
(* body.  The handler is any of the wrapped ones: one transaction with an  *)
(* effect and a response, identified here by the request it ran for.       *)
(***************************************************************************)
EXTENDS Integers, FiniteSets

CONSTANTS
    Requests,      \* attempts that carry the key
    Bodies,        \* request fingerprints: method, path and body
    BodyOf,        \* the fingerprint of each attempt
    Large,         \* bodies whose response is over 256 KiB
    Nil,
    BypassRLS,     \* the database role is exempt from row security
    MaxFaults,     \* bound: timeouts, crashes, panics and database failures
    MaxExpiries    \* bound: how often the TTL passes

ASSUME BodiesAssumption == BodyOf \in [Requests -> Bodies] /\ Large \subseteq Bodies
ASSUME BoundsAssumption == MaxFaults \in Nat /\ MaxExpiries \in Nat
ASSUME NilAssumption == Nil \notin Requests
ASSUME RoleAssumption == BypassRLS \in BOOLEAN

VARIABLES
    row,         \* the record: fingerprint, status, stored response, past its TTL
    pc,          \* where each request is
    cancelled,   \* its context is cancelled: the handler timed out, the client left
    answer,      \* what it was answered
    claimant,    \* history: the request that claimed the record
    ran,         \* history: requests whose handler committed
    window,      \* history: those of them since the record last expired
    unsure,      \* history: of these, how many were told that the commit failed
    expiries,    \* how often the TTL passed
    faults       \* faults so far

keyVars == <<row, pc, cancelled, answer, claimant, ran, window, unsure, expiries, faults>>
past == <<ran, window, unsure>>

NoRow == [status |-> "ABSENT", hash |-> Nil, resp |-> Nil, expired |-> FALSE]
NoAnswer == [kind |-> "none", resp |-> Nil]

KeyInit ==
    /\ row = NoRow /\ claimant = Nil
    /\ pc = [r \in Requests |-> "new"]
    /\ cancelled = [r \in Requests |-> FALSE]
    /\ answer = [r \in Requests |-> NoAnswer]
    /\ ran = {} /\ window = {} /\ unsure = 0
    /\ expiries = 0 /\ faults = 0

Fault == faults < MaxFaults /\ faults' = faults + 1

Answer(r, kind, resp) ==
    /\ answer' = [answer EXCEPT ![r] = [kind |-> kind, resp |-> resp]]
    /\ pc' = [pc EXCEPT ![r] = "answered"]

----------------------------------------------------------------------------
(* Begin. *)

\* Begin that replays whatever the key holds (mutation of Conflicts).
ConflictsHashIgnored(r) == row.status = "IN_PROGRESS"

\* Another body, or still in flight.
Conflicts(r) == row.hash # BodyOf[r] \/ row.status = "IN_PROGRESS"

\* A live record: refuse, or replay what it stores.
BeginFound(r) ==
    /\ pc[r] = "new" /\ ~ cancelled[r]
    /\ row.status # "ABSENT" /\ ~ row.expired
    /\ IF Conflicts(r) THEN Answer(r, "conflict", Nil) ELSE Answer(r, "replay", row.resp)
    /\ UNCHANGED <<row, cancelled, claimant, past, expiries, faults>>

\* The record Begin inserts.
Claimed(r) == [status |-> "IN_PROGRESS", hash |-> BodyOf[r], resp |-> Nil, expired |-> FALSE]

\* An expired record is deleted and claimed afresh under its row lock.
BeginExpired(r) ==
    /\ pc[r] = "new" /\ ~ cancelled[r]
    /\ row.status # "ABSENT" /\ row.expired
    /\ row' = Claimed(r) /\ claimant' = r
    /\ pc' = [pc EXCEPT ![r] = "run"]
    /\ UNCHANGED <<cancelled, answer, past, expiries, faults>>

\* No record: nothing is locked, and the insert comes later.
BeginAbsent(r) ==
    /\ pc[r] = "new" /\ ~ cancelled[r]
    /\ row.status = "ABSENT"
    /\ pc' = [pc EXCEPT ![r] = "claim"]
    /\ UNCHANGED <<row, cancelled, answer, claimant, past, expiries, faults>>

\* An upsert in place of the INSERT (mutation of Claim).
ClaimUpsert(r) ==
    /\ pc[r] = "claim" /\ ~ cancelled[r]
    /\ row' = Claimed(r) /\ claimant' = r
    /\ pc' = [pc EXCEPT ![r] = "run"]
    /\ UNCHANGED <<cancelled, answer, past, expiries, faults>>

\* INSERT: the primary key refuses whoever comes second.
Claim(r) ==
    /\ pc[r] = "claim" /\ ~ cancelled[r]
    /\ \/ /\ row.status = "ABSENT"
          /\ row' = Claimed(r) /\ claimant' = r
          /\ pc' = [pc EXCEPT ![r] = "run"]
          /\ UNCHANGED answer
       \/ /\ row.status # "ABSENT"
          /\ Answer(r, "conflict", Nil)
          /\ UNCHANGED <<row, claimant>>
    /\ UNCHANGED <<cancelled, past, expiries, faults>>

\* The transaction of Begin cannot be opened or committed.
BeginFails(r) ==
    /\ pc[r] \in {"new", "claim"}
    /\ \/ cancelled[r] /\ UNCHANGED faults
       \/ ~ cancelled[r] /\ Fault
    /\ Answer(r, "error", Nil)
    /\ UNCHANGED <<row, cancelled, claimant, past, expiries>>

----------------------------------------------------------------------------
(* The wrapped handler, fn(). *)

HandlerCommits(r) ==
    /\ pc[r] = "run" /\ ~ cancelled[r]
    /\ ran' = ran \cup {r} /\ window' = window \cup {r}
    /\ pc' = [pc EXCEPT ![r] = "complete"]
    /\ UNCHANGED <<row, cancelled, answer, claimant, unsure, expiries, faults>>

\* Refused, or rolled back.
HandlerFails(r) ==
    /\ pc[r] = "run"
    /\ pc' = [pc EXCEPT ![r] = "abandon"]
    /\ UNCHANGED <<row, cancelled, answer, claimant, past, expiries, faults>>

\* COMMIT took effect and its acknowledgement was lost: TxWith returns an error.
HandlerUnsure(r) ==
    /\ pc[r] = "run" /\ ~ cancelled[r]
    /\ Fault
    /\ ran' = ran \cup {r} /\ window' = window \cup {r} /\ unsure' = unsure + 1
    /\ pc' = [pc EXCEPT ![r] = "abandon"]
    /\ UNCHANGED <<row, cancelled, answer, claimant, expiries>>

----------------------------------------------------------------------------
(* Complete and Abandon. *)

\* A body over 256 KiB is not stored.
Stored(r) == IF BodyOf[r] \in Large THEN Nil ELSE r

\* UPDATE ... WHERE key: whatever record the key has now.
Completed(r) ==
    IF row.status = "ABSENT" THEN row
    ELSE [row EXCEPT !.status = "COMPLETED", !.resp = Stored(r)]

Complete(r) ==
    /\ pc[r] = "complete" /\ ~ cancelled[r]
    /\ row' = Completed(r)
    /\ Answer(r, "result", r)
    /\ UNCHANGED <<cancelled, claimant, past, expiries, faults>>

\* The error of Complete is dropped and the response sent all the same.
CompleteFails(r) ==
    /\ pc[r] = "complete"
    /\ \/ cancelled[r] /\ UNCHANGED faults
       \/ ~ cancelled[r] /\ Fault
    /\ Answer(r, "result", r)
    /\ UNCHANGED <<row, cancelled, claimant, past, expiries>>

\* DELETE ... WHERE key AND status = 'IN_PROGRESS'.
Abandoned == IF row.status = "IN_PROGRESS" THEN NoRow ELSE row

Abandon(r) ==
    /\ pc[r] = "abandon" /\ ~ cancelled[r]
    /\ row' = Abandoned
    /\ Answer(r, "error", Nil)
    /\ UNCHANGED <<cancelled, claimant, past, expiries, faults>>

\* The error of Abandon is dropped.
AbandonFails(r) ==
    /\ pc[r] = "abandon"
    /\ \/ cancelled[r] /\ UNCHANGED faults
       \/ ~ cancelled[r] /\ Fault
    /\ Answer(r, "error", Nil)
    /\ UNCHANGED <<row, cancelled, claimant, past, expiries>>

----------------------------------------------------------------------------
(* Around the request. *)

\* HandlerTimeout, or the client is gone.
Cancel(r) ==
    /\ pc[r] # "answered" /\ ~ cancelled[r]
    /\ Fault
    /\ cancelled' = [cancelled EXCEPT ![r] = TRUE]
    /\ UNCHANGED <<row, pc, answer, claimant, past, expiries>>

\* The process dies, or the handler panics: nothing after this point runs.
Crash(r) ==
    /\ pc[r] \in {"claim", "run", "complete", "abandon"}
    /\ Fault
    /\ Answer(r, "lost", Nil)
    /\ UNCHANGED <<row, cancelled, claimant, past, expiries>>

\* The TTL passes; a day is longer than any request, so its claimant is gone.
Expire ==
    /\ row.status # "ABSENT" /\ ~ row.expired
    /\ expiries < MaxExpiries
    /\ pc[claimant] = "answered"
    /\ expiries' = expiries + 1
    /\ row' = [row EXCEPT !.expired = TRUE]
    /\ window' = {} /\ unsure' = 0
    /\ UNCHANGED <<pc, cancelled, answer, claimant, ran, faults>>

\* The worker's DELETE, issued outside any tenant session: row security hides
\* every record from it unless the role is exempt, so it may never remove anything.
GC ==
    /\ BypassRLS
    /\ row.expired
    /\ row' = NoRow
    /\ UNCHANGED <<pc, cancelled, answer, claimant, past, expiries, faults>>

----------------------------------------------------------------------------

RequestStep(r) ==
    \/ BeginFound(r)
    \/ BeginExpired(r)
    \/ BeginAbsent(r)
    \/ Claim(r)
    \/ BeginFails(r)
    \/ HandlerCommits(r)
    \/ HandlerFails(r)
    \/ HandlerUnsure(r)
    \/ Complete(r)
    \/ CompleteFails(r)
    \/ Abandon(r)
    \/ AbandonFails(r)

KeyNext ==
    \/ \E r \in Requests : RequestStep(r) \/ Cancel(r) \/ Crash(r)
    \/ Expire
    \/ GC

\* Nothing is owed to GC: the behaviours of a role that is not exempt are those of one that
\* is in which GC removes nothing.
KeySpec == KeyInit /\ [][KeyNext]_keyVars

----------------------------------------------------------------------------
(* Properties. *)

\* Every variable has its type, and a record in flight stores no response.
KeyTypeOK ==
    /\ row \in [status: {"ABSENT", "IN_PROGRESS", "COMPLETED"}, hash: Bodies \cup {Nil},
                resp: Requests \cup {Nil}, expired: BOOLEAN]
    /\ row.status # "COMPLETED" => row.resp = Nil
    /\ pc \in [Requests -> {"new", "claim", "run", "complete", "abandon", "answered"}]
    /\ cancelled \in [Requests -> BOOLEAN]
    /\ answer \in [Requests -> [kind: {"none", "result", "replay", "conflict", "error", "lost"},
                                resp: Requests \cup {Nil}]]
    /\ claimant \in Requests \cup {Nil}
    /\ window \subseteq ran /\ ran \subseteq Requests
    /\ unsure \in Nat /\ expiries \in 0..MaxExpiries /\ faults \in 0..MaxFaults

\* A key takes effect at most once until it expires, whichever attempts race,
\* time out or die between Begin, the handler and Complete; each further effect
\* is owed to a commit whose acknowledgement was lost.
EffectOnce == Cardinality(window) <= 1 + unsure

\* A replayed response is that of an attempt with the same body whose handler really
\* committed, whichever attempts claimed, abandoned or outlived the key before (Begin's
\* fingerprint check, Complete after fn()).  Nothing is said of a replay that carries no
\* response, which is what a response over 256 KiB gets; Complete's comment says that
\* such a request is run again.
ReplayFaithful ==
    \A r \in Requests :
        answer[r].kind = "replay" /\ answer[r].resp # Nil =>
            answer[r].resp \in ran /\ BodyOf[answer[r].resp] = BodyOf[r]

\* While a handler runs, the record is the one its request claimed: no other
\* attempt's Abandon, Complete or claim touches it (both are keyed by the key
\* alone, not by who claimed it).
ClaimHeld ==
    \A r \in Requests :
        pc[r] \in {"run", "complete", "abandon"} =>
            row.status = "IN_PROGRESS" /\ row.hash = BodyOf[r] /\ claimant = r /\ ~ row.expired

\* A completed record stays as it is until it expires: no late claim, no Complete and no
\* Abandon of another attempt takes its response away or replaces it, so that a retry finds
\* it (Begin, Complete and Abandon name the key alone).
CompletedStays ==
    [][row.status = "COMPLETED" /\ ~ row.expired => row' \in {row, [row EXCEPT !.expired = TRUE]}]_keyVars

=============================================================================
