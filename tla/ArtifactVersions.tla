--------------------------- MODULE ArtifactVersions ---------------------------
(***************************************************************************)
(* The lifecycle of ONE artifact of the artifact graph: its identity row   *)
(* (table artifacts), its version rows (table artifact_versions) and the   *)
(* two write-once buckets the approval writes before it seals a row.       *)
(*                                                                         *)
(* Code: internal/artifactgraph/app/service.go (the use cases),            *)
(* internal/artifactgraph/domain/artifact.go (the aggregate and its state  *)
(* machine), internal/artifactgraph/infra/postgres.go (optimistic writes)  *)
(* and migrations/0002_artifact_graph.sql (constraints and triggers).      *)
(*                                                                         *)
(* Concurrency.  A request is served by a goroutine of some API replica.   *)
(* Every repository Get* opens a read-only transaction on a connection of  *)
(* its own, so what a request read may be stale by the time it writes; the *)
(* write is "UPDATE ... WHERE version_no = <the one read>", which takes    *)
(* the row lock and holds it until commit.  A request is therefore modelled*)
(* as one or more reading steps that copy rows, and one commit step that   *)
(* writes the whole copied row back if version_no still matches.  A request*)
(* whose check fails, that is refused, times out or dies is Fail: its      *)
(* transaction is rolled back and only the object-store writes it already  *)
(* made remain.                                                            *)
(***************************************************************************)
EXTENDS Integers, FiniteSets

CONSTANTS
    Requests,     \* concurrent HTTP requests being served
    Principals,   \* human principals
    Contents,     \* payloads of a version
    None,         \* SQL NULL / Go nil
    MaxVersion,   \* bound: versions of the artifact
    MaxEdits,     \* bound: version_no up to which a draft is edited
    FourEyes,     \* policy.FourEyes or the type's RequiresFourEyes()
    Events        \* lifecycle events that reach Service.Transition

Versions == 1..MaxVersion

\* artifact.go: sealedStates, and the statuses of the machine.
SealedStates == {"APPROVED", "FROZEN", "SUPERSEDED", "ABANDONED"}
Statuses == {"DRAFT", "AI_REVIEW", "USER_REVIEW", "CHANGES_REQUESTED"} \cup SealedStates

\* artifact.go: Machine, one triple per (from, event, to).
Transitions ==
  { <<"DRAFT",             "submit_for_ai_review",        "AI_REVIEW">>,
    <<"AI_REVIEW",         "ai_review_passed",            "USER_REVIEW">>,
    <<"AI_REVIEW",         "ai_review_findings_blocking", "CHANGES_REQUESTED">>,
    <<"DRAFT",             "submit_for_review",           "USER_REVIEW">>,
    <<"USER_REVIEW",       "request_changes",             "CHANGES_REQUESTED">>,
    <<"USER_REVIEW",       "approve",                     "APPROVED">>,
    <<"APPROVED",          "freeze",                      "FROZEN">>,
    <<"APPROVED",          "superseded_by",               "SUPERSEDED">>,
    <<"FROZEN",            "superseded_by",               "SUPERSEDED">>,
    <<"DRAFT",             "abandon",                     "ABANDONED">>,
    <<"CHANGES_REQUESTED", "abandon",                     "ABANDONED">> }

\* The events Service.Transition accepts: approve has its own entry point.
TransitionEvents == { t[2] : t \in Transitions } \ {"approve"}

ASSUME BoundsAssumption == MaxVersion \in Nat /\ MaxEdits \in Nat
ASSUME PolicyAssumption == FourEyes \in BOOLEAN
ASSUME EventsAssumption == Events \subseteq TransitionEvents
ASSUME NoneAssumption ==
    /\ None \notin Principals
    /\ None \notin Contents
    /\ None \notin Versions \X Contents \X Principals
    /\ None \notin [version: Versions, hash: Versions \X Contents \X Principals,
                    approver: Principals]

----------------------------------------------------------------------------
(* Rows and documents. *)

Hashes == Versions \X Contents \X Principals
Documents == [version: Versions, hash: Hashes, approver: Principals]

Row == [status: Statuses \cup {"ABSENT"}, content: Contents \cup {None},
        hash: Hashes \cup {None}, createdBy: Principals \cup {None},
        approvedBy: Principals \cup {None}, evidence: Documents \cup {None}, no: Nat]
Head == [status: Statuses \cup {"ABSENT"}, current: Versions \cup {0}, no: Nat]

NoRow == [status |-> "ABSENT", content |-> None, hash |-> None, createdBy |-> None,
          approvedBy |-> None, evidence |-> None, no |-> 0]
NoHead == [status |-> "ABSENT", current |-> 0, no |-> 0]

\* ComputeHash over CanonicalEnvelope: the hash stands for the projection it
\* digests (SHA-256 taken as injective), which leaves out status and approval.
ComputeHash(v, c, p) == <<v, c, p>>

Present(row) == row.status # "ABSENT"

\* NewVersion and Version.Revise: a fresh DRAFT row.
NewRow(v, c, p) ==
    [status |-> "DRAFT", content |-> c, hash |-> ComputeHash(v, c, p), createdBy |-> p,
     approvedBy |-> None, evidence |-> None, no |-> 1]

VARIABLES
    head,           \* the artifacts row
    ver,            \* the artifact_versions rows, by version
    contentStore,   \* bucket sf-content: payloads, keyed by their digest
    evidenceStore,  \* bucket sf-evidence: locked approval documents, by digest
    pc,             \* where each request is
    who,            \* its actor, where the actor is written or compared (Revise, Approve)
    tgt,            \* the version it names
    arg,            \* the content or the event it carries
    snap,           \* the version row it read
    hsnap,          \* the artifacts row it read
    prior,          \* Approve: the approved version it read (0: none)
    psnap,          \* Approve: the row of that version
    evid            \* Approve: the evidence document it wrote

store == <<contentStore, evidenceStore>>
locals == <<who, tgt, arg, snap, hsnap, prior, psnap, evid>>
vars == <<head, ver, contentStore, evidenceStore, pc, who, tgt, arg, snap, hsnap,
          prior, psnap, evid>>

Init ==
    /\ head = NoHead
    /\ ver = [v \in Versions |-> NoRow]
    /\ contentStore = {} /\ evidenceStore = {}
    /\ pc = [r \in Requests |-> "idle"]
    /\ who = [r \in Requests |-> None]
    /\ tgt = [r \in Requests |-> 0]
    /\ arg = [r \in Requests |-> None]
    /\ snap = [r \in Requests |-> NoRow]
    /\ hsnap = [r \in Requests |-> NoHead]
    /\ prior = [r \in Requests |-> 0]
    /\ psnap = [r \in Requests |-> NoRow]
    /\ evid = [r \in Requests |-> None]

\* The request ends: its goroutine returns and its locals are gone.
Done(r) ==
    /\ pc' = [pc EXCEPT ![r] = "idle"]
    /\ who' = [who EXCEPT ![r] = None]
    /\ tgt' = [tgt EXCEPT ![r] = 0]
    /\ arg' = [arg EXCEPT ![r] = None]
    /\ snap' = [snap EXCEPT ![r] = NoRow]
    /\ hsnap' = [hsnap EXCEPT ![r] = NoHead]
    /\ prior' = [prior EXCEPT ![r] = 0]
    /\ psnap' = [psnap EXCEPT ![r] = NoRow]
    /\ evid' = [evid EXCEPT ![r] = None]

----------------------------------------------------------------------------
(* Repository operations. *)

\* GetVersion: the row exists and its content matches its recorded hash.
Readable(v) ==
    /\ Present(ver[v])
    /\ ver[v].hash = ComputeHash(v, ver[v].content, ver[v].createdBy)

\* Trigger sf_enforce_version_immutability on UPDATE of a version row.
TriggerAllows(old, new) ==
    old.status \in SealedStates =>
      /\ new = [old EXCEPT !.status = new.status, !.no = new.no]
      /\ new.status # old.status =>
           <<old.status, new.status>> \in { <<"APPROVED", "FROZEN">>,
                                           <<"APPROVED", "SUPERSEDED">>,
                                           <<"FROZEN", "SUPERSEDED">> }

\* UpdateVersion without its "AND version_no = $15" (mutation of UpdateAllowed).
LastWriterWins(row, old, new) == Present(row) /\ TriggerAllows(row, new)

\* UpdateVersion as a guard: the stored row still carries the version_no the
\* caller read, and the trigger accepts the new row.
UpdateAllowed(row, old, new) == row.no = old.no /\ TriggerAllows(row, new)

\* UpdateVersion forgetting "version_no = version_no + 1" (mutation of Written).
WrittenUnbumped(row) == row

\* UpdateVersion / UpdateArtifact: the stored row is the caller's, version_no + 1.
Written(row) == [row EXCEPT !.no = row.no + 1]

\* No uniqueness on APPROVED rows (mutation of OneApprovedIndex).
NoIndex(rows) == TRUE

\* Unique index one_approved_per_artifact.
OneApprovedIndex(rows) ==
    \A v, w \in Versions :
        rows[v].status = "APPROVED" /\ rows[w].status = "APPROVED" => v = w

\* Contributors: SELECT DISTINCT created_by of the artifact's versions.
Contributors == { ver[v].createdBy : v \in { w \in Versions : Present(ver[w]) } }

----------------------------------------------------------------------------
(* Create. *)

\* Create: one insert-only transaction; a second one meets the primary key.
Create(p, c) ==
    /\ ~ Present(head)
    /\ 1 \in Versions
    /\ head' = [status |-> "DRAFT", current |-> 1, no |-> 1]
    /\ ver' = [ver EXCEPT ![1] = NewRow(1, c, p)]
    /\ UNCHANGED <<store, pc, locals>>

----------------------------------------------------------------------------
(* UpdateDraft. *)

\* GetVersion, the sealed check, the If-Match check (0: no header) and
\* SetContent's Mutable check, on the copy.
UpdateDraftRead(r, v, c, expected) ==
    /\ pc[r] = "idle"
    /\ Readable(v)
    /\ ver[v].status \notin SealedStates
    /\ expected > 0 => ver[v].no = expected
    /\ ver[v].status = "DRAFT"
    /\ ver[v].no < MaxEdits
    /\ pc' = [pc EXCEPT ![r] = "update"]
    /\ tgt' = [tgt EXCEPT ![r] = v]
    /\ arg' = [arg EXCEPT ![r] = c]
    /\ snap' = [snap EXCEPT ![r] = ver[v]]
    /\ UNCHANGED <<head, ver, store, who, hsnap, prior, psnap, evid>>

\* SetContent: the payload and the hash recomputed over it.
SetContent(v, row, c) ==
    [row EXCEPT !.content = c, !.hash = ComputeHash(v, c, row.createdBy)]

UpdateDraftCommit(r) ==
    /\ pc[r] = "update"
    /\ LET v == tgt[r]
           new == Written(SetContent(v, snap[r], arg[r]))
       IN /\ UpdateAllowed(ver[v], snap[r], new)
          /\ ver' = [ver EXCEPT ![v] = new]
    /\ Done(r)
    /\ UNCHANGED <<head, store>>

----------------------------------------------------------------------------
(* Transition. *)

\* GetVersion, then Fire on the copy.
TransitionRead(r, v, e) ==
    /\ pc[r] = "idle"
    /\ Readable(v)
    /\ \E t \in Transitions : t[1] = ver[v].status /\ t[2] = e
    /\ pc' = [pc EXCEPT ![r] = "fired"]
    /\ tgt' = [tgt EXCEPT ![r] = v]
    /\ arg' = [arg EXCEPT ![r] = e]
    /\ snap' = [snap EXCEPT ![r] = ver[v]]
    /\ UNCHANGED <<head, ver, store, who, hsnap, prior, psnap, evid>>

\* GetArtifact.  UpdateVersion ran just before it; its effect is shown at the
\* commit, where the row lock it holds since then becomes the same check.
TransitionHead(r) ==
    /\ pc[r] = "fired"
    /\ hsnap' = [hsnap EXCEPT ![r] = head]
    /\ pc' = [pc EXCEPT ![r] = "transition"]
    /\ UNCHANGED <<head, ver, store, who, tgt, arg, snap, prior, psnap, evid>>

TransitionCommit(r) ==
    /\ pc[r] = "transition"
    /\ \E t \in Transitions :
         LET v == tgt[r]
             new == Written([snap[r] EXCEPT !.status = t[3]])
             rows == [ver EXCEPT ![v] = new]
         IN /\ t[1] = snap[r].status /\ t[2] = arg[r]
            /\ UpdateAllowed(ver[v], snap[r], new)
            /\ OneApprovedIndex(rows)
            /\ ver' = rows
            /\ head.no = hsnap[r].no
            /\ head' = Written([hsnap[r] EXCEPT !.status = t[3]])
    /\ Done(r)
    /\ UNCHANGED store

----------------------------------------------------------------------------
(* Revise. *)

\* Version.Revise: Version: v.Version + 1, PreviousVersion: v.Version.
NextVersion(v) == v + 1

\* GetArtifact, then GetVersion of its current version.  One step: had the
\* identity row changed between the two, the commit below would fail.
ReviseRead(r, p) ==
    /\ pc[r] = "idle"
    /\ Present(head)
    /\ NextVersion(head.current) \in Versions
    /\ Readable(head.current)
    /\ pc' = [pc EXCEPT ![r] = "revise"]
    /\ who' = [who EXCEPT ![r] = p]
    /\ tgt' = [tgt EXCEPT ![r] = NextVersion(head.current)]
    /\ snap' = [snap EXCEPT ![r] = ver[head.current]]
    /\ hsnap' = [hsnap EXCEPT ![r] = head]
    /\ UNCHANGED <<head, ver, store, arg, prior, psnap, evid>>

\* The identity row is updated outside the transaction that inserts the version, which
\* then fails (mutation of ReviseCommit).
ReviseCommitSplit(r) ==
    /\ pc[r] = "revise"
    /\ head.no = hsnap[r].no
    /\ head' = Written([hsnap[r] EXCEPT !.current = tgt[r], !.status = "DRAFT"])
    /\ Done(r)
    /\ UNCHANGED <<ver, store>>

\* CreateVersion meets the primary key, then UpdateArtifact its version_no.
ReviseCommit(r) ==
    /\ pc[r] = "revise"
    /\ ~ Present(ver[tgt[r]])
    /\ head.no = hsnap[r].no
    /\ ver' = [ver EXCEPT ![tgt[r]] = NewRow(tgt[r], snap[r].content, who[r])]
    /\ head' = Written([hsnap[r] EXCEPT !.current = tgt[r], !.status = "DRAFT"])
    /\ Done(r)
    /\ UNCHANGED store

----------------------------------------------------------------------------
(* Approve, step by step. *)

ApproveRead(r, p, v) ==
    /\ pc[r] = "idle"
    /\ Readable(v)
    /\ ver[v].status = "USER_REVIEW"
    /\ pc' = [pc EXCEPT ![r] = "authorize"]
    /\ who' = [who EXCEPT ![r] = p]
    /\ tgt' = [tgt EXCEPT ![r] = v]
    /\ snap' = [snap EXCEPT ![r] = ver[v]]
    /\ UNCHANGED <<head, ver, store, arg, hsnap, prior, psnap, evid>>

\* abac.go SoD-1: refuse the author of this version unless somebody else
\* authored some version.
SoD1(p, row, contributors) ==
    FourEyes => row.createdBy # p \/ \E c \in contributors : c # p

\* gates.Evaluate (its refusals are Fail), then fire(approve) with SoD-1.
Authorize(r) ==
    /\ pc[r] = "authorize"
    /\ SoD1(who[r], snap[r], Contributors)
    /\ pc' = [pc EXCEPT ![r] = "putContent"]
    /\ UNCHANGED <<head, ver, store, locals>>

PutContent(r) ==
    /\ pc[r] = "putContent"
    /\ contentStore' = contentStore \cup {snap[r].content}
    /\ pc' = [pc EXCEPT ![r] = "putEvidence"]
    /\ UNCHANGED <<head, ver, evidenceStore, locals>>

\* Evidence that does not pin the content hash (mutation of EvidenceDoc).
EvidenceDocUnpinned(r) == [version |-> tgt[r], approver |-> who[r]]

\* The approval document pins the hash of the copy read at the start.
EvidenceDoc(r) == [version |-> tgt[r], hash |-> snap[r].hash, approver |-> who[r]]

PutEvidence(r) ==
    /\ pc[r] = "putEvidence"
    /\ evidenceStore' = evidenceStore \cup {EvidenceDoc(r)}
    /\ evid' = [evid EXCEPT ![r] = EvidenceDoc(r)]
    /\ pc' = [pc EXCEPT ![r] = "sealRead"]
    /\ UNCHANGED <<head, ver, contentStore, who, tgt, arg, snap, hsnap, prior, psnap>>

\* In the transaction: GetVersion, the status re-check, ApprovedVersion.  One
\* step: had the version changed between the two, the commit would fail.
SealRead(r) ==
    /\ pc[r] = "sealRead"
    /\ Readable(tgt[r])
    /\ ver[tgt[r]].status = "USER_REVIEW"
    /\ snap' = [snap EXCEPT ![r] = ver[tgt[r]]]
    /\ \/ \E w \in Versions :
            /\ ver[w].status = "APPROVED"
            /\ prior' = [prior EXCEPT ![r] = w]
            /\ psnap' = [psnap EXCEPT ![r] = ver[w]]
       \/ /\ \A w \in Versions : ver[w].status # "APPROVED"
          /\ UNCHANGED <<prior, psnap>>
    /\ pc' = [pc EXCEPT ![r] = "sealHead"]
    /\ UNCHANGED <<head, ver, store, who, tgt, arg, hsnap, evid>>

\* GetArtifact.
SealHead(r) ==
    /\ pc[r] = "sealHead"
    /\ hsnap' = [hsnap EXCEPT ![r] = head]
    /\ pc' = [pc EXCEPT ![r] = "seal"]
    /\ UNCHANGED <<head, ver, store, who, tgt, arg, snap, prior, psnap, evid>>

\* The seal without the evidence reference (mutation of SealApproval).
SealApprovalBare(row, p, doc) == [row EXCEPT !.status = "APPROVED", !.approvedBy = p]

\* SealApproval on the copy: approval fields set, hash left as it is.
SealApproval(row, p, doc) ==
    [row EXCEPT !.status = "APPROVED", !.approvedBy = p, !.evidence = doc]

\* Supersede the prior approval, seal the version, move the identity row.
SealCommit(r) ==
    /\ pc[r] = "seal"
    /\ LET v == tgt[r]
           w == prior[r]
           new == Written(SealApproval(snap[r], who[r], evid[r]))
           old == Written([psnap[r] EXCEPT !.status = "SUPERSEDED"])
           rows == [u \in Versions |-> IF u = v THEN new ELSE IF u = w THEN old ELSE ver[u]]
       IN /\ w # 0 => UpdateAllowed(ver[w], psnap[r], old)
          /\ UpdateAllowed(ver[v], snap[r], new)
          /\ OneApprovedIndex(rows)
          /\ ver' = rows
          /\ head.no = hsnap[r].no
          /\ head' = Written([hsnap[r] EXCEPT !.status = "APPROVED", !.current = v])
    /\ Done(r)
    /\ UNCHANGED store

----------------------------------------------------------------------------
(* Any request may end without committing. *)

Fail(r) ==
    /\ pc[r] # "idle"
    /\ Done(r)
    /\ UNCHANGED <<head, ver, store>>

RequestStep(r) ==
    \/ \E v \in Versions, c \in Contents, n \in 0..MaxEdits : UpdateDraftRead(r, v, c, n)
    \/ UpdateDraftCommit(r)
    \/ \E v \in Versions, e \in Events : TransitionRead(r, v, e)
    \/ TransitionHead(r)
    \/ TransitionCommit(r)
    \/ \E p \in Principals : ReviseRead(r, p)
    \/ ReviseCommit(r)
    \/ \E p \in Principals, v \in Versions : ApproveRead(r, p, v)
    \/ Authorize(r)
    \/ PutContent(r)
    \/ PutEvidence(r)
    \/ SealRead(r)
    \/ SealHead(r)
    \/ SealCommit(r)
    \/ Fail(r)

Next ==
    \/ \E p \in Principals, c \in Contents : Create(p, c)
    \/ \E r \in Requests : RequestStep(r)

Spec == Init /\ [][Next]_vars

----------------------------------------------------------------------------
(* Properties. *)

\* Every variable has its type: rows and copies are rows of the two tables, and
\* a request that names a version names one inside the bound.
TypeOK ==
    /\ head \in Head
    /\ ver \in [Versions -> Row]
    /\ contentStore \subseteq Contents
    /\ evidenceStore \subseteq Documents
    /\ pc \in [Requests -> {"idle", "update", "fired", "transition", "revise", "authorize",
                            "putContent", "putEvidence", "sealRead", "sealHead", "seal"}]
    /\ who \in [Requests -> Principals \cup {None}]
    /\ tgt \in [Requests -> Versions \cup {0}]
    /\ arg \in [Requests -> Contents \cup Events \cup {None}]
    /\ snap \in [Requests -> Row]
    /\ hsnap \in [Requests -> Head]
    /\ prior \in [Requests -> Versions \cup {0}]
    /\ psnap \in [Requests -> Row]
    /\ evid \in [Requests -> Documents \cup {None}]

\* Optimistic concurrency is sound: a copy that carries the stored version_no IS
\* the stored row, so a write-back that passes "WHERE version_no = $n" never
\* overwrites a change its request has not seen (UpdateVersion, UpdateArtifact).
VersionNoIdentifiesRow ==
    \A r \in Requests :
        /\ pc[r] \in {"update", "fired", "transition", "sealHead", "seal"}
              /\ snap[r].no = ver[tgt[r]].no
              => snap[r] = ver[tgt[r]]
        /\ pc[r] \in {"sealHead", "seal"} /\ prior[r] # 0 /\ psnap[r].no = ver[prior[r]].no
              => psnap[r] = ver[prior[r]]
        /\ pc[r] \in {"transition", "revise", "seal"} /\ hsnap[r].no = head.no
              => hsnap[r] = head

\* At most one version of an artifact is APPROVED, whatever approvals race
\* (Approve step 4 and the index one_approved_per_artifact).
OneApproved ==
    \A v, w \in Versions : ver[v].status = "APPROVED" /\ ver[w].status = "APPROVED" => v = w

\* Approve's ordering argument (service.go 440-443): a version that was approved
\* has evidence in the write-once bucket, that evidence names this version, the
\* recorded approver and the hash of exactly the content the row carries, and the
\* content itself is stored - although the document was built from a row read
\* before the sealing transaction began.
EvidenceBacked ==
    \A v \in Versions :
        ver[v].status \in {"APPROVED", "FROZEN", "SUPERSEDED"} =>
            /\ ver[v].evidence \in evidenceStore
            /\ ver[v].evidence = [version |-> v,
                                  hash |-> ComputeHash(v, ver[v].content, ver[v].createdBy),
                                  approver |-> ver[v].approvedBy]
            /\ ver[v].content \in contentStore

\* Every stored row passes the read-path check of GetVersion: its content_hash is
\* the hash of what it carries, so no interleaving of edits, submissions and
\* approvals makes a version unreadable.
HashMatches == \A v \in Versions : Present(ver[v]) => Readable(v)

\* Four eyes as SoD-1 states it ("must not be its sole author"): an approver who
\* wrote the approved version is not the only author of the artifact, even though
\* contributors were read long before the seal.  README.md 639 asks for more, that the
\* approver authored no version, which SoD-1 does not enforce: one edit by a colleague
\* lets an author approve.
NotSoleAuthor ==
    FourEyes =>
      \A v \in Versions :
        Present(ver[v]) /\ ver[v].approvedBy # None /\ ver[v].approvedBy = ver[v].createdBy =>
            \E c \in Contributors : c # ver[v].approvedBy

\* Versions form a gapless chain starting at 1 and the identity row points into
\* it (constraints chain_start, chain_step; Revise numbers from current_version,
\* which an approval may move backwards).
GaplessChain ==
    /\ \A v \in Versions : Present(ver[v]) => \A w \in 1..v : Present(ver[w])
    /\ Present(head) => head.current \in Versions /\ Present(ver[head.current])

\* What reviewers saw is what stays: once a version has left DRAFT its payload,
\* hash and author never change, and approval fields appear only with the step to
\* APPROVED (a late UpdateDraft that read the row while it was DRAFT included).
ReviewedContentFixed ==
    [][\A v \in Versions :
         ver[v].status \notin {"ABSENT", "DRAFT"} =>
           /\ ver'[v].content = ver[v].content
           /\ ver'[v].hash = ver[v].hash
           /\ ver'[v].createdBy = ver[v].createdBy
           /\ <<ver'[v].approvedBy, ver'[v].evidence>> # <<ver[v].approvedBy, ver[v].evidence>>
                => ver[v].status = "USER_REVIEW" /\ ver'[v].status = "APPROVED"]_vars

\* A version's status moves only along an edge of the machine: no write-back of a
\* stale row takes a version back to a status it has left (every commit of UpdateDraft,
\* Transition and Approve writes a whole row that was read before).
StatusFollowsMachine ==
    [][\A v \in Versions :
         Present(ver[v]) /\ ver'[v].status # ver[v].status =>
           \E t \in Transitions : t[1] = ver[v].status /\ t[3] = ver'[v].status]_vars

=============================================================================
