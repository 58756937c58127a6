------------------------ MODULE ArtifactVersionsProofs ------------------------
(***************************************************************************)
(* Proofs about ArtifactVersions, for any number of requests, principals,  *)
(* payloads, versions and edits.                                           *)
(*                                                                         *)
(* The safety properties are not inductive by themselves: what makes a     *)
(* commit harmless is a relation between the row and the copy its request  *)
(* read some steps before.  IInv states that relation for every program    *)
(* counter; RowStep names the only ways a version row may change, which is *)
(* proved once and then used for every property of the rows.               *)
(***************************************************************************)
EXTENDS ArtifactVersions, TLAPS

----------------------------------------------------------------------------
(* The inductive invariant. *)

\* A stored row is absent or a well-formed row whose hash matches.
RowOK(v, row) ==
    \/ row = NoRow
    \/ /\ row \in Row
       /\ row.status \in Statuses
       /\ row.content \in Contents
       /\ row.createdBy \in Principals
       /\ row.hash = ComputeHash(v, row.content, row.createdBy)
       /\ row.no > 0

\* A copy read from version v: older than the stored row, or equal to it.
Copy(rows, v, row) ==
    /\ v \in Versions
    /\ Present(row)
    /\ RowOK(v, row)
    /\ row.no <= rows[v].no
    /\ row.no = rows[v].no => row = rows[v]

\* The same for the identity row.
HeadCopy(cur, h) ==
    /\ h \in Head
    /\ h.current \in Versions
    /\ h.no <= cur.no
    /\ h.no = cur.no => h = cur

\* Version v has left DRAFT and still carries the body of the copy.
Reviewed(rows, v, row) ==
    /\ rows[v].status \notin {"ABSENT", "DRAFT"}
    /\ row.content = rows[v].content
    /\ row.hash = rows[v].hash
    /\ row.createdBy = rows[v].createdBy

AfterAuthorize == {"putContent", "putEvidence", "sealRead", "sealHead", "seal"}
AfterPutContent == {"putEvidence", "sealRead", "sealHead", "seal"}
AfterPutEvidence == {"sealRead", "sealHead", "seal"}

CopyInv(r) ==
    /\ pc[r] \in {"update", "fired", "transition", "sealHead", "seal"} => Copy(ver, tgt[r], snap[r])
    /\ pc[r] = "update" => snap[r].status = "DRAFT" /\ arg[r] \in Contents
    /\ pc[r] = "fired" => arg[r] \in Events
    /\ pc[r] = "transition" => arg[r] \in Events /\ HeadCopy(head, hsnap[r])
    /\ pc[r] = "revise" =>
         /\ tgt[r] \in Versions /\ who[r] \in Principals /\ snap[r].content \in Contents
         /\ HeadCopy(head, hsnap[r]) /\ tgt[r] = hsnap[r].current + 1

ApproveInv(r) ==
    /\ pc[r] \in AfterAuthorize \cup {"authorize"} =>
         tgt[r] \in Versions /\ who[r] \in Principals /\ Reviewed(ver, tgt[r], snap[r])
    /\ pc[r] \in AfterAuthorize /\ FourEyes =>
         ver[tgt[r]].createdBy # who[r] \/ \E c \in Contributors : c # who[r]
    /\ pc[r] \in AfterPutContent => snap[r].content \in contentStore
    /\ pc[r] \in AfterPutEvidence => evid[r] = EvidenceDoc(r) /\ evid[r] \in evidenceStore
    /\ pc[r] \in {"sealHead", "seal"} =>
         /\ snap[r].status = "USER_REVIEW"
         /\ prior[r] # 0 =>
              Copy(ver, prior[r], psnap[r]) /\ psnap[r].status = "APPROVED" /\ prior[r] # tgt[r]
    /\ pc[r] \notin {"sealHead", "seal"} => prior[r] = 0
    /\ pc[r] = "seal" => HeadCopy(head, hsnap[r])

RowsOK == \A v \in Versions : RowOK(v, ver[v])

RequestsInv == \A r \in Requests : CopyInv(r) /\ ApproveInv(r)

IInv ==
    /\ TypeOK
    /\ RowsOK
    /\ GaplessChain
    /\ ~ Present(head) => head = NoHead /\ ver = [v \in Versions |-> NoRow]
    /\ RequestsInv
    /\ OneApproved
    /\ EvidenceBacked
    /\ NotSoleAuthor

----------------------------------------------------------------------------
(* How a step may change the rows. *)

\* The versions table after a step, seen from version v: untouched, inserted,
\* edited while DRAFT, moved along an edge of the machine, or sealed with
\* evidence that was already stored and pins this very content.
RowStep(v) ==
    \/ ver'[v] = ver[v]
    \/ ver[v] = NoRow /\ \E c \in Contents, p \in Principals : ver'[v] = NewRow(v, c, p)
    \/ ver[v].status = "DRAFT"
         /\ \E c \in Contents : ver'[v] = Written(SetContent(v, ver[v], c))
    \/ \E t \in Transitions :
         /\ t[2] # "approve" /\ t[1] = ver[v].status
         /\ ver'[v] = Written([ver[v] EXCEPT !.status = t[3]])
    \/ /\ ver[v].status = "USER_REVIEW"
       /\ ver[v].content \in contentStore
       /\ \E p \in Principals :
            LET d == [version |-> v, hash |-> ver[v].hash, approver |-> p]
            IN /\ d \in evidenceStore
               /\ FourEyes => ver[v].createdBy # p \/ \E c \in Contributors : c # p
               /\ ver'[v] = Written(SealApproval(ver[v], p, d))

\* The identity row after a step: untouched, or a newer row.
HeadStep ==
    \/ head' = head
    \/ head' \in Head /\ head'.current \in Versions /\ head'.no > head.no

\* The buckets only grow.
StoreStep == contentStore \subseteq contentStore' /\ evidenceStore \subseteq evidenceStore'

Steps == HeadStep /\ StoreStep /\ \A v \in Versions : RowStep(v)

----------------------------------------------------------------------------
(* The machine. *)

\* No edge leads back to DRAFT, only approve leads to APPROVED, and the sealed
\* statuses after it are reached only from approved ones (artifact.go Machine).
LEMMA MachineShape ==
    ASSUME NEW t \in Transitions
    PROVE  /\ t[1] \in Statuses
           /\ t[3] \in Statuses \ {"DRAFT"}
           /\ t[3] # t[1]
           /\ t[2] # "approve" => t[3] # "APPROVED"
           /\ t[3] \in {"FROZEN", "SUPERSEDED"} => t[1] \in {"APPROVED", "FROZEN"}
           /\ t[1] \in {"APPROVED", "FROZEN"} => t[3] \in {"FROZEN", "SUPERSEDED"}
           /\ t[1] # "SUPERSEDED" /\ t[1] # "ABANDONED"
BY DEF Transitions, Statuses, SealedStates

----------------------------------------------------------------------------
(* What follows from RowStep for one version. *)

\* Fields of the rows the operations write.
LEMMA WrittenFields ==
    ASSUME NEW row \in Row
    PROVE  LET new == Written(row) IN
           /\ new \in Row
           /\ new.status = row.status /\ new.content = row.content /\ new.hash = row.hash
           /\ new.createdBy = row.createdBy /\ new.approvedBy = row.approvedBy
           /\ new.evidence = row.evidence /\ new.no = row.no + 1
BY DEF Written, Row

\* A move along the machine writes the status and the version_no only.
LEMMA MoveFields ==
    ASSUME NEW row \in Row, NEW s \in Statuses, NEW new,
           new = Written([row EXCEPT !.status = s])
    PROVE  /\ new \in Row
           /\ new.status = s /\ new.content = row.content /\ new.hash = row.hash
           /\ new.createdBy = row.createdBy /\ new.approvedBy = row.approvedBy
           /\ new.evidence = row.evidence /\ new.no = row.no + 1
<1>. DEFINE moved == [row EXCEPT !.status = s]
<1>1. /\ moved \in Row
      /\ moved.status = s /\ moved.content = row.content /\ moved.hash = row.hash
      /\ moved.createdBy = row.createdBy /\ moved.approvedBy = row.approvedBy
      /\ moved.evidence = row.evidence /\ moved.no = row.no
  BY DEF Row
<1>2. new = Written(moved)
  OBVIOUS
<1>. HIDE DEF moved
<1>. QED
  BY <1>1, <1>2, WrittenFields

\* SetContent writes the content, its hash and the version_no only.
LEMMA ContentFields ==
    ASSUME NEW row \in Row, NEW c \in Contents, NEW v \in Versions, row.createdBy \in Principals
    PROVE  LET new == SetContent(v, row, c) IN
           /\ new \in Row
           /\ new.status = row.status /\ new.content = c
           /\ new.hash = ComputeHash(v, c, row.createdBy)
           /\ new.createdBy = row.createdBy /\ new.approvedBy = row.approvedBy
           /\ new.evidence = row.evidence /\ new.no = row.no
BY DEF SetContent, ComputeHash, Row, Hashes

\* The seal writes status, approver, evidence and version_no only.
LEMMA SealFields ==
    ASSUME NEW row \in Row, NEW p \in Principals, NEW d \in Documents
    PROVE  LET new == SealApproval(row, p, d) IN
           /\ new \in Row
           /\ new.status = "APPROVED" /\ new.content = row.content /\ new.hash = row.hash
           /\ new.createdBy = row.createdBy /\ new.approvedBy = p
           /\ new.evidence = d /\ new.no = row.no
BY DEF SealApproval, Row, Statuses, SealedStates

\* A fresh row is a well-formed DRAFT.
LEMMA NewRowFields ==
    ASSUME NEW v \in Versions, NEW c \in Contents, NEW p \in Principals
    PROVE  LET new == NewRow(v, c, p) IN
           /\ new \in Row
           /\ new.status = "DRAFT" /\ new.content = c
           /\ new.hash = ComputeHash(v, c, p)
           /\ new.createdBy = p /\ new.approvedBy = None
           /\ new.evidence = None /\ new.no = 1
BY DEF NewRow, ComputeHash, Row, Statuses, Hashes

\* Fields of the identity row an operation writes.
LEMMA HeadFields ==
    ASSUME NEW h \in Head, NEW s \in Statuses, NEW c \in Versions, NEW moved \in Head, NEW new,
           moved.status = s, moved.current = c, moved.no = h.no, new = Written(moved)
    PROVE  new \in Head /\ new.status = s /\ new.current = c /\ new.no = h.no + 1
BY DEF Written, Head

\* A row step keeps the row well formed and never reuses a version_no.
LEMMA RowStepRow ==
    ASSUME NEW v \in Versions, RowOK(v, ver[v]), RowStep(v), ver[v] \in Row,
           evidenceStore \subseteq Documents
    PROVE  /\ RowOK(v, ver'[v])
           /\ ver[v].no \in Nat /\ ver'[v].no \in Nat
           /\ ver[v].no <= ver'[v].no
           /\ ver[v].no = ver'[v].no => ver'[v] = ver[v]
           /\ ver'[v] \in Row
           /\ Present(ver[v]) => Present(ver'[v]) /\ ver'[v].createdBy = ver[v].createdBy
<1>. DEFINE Goal == /\ RowOK(v, ver'[v])
                    /\ ver'[v].no \in Nat
                    /\ ver[v].no < ver'[v].no
                    /\ ver'[v] \in Row
                    /\ Present(ver[v]) =>
                         Present(ver'[v]) /\ ver'[v].createdBy = ver[v].createdBy
<1>0. ver[v].no \in Nat
  BY DEF Row
<1>1. CASE ver'[v] = ver[v]
  BY <1>0, <1>1
<1>2. ASSUME ver[v] = NoRow, NEW c \in Contents, NEW p \in Principals, ver'[v] = NewRow(v, c, p)
      PROVE  Goal
  <2>1. ver[v].no = 0 /\ ~ Present(ver[v])
    BY <1>2 DEF NoRow, Present
  <2>. QED
    BY <1>2, <2>1, NewRowFields DEF RowOK, Statuses
<1>3. ASSUME ver[v].status = "DRAFT", NEW c \in Contents,
             ver'[v] = Written(SetContent(v, ver[v], c))
      PROVE  Goal
  <2>1. ver[v].createdBy \in Principals /\ ver[v].no > 0
    BY <1>3 DEF RowOK, NoRow
  <2>2. SetContent(v, ver[v], c) \in Row
    BY <2>1, ContentFields
  <2>. QED
    BY <1>0, <1>3, <2>1, <2>2, ContentFields, WrittenFields DEF RowOK, Present, Statuses
<1>4. ASSUME NEW t \in Transitions, t[1] = ver[v].status,
             ver'[v] = Written([ver[v] EXCEPT !.status = t[3]])
      PROVE  Goal
  <2>1. t[3] \in Statuses /\ ver[v].status \in Statuses
    BY <1>4, MachineShape
  <2>2. ver[v] # NoRow
    BY <2>1 DEF NoRow, Statuses, SealedStates
  <2>4. /\ ver'[v] \in Row /\ ver'[v].no = ver[v].no + 1
        /\ ver'[v].status = t[3] /\ ver'[v].content = ver[v].content
        /\ ver'[v].hash = ver[v].hash /\ ver'[v].createdBy = ver[v].createdBy
    BY <1>4, <2>1, MoveFields
  <2>5. Present(ver'[v])
    BY <2>1, <2>4 DEF Present, Statuses, SealedStates
  <2>. QED
    BY <1>0, <2>1, <2>2, <2>4, <2>5 DEF RowOK
<1>5. ASSUME NEW p \in Principals, NEW d \in Documents, ver[v].status = "USER_REVIEW",
             ver'[v] = Written(SealApproval(ver[v], p, d))
      PROVE  Goal
  <2>1. ver[v] # NoRow
    BY <1>5 DEF NoRow
  <2>2. SealApproval(ver[v], p, d) \in Row
    BY SealFields
  <2>. QED
    BY <1>0, <1>5, <2>1, <2>2, SealFields, WrittenFields DEF RowOK, Present, Statuses, SealedStates
<1>6. ver'[v] = ver[v] \/ Goal
  <2>. HIDE DEF Goal
  <2>. QED
    BY <1>2, <1>3, <1>4, <1>5 DEF RowStep
<1>. QED
  BY <1>0, <1>1, <1>6

\* Once a version has left DRAFT its body stays and it does not come back.
LEMMA RowStepReviewed ==
    ASSUME NEW v \in Versions, RowOK(v, ver[v]), RowStep(v), ver[v] \in Row,
           evidenceStore \subseteq Documents,
           ver[v].status \notin {"ABSENT", "DRAFT"}
    PROVE  /\ ver'[v].status \notin {"ABSENT", "DRAFT"}
           /\ ver'[v].content = ver[v].content
           /\ ver'[v].hash = ver[v].hash
           /\ ver'[v].createdBy = ver[v].createdBy
<1>. DEFINE Goal == /\ ver'[v].status \notin {"ABSENT", "DRAFT"}
                    /\ ver'[v].content = ver[v].content
                    /\ ver'[v].hash = ver[v].hash
                    /\ ver'[v].createdBy = ver[v].createdBy
<1>1. CASE ver'[v] = ver[v]
  BY <1>1
<1>2. ver[v] # NoRow
  BY DEF NoRow
<1>3. ASSUME NEW t \in Transitions, t[1] = ver[v].status,
             ver'[v] = Written([ver[v] EXCEPT !.status = t[3]])
      PROVE  Goal
  <2>1. t[3] \in Statuses \ {"DRAFT"}
    BY <1>3, MachineShape
  <2>2. t[3] \notin {"ABSENT", "DRAFT"}
    BY <2>1 DEF Statuses, SealedStates
  <2>3. /\ ver'[v].status = t[3] /\ ver'[v].content = ver[v].content
        /\ ver'[v].hash = ver[v].hash /\ ver'[v].createdBy = ver[v].createdBy
    BY <1>3, <2>1, MoveFields
  <2>. QED
    BY <2>2, <2>3
<1>4. ASSUME NEW p \in Principals, NEW d \in Documents,
             ver'[v] = Written(SealApproval(ver[v], p, d))
      PROVE  Goal
  <2>1. SealApproval(ver[v], p, d) \in Row
    BY SealFields
  <2>. QED
    BY <1>4, <2>1, SealFields, WrittenFields
<1>. HIDE DEF Goal
<1>5. ver'[v] = ver[v] \/ Goal
  BY <1>2, <1>3, <1>4 DEF RowStep
<1>. QED
  BY <1>1, <1>5 DEF Goal

\* An approved row is as the seal left it, and its evidence was there before.
LEMMA RowStepEvidence ==
    ASSUME NEW v \in Versions, RowOK(v, ver[v]), RowStep(v), ver[v] \in Row,
           evidenceStore \subseteq Documents, StoreStep,
           EvidenceBacked
    PROVE  ver'[v].status \in {"APPROVED", "FROZEN", "SUPERSEDED"} =>
             /\ ver'[v].evidence \in evidenceStore'
             /\ ver'[v].evidence = [version |-> v,
                                    hash |-> ComputeHash(v, ver'[v].content, ver'[v].createdBy),
                                    approver |-> ver'[v].approvedBy]
             /\ ver'[v].content \in contentStore'
<1>. DEFINE Goal == ver'[v].status \in {"APPROVED", "FROZEN", "SUPERSEDED"} =>
             /\ ver'[v].evidence \in evidenceStore'
             /\ ver'[v].evidence = [version |-> v,
                                    hash |-> ComputeHash(v, ver'[v].content, ver'[v].createdBy),
                                    approver |-> ver'[v].approvedBy]
             /\ ver'[v].content \in contentStore'
<1>1. CASE ver'[v] = ver[v]
  BY <1>1 DEF EvidenceBacked, StoreStep
<1>2. ASSUME NEW c \in Contents, NEW p \in Principals, ver'[v] = NewRow(v, c, p)
      PROVE  Goal
  BY <1>2, NewRowFields
<1>3. ASSUME ver[v].status = "DRAFT", NEW c \in Contents,
             ver'[v] = Written(SetContent(v, ver[v], c))
      PROVE  Goal
  <2>1. ver[v].createdBy \in Principals
    BY <1>3 DEF RowOK, NoRow
  <2>2. ver'[v].status = "DRAFT"
    BY <1>3, <2>1, ContentFields, WrittenFields
  <2>. QED
    BY <2>2
<1>4. ASSUME NEW t \in Transitions, t[2] # "approve", t[1] = ver[v].status,
             ver'[v] = Written([ver[v] EXCEPT !.status = t[3]])
      PROVE  Goal
  <2>1. t[3] \in Statuses
    BY MachineShape
  <2>2. /\ ver'[v].status = t[3] /\ ver'[v].content = ver[v].content
        /\ ver'[v].approvedBy = ver[v].approvedBy /\ ver'[v].evidence = ver[v].evidence
        /\ ver'[v].createdBy = ver[v].createdBy
    BY <1>4, <2>1, MoveFields
  <2>3. t[3] \in {"APPROVED", "FROZEN", "SUPERSEDED"} => t[1] \in {"APPROVED", "FROZEN"}
    BY <1>4, MachineShape
  <2>. QED
    BY <1>4, <2>2, <2>3 DEF EvidenceBacked, StoreStep
<1>5. ASSUME ver[v].status = "USER_REVIEW", ver[v].content \in contentStore,
             NEW p \in Principals, NEW d \in evidenceStore,
             d = [version |-> v, hash |-> ver[v].hash, approver |-> p],
             ver'[v] = Written(SealApproval(ver[v], p, d))
      PROVE  Goal
  <2>1. ver[v].hash = ComputeHash(v, ver[v].content, ver[v].createdBy)
    BY <1>5 DEF RowOK, NoRow
  <2>2. /\ ver'[v].content = ver[v].content /\ ver'[v].createdBy = ver[v].createdBy
        /\ ver'[v].approvedBy = p /\ ver'[v].evidence = d
    BY <1>5, SealFields, WrittenFields
  <2>. QED
    BY <1>5, <2>1, <2>2 DEF StoreStep
<1>. HIDE DEF Goal
<1>6. ver'[v] = ver[v] \/ Goal
  BY <1>2, <1>3, <1>4, <1>5 DEF RowStep
<1>. QED
  BY <1>1, <1>6 DEF Goal

\* Authors are never forgotten: Contributors only grows.
LEMMA ContributorsGrow ==
    ASSUME RowsOK, ver \in [Versions -> Row], evidenceStore \subseteq Documents,
           \A v \in Versions : RowStep(v),
           NEW c \in Contributors
    PROVE  c \in Contributors'
<1>1. PICK v \in Versions : Present(ver[v]) /\ c = ver[v].createdBy
  BY DEF Contributors
<1>2. Present(ver'[v]) /\ ver'[v].createdBy = c
  BY <1>1, RowStepRow DEF RowsOK
<1>. QED
  BY <1>2 DEF Contributors

----------------------------------------------------------------------------
(* Every step of the specification is such a step. *)

\* A guard that compares version_no tells the copy IS the stored row.
LEMMA CopyCurrent ==
    ASSUME NEW v, NEW row, NEW new, Copy(ver, v, row), UpdateAllowed(ver[v], row, new)
    PROVE  row = ver[v]
BY DEF Copy, UpdateAllowed

\* Create, the four commits and the two object-store writes change the shared
\* state only as Steps says; every other action leaves it alone.
LEMMA NextSteps == IInv /\ [Next]_vars => Steps
<1>. SUFFICES ASSUME IInv, [Next]_vars PROVE Steps
  OBVIOUS
<1>. DEFINE Same == UNCHANGED <<head, ver, contentStore, evidenceStore>>
<1>t. /\ head \in Head /\ ver \in [Versions -> Row]
      /\ contentStore \subseteq Contents /\ evidenceStore \subseteq Documents
  BY DEF IInv, TypeOK
<1>n. head.no \in Nat
  BY <1>t DEF Head
<1>s. Same => Steps
  BY DEF Steps, HeadStep, StoreStep, RowStep
<1>1. ASSUME NEW p \in Principals, NEW c \in Contents, Create(p, c)
      PROVE  Steps
  <2>1. head = NoHead /\ ver[1] = NoRow
    BY <1>1 DEF Create, IInv
  <2>2. head' \in Head /\ head'.current \in Versions /\ head'.no > head.no
    BY <1>1, <2>1 DEF Create, Head, NoHead, Statuses
  <2>3. ver' = [ver EXCEPT ![1] = NewRow(1, c, p)] /\ 1 \in Versions /\ StoreStep
    BY <1>1 DEF Create, store, StoreStep
  <2>. QED
    BY <1>t, <2>1, <2>2, <2>3 DEF Steps, HeadStep, RowStep
<1>2. ASSUME NEW r \in Requests, UpdateDraftCommit(r)
      PROVE  Steps
  <2>. DEFINE v == tgt[r]
  <2>1. Copy(ver, v, snap[r]) /\ snap[r].status = "DRAFT" /\ arg[r] \in Contents
    BY <1>2 DEF UpdateDraftCommit, IInv, RequestsInv, CopyInv
  <2>2. v \in Versions /\ snap[r] = ver[v]
    BY <1>2, <2>1, CopyCurrent DEF UpdateDraftCommit, Copy
  <2>3. ver' = [ver EXCEPT ![v] = Written(SetContent(v, ver[v], arg[r]))]
        /\ UNCHANGED <<head, contentStore, evidenceStore>>
    BY <1>2, <2>2 DEF UpdateDraftCommit, store
  <2>. QED
    BY <1>t, <2>1, <2>2, <2>3 DEF Steps, HeadStep, StoreStep, RowStep
<1>3. ASSUME NEW r \in Requests, TransitionCommit(r)
      PROVE  Steps
  <2>. DEFINE v == tgt[r]
  <2>1. Copy(ver, v, snap[r]) /\ arg[r] \in Events /\ HeadCopy(head, hsnap[r])
    BY <1>3 DEF TransitionCommit, IInv, RequestsInv, CopyInv
  <2>2. PICK t \in Transitions :
          /\ t[1] = snap[r].status /\ t[2] = arg[r]
          /\ UpdateAllowed(ver[v], snap[r], Written([snap[r] EXCEPT !.status = t[3]]))
          /\ ver' = [ver EXCEPT ![v] = Written([snap[r] EXCEPT !.status = t[3]])]
          /\ head.no = hsnap[r].no
          /\ head' = Written([hsnap[r] EXCEPT !.status = t[3]])
    BY <1>3 DEF TransitionCommit
  <2>3. v \in Versions /\ snap[r] = ver[v] /\ hsnap[r] = head
    BY <2>1, <2>2, CopyCurrent DEF Copy, HeadCopy
  <2>4. t[2] # "approve" /\ t[3] \in Statuses
    BY <2>1, <2>2, MachineShape, EventsAssumption DEF TransitionEvents
  <2>5. HeadStep
    <3>. DEFINE moved == [head EXCEPT !.status = t[3]]
    <3>1. head.current \in Versions
      BY <2>1, <2>3 DEF HeadCopy
    <3>2. moved \in Head /\ moved.status = t[3] /\ moved.current = head.current
          /\ moved.no = head.no
      BY <1>t, <2>4 DEF Head
    <3>3. head' = Written(moved)
      BY <2>2, <2>3
    <3>. HIDE DEF moved
    <3>4. head' \in Head /\ head'.current \in Versions /\ head'.no = head.no + 1
      BY <1>t, <2>4, <3>1, <3>2, <3>3, HeadFields
    <3>. QED
      BY <1>n, <3>4 DEF HeadStep
  <2>6. StoreStep
    BY <1>3 DEF TransitionCommit, store, StoreStep
  <2>7. \A w \in Versions : RowStep(w)
    BY <1>t, <2>2, <2>3, <2>4 DEF RowStep
  <2>. QED
    BY <2>5, <2>6, <2>7 DEF Steps
<1>4. ASSUME NEW r \in Requests, ReviseCommit(r)
      PROVE  Steps
  <2>. DEFINE v == tgt[r]
  <2>1. /\ v \in Versions /\ who[r] \in Principals /\ snap[r].content \in Contents
        /\ HeadCopy(head, hsnap[r])
    BY <1>4 DEF ReviseCommit, IInv, RequestsInv, CopyInv
  <2>2. ver[v] = NoRow /\ hsnap[r] = head
    BY <1>4, <2>1 DEF ReviseCommit, IInv, RowsOK, RowOK, Present, Statuses, SealedStates, HeadCopy
  <2>3. head' = Written([head EXCEPT !.current = v, !.status = "DRAFT"])
        /\ ver' = [ver EXCEPT ![v] = NewRow(v, snap[r].content, who[r])]
        /\ StoreStep
    BY <1>4, <2>2 DEF ReviseCommit, store, StoreStep
  <2>4. HeadStep
    <3>. DEFINE moved == [head EXCEPT !.current = v, !.status = "DRAFT"]
    <3>1. moved \in Head /\ moved.status = "DRAFT" /\ moved.current = v /\ moved.no = head.no
      BY <1>t, <2>1 DEF Head, Statuses
    <3>2. head' = Written(moved)
      BY <2>3
    <3>. HIDE DEF moved
    <3>3. head' \in Head /\ head'.current \in Versions /\ head'.no = head.no + 1
      BY <1>t, <2>1, <3>1, <3>2, HeadFields DEF Statuses
    <3>. QED
      BY <1>n, <3>3 DEF HeadStep
  <2>. QED
    BY <1>t, <2>1, <2>2, <2>3, <2>4 DEF Steps, RowStep
<1>5. ASSUME NEW r \in Requests, PutContent(r) \/ PutEvidence(r)
      PROVE  Steps
  BY <1>5 DEF PutContent, PutEvidence, Steps, HeadStep, StoreStep, RowStep
<1>6. ASSUME NEW r \in Requests, SealCommit(r)
      PROVE  Steps
  <2>. DEFINE v == tgt[r]
              w == prior[r]
              new == Written(SealApproval(snap[r], who[r], evid[r]))
              old == Written([psnap[r] EXCEPT !.status = "SUPERSEDED"])
  <2>1. /\ w # 0 => UpdateAllowed(ver[w], psnap[r], old)
        /\ UpdateAllowed(ver[v], snap[r], new)
        /\ ver' = [u \in Versions |-> IF u = v THEN new ELSE IF u = w THEN old ELSE ver[u]]
        /\ head.no = hsnap[r].no
        /\ head' = Written([hsnap[r] EXCEPT !.status = "APPROVED", !.current = v])
        /\ UNCHANGED <<contentStore, evidenceStore>>
        /\ pc[r] = "seal"
    BY <1>6 DEF SealCommit, store
  <2>2. /\ Copy(ver, v, snap[r]) /\ HeadCopy(head, hsnap[r]) /\ snap[r].status = "USER_REVIEW"
        /\ who[r] \in Principals /\ snap[r].content \in contentStore
        /\ evid[r] = EvidenceDoc(r) /\ evid[r] \in evidenceStore
        /\ FourEyes => ver[v].createdBy # who[r] \/ \E c \in Contributors : c # who[r]
        /\ w # 0 => Copy(ver, w, psnap[r]) /\ psnap[r].status = "APPROVED" /\ w # v
    BY <2>1 DEF IInv, RequestsInv, CopyInv, ApproveInv, AfterAuthorize, AfterPutContent,
                AfterPutEvidence
  <2>3. v \in Versions /\ snap[r] = ver[v] /\ hsnap[r] = head
    BY <2>1, <2>2, CopyCurrent DEF Copy, HeadCopy
  <2>4. HeadStep
    <3>. DEFINE moved == [head EXCEPT !.status = "APPROVED", !.current = v]
    <3>1. moved \in Head /\ moved.status = "APPROVED" /\ moved.current = v /\ moved.no = head.no
      BY <1>t, <2>3 DEF Head, Statuses, SealedStates
    <3>2. head' = Written(moved)
      BY <2>1, <2>3
    <3>. HIDE DEF moved
    <3>3. head' \in Head /\ head'.current \in Versions /\ head'.no = head.no + 1
      BY <1>t, <2>3, <3>1, <3>2, HeadFields DEF Statuses, SealedStates
    <3>. QED
      BY <1>n, <3>3 DEF HeadStep
  <2>5. RowStep(v)
    <3>1. evid[r] = [version |-> v, hash |-> ver[v].hash, approver |-> who[r]]
      BY <2>2, <2>3 DEF EvidenceDoc
    <3>2. ver'[v] = Written(SealApproval(ver[v], who[r], evid[r]))
      BY <2>1, <2>3
    <3>. QED
      BY <2>2, <2>3, <3>1, <3>2 DEF RowStep
  <2>6. ASSUME w \in Versions, w # v PROVE RowStep(w)
    <3>1. w # 0
      BY <2>6 DEF Versions
    <3>2. psnap[r] = ver[w] /\ psnap[r].status = "APPROVED"
      BY <2>1, <2>2, <3>1, CopyCurrent
    <3>3. ver'[w] = Written([ver[w] EXCEPT !.status = "SUPERSEDED"])
      BY <2>1, <2>6, <3>2
    <3>4. <<"APPROVED", "superseded_by", "SUPERSEDED">> \in Transitions
      BY DEF Transitions
    <3>. QED
      BY <3>2, <3>3, <3>4 DEF RowStep
  <2>7. ASSUME NEW u \in Versions, u # v, u # w PROVE RowStep(u)
    BY <2>1, <2>7 DEF RowStep
  <2>. QED
    BY <2>1, <2>4, <2>5, <2>6, <2>7 DEF Steps, StoreStep
<1>7. ASSUME NEW r \in Requests, RequestStep(r)
      PROVE  Steps
  <2>1. ASSUME NEW v \in Versions, NEW c \in Contents, NEW n \in 0..MaxEdits,
               UpdateDraftRead(r, v, c, n)
        PROVE  Same
    BY <2>1 DEF UpdateDraftRead, store
  <2>2. ASSUME NEW v \in Versions, NEW e \in Events, TransitionRead(r, v, e)
        PROVE  Same
    BY <2>2 DEF TransitionRead, store
  <2>3. ASSUME NEW p \in Principals, ReviseRead(r, p)
        PROVE  Same
    BY <2>3 DEF ReviseRead, store
  <2>4. ASSUME NEW p \in Principals, NEW v \in Versions, ApproveRead(r, p, v)
        PROVE  Same
    BY <2>4 DEF ApproveRead, store
  <2>5. Authorize(r) \/ SealRead(r) \/ SealHead(r) \/ TransitionHead(r) \/ Fail(r) => Same
    BY DEF Authorize, SealRead, SealHead, TransitionHead, Fail, store
  <2>. QED
    BY <1>2, <1>3, <1>4, <1>5, <1>6, <1>7, <1>s, <2>1, <2>2, <2>3, <2>4, <2>5 DEF RequestStep
<1>8. CASE UNCHANGED vars
  BY <1>8, <1>s DEF vars
<1>. QED
  BY <1>1, <1>7, <1>8 DEF Next

----------------------------------------------------------------------------
(* What a request knows survives the steps of the others. *)

\* A copy stays older than, or equal to, the stored row.
LEMMA CopyStable ==
    ASSUME IInv, Steps, NEW v, NEW row, Copy(ver, v, row)
    PROVE  Copy(ver', v, row)
<1>1. v \in Versions /\ RowOK(v, ver[v]) /\ RowStep(v) /\ ver[v] \in Row
      /\ evidenceStore \subseteq Documents
  BY DEF Copy, IInv, TypeOK, RowsOK, Steps
<1>2. /\ ver[v].no \in Nat /\ ver'[v].no \in Nat /\ ver[v].no <= ver'[v].no
      /\ ver[v].no = ver'[v].no => ver'[v] = ver[v]
  BY <1>1, RowStepRow
<1>3. row.no \in Nat
  <2>1. row # NoRow
    BY DEF Copy, Present, NoRow
  <2>2. row \in Row
    BY <2>1 DEF Copy, RowOK
  <2>. QED
    BY <2>2 DEF Row
<1>. QED
  BY <1>2, <1>3 DEF Copy

\* The same for a copy of the identity row.
LEMMA HeadCopyStable ==
    ASSUME IInv, Steps, NEW h, HeadCopy(head, h)
    PROVE  HeadCopy(head', h)
<1>1. h.no \in Nat /\ head.no \in Nat
  BY DEF HeadCopy, Head, IInv, TypeOK
<1>2. head' = head \/ (head'.no \in Nat /\ head'.no > head.no)
  BY DEF Steps, HeadStep, Head
<1>. QED
  BY <1>1, <1>2 DEF HeadCopy

\* A version under review keeps the body the approver read.
LEMMA ReviewedStable ==
    ASSUME IInv, Steps, NEW v \in Versions, NEW row, Reviewed(ver, v, row)
    PROVE  Reviewed(ver', v, row)
<1>1. RowOK(v, ver[v]) /\ RowStep(v) /\ ver[v] \in Row /\ evidenceStore \subseteq Documents
  BY DEF IInv, TypeOK, RowsOK, Steps
<1>. QED
  BY <1>1, RowStepReviewed DEF Reviewed

\* What SoD-1 established of a version under review stays true until the seal.
LEMMA SoleStable ==
    ASSUME IInv, Steps, NEW v \in Versions, NEW p, Present(ver[v]),
           ver[v].createdBy # p \/ \E c \in Contributors : c # p
    PROVE  ver'[v].createdBy # p \/ \E c \in Contributors' : c # p
<1>1. RowOK(v, ver[v]) /\ RowStep(v) /\ ver[v] \in Row /\ evidenceStore \subseteq Documents
  BY DEF IInv, TypeOK, RowsOK, Steps
<1>2. ver'[v].createdBy = ver[v].createdBy
  BY <1>1, RowStepRow
<1>3. RowsOK /\ ver \in [Versions -> Row] /\ evidenceStore \subseteq Documents
      /\ \A u \in Versions : RowStep(u)
  BY DEF IInv, TypeOK, Steps
<1>4. ASSUME NEW c \in Contributors PROVE c \in Contributors'
  BY <1>3, ContributorsGrow
<1>. QED
  BY <1>2, <1>4

\* The step leaves the locals of request q alone.
Unmoved(q) ==
    /\ pc'[q] = pc[q] /\ who'[q] = who[q] /\ tgt'[q] = tgt[q] /\ arg'[q] = arg[q]
    /\ snap'[q] = snap[q] /\ hsnap'[q] = hsnap[q] /\ prior'[q] = prior[q]
    /\ psnap'[q] = psnap[q] /\ evid'[q] = evid[q]

\* A request that does not move keeps its part of the invariant.
LEMMA OthersKept ==
    ASSUME IInv, Steps, NEW q \in Requests, Unmoved(q)
    PROVE  CopyInv(q)' /\ ApproveInv(q)'
<1>1. CopyInv(q) /\ ApproveInv(q)
  BY DEF IInv, RequestsInv
<1>2. CopyInv(q)'
  <2>1. Copy(ver, tgt[q], snap[q]) => Copy(ver', tgt[q], snap[q])
    BY CopyStable
  <2>2. HeadCopy(head, hsnap[q]) => HeadCopy(head', hsnap[q])
    BY HeadCopyStable
  <2>. QED
    BY <1>1, <2>1, <2>2 DEF CopyInv, Unmoved
<1>3. ApproveInv(q)'
  <2>. USE DEF AfterAuthorize, AfterPutContent, AfterPutEvidence
  <2>1. pc[q] \in AfterAuthorize \cup {"authorize"} =>
          tgt[q] \in Versions /\ who[q] \in Principals /\ Reviewed(ver', tgt[q], snap[q])
    BY <1>1, ReviewedStable DEF ApproveInv
  <2>2. pc[q] \in AfterAuthorize /\ FourEyes =>
          ver'[tgt[q]].createdBy # who[q] \/ \E c \in Contributors' : c # who[q]
    BY <1>1, SoleStable DEF ApproveInv, Reviewed, Present
  <2>3. pc[q] \in AfterPutContent => snap[q].content \in contentStore'
    BY <1>1 DEF ApproveInv, Steps, StoreStep
  <2>4. pc[q] \in AfterPutEvidence => evid[q] = EvidenceDoc(q)' /\ evid[q] \in evidenceStore'
    BY <1>1 DEF ApproveInv, Steps, StoreStep, EvidenceDoc, Unmoved
  <2>5. pc[q] \in {"sealHead", "seal"} =>
          /\ snap[q].status = "USER_REVIEW"
          /\ prior[q] # 0 =>
               Copy(ver', prior[q], psnap[q]) /\ psnap[q].status = "APPROVED" /\ prior[q] # tgt[q]
    BY <1>1, CopyStable DEF ApproveInv
  <2>6. pc[q] = "seal" => HeadCopy(head', hsnap[q])
    BY <1>1, HeadCopyStable DEF ApproveInv
  <2>7. pc[q] \notin {"sealHead", "seal"} => prior[q] = 0
    BY <1>1 DEF ApproveInv
  <2>. QED
    BY <2>1, <2>2, <2>3, <2>4, <2>5, <2>6, <2>7 DEF ApproveInv, Unmoved
<1>. QED
  BY <1>2, <1>3

----------------------------------------------------------------------------
(* The request that moves. *)

\* The locals of the other requests are not touched.
LEMMA OnlyOneMoves ==
    ASSUME TypeOK, NEW r \in Requests, RequestStep(r), NEW q \in Requests, q # r
    PROVE  Unmoved(q)
<1>. USE DEF Unmoved
<1>t. /\ pc \in [Requests -> {"idle", "update", "fired", "transition", "revise", "authorize",
                "putContent", "putEvidence", "sealRead", "sealHead", "seal"}]
      /\ who \in [Requests -> Principals \cup {None}]
      /\ tgt \in [Requests -> Versions \cup {0}]
      /\ arg \in [Requests -> Contents \cup Events \cup {None}]
      /\ snap \in [Requests -> Row] /\ hsnap \in [Requests -> Head]
      /\ prior \in [Requests -> Versions \cup {0}] /\ psnap \in [Requests -> Row]
      /\ evid \in [Requests -> Documents \cup {None}]
  BY DEF TypeOK
<1>d. Done(r) => Unmoved(q)
  BY <1>t DEF Done
<1>1. ASSUME NEW v \in Versions, NEW c \in Contents, NEW n \in 0..MaxEdits,
             UpdateDraftRead(r, v, c, n)
      PROVE  Unmoved(q)
  BY <1>t, <1>1 DEF UpdateDraftRead
<1>2. ASSUME NEW v \in Versions, NEW e \in Events, TransitionRead(r, v, e)
      PROVE  Unmoved(q)
  BY <1>t, <1>2 DEF TransitionRead
<1>3. ASSUME NEW p \in Principals, ReviseRead(r, p)
      PROVE  Unmoved(q)
  BY <1>t, <1>3 DEF ReviseRead
<1>4. ASSUME NEW p \in Principals, NEW v \in Versions, ApproveRead(r, p, v)
      PROVE  Unmoved(q)
  BY <1>t, <1>4 DEF ApproveRead
<1>5. ASSUME Authorize(r) \/ PutContent(r) PROVE Unmoved(q)
  BY <1>t, <1>5 DEF Authorize, PutContent, locals
<1>6. ASSUME PutEvidence(r) PROVE Unmoved(q)
  BY <1>t, <1>6 DEF PutEvidence
<1>7. ASSUME SealRead(r) PROVE Unmoved(q)
  BY <1>t, <1>7 DEF SealRead
<1>8. ASSUME SealHead(r) \/ TransitionHead(r) PROVE Unmoved(q)
  BY <1>t, <1>8 DEF SealHead, TransitionHead
<1>9. UpdateDraftCommit(r) \/ TransitionCommit(r) \/ ReviseCommit(r) \/ SealCommit(r) \/ Fail(r)
        => Done(r)
  BY DEF UpdateDraftCommit, TransitionCommit, ReviseCommit, SealCommit, Fail
<1>. HIDE DEF Unmoved
<1>. QED
  BY <1>d, <1>1, <1>2, <1>3, <1>4, <1>5, <1>6, <1>7, <1>8, <1>9 DEF RequestStep

\* A row that was just read is a copy of itself.
LEMMA ReadCopy ==
    ASSUME IInv, NEW v \in Versions, Present(ver[v])
    PROVE  /\ Copy(ver, v, ver[v])
           /\ ver[v].content \in Contents
           /\ ver[v].createdBy \in Principals
           /\ ver[v].hash = ComputeHash(v, ver[v].content, ver[v].createdBy)
<1>1. RowOK(v, ver[v]) /\ ver[v] # NoRow /\ ver[v] \in Row
  BY DEF IInv, RowsOK, Present, NoRow, TypeOK
<1>2. ver[v].no \in Nat
  BY <1>1 DEF Row
<1>. QED
  BY <1>1, <1>2 DEF Copy, RowOK

\* The same for the identity row.
LEMMA ReadHeadCopy ==
    ASSUME IInv, Present(head)
    PROVE  HeadCopy(head, head)
BY DEF IInv, TypeOK, GaplessChain, HeadCopy, Head

\* The request that takes the step re-establishes its part of the invariant.
LEMMA ActingKept ==
    ASSUME IInv, Steps, NEW r \in Requests, RequestStep(r)
    PROVE  CopyInv(r)' /\ ApproveInv(r)'
<1>. USE DEF AfterAuthorize, AfterPutContent, AfterPutEvidence
<1>. DEFINE Goal == CopyInv(r)' /\ ApproveInv(r)'
<1>t. /\ pc \in [Requests -> {"idle", "update", "fired", "transition", "revise", "authorize",
                "putContent", "putEvidence", "sealRead", "sealHead", "seal"}]
      /\ who \in [Requests -> Principals \cup {None}]
      /\ tgt \in [Requests -> Versions \cup {0}]
      /\ arg \in [Requests -> Contents \cup Events \cup {None}]
      /\ snap \in [Requests -> Row] /\ hsnap \in [Requests -> Head]
      /\ prior \in [Requests -> Versions \cup {0}] /\ psnap \in [Requests -> Row]
      /\ evid \in [Requests -> Documents \cup {None}]
  BY DEF IInv, TypeOK
<1>i. CopyInv(r) /\ ApproveInv(r)
  BY DEF IInv, RequestsInv
<1>d. ASSUME Done(r) PROVE Goal
  <2>1. pc'[r] = "idle" /\ prior'[r] = 0
    BY <1>t, <1>d DEF Done
  <2>. QED
    BY <2>1 DEF CopyInv, ApproveInv
<1>1. ASSUME NEW v \in Versions, NEW c \in Contents, NEW n \in 0..MaxEdits,
             UpdateDraftRead(r, v, c, n)
      PROVE  Goal
  <2>1. /\ pc'[r] = "update" /\ tgt'[r] = v /\ arg'[r] = c /\ snap'[r] = ver[v]
        /\ prior'[r] = prior[r] /\ ver' = ver /\ ver[v].status = "DRAFT"
    BY <1>t, <1>1 DEF UpdateDraftRead
  <2>2. Copy(ver, v, ver[v])
    BY <1>1, ReadCopy DEF UpdateDraftRead, Readable
  <2>3. prior[r] = 0
    BY <1>1, <1>i DEF UpdateDraftRead, ApproveInv
  <2>. QED
    BY <2>1, <2>2, <2>3 DEF CopyInv, ApproveInv
<1>2. ASSUME NEW v \in Versions, NEW e \in Events, TransitionRead(r, v, e)
      PROVE  Goal
  <2>1. /\ pc'[r] = "fired" /\ tgt'[r] = v /\ arg'[r] = e /\ snap'[r] = ver[v]
        /\ prior'[r] = prior[r] /\ ver' = ver /\ head' = head
    BY <1>t, <1>2 DEF TransitionRead
  <2>2. Present(ver[v]) /\ Copy(ver, v, ver[v])
    BY <1>2, ReadCopy DEF TransitionRead, Readable
  <2>3. prior[r] = 0
    BY <1>2, <1>i DEF TransitionRead, ApproveInv
  <2>. QED
    BY <2>1, <2>2, <2>3 DEF CopyInv, ApproveInv
<1>3. ASSUME NEW p \in Principals, ReviseRead(r, p)
      PROVE  Goal
  <2>1. /\ pc'[r] = "revise" /\ tgt'[r] = head.current + 1 /\ who'[r] = p
        /\ snap'[r] = ver[head.current] /\ hsnap'[r] = head /\ prior'[r] = prior[r]
        /\ ver' = ver /\ head' = head /\ head.current + 1 \in Versions
    BY <1>t, <1>3 DEF ReviseRead, NextVersion
  <2>2. HeadCopy(head, head) /\ prior[r] = 0 /\ head.current \in Versions
    BY <1>3, <1>i, ReadHeadCopy DEF ReviseRead, ApproveInv, HeadCopy
  <2>3. ver[head.current].content \in Contents
    BY <1>3, <2>2, ReadCopy DEF ReviseRead, Readable
  <2>. QED
    BY <2>1, <2>2, <2>3 DEF CopyInv, ApproveInv
<1>4. ASSUME NEW p \in Principals, NEW v \in Versions, ApproveRead(r, p, v)
      PROVE  Goal
  <2>1. /\ pc'[r] = "authorize" /\ tgt'[r] = v /\ who'[r] = p /\ snap'[r] = ver[v]
        /\ prior'[r] = prior[r] /\ ver' = ver /\ ver[v].status = "USER_REVIEW"
    BY <1>t, <1>4 DEF ApproveRead
  <2>2. prior[r] = 0
    BY <1>4, <1>i DEF ApproveRead, ApproveInv
  <2>. QED
    BY <2>1, <2>2 DEF CopyInv, ApproveInv, Reviewed
<1>5. ASSUME Authorize(r) PROVE Goal
  <2>1. /\ pc[r] = "authorize" /\ pc'[r] = "putContent" /\ SoD1(who[r], snap[r], Contributors)
        /\ ver' = ver /\ tgt' = tgt /\ who' = who /\ snap' = snap /\ prior' = prior
    BY <1>t, <1>5 DEF Authorize, locals
  <2>2. Contributors' = Contributors
    BY <2>1 DEF Contributors
  <2>. QED
    BY <1>i, <2>1, <2>2 DEF CopyInv, ApproveInv, SoD1, Reviewed
<1>6. ASSUME PutContent(r) PROVE Goal
  <2>1. /\ pc[r] = "putContent" /\ pc'[r] = "putEvidence" /\ ver' = ver
        /\ tgt' = tgt /\ who' = who /\ snap' = snap /\ prior' = prior
        /\ snap[r].content \in contentStore'
    BY <1>t, <1>6 DEF PutContent, locals
  <2>2. Contributors' = Contributors
    BY <2>1 DEF Contributors
  <2>. QED
    BY <1>i, <2>1, <2>2 DEF CopyInv, ApproveInv, Reviewed
<1>7. ASSUME PutEvidence(r) PROVE Goal
  <2>1. /\ pc[r] = "putEvidence" /\ pc'[r] = "sealRead" /\ ver' = ver
        /\ tgt' = tgt /\ who' = who /\ snap' = snap /\ prior' = prior
        /\ contentStore' = contentStore
        /\ evid'[r] = EvidenceDoc(r) /\ EvidenceDoc(r) \in evidenceStore'
    BY <1>t, <1>7 DEF PutEvidence
  <2>2. Contributors' = Contributors /\ EvidenceDoc(r)' = EvidenceDoc(r)
    BY <2>1 DEF Contributors, EvidenceDoc
  <2>. QED
    BY <1>i, <2>1, <2>2 DEF CopyInv, ApproveInv, Reviewed
<1>8. ASSUME SealRead(r) PROVE Goal
  <2>. DEFINE v == tgt[r]
  <2>1. /\ pc[r] = "sealRead" /\ pc'[r] = "sealHead" /\ ver' = ver
        /\ tgt' = tgt /\ who' = who /\ evid' = evid
        /\ contentStore' = contentStore /\ evidenceStore' = evidenceStore
        /\ snap'[r] = ver[v] /\ Present(ver[v]) /\ ver[v].status = "USER_REVIEW"
    BY <1>t, <1>8 DEF SealRead, Readable, store
  <2>2. /\ v \in Versions /\ who[r] \in Principals /\ Reviewed(ver, v, snap[r])
        /\ snap[r].content \in contentStore /\ prior[r] = 0
        /\ evid[r] = EvidenceDoc(r) /\ evid[r] \in evidenceStore
        /\ FourEyes => ver[v].createdBy # who[r] \/ \E c \in Contributors : c # who[r]
    BY <1>i, <2>1 DEF ApproveInv
  <2>3. Contributors' = Contributors
    BY <2>1 DEF Contributors
  <2>4. EvidenceDoc(r)' = EvidenceDoc(r) /\ snap'[r].content = snap[r].content
    BY <2>1, <2>2 DEF EvidenceDoc, Reviewed
  <2>5. Copy(ver, v, ver[v])
    BY <2>1, <2>2, ReadCopy
  <2>6. prior'[r] # 0 =>
          /\ Copy(ver, prior'[r], psnap'[r]) /\ psnap'[r].status = "APPROVED"
          /\ prior'[r] # v
    <3>1. CASE \A w \in Versions : ver[w].status # "APPROVED"
      BY <1>t, <1>8, <2>2, <3>1 DEF SealRead
    <3>2. ASSUME NEW w \in Versions, ver[w].status = "APPROVED", prior'[r] = w, psnap'[r] = ver[w]
          PROVE  /\ Copy(ver, prior'[r], psnap'[r]) /\ psnap'[r].status = "APPROVED"
                 /\ prior'[r] # v
      BY <2>1, <3>2, ReadCopy DEF Present
    <3>. QED
      BY <1>t, <1>8, <3>1, <3>2 DEF SealRead
  <2>. QED
    BY <2>1, <2>2, <2>3, <2>4, <2>5, <2>6 DEF CopyInv, ApproveInv, Reviewed
<1>9. ASSUME SealHead(r) PROVE Goal
  <2>1. /\ pc[r] = "sealHead" /\ pc'[r] = "seal" /\ ver' = ver /\ head' = head
        /\ tgt' = tgt /\ who' = who /\ snap' = snap /\ evid' = evid
        /\ prior' = prior /\ psnap' = psnap /\ hsnap'[r] = head
        /\ contentStore' = contentStore /\ evidenceStore' = evidenceStore
    BY <1>t, <1>9 DEF SealHead, store
  <2>2. Contributors' = Contributors /\ EvidenceDoc(r)' = EvidenceDoc(r)
    BY <2>1 DEF Contributors, EvidenceDoc
  <2>3. Present(ver[tgt[r]]) /\ tgt[r] \in Versions
    BY <1>i, <2>1 DEF ApproveInv, Reviewed, Present
  <2>4. HeadCopy(head, head)
    BY <2>3, ReadHeadCopy DEF IInv, Present, NoRow
  <2>. QED
    BY <1>i, <2>1, <2>2, <2>4 DEF CopyInv, ApproveInv, Reviewed
<1>12. ASSUME TransitionHead(r) PROVE Goal
  <2>1. /\ pc[r] = "fired" /\ pc'[r] = "transition" /\ ver' = ver /\ head' = head
        /\ tgt' = tgt /\ arg' = arg /\ snap' = snap /\ prior' = prior /\ hsnap'[r] = head
    BY <1>t, <1>12 DEF TransitionHead
  <2>2. Copy(ver, tgt[r], snap[r]) /\ arg[r] \in Events /\ prior[r] = 0
    BY <1>i, <2>1 DEF CopyInv, ApproveInv
  <2>3. Present(ver[tgt[r]]) /\ tgt[r] \in Versions
    <3>1. RowOK(tgt[r], ver[tgt[r]]) /\ ver[tgt[r]].no \in Nat
      BY <2>2 DEF Copy, IInv, RowsOK, TypeOK, Row
    <3>2. snap[r].no \in Nat /\ snap[r].no > 0 /\ tgt[r] \in Versions
      BY <2>2 DEF Copy, RowOK, Present, NoRow, Row
    <3>3. ver[tgt[r]].no > 0
      BY <2>2, <3>1, <3>2 DEF Copy
    <3>. QED
      BY <3>1, <3>2, <3>3 DEF RowOK, Present, NoRow, Statuses, SealedStates
  <2>4. HeadCopy(head, head)
    BY <2>3, ReadHeadCopy DEF IInv, Present, NoRow
  <2>. QED
    BY <2>1, <2>2, <2>4 DEF CopyInv, ApproveInv
<1>10. UpdateDraftCommit(r) \/ TransitionCommit(r) \/ ReviseCommit(r) \/ SealCommit(r) \/ Fail(r)
         => Done(r)
  BY DEF UpdateDraftCommit, TransitionCommit, ReviseCommit, SealCommit, Fail
<1>. HIDE DEF Goal
<1>11. Goal
  BY <1>d, <1>1, <1>2, <1>3, <1>4, <1>5, <1>6, <1>7, <1>8, <1>9, <1>10, <1>12
  DEF RequestStep
<1>. QED
  BY <1>11 DEF Goal

----------------------------------------------------------------------------
(* The invariant is inductive. *)

\* The inductive invariant holds initially.
LEMMA InitIInv == Init => IInv
<1>. SUFFICES ASSUME Init PROVE IInv
  OBVIOUS
<1>1. NoRow \in Row /\ NoHead \in Head
  BY DEF NoRow, NoHead, Row, Head
<1>2. TypeOK
  BY <1>1 DEF Init, TypeOK
<1>3. \A v \in Versions : ver[v] = NoRow /\ ver[v].status = "ABSENT" /\ ver[v].approvedBy = None
  BY DEF Init, NoRow
<1>4. RowsOK /\ OneApproved /\ EvidenceBacked /\ NotSoleAuthor
  BY <1>3 DEF RowsOK, RowOK, OneApproved, OneApprovedIndex, EvidenceBacked, NotSoleAuthor
<1>5. GaplessChain
  BY <1>3 DEF GaplessChain, Present, Init, NoHead
<1>6. RequestsInv
  BY DEF Init, RequestsInv, CopyInv, ApproveInv, AfterAuthorize, AfterPutContent, AfterPutEvidence
<1>. QED
  BY <1>2, <1>4, <1>5, <1>6 DEF IInv, Init

\* The shared variables keep their types because Steps says how they change; the
\* locals only ever receive rows that were stored.
LEMMA TypeStep ==
    ASSUME IInv, Steps, [Next]_vars
    PROVE  TypeOK'
<1>. DEFINE LocalsType == /\ pc \in [Requests -> {"idle", "update", "fired", "transition", "revise",
                                "authorize", "putContent", "putEvidence", "sealRead",
                                "sealHead", "seal"}]
                          /\ who \in [Requests -> Principals \cup {None}]
                          /\ tgt \in [Requests -> Versions \cup {0}]
                          /\ arg \in [Requests -> Contents \cup Events \cup {None}]
                          /\ snap \in [Requests -> Row]
                          /\ hsnap \in [Requests -> Head]
                          /\ prior \in [Requests -> Versions \cup {0}]
                          /\ psnap \in [Requests -> Row]
                          /\ evid \in [Requests -> Documents \cup {None}]
<1>t. LocalsType /\ head \in Head /\ ver \in [Versions -> Row]
      /\ contentStore \subseteq Contents /\ evidenceStore \subseteq Documents
  BY DEF IInv, TypeOK
<1>z. NoRow \in Row /\ NoHead \in Head
  BY DEF NoRow, NoHead, Row, Head
<1>1. head' \in Head
  BY <1>t DEF Steps, HeadStep
<1>2. ver' \in [Versions -> Row]
  <2>1. ver' = [v \in Versions |-> ver'[v]]
    <3>1. ASSUME NEW p \in Principals, NEW c \in Contents, Create(p, c)
          PROVE  ver' = [v \in Versions |-> ver'[v]]
      BY <1>t, <3>1 DEF Create
    <3>2. ASSUME NEW r \in Requests, RequestStep(r)
          PROVE  ver' = [v \in Versions |-> ver'[v]]
      BY <1>t, <3>2 DEF RequestStep, UpdateDraftRead, UpdateDraftCommit, TransitionRead,
           TransitionHead, TransitionCommit, ReviseRead, ReviseCommit, ApproveRead, Authorize, PutContent,
           PutEvidence, SealRead, SealHead, SealCommit, Fail
    <3>3. CASE UNCHANGED vars
      BY <1>t, <3>3 DEF vars
    <3>. QED
      BY <3>1, <3>2, <3>3 DEF Next
  <2>2. ASSUME NEW v \in Versions PROVE ver'[v] \in Row
    BY <1>t, RowStepRow DEF IInv, RowsOK, Steps
  <2>. QED
    BY <2>1, <2>2
<1>3. contentStore' \subseteq Contents /\ evidenceStore' \subseteq Documents
  <2>1. ASSUME NEW r \in Requests, PutContent(r)
        PROVE  contentStore' \subseteq Contents /\ evidenceStore' \subseteq Documents
    <3>1. tgt[r] \in Versions /\ Reviewed(ver, tgt[r], snap[r])
      BY <2>1 DEF PutContent, IInv, RequestsInv, ApproveInv, AfterAuthorize
    <3>2. ver[tgt[r]].content \in Contents
      BY <3>1, ReadCopy DEF Reviewed, Present
    <3>. QED
      BY <1>t, <2>1, <3>1, <3>2 DEF PutContent, Reviewed
  <2>2. ASSUME NEW r \in Requests, PutEvidence(r)
        PROVE  contentStore' \subseteq Contents /\ evidenceStore' \subseteq Documents
    <3>1. tgt[r] \in Versions /\ who[r] \in Principals /\ Reviewed(ver, tgt[r], snap[r])
      BY <2>2 DEF PutEvidence, IInv, RequestsInv, ApproveInv, AfterAuthorize
    <3>2. ver[tgt[r]].hash \in Hashes
      BY <3>1, ReadCopy DEF Reviewed, Present, ComputeHash, Hashes
    <3>3. EvidenceDoc(r) \in Documents
      BY <3>1, <3>2 DEF EvidenceDoc, Documents, Reviewed
    <3>. QED
      BY <1>t, <2>2, <3>3 DEF PutEvidence
  <2>3. ASSUME NEW p \in Principals, NEW c \in Contents, Create(p, c)
        PROVE  UNCHANGED <<contentStore, evidenceStore>>
    BY <2>3 DEF Create, store
  <2>4. ASSUME NEW r \in Requests, RequestStep(r), ~ PutContent(r), ~ PutEvidence(r)
        PROVE  UNCHANGED <<contentStore, evidenceStore>>
    BY <2>4 DEF RequestStep, UpdateDraftRead, UpdateDraftCommit, TransitionRead,
         TransitionHead, TransitionCommit, ReviseRead, ReviseCommit, ApproveRead, Authorize,
         SealRead, SealHead, SealCommit, Fail, store
  <2>. QED
    BY <1>t, <2>1, <2>2, <2>3, <2>4 DEF Next, vars
<1>4. LocalsType'
  <2>d. ASSUME NEW r \in Requests, Done(r) PROVE LocalsType'
    BY <1>t, <1>z, <2>d DEF Done
  <2>1. ASSUME NEW r \in Requests, NEW v \in Versions, NEW c \in Contents,
               NEW n \in 0..MaxEdits, UpdateDraftRead(r, v, c, n)
        PROVE  LocalsType'
    BY <1>t, <2>1 DEF UpdateDraftRead
  <2>2. ASSUME NEW r \in Requests, NEW v \in Versions, NEW e \in Events, TransitionRead(r, v, e)
        PROVE  LocalsType'
    BY <1>t, <2>2 DEF TransitionRead
  <2>3. ASSUME NEW r \in Requests, NEW p \in Principals, ReviseRead(r, p)
        PROVE  LocalsType'
    <3>1. head.current \in Versions
      BY <2>3 DEF ReviseRead, IInv, GaplessChain
    <3>. QED
      BY <1>t, <2>3, <3>1 DEF ReviseRead
  <2>4. ASSUME NEW r \in Requests, NEW p \in Principals, NEW v \in Versions, ApproveRead(r, p, v)
        PROVE  LocalsType'
    BY <1>t, <2>4 DEF ApproveRead
  <2>5. ASSUME NEW r \in Requests, Authorize(r) \/ PutContent(r) PROVE LocalsType'
    BY <1>t, <2>5 DEF Authorize, PutContent, locals
  <2>6. ASSUME NEW r \in Requests, PutEvidence(r) PROVE LocalsType'
    <3>1. tgt[r] \in Versions /\ who[r] \in Principals /\ Reviewed(ver, tgt[r], snap[r])
      BY <2>6 DEF PutEvidence, IInv, RequestsInv, ApproveInv, AfterAuthorize
    <3>2. ver[tgt[r]].hash \in Hashes
      BY <3>1, ReadCopy DEF Reviewed, Present, ComputeHash, Hashes
    <3>3. EvidenceDoc(r) \in Documents
      BY <3>1, <3>2 DEF EvidenceDoc, Documents, Reviewed
    <3>. QED
      BY <1>t, <2>6, <3>3 DEF PutEvidence
  <2>7. ASSUME NEW r \in Requests, SealRead(r) PROVE LocalsType'
    <3>1. tgt[r] \in Versions
      BY <2>7 DEF SealRead, IInv, RequestsInv, ApproveInv, AfterAuthorize
    <3>. QED
      BY <1>t, <2>7, <3>1 DEF SealRead
  <2>8. ASSUME NEW r \in Requests, SealHead(r) \/ TransitionHead(r) PROVE LocalsType'
    BY <1>t, <2>8 DEF SealHead, TransitionHead
  <2>9. ASSUME NEW r \in Requests PROVE
          UpdateDraftCommit(r) \/ TransitionCommit(r) \/ ReviseCommit(r) \/ SealCommit(r)
            \/ Fail(r) => Done(r)
    BY DEF UpdateDraftCommit, TransitionCommit, ReviseCommit, SealCommit, Fail
  <2>10. ASSUME NEW p \in Principals, NEW c \in Contents, Create(p, c) PROVE LocalsType'
    BY <1>t, <2>10 DEF Create, locals
  <2>11. CASE UNCHANGED vars
    BY <1>t, <2>11 DEF vars
  <2>. HIDE DEF LocalsType
  <2>. QED
    BY <2>d, <2>1, <2>2, <2>3, <2>4, <2>5, <2>6, <2>7, <2>8, <2>9, <2>10, <2>11
    DEF Next, RequestStep
<1>. QED
  BY <1>1, <1>2, <1>3, <1>4 DEF TypeOK

\* Four eyes for one version.
LEMMA RowStepAuthor ==
    ASSUME IInv, Steps, FourEyes, NEW v \in Versions,
           Present(ver'[v]), ver'[v].approvedBy # None, ver'[v].approvedBy = ver'[v].createdBy
    PROVE  \E c \in Contributors' : c # ver'[v].approvedBy
<1>. DEFINE Goal == \E c \in Contributors' : c # ver'[v].approvedBy
<1>0. /\ RowOK(v, ver[v]) /\ RowStep(v) /\ ver[v] \in Row /\ evidenceStore \subseteq Documents
      /\ RowsOK /\ ver \in [Versions -> Row] /\ \A u \in Versions : RowStep(u)
  BY DEF IInv, TypeOK, RowsOK, Steps
<1>g. ASSUME NEW c \in Contributors PROVE c \in Contributors'
  BY <1>0, <1>g, ContributorsGrow
<1>k. ASSUME Present(ver[v]), ver'[v].approvedBy = ver[v].approvedBy,
             ver'[v].createdBy = ver[v].createdBy
      PROVE  Goal
  <2>1. PICK c \in Contributors : c # ver[v].approvedBy
    BY <1>k DEF IInv, NotSoleAuthor
  <2>. QED
    BY <1>g, <1>k, <2>1
<1>1. ASSUME ver'[v] = ver[v] PROVE Goal
  BY <1>1, <1>k
<1>2. ASSUME NEW c \in Contents, NEW p \in Principals, ver'[v] = NewRow(v, c, p)
      PROVE  Goal
  BY <1>2, NewRowFields
<1>3. ASSUME ver[v].status = "DRAFT", NEW c \in Contents,
             ver'[v] = Written(SetContent(v, ver[v], c))
      PROVE  Goal
  <2>1. ver[v].createdBy \in Principals /\ Present(ver[v])
    BY <1>0, <1>3 DEF RowOK, NoRow, Present
  <2>2. ver'[v].approvedBy = ver[v].approvedBy /\ ver'[v].createdBy = ver[v].createdBy
    BY <1>0, <1>3, <2>1, ContentFields, WrittenFields
  <2>. QED
    BY <1>k, <2>1, <2>2
<1>4. ASSUME NEW t \in Transitions, t[1] = ver[v].status,
             ver'[v] = Written([ver[v] EXCEPT !.status = t[3]])
      PROVE  Goal
  <2>1. t[3] \in Statuses /\ t[1] \in Statuses
    BY MachineShape
  <2>2. ver'[v].approvedBy = ver[v].approvedBy /\ ver'[v].createdBy = ver[v].createdBy
    BY <1>0, <1>4, <2>1, MoveFields
  <2>3. Present(ver[v])
    BY <1>4, <2>1 DEF Present, Statuses, SealedStates
  <2>. QED
    BY <1>k, <2>2, <2>3
<1>5. ASSUME NEW p \in Principals, NEW d \in Documents,
             ver[v].createdBy # p \/ \E c \in Contributors : c # p,
             ver'[v] = Written(SealApproval(ver[v], p, d))
      PROVE  Goal
  <2>1. ver'[v].approvedBy = p /\ ver'[v].createdBy = ver[v].createdBy
    BY <1>0, <1>5, SealFields, WrittenFields
  <2>. QED
    BY <1>5, <1>g, <2>1
<1>. HIDE DEF Goal
<1>6. RowStep(v) /\ evidenceStore \subseteq Documents
  BY <1>0
<1>7. Goal
  BY <1>1, <1>2, <1>3, <1>4, <1>5, <1>6 DEF RowStep
<1>. QED
  BY <1>7 DEF Goal

\* The chain of versions and the pointer into it, commit by commit.
LEMMA ChainStep ==
    ASSUME IInv, Steps, [Next]_vars
    PROVE  /\ GaplessChain'
           /\ ~ Present(head') => head' = NoHead /\ ver' = [v \in Versions |-> NoRow]
           /\ OneApproved'
<1>. DEFINE Goal == /\ GaplessChain'
                    /\ ~ Present(head') => head' = NoHead /\ ver' = [v \in Versions |-> NoRow]
                    /\ OneApproved'
<1>t. head \in Head /\ ver \in [Versions -> Row]
  BY DEF IInv, TypeOK
<1>i. /\ GaplessChain /\ OneApproved
      /\ ~ Present(head) => head = NoHead /\ ver = [v \in Versions |-> NoRow]
  BY DEF IInv
<1>b. Versions = 1..MaxVersion /\ MaxVersion \in Nat
  BY BoundsAssumption DEF Versions
<1>s. ASSUME UNCHANGED <<head, ver>> PROVE Goal
  BY <1>s, <1>i DEF GaplessChain, OneApproved, OneApprovedIndex
<1>1. ASSUME NEW p \in Principals, NEW c \in Contents, Create(p, c) PROVE Goal
  <2>1. /\ ver = [v \in Versions |-> NoRow] /\ 1 \in Versions
        /\ ver' = [ver EXCEPT ![1] = NewRow(1, c, p)]
        /\ head' = [status |-> "DRAFT", current |-> 1, no |-> 1]
    BY <1>1, <1>i DEF Create
  <2>2. /\ ver'[1].status = "DRAFT"
        /\ \A v \in Versions : v # 1 => ver'[v].status = "ABSENT"
    BY <2>1 DEF NewRow, NoRow
  <2>3. head'.status = "DRAFT" /\ head'.current = 1
    BY <2>1
  <2>. QED
    BY <1>b, <2>1, <2>2, <2>3 DEF GaplessChain, Present, OneApproved, OneApprovedIndex
<1>2. ASSUME NEW r \in Requests, UpdateDraftCommit(r) PROVE Goal
  <2>. DEFINE v == tgt[r]
  <2>1. Copy(ver, v, snap[r]) /\ snap[r].status = "DRAFT" /\ arg[r] \in Contents
    BY <1>2 DEF UpdateDraftCommit, IInv, RequestsInv, CopyInv
  <2>2. /\ v \in Versions /\ snap[r] = ver[v]
        /\ ver' = [ver EXCEPT ![v] = Written(SetContent(v, snap[r], arg[r]))] /\ head' = head
    BY <1>2, <2>1, CopyCurrent DEF UpdateDraftCommit, Copy
  <2>3. Present(ver[v]) /\ ver[v].createdBy \in Principals
    BY <2>1, <2>2, ReadCopy DEF Copy
  <2>4. ver'[v].status = "DRAFT"
    BY <1>t, <2>1, <2>2, <2>3, ContentFields, WrittenFields
  <2>5. \A u \in Versions : u # v => ver'[u] = ver[u]
    BY <1>t, <2>2
  <2>6. \A u \in Versions : Present(ver'[u]) <=> Present(ver[u])
    BY <2>3, <2>4, <2>5 DEF Present
  <2>7. Present(head)
    BY <1>i, <2>2, <2>3 DEF Present, NoRow
  <2>8. OneApproved'
    BY <1>i, <2>4, <2>5 DEF OneApproved, OneApprovedIndex
  <2>9. GaplessChain'
    BY <1>i, <1>b, <2>2, <2>6 DEF GaplessChain
  <2>. QED
    BY <2>2, <2>7, <2>8, <2>9
<1>3. ASSUME NEW r \in Requests, TransitionCommit(r) PROVE Goal
  <2>. DEFINE v == tgt[r]
  <2>1. Copy(ver, v, snap[r]) /\ HeadCopy(head, hsnap[r])
    BY <1>3 DEF TransitionCommit, IInv, RequestsInv, CopyInv
  <2>2. PICK t \in Transitions :
          /\ UpdateAllowed(ver[v], snap[r], Written([snap[r] EXCEPT !.status = t[3]]))
          /\ OneApprovedIndex([ver EXCEPT ![v] = Written([snap[r] EXCEPT !.status = t[3]])])
          /\ ver' = [ver EXCEPT ![v] = Written([snap[r] EXCEPT !.status = t[3]])]
          /\ head.no = hsnap[r].no
          /\ head' = Written([hsnap[r] EXCEPT !.status = t[3]])
    BY <1>3 DEF TransitionCommit
  <2>3. v \in Versions /\ snap[r] = ver[v] /\ hsnap[r] = head
    BY <2>1, <2>2, CopyCurrent DEF Copy, HeadCopy
  <2>4. t[3] \in Statuses /\ t[3] # "ABSENT"
    BY MachineShape DEF Statuses, SealedStates
  <2>5. Present(ver[v]) /\ Present(head)
    BY <1>i, <2>1, <2>3 DEF Copy, Present, NoRow
  <2>6. \A u \in Versions : u # v => ver'[u] = ver[u]
    BY <1>t, <2>2
  <2>7. ver'[v].status = t[3]
    BY <1>t, <2>2, <2>3, <2>4, MoveFields
  <2>8. \A u \in Versions : Present(ver'[u]) <=> Present(ver[u])
    BY <2>4, <2>5, <2>6, <2>7 DEF Present
  <2>9. head'.current = head.current /\ head'.status = t[3]
    BY <1>t, <2>2, <2>3, <2>4 DEF Written, Head
  <2>10. OneApproved'
    BY <2>2 DEF OneApproved, OneApprovedIndex
  <2>11. GaplessChain'
    BY <1>i, <1>b, <2>5, <2>8, <2>9 DEF GaplessChain
  <2>. QED
    BY <2>4, <2>9, <2>10, <2>11 DEF Present
<1>4. ASSUME NEW r \in Requests, ReviseCommit(r) PROVE Goal
  <2>. DEFINE v == tgt[r]
  <2>1. /\ v \in Versions /\ who[r] \in Principals /\ snap[r].content \in Contents
        /\ HeadCopy(head, hsnap[r]) /\ v = hsnap[r].current + 1
    BY <1>4 DEF ReviseCommit, IInv, RequestsInv, CopyInv
  <2>2. /\ hsnap[r] = head
        /\ ver' = [ver EXCEPT ![v] = NewRow(v, snap[r].content, who[r])]
        /\ head' = Written([head EXCEPT !.current = v, !.status = "DRAFT"])
    BY <1>4, <2>1 DEF ReviseCommit, HeadCopy
  <2>3. head.current \in Versions /\ v = head.current + 1
    BY <2>1, <2>2 DEF HeadCopy
  <2>4. head'.current = v /\ head'.status = "DRAFT"
    BY <1>t, <2>1, <2>2 DEF Written, Head
  <2>5. ver'[v].status = "DRAFT" /\ \A u \in Versions : u # v => ver'[u] = ver[u]
    BY <1>t, <2>1, <2>2, NewRowFields
  <2>6. Present(head)
    BY <1>t, <1>b, <1>i, <2>3 DEF NoHead
  <2>7. \A u \in 1..head.current : Present(ver[u])
    BY <1>i, <2>3, <2>6 DEF GaplessChain
  <2>8. \A u \in Versions : Present(ver'[u]) => \A w \in 1..u : Present(ver'[w])
    <3>1. ASSUME NEW u \in Versions, Present(ver'[u]), NEW w \in 1..u PROVE Present(ver'[w])
      <4>1. w \in Versions
        BY <1>b, <3>1
      <4>2. CASE w = v
        BY <2>5, <4>2 DEF Present
      <4>3. CASE w # v /\ u # v
        BY <1>i, <2>5, <3>1, <4>1, <4>3 DEF GaplessChain
      <4>4. CASE w # v /\ u = v
        <5>1. w \in 1..head.current
          BY <1>b, <2>3, <3>1, <4>4
        <5>. QED
          BY <2>5, <2>7, <4>1, <4>4, <5>1
      <4>. QED
        BY <4>2, <4>3, <4>4
    <3>. QED
      BY <3>1
  <2>9. GaplessChain'
    BY <2>1, <2>4, <2>5, <2>8 DEF GaplessChain, Present
  <2>10. OneApproved'
    BY <1>i, <2>5 DEF OneApproved, OneApprovedIndex
  <2>. QED
    BY <2>4, <2>9, <2>10 DEF Present
<1>5. ASSUME NEW r \in Requests, SealCommit(r) PROVE Goal
  <2>. DEFINE v == tgt[r]
              w == prior[r]
              new == Written(SealApproval(snap[r], who[r], evid[r]))
              old == Written([psnap[r] EXCEPT !.status = "SUPERSEDED"])
              rows == [u \in Versions |-> IF u = v THEN new ELSE IF u = w THEN old ELSE ver[u]]
  <2>1. /\ w # 0 => UpdateAllowed(ver[w], psnap[r], old)
        /\ UpdateAllowed(ver[v], snap[r], new)
        /\ OneApprovedIndex(rows) /\ ver' = rows
        /\ head.no = hsnap[r].no
        /\ head' = Written([hsnap[r] EXCEPT !.status = "APPROVED", !.current = v])
        /\ pc[r] = "seal"
    BY <1>5 DEF SealCommit
  <2>2. /\ Copy(ver, v, snap[r]) /\ HeadCopy(head, hsnap[r])
        /\ w # 0 => Copy(ver, w, psnap[r])
    BY <2>1 DEF IInv, RequestsInv, CopyInv, ApproveInv
  <2>3. v \in Versions /\ snap[r] = ver[v] /\ hsnap[r] = head /\ Present(ver[v])
    BY <2>1, <2>2, CopyCurrent DEF Copy, HeadCopy
  <2>4. w \in Versions => Present(ver[w])
    <3>1. ASSUME w \in Versions PROVE Present(ver[w])
      <4>1. w # 0
        BY <1>b, <3>1
      <4>2. psnap[r] = ver[w]
        BY <2>1, <2>2, <4>1, CopyCurrent
      <4>. QED
        BY <2>2, <4>1, <4>2 DEF Copy
    <3>. QED
      BY <3>1
  <2>5. head'.current = v /\ head'.status = "APPROVED"
    BY <1>t, <2>1, <2>3 DEF Written, Head
  <2>6. \A u \in Versions : Present(ver'[u]) => Present(ver[u])
    BY <2>1, <2>3, <2>4
  <2>7. \A u \in Versions : Present(ver[u]) => Present(ver'[u])
    BY RowStepRow DEF IInv, TypeOK, RowsOK, Steps
  <2>8. GaplessChain'
    <3>1. ASSUME NEW u \in Versions, Present(ver'[u]), NEW x \in 1..u PROVE Present(ver'[x])
      <4>1. x \in Versions
        BY <1>b, <3>1
      <4>2. Present(ver[x])
        BY <1>i, <2>6, <3>1 DEF GaplessChain
      <4>. QED
        BY <2>7, <4>1, <4>2
    <3>. QED
      BY <2>3, <2>5, <2>7, <3>1 DEF GaplessChain
  <2>9. OneApproved'
    BY <2>1 DEF OneApproved, OneApprovedIndex
  <2>. QED
    BY <2>5, <2>8, <2>9 DEF Present
<1>6. ASSUME NEW r \in Requests, RequestStep(r),
             ~ UpdateDraftCommit(r), ~ TransitionCommit(r), ~ ReviseCommit(r), ~ SealCommit(r)
      PROVE  UNCHANGED <<head, ver>>
  BY <1>6 DEF RequestStep, UpdateDraftRead, TransitionRead, TransitionHead, ReviseRead, ApproveRead, Authorize,
       PutContent, PutEvidence, SealRead, SealHead, Fail
<1>7. UNCHANGED vars => UNCHANGED <<head, ver>>
  BY DEF vars
<1>. HIDE DEF Goal
<1>8. Goal
  BY <1>s, <1>1, <1>2, <1>3, <1>4, <1>5, <1>6, <1>7 DEF Next
<1>. QED
  BY <1>8 DEF Goal

\* One step of the specification preserves the inductive invariant.
LEMMA IInvStep == IInv /\ [Next]_vars => IInv'
<1>. SUFFICES ASSUME IInv, [Next]_vars PROVE IInv'
  OBVIOUS
<1>1. Steps
  BY NextSteps
<1>2. TypeOK'
  BY <1>1, TypeStep
<1>3. RowsOK'
  <2>1. ASSUME NEW v \in Versions PROVE RowOK(v, ver'[v])
    BY <1>1, RowStepRow DEF IInv, TypeOK, RowsOK, Steps
  <2>. QED
    BY <2>1 DEF RowsOK
<1>4. /\ GaplessChain'
      /\ ~ Present(head') => head' = NoHead /\ ver' = [v \in Versions |-> NoRow]
      /\ OneApproved'
  BY <1>1, ChainStep
<1>5. RequestsInv'
  <2>1. ASSUME NEW q \in Requests, NEW r \in Requests, RequestStep(r)
        PROVE  CopyInv(q)' /\ ApproveInv(q)'
    <3>1. CASE q = r
      BY <1>1, <2>1, <3>1, ActingKept
    <3>2. CASE q # r
      <4>1. Unmoved(q)
        BY <2>1, <3>2, OnlyOneMoves DEF IInv
      <4>. QED
        BY <1>1, <4>1, OthersKept
    <3>. QED
      BY <3>1, <3>2
  <2>2. ASSUME NEW q \in Requests, NEW p \in Principals, NEW c \in Contents, Create(p, c)
        PROVE  CopyInv(q)' /\ ApproveInv(q)'
    <3>1. Unmoved(q)
      BY <2>2 DEF Create, locals, Unmoved
    <3>. QED
      BY <1>1, <3>1, OthersKept
  <2>3. ASSUME NEW q \in Requests, UNCHANGED vars
        PROVE  CopyInv(q)' /\ ApproveInv(q)'
    <3>1. Unmoved(q)
      BY <2>3 DEF vars, Unmoved
    <3>. QED
      BY <1>1, <3>1, OthersKept
  <2>4. ASSUME NEW q \in Requests PROVE CopyInv(q)' /\ ApproveInv(q)'
    BY <2>1, <2>2, <2>3 DEF Next
  <2>. QED
    BY <2>4 DEF RequestsInv
<1>6. EvidenceBacked'
  <2>1. ASSUME NEW v \in Versions
        PROVE  ver'[v].status \in {"APPROVED", "FROZEN", "SUPERSEDED"} =>
                 /\ ver'[v].evidence \in evidenceStore'
                 /\ ver'[v].evidence = [version |-> v,
                                        hash |-> ComputeHash(v, ver'[v].content, ver'[v].createdBy),
                                        approver |-> ver'[v].approvedBy]
                 /\ ver'[v].content \in contentStore'
    <3>1. /\ RowOK(v, ver[v]) /\ RowStep(v) /\ ver[v] \in Row
          /\ evidenceStore \subseteq Documents /\ StoreStep /\ EvidenceBacked
      BY <1>1 DEF IInv, TypeOK, RowsOK, Steps
    <3>. QED
      BY <3>1, RowStepEvidence
  <2>. QED
    BY <2>1 DEF EvidenceBacked
<1>7. NotSoleAuthor'
  BY <1>1, RowStepAuthor DEF NotSoleAuthor
<1>. QED
  BY <1>2, <1>3, <1>4, <1>5, <1>6, <1>7 DEF IInv

\* The inductive invariant holds of every behaviour.
THEOREM Invariance == Spec => []IInv
<1>1. Init => IInv
  BY InitIInv
<1>2. IInv /\ [Next]_vars => IInv'
  BY IInvStep
<1>. QED
  BY <1>1, <1>2, PTL DEF Spec

----------------------------------------------------------------------------
(* The results. *)

\* Type correctness, for every value of the constants.
THEOREM TypeCorrect == Spec => []TypeOK
<1>1. IInv => TypeOK
  BY DEF IInv
<1>. QED
  BY <1>1, Invariance, PTL

\* Approve's ordering argument: whatever requests interleave, fail or die, an
\* approved, frozen or superseded version is backed by stored evidence that pins
\* exactly the content it carries.
THEOREM EvidenceAlwaysBacked == Spec => []EvidenceBacked
<1>1. IInv => EvidenceBacked
  BY DEF IInv
<1>. QED
  BY <1>1, Invariance, PTL

\* Racing approvals leave at most one APPROVED version.
THEOREM AtMostOneApproved == Spec => []OneApproved
<1>1. IInv => OneApproved
  BY DEF IInv
<1>. QED
  BY <1>1, Invariance, PTL

\* A write-back that passes the version_no check overwrites nothing unseen.
THEOREM OptimisticWritesSound == Spec => []VersionNoIdentifiesRow
<1>1. IInv => VersionNoIdentifiesRow
  BY DEF IInv, RequestsInv, CopyInv, ApproveInv, Copy, HeadCopy, VersionNoIdentifiesRow
<1>. QED
  BY <1>1, Invariance, PTL

\* Every stored row passes the hash check of GetVersion.
THEOREM HashesMatch == Spec => []HashMatches
<1>1. IInv => HashMatches
  BY DEF IInv, RowsOK, RowOK, HashMatches, Readable, Present, NoRow
<1>. QED
  BY <1>1, Invariance, PTL

\* Nobody approves what they alone wrote: SoD-1 as abac.go has it, evaluated long before the
\* seal.  It is less than "may not have authored any version" of README.md 639.
THEOREM FourEyesHolds == Spec => []NotSoleAuthor
<1>1. IInv => NotSoleAuthor
  BY DEF IInv
<1>. QED
  BY <1>1, Invariance, PTL

\* The chain of versions has no gap and the identity row points into it.
THEOREM ChainIsGapless == Spec => []GaplessChain
<1>1. IInv => GaplessChain
  BY DEF IInv
<1>. QED
  BY <1>1, Invariance, PTL

\* A row step as the two action properties see it.
LEMMA RowStepActions ==
    ASSUME NEW v \in Versions, RowOK(v, ver[v]), RowStep(v), ver[v] \in Row,
           evidenceStore \subseteq Documents, Present(ver[v])
    PROVE  /\ ver'[v].status # ver[v].status =>
                \E t \in Transitions : t[1] = ver[v].status /\ t[3] = ver'[v].status
           /\ <<ver'[v].approvedBy, ver'[v].evidence>> # <<ver[v].approvedBy, ver[v].evidence>>
                => ver[v].status = "USER_REVIEW" /\ ver'[v].status = "APPROVED"
<1>. DEFINE Goal ==
           /\ ver'[v].status # ver[v].status =>
                \E t \in Transitions : t[1] = ver[v].status /\ t[3] = ver'[v].status
           /\ <<ver'[v].approvedBy, ver'[v].evidence>> # <<ver[v].approvedBy, ver[v].evidence>>
                => ver[v].status = "USER_REVIEW" /\ ver'[v].status = "APPROVED"
<1>1. ASSUME ver'[v] = ver[v] PROVE Goal
  BY <1>1
<1>2. ver[v] # NoRow
  BY DEF Present, NoRow
<1>3. ASSUME ver[v].status = "DRAFT", NEW c \in Contents,
             ver'[v] = Written(SetContent(v, ver[v], c))
      PROVE  Goal
  <2>1. ver[v].createdBy \in Principals
    BY <1>2 DEF RowOK
  <2>2. /\ ver'[v].status = ver[v].status /\ ver'[v].approvedBy = ver[v].approvedBy
        /\ ver'[v].evidence = ver[v].evidence
    BY <1>3, <2>1, ContentFields, WrittenFields
  <2>. QED
    BY <2>2
<1>4. ASSUME NEW t \in Transitions, t[1] = ver[v].status,
             ver'[v] = Written([ver[v] EXCEPT !.status = t[3]])
      PROVE  Goal
  <2>1. t[3] \in Statuses
    BY MachineShape
  <2>2. /\ ver'[v].status = t[3] /\ ver'[v].approvedBy = ver[v].approvedBy
        /\ ver'[v].evidence = ver[v].evidence
    BY <1>4, <2>1, MoveFields
  <2>. QED
    BY <1>4, <2>2
<1>5. ASSUME ver[v].status = "USER_REVIEW", NEW p \in Principals, NEW d \in Documents,
             ver'[v] = Written(SealApproval(ver[v], p, d))
      PROVE  Goal
  <2>1. ver'[v].status = "APPROVED"
    BY <1>5, SealFields, WrittenFields
  <2>2. PICK t \in Transitions : t = <<"USER_REVIEW", "approve", "APPROVED">>
    BY DEF Transitions
  <2>3. t[1] = ver[v].status /\ t[3] = ver'[v].status
    BY <1>5, <2>1, <2>2
  <2>. QED
    BY <1>5, <2>1, <2>3
<1>. HIDE DEF Goal
<1>6. Goal
  BY <1>1, <1>2, <1>3, <1>4, <1>5 DEF RowStep
<1>. QED
  BY <1>6 DEF Goal

\* A version's status moves only along the edges of the machine, although every
\* commit writes back a row read earlier.
THEOREM StatusAlongMachine == Spec => StatusFollowsMachine
<1>1. IInv /\ [Next]_vars =>
        [\A v \in Versions :
           Present(ver[v]) /\ ver'[v].status # ver[v].status =>
             \E t \in Transitions : t[1] = ver[v].status /\ t[3] = ver'[v].status]_vars
  <2>. SUFFICES ASSUME IInv, [Next]_vars, NEW v \in Versions,
                       Present(ver[v]), ver'[v].status # ver[v].status
                PROVE  \E t \in Transitions : t[1] = ver[v].status /\ t[3] = ver'[v].status
    OBVIOUS
  <2>1. RowOK(v, ver[v]) /\ RowStep(v) /\ ver[v] \in Row /\ evidenceStore \subseteq Documents
    BY NextSteps DEF IInv, TypeOK, RowsOK, Steps
  <2>. QED
    BY <2>1, RowStepActions
<1>. QED
  BY <1>1, Invariance, PTL DEF Spec, StatusFollowsMachine

\* What left DRAFT never changes again, except that the seal adds the approval.
THEOREM ReviewedStaysFixed == Spec => ReviewedContentFixed
<1>1. IInv /\ [Next]_vars =>
        [\A v \in Versions :
           ver[v].status \notin {"ABSENT", "DRAFT"} =>
             /\ ver'[v].content = ver[v].content
             /\ ver'[v].hash = ver[v].hash
             /\ ver'[v].createdBy = ver[v].createdBy
             /\ <<ver'[v].approvedBy, ver'[v].evidence>> # <<ver[v].approvedBy, ver[v].evidence>>
                  => ver[v].status = "USER_REVIEW" /\ ver'[v].status = "APPROVED"]_vars
  <2>. SUFFICES ASSUME IInv, [Next]_vars, NEW v \in Versions,
                       ver[v].status \notin {"ABSENT", "DRAFT"}
                PROVE  /\ ver'[v].content = ver[v].content
                       /\ ver'[v].hash = ver[v].hash
                       /\ ver'[v].createdBy = ver[v].createdBy
                       /\ <<ver'[v].approvedBy, ver'[v].evidence>>
                             # <<ver[v].approvedBy, ver[v].evidence>>
                            => ver[v].status = "USER_REVIEW" /\ ver'[v].status = "APPROVED"
    OBVIOUS
  <2>1. RowOK(v, ver[v]) /\ RowStep(v) /\ ver[v] \in Row /\ evidenceStore \subseteq Documents
    BY NextSteps DEF IInv, TypeOK, RowsOK, Steps
  <2>2. Present(ver[v])
    BY DEF Present
  <2>. QED
    BY <2>1, <2>2, RowStepActions, RowStepReviewed
<1>. QED
  BY <1>1, Invariance, PTL DEF Spec, ReviewedContentFixed
=============================================================================
