--------------------------- MODULE TraceLinksProofs ---------------------------
(***************************************************************************)
(* Proofs about TraceLinks, for any number of identifiers, creations,      *)
(* links, reviews and depth bounds: the identifiers and the reviews as the *)
(* requests interleave, and what a walk answers on every table of links.   *)
(*                                                                         *)
(* A walk is a recursive function of the depth.  That such a function has  *)
(* a value at every depth, and what the value is, is shown by the least    *)
(* depth at which it would not.                                            *)
(***************************************************************************)
EXTENDS TraceLinks, FiniteSetTheorems, WellFoundedInduction, TLAPS

----------------------------------------------------------------------------
(* The inductive invariant. *)

\* A link that was never made has no version and no event.
UnmadeIsBlank ==
    \A i \in LinkInputs : /\ links[i].status = None <=> links[i].no = 0
                          /\ links[i].status = None => events[i] = <<>>

\* The ends of a link are stored versions.
EndsStored == \A i \in LinkInputs : Exists(i) => {i.from, i.to} \subseteq versions

\* What a reviewer read of a link is the link, unless the link has a later version.
ReadIsOld(rv) ==
    /\ rv.link \in LinkInputs /\ rv.read.status # None /\ Exists(rv.link)
    /\ rv.read.no <= links[rv.link].no
    /\ rv.read.no = links[rv.link].no => rv.read = links[rv.link]
ReviewsRead == \A r \in Reviewers : reviewer[r].step = "commit" => ReadIsOld(reviewer[r])

\* A creation that succeeded has stored its identifier; one under way has one.
CreatedStored ==
    \A c \in Creators : /\ creator[c].step = "created" => creator[c].id \in ArtifactIds
                        /\ creator[c].step = "insert" => creator[c].id \in Ids

IInv == /\ TypeOK /\ UnmadeIsBlank /\ EndsStored /\ ReviewsRead /\ CreatedStored
        /\ IdentifiersUnique /\ RejectedIsFinal

----------------------------------------------------------------------------
(* Steps. *)

\* The invariant holds before anything happened.
LEMMA InitInv == Init => IInv
  <1> SUFFICES ASSUME Init PROVE IInv
    OBVIOUS
  <1> USE DEF Init, NoLink, NoReview
  <1>1. TypeOK
    <2>1. NoLink \in LinkRows
      BY DEF LinkRows
    <2>2. NoReview \in Reviews
      BY <2>1 DEF Reviews
    <2>3. versions \subseteq Refs
      BY IdsAssumption DEF Refs
    <2>4. links \in [LinkInputs -> LinkRows] /\ reviewer \in [Reviewers -> Reviews]
      BY <2>1, <2>2
    <2>5. events \in [LinkInputs -> Seq(LinkStatuses)]
      OBVIOUS
    <2> QED BY <2>3, <2>4, <2>5 DEF TypeOK
  <1>2. UnmadeIsBlank /\ EndsStored
    BY DEF UnmadeIsBlank, EndsStored, Exists
  <1>3. ReviewsRead /\ CreatedStored /\ IdentifiersUnique
    BY DEF ReviewsRead, CreatedStored, IdentifiersUnique
  <1>4. RejectedIsFinal
    BY DEF RejectedIsFinal
  <1> QED BY <1>1, <1>2, <1>3, <1>4 DEF IInv

\* Steps that leave the links and their events alone.
LEMMA LinksKept ==
    ASSUME IInv, UNCHANGED <<links, events>>, versions \subseteq versions'
    PROVE  UnmadeIsBlank' /\ EndsStored' /\ RejectedIsFinal'
  <1>1. UnmadeIsBlank'
    BY DEF IInv, UnmadeIsBlank
  <1>2. EndsStored'
    BY DEF IInv, EndsStored, Exists
  <1>3. RejectedIsFinal'
    BY DEF IInv, RejectedIsFinal
  <1> QED BY <1>1, <1>2, <1>3

\* Steps that leave the creations alone.
LEMMA CreatorsKept ==
    ASSUME IInv, UNCHANGED creator, versions \subseteq versions'
    PROVE  CreatedStored' /\ IdentifiersUnique'
  <1>1. ArtifactIds \subseteq ArtifactIds'
    BY DEF ArtifactIds
  <1>2. CreatedStored'
    BY <1>1 DEF IInv, CreatedStored
  <1>3. IdentifiersUnique'
    BY DEF IInv, IdentifiersUnique
  <1> QED BY <1>2, <1>3

\* Steps that leave the links and their reviews alone.
LEMMA ReviewsKept ==
    ASSUME IInv, UNCHANGED <<links, reviewer>>
    PROVE  ReviewsRead'
  BY DEF IInv, ReviewsRead, ReadIsOld, Exists

LEMMA AllocateInv ==
    ASSUME IInv, NEW c \in Creators, Allocate(c) PROVE IInv'
  <1>1. PICK n \in Ids : creator' = [creator EXCEPT ![c] = [step |-> "insert", id |-> n]]
    BY IdsAssumption DEF Allocate
  <1>2. UNCHANGED <<versions, links, graph_version, events, reviewer>>
    BY DEF Allocate
  <1>3. TypeOK'
    BY <1>1, <1>2 DEF IInv, TypeOK
  <1>4. ArtifactIds' = ArtifactIds
    BY <1>2 DEF ArtifactIds
  <1>5. CreatedStored' /\ IdentifiersUnique'
    BY <1>1, <1>4 DEF IInv, TypeOK, CreatedStored, IdentifiersUnique
  <1> QED BY <1>2, <1>3, <1>5, LinksKept, ReviewsKept DEF IInv

\* A creation that ends without an artifact.
LEMMA CreationFailsInv ==
    ASSUME IInv, NEW c \in Creators, creator' = [creator EXCEPT ![c].step = "failed"],
           UNCHANGED <<versions, links, graph_version, events, reviewer>>
    PROVE  IInv'
  <1>1. TypeOK'
    BY DEF IInv, TypeOK
  <1>2. ArtifactIds' = ArtifactIds
    BY DEF ArtifactIds
  <1>3. CreatedStored' /\ IdentifiersUnique'
    BY <1>2 DEF IInv, TypeOK, CreatedStored, IdentifiersUnique
  <1> QED BY <1>1, <1>3, LinksKept, ReviewsKept DEF IInv

LEMMA CreateArtifactInv ==
    ASSUME IInv, NEW c \in Creators, CreateArtifact(c) PROVE IInv'
  <1>1. CASE creator[c].id \in ArtifactIds
    BY <1>1, CreationFailsInv DEF CreateArtifact
  <1>2. CASE creator[c].id \notin ArtifactIds
    <2>1. /\ versions' = versions \cup {<<creator[c].id, 1>>} /\ graph_version' = graph_version + 1
          /\ creator' = [creator EXCEPT ![c].step = "created"]
          /\ UNCHANGED <<links, events, reviewer>> /\ creator[c].id \in Ids
      BY <1>2 DEF CreateArtifact, BumpGraphVersion, IInv, CreatedStored
    <2>2. TypeOK'
      BY <2>1 DEF IInv, TypeOK, Refs
    <2>3. ArtifactIds' = ArtifactIds \cup {creator[c].id}
      <3>1. PICK n : n = creator[c].id
        OBVIOUS
      <3>2. PICK u : u = <<n, 1>>
        OBVIOUS
      <3>3. u[1] = n /\ versions' = versions \cup {u}
        BY <2>1, <3>1, <3>2
      <3>4. \A x : x \in ArtifactIds' <=> x \in ArtifactIds \cup {n}
        BY <3>3 DEF ArtifactIds
      <3> QED BY <3>1, <3>4
    <2>4. CreatedStored'
      BY <2>1, <2>3 DEF IInv, TypeOK, CreatedStored
    <2>5. IdentifiersUnique'
      BY <1>2, <2>1 DEF IInv, TypeOK, CreatedStored, IdentifiersUnique
    <2> QED BY <2>1, <2>2, <2>4, <2>5, LinksKept, ReviewsKept DEF IInv
  <1> QED BY <1>1, <1>2

LEMMA ReviseInv ==
    ASSUME IInv, NEW n \in Revised, Revise(n) PROVE IInv'
  <1>1. /\ versions' = versions \cup {<<n, 2>>} /\ graph_version' = graph_version + 1
        /\ UNCHANGED <<links, events, creator, reviewer>>
    BY DEF Revise, BumpGraphVersion
  <1>2. TypeOK'
    BY <1>1, IdsAssumption DEF IInv, TypeOK, Refs
  <1> QED BY <1>1, <1>2, LinksKept, CreatorsKept, ReviewsKept DEF IInv

LEMMA CreateLinkInv ==
    ASSUME IInv, NEW i \in LinkInputs, CreateLink(i) PROVE IInv'
  <1> DEFINE h == [status |-> defaultStatusFor(i.origin, i.exact), disposed |-> FALSE, no |-> 1]
  <1>1. /\ links' = [links EXCEPT ![i] = h] /\ graph_version' = graph_version + 1
        /\ events' = [events EXCEPT ![i] = <<h.status>>]
        /\ UNCHANGED <<versions, creator, reviewer>>
    BY DEF CreateLink, BumpGraphVersion, CreatedEvent
  <1>2. ~Exists(i) /\ {i.from, i.to} \subseteq versions
    BY DEF CreateLink, Refusal, SameEdge
  <1>3. h \in LinkRows /\ h.status \in {"ACCEPTED", "PROPOSED"} /\ h.no = 1
    BY DEF LinkRows, defaultStatusFor, LinkStatuses
  <1>4. <<h.status>> \in Seq(LinkStatuses)
    BY <1>3 DEF LinkStatuses
  <1> HIDE DEF h
  <1>5. TypeOK'
    BY <1>1, <1>3, <1>4 DEF IInv, TypeOK
  <1>6. UnmadeIsBlank'
    BY <1>1, <1>3, NoneAssumption DEF IInv, TypeOK, UnmadeIsBlank, LinkStatuses
  <1>7. EndsStored'
    BY <1>1, <1>2 DEF IInv, TypeOK, EndsStored, Exists
  <1>8. ReviewsRead'
    <2> SUFFICES ASSUME NEW r \in Reviewers, reviewer'[r].step = "commit"
                 PROVE  ReadIsOld(reviewer[r])'
      BY DEF ReviewsRead
    <2>1. ReadIsOld(reviewer[r]) /\ reviewer[r].link # i
      BY <1>1, <1>2 DEF IInv, ReviewsRead, ReadIsOld
    <2> QED BY <1>1, <2>1 DEF IInv, TypeOK, ReadIsOld, Exists
  <1>9. RejectedIsFinal'
    <2> SUFFICES ASSUME NEW j \in LinkInputs, NEW n \in DOMAIN events'[j],
                        events'[j][n] = "REJECTED"
                 PROVE  /\ links'[j].status = "REJECTED"
                        /\ \A m \in n .. Len(events'[j]) : events'[j][m] = "REJECTED"
      BY DEF RejectedIsFinal
    <2>1. j # i
      BY <1>1, <1>3 DEF IInv, TypeOK
    <2>2. events'[j] = events[j] /\ links'[j] = links[j]
      BY <1>1, <2>1 DEF IInv, TypeOK
    <2> QED BY <2>2 DEF IInv, RejectedIsFinal
  <1> QED BY <1>1, <1>5, <1>6, <1>7, <1>8, <1>9, CreatorsKept DEF IInv

LEMMA GetLinkInv ==
    ASSUME IInv, NEW r \in Reviewers, GetLink(r) PROVE IInv'
  <1>1. PICK op \in {"accept", "reject"}, i \in LinkInputs, d \in BOOLEAN :
             /\ Exists(i)
             /\ reviewer' = [reviewer EXCEPT ![r] =
                   [step |-> "commit", op |-> op, link |-> i, read |-> links[i], disposed |-> d]]
    BY DEF GetLink
  <1>2. UNCHANGED <<versions, links, graph_version, events, creator>>
    BY DEF GetLink
  <1>3. links[i] \in LinkRows
    BY DEF IInv, TypeOK
  <1>4. TypeOK'
    BY <1>1, <1>2, <1>3 DEF IInv, TypeOK, Reviews
  <1>5. ReviewsRead'
    <2> SUFFICES ASSUME NEW q \in Reviewers, reviewer'[q].step = "commit"
                 PROVE  ReadIsOld(reviewer[q])'
      BY DEF ReviewsRead
    <2>1. CASE q = r
      BY <1>1, <1>2, <1>3, <2>1 DEF IInv, TypeOK, ReadIsOld, Exists, LinkRows
    <2>2. CASE q # r
      BY <1>1, <1>2, <2>2 DEF IInv, TypeOK, ReviewsRead, ReadIsOld, Exists
    <2> QED BY <2>1, <2>2
  <1> QED BY <1>2, <1>4, <1>5, LinksKept, CreatorsKept DEF IInv

\* A review that ends without a change.
LEMMA FinishInv ==
    ASSUME IInv, NEW r \in Reviewers, Finish(r),
           UNCHANGED <<versions, links, graph_version, events, creator>>
    PROVE  IInv'
  <1>1. [NoReview EXCEPT !.step = "done"] \in Reviews
    BY DEF Reviews, NoReview, NoLink, LinkRows
  <1>2. TypeOK'
    BY <1>1 DEF IInv, TypeOK, Finish
  <1>3. ReviewsRead'
    BY DEF IInv, TypeOK, ReviewsRead, ReadIsOld, Exists, Finish, NoReview
  <1> QED BY <1>2, <1>3, LinksKept, CreatorsKept DEF IInv

\* A review that commits a row over the link as it is, and announces it.  Only a
\* rejection follows a rejection.
LEMMA ReviewInv ==
    ASSUME IInv, NEW r \in Reviewers, NEW l \in LinkInputs, Exists(l),
           NEW h \in LinkRows, h.status \in LinkStatuses, h.no = links[l].no + 1,
           h.status = "REJECTED" \/ links[l].status # "REJECTED",
           links' = [links EXCEPT ![l] = h], graph_version' \in Nat,
           events' = [events EXCEPT ![l] = Append(@, h.status)],
           Finish(r), UNCHANGED <<versions, creator>>
    PROVE  IInv'
  <1>1. events[l] \in Seq(LinkStatuses) /\ Append(events[l], h.status) \in Seq(LinkStatuses)
    BY DEF IInv, TypeOK
  <1>2. [NoReview EXCEPT !.step = "done"] \in Reviews
    BY DEF Reviews, NoReview, NoLink, LinkRows
  <1>3. links[l] \in LinkRows /\ links[l].no \in Nat
    BY DEF IInv, TypeOK, LinkRows
  <1>4. TypeOK'
    BY <1>1, <1>2 DEF IInv, TypeOK, Finish
  <1>5. UnmadeIsBlank'
    BY <1>3, NoneAssumption DEF IInv, TypeOK, UnmadeIsBlank
  <1>6. EndsStored'
    BY DEF IInv, TypeOK, EndsStored, Exists
  <1>7. ReviewsRead'
    <2> SUFFICES ASSUME NEW q \in Reviewers, reviewer'[q].step = "commit"
                 PROVE  ReadIsOld(reviewer[q])'
      BY DEF ReviewsRead
    <2>1. q # r
      BY DEF IInv, TypeOK, Finish, NoReview
    <2>2. reviewer'[q] = reviewer[q] /\ ReadIsOld(reviewer[q])
      BY <2>1 DEF IInv, TypeOK, Finish, ReviewsRead
    <2>3. reviewer[q].read.no \in Nat
      BY DEF IInv, TypeOK, Reviews, LinkRows
    <2>4. CASE reviewer[q].link = l
      BY <1>3, <2>2, <2>3, <2>4, NoneAssumption DEF IInv, TypeOK, ReadIsOld, Exists
    <2>5. CASE reviewer[q].link # l
      BY <2>2, <2>5 DEF IInv, TypeOK, ReadIsOld, Exists
    <2> QED BY <2>4, <2>5
  <1>8. RejectedIsFinal'
    <2> SUFFICES ASSUME NEW j \in LinkInputs, NEW n \in DOMAIN events'[j],
                        events'[j][n] = "REJECTED"
                 PROVE  /\ links'[j].status = "REJECTED"
                        /\ \A m \in n .. Len(events'[j]) : events'[j][m] = "REJECTED"
      BY DEF RejectedIsFinal
    <2>1. CASE j # l
      <3>1. events'[j] = events[j] /\ links'[j] = links[j]
        BY <2>1 DEF IInv, TypeOK
      <3> QED BY <3>1 DEF IInv, RejectedIsFinal
    <2>2. CASE j = l
      <3>1. PICK s : s = events[l]
        OBVIOUS
      <3>2. s \in Seq(LinkStatuses) /\ events'[j] = Append(s, h.status) /\ links'[j] = h
        BY <1>1, <2>2, <3>1 DEF IInv, TypeOK
      <3>3. Len(s) \in Nat /\ DOMAIN s = 1 .. Len(s)
        BY <3>2
      <3>4. \A k \in 1 .. Len(s) : s[k] = "REJECTED" =>
                /\ links[l].status = "REJECTED"
                /\ \A m \in k .. Len(s) : s[m] = "REJECTED"
        BY <3>1, <3>3 DEF IInv, RejectedIsFinal
      <3>5. Len(events'[j]) = Len(s) + 1 /\ n \in 1 .. Len(s) + 1
        BY <3>2
      <3>6. /\ \A k \in 1 .. Len(s) : events'[j][k] = s[k]
            /\ events'[j][Len(s) + 1] = h.status
        BY <3>2
      <3>7. h.status = "REJECTED"
        BY <3>3, <3>4, <3>5, <3>6
      <3>8. ASSUME NEW m \in n .. Len(s) + 1 PROVE events'[j][m] = "REJECTED"
        BY <3>3, <3>4, <3>5, <3>6, <3>7
      <3> QED BY <3>2, <3>5, <3>7, <3>8
    <2> QED BY <2>1, <2>2
  <1> QED BY <1>4, <1>5, <1>6, <1>7, <1>8, CreatorsKept DEF IInv

\* A review that is allowed read the link as it is.
LEMMA AllowedRead ==
    ASSUME IInv, NEW r \in Reviewers, reviewer[r].step = "commit", ReviewAllowed(reviewer[r])
    PROVE  /\ reviewer[r].link \in LinkInputs /\ Exists(reviewer[r].link)
           /\ reviewer[r].read = links[reviewer[r].link]
           /\ reviewer[r].read \in LinkRows /\ reviewer[r].disposed \in BOOLEAN
  <1>1. ReadIsOld(reviewer[r])
    BY DEF IInv, ReviewsRead
  <1>2. reviewer[r] \in Reviews
    BY DEF IInv, TypeOK
  <1>3. reviewer[r].read \in LinkRows /\ reviewer[r].disposed \in BOOLEAN
    BY <1>2 DEF Reviews
  <1> QED BY <1>1, <1>3 DEF ReadIsOld, ReviewAllowed, StillCurrent

LEMMA AcceptLinkInv ==
    ASSUME IInv, NEW r \in Reviewers, AcceptLink(r) PROVE IInv'
  <1>1. PICK rv : rv = reviewer[r]
    OBVIOUS
  <1>2. rv.link \in LinkInputs /\ Exists(rv.link) /\ rv.read = links[rv.link]
        /\ rv.read \in LinkRows /\ rv.disposed \in BOOLEAN
    BY <1>1, AllowedRead DEF AcceptLink
  <1>3. PICK l : l = rv.link
    OBVIOUS
  <1>4. PICK h : h = [Accept(rv.read, rv.disposed) EXCEPT !.no = links[l].no + 1]
    OBVIOUS
  <1>5. h \in LinkRows /\ h.status = "ACCEPTED" /\ h.no = links[l].no + 1
    <2>1. Accept(rv.read, rv.disposed) \in LinkRows /\ Accept(rv.read, rv.disposed).status = "ACCEPTED"
      BY <1>2 DEF Accept, LinkRows, LinkStatuses
    <2>2. links[l].no \in Nat
      BY <1>2, <1>3 DEF LinkRows
    <2> HIDE DEF Accept
    <2> QED BY <1>4, <2>1, <2>2 DEF LinkRows
  <1>6. links[l].status # "REJECTED"
    BY <1>1, <1>2, <1>3 DEF AcceptLink, ReviewAllowed, AcceptRefusal
  <1>7. /\ links' = [links EXCEPT ![l] = h] /\ graph_version' = graph_version + 1
        /\ events' = [events EXCEPT ![l] = Append(@, h.status)]
        /\ Finish(r) /\ UNCHANGED <<versions, creator>>
    BY <1>1, <1>3, <1>4, <1>5 DEF AcceptLink, BumpGraphVersion
  <1>8. graph_version' \in Nat
    BY <1>7 DEF IInv, TypeOK
  <1>9. h.status \in LinkStatuses /\ l \in LinkInputs /\ Exists(l)
    BY <1>2, <1>3, <1>5 DEF LinkStatuses
  <1> QED BY <1>5, <1>6, <1>7, <1>8, <1>9, ReviewInv

LEMMA RejectLinkInv ==
    ASSUME IInv, NEW r \in Reviewers, RejectLink(r) PROVE IInv'
  <1>1. PICK rv : rv = reviewer[r]
    OBVIOUS
  <1>2. rv.link \in LinkInputs /\ Exists(rv.link) /\ rv.read = links[rv.link]
        /\ rv.read \in LinkRows
    BY <1>1, AllowedRead DEF RejectLink
  <1>3. PICK l : l = rv.link
    OBVIOUS
  <1>4. PICK h : h = [Reject(rv.read) EXCEPT !.no = links[l].no + 1]
    OBVIOUS
  <1>5. h \in LinkRows /\ h.status = "REJECTED" /\ h.no = links[l].no + 1
    <2>1. Reject(rv.read) \in LinkRows /\ Reject(rv.read).status = "REJECTED"
      BY <1>2 DEF Reject, LinkRows, LinkStatuses
    <2>2. links[l].no \in Nat
      BY <1>2, <1>3 DEF LinkRows
    <2> QED BY <1>4, <2>1, <2>2 DEF LinkRows
  <1>7. /\ links' = [links EXCEPT ![l] = h] /\ UNCHANGED graph_version
        /\ events' = [events EXCEPT ![l] = Append(@, h.status)]
        /\ Finish(r) /\ UNCHANGED <<versions, creator>>
    BY <1>1, <1>3, <1>4, <1>5 DEF RejectLink
  <1>8. graph_version' \in Nat
    BY <1>7 DEF IInv, TypeOK
  <1>9. h.status \in LinkStatuses /\ l \in LinkInputs /\ Exists(l)
    BY <1>2, <1>3, <1>5 DEF LinkStatuses
  <1> QED BY <1>5, <1>7, <1>8, <1>9, ReviewInv

\* Every step, and stuttering, keeps the invariant.
LEMMA NextInv == IInv /\ [Next]_vars => IInv'
  <1> SUFFICES ASSUME IInv, [Next]_vars PROVE IInv'
    OBVIOUS
  <1>1. ASSUME NEW c \in Creators, Allocate(c) \/ CreateArtifact(c) \/ CreateFails(c) PROVE IInv'
    BY <1>1, AllocateInv, CreateArtifactInv, CreationFailsInv DEF CreateFails
  <1>2. ASSUME NEW n \in Revised, Revise(n) PROVE IInv'
    BY <1>2, ReviseInv
  <1>3. ASSUME NEW i \in LinkInputs, CreateLink(i) PROVE IInv'
    BY <1>3, CreateLinkInv
  <1>4. ASSUME NEW r \in Reviewers, GetLink(r) \/ AcceptLink(r) \/ RejectLink(r) PROVE IInv'
    BY <1>4, GetLinkInv, AcceptLinkInv, RejectLinkInv
  <1>5. ASSUME NEW r \in Reviewers, ReviewRefused(r) \/ ReviewFails(r) PROVE IInv'
    BY <1>5, FinishInv DEF ReviewRefused, ReviewFails
  <1>6. CASE UNCHANGED vars
    <2>1. TypeOK'
      BY <1>6 DEF IInv, TypeOK, vars
    <2> QED BY <1>6, <2>1, LinksKept, CreatorsKept, ReviewsKept DEF IInv, vars
  <1> QED BY <1>1, <1>2, <1>3, <1>4, <1>5, <1>6 DEF Next

\* The invariant holds throughout.
LEMMA Inductive == Spec => []IInv
  BY InitInv, NextInv, PTL DEF Spec

----------------------------------------------------------------------------
(* Recursion on the depth. *)

\* A set of natural numbers has a least one; the inductions below take the least
\* counterexample.
LEMMA Least ==
    ASSUME NEW T \in SUBSET Nat, T # {}
    PROVE  \E x \in T : \A y \in T : x <= y
  <1>1. PICK x \in T : \A y \in T : <<y, x>> \notin OpToRel(<, Nat)
    BY NatLessThanWellFounded, WFMin
  <1>2. \A y \in T : ~(y < x)
    BY <1>1 DEF OpToRel
  <1> QED BY <1>2

\* Induction: a set of natural numbers that holds 0 and every successor holds all.
LEMMA Induct ==
    ASSUME NEW S, 0 \in S, \A k \in Nat : k \in S => k + 1 \in S
    PROVE  Nat \subseteq S
  <1> DEFINE T == {k \in Nat : k \notin S}
  <1>1. SUFFICES ASSUME T # {} PROVE FALSE
    OBVIOUS
  <1>2. PICK x \in T : \A y \in T : x <= y
    BY <1>1, Least
  <1>3. x \in Nat /\ x # 0 /\ x - 1 \in Nat /\ x - 1 \notin T
    BY <1>2
  <1>4. x - 1 \in S
    BY <1>3
  <1>5. (x - 1) + 1 \in S
    BY <1>3, <1>4
  <1> QED BY <1>2, <1>3, <1>5

\* h follows f from v0 for d steps.
Follows(h, d, V, v0, f) ==
    h \in [0..d -> V] /\ h[0] = v0 /\ \A k \in 0 .. d - 1 : h[k + 1] = f[<<k, h[k]>>]

\* A function that follows a rule from a first value exists on every initial range of the naturals.
LEMMA FollowsExists ==
    ASSUME NEW V, NEW v0 \in V, NEW f \in [Nat \X V -> V]
    PROVE  \A d \in Nat : \E h : Follows(h, d, V, v0, f)
  <1> DEFINE S == {d \in Nat : \E h : Follows(h, d, V, v0, f)}
  <1>1. 0 \in S
    <2>1. Follows([k \in 0..0 |-> v0], 0, V, v0, f)
      BY DEF Follows
    <2> QED BY <2>1
  <1>2. ASSUME NEW d \in Nat, d \in S PROVE d + 1 \in S
    <2>1. PICK h : Follows(h, d, V, v0, f)
      BY <1>2
    <2> DEFINE g == [k \in 0 .. d + 1 |-> IF k = d + 1 THEN f[<<d, h[d]>>] ELSE h[k]]
    <2>2. h[d] \in V /\ f[<<d, h[d]>>] \in V
      BY <2>1 DEF Follows
    <2>3. g \in [0 .. d + 1 -> V] /\ g[0] = v0
      BY <2>1, <2>2 DEF Follows
    <2>4. ASSUME NEW k \in 0 .. (d + 1) - 1 PROVE g[k + 1] = f[<<k, g[k]>>]
      <3>1. CASE k = d
        <4>1. d \in 0 .. d + 1 /\ d + 1 \in 0 .. d + 1 /\ d # d + 1
          OBVIOUS
        <4>2. g[d] = h[d] /\ g[d + 1] = f[<<d, h[d]>>]
          BY <4>1
        <4> HIDE DEF g
        <4> QED BY <3>1, <4>2
      <3>2. CASE k # d
        <4>1. k \in 0 .. d - 1 /\ k \in 0 .. d + 1 /\ k + 1 \in 0 .. d + 1 /\ k # d + 1 /\ k + 1 # d + 1
          BY <3>2
        <4>2. g[k] = h[k] /\ g[k + 1] = h[k + 1]
          BY <4>1
        <4> QED BY <2>1, <4>1, <4>2 DEF Follows
      <3> QED BY <3>1, <3>2
    <2> HIDE DEF g
    <2>5. Follows(g, d + 1, V, v0, f)
      BY <2>3, <2>4 DEF Follows
    <2> QED BY <2>5
  <1> HIDE DEF S
  <1>3. Nat \subseteq S
    BY <1>1, <1>2, Induct
  <1> QED BY <1>3 DEF S

\* One more step goes on from where the steps before it ended.
LEMMA FollowsOn ==
    ASSUME NEW V, NEW v0, NEW f, NEW d \in Nat,
           NEW g, NEW h, Follows(g, d, V, v0, f), Follows(h, d + 1, V, v0, f)
    PROVE  g[d] \in V /\ h[d + 1] = f[<<d, g[d]>>]
  <1> DEFINE S == {k \in Nat : k <= d => g[k] = h[k]}
  <1>1. 0 \in S
    BY DEF Follows
  <1>2. ASSUME NEW k \in Nat, k \in S PROVE k + 1 \in S
    <2>1. SUFFICES ASSUME k + 1 <= d PROVE g[k + 1] = h[k + 1]
      OBVIOUS
    <2>2. g[k] = h[k] /\ k \in 0 .. d - 1 /\ k \in 0 .. (d + 1) - 1
      BY <1>2, <2>1
    <2> QED BY <2>2 DEF Follows
  <1> HIDE DEF S
  <1>3. Nat \subseteq S
    BY <1>1, <1>2, Induct
  <1>4. g[d] = h[d]
    BY <1>3 DEF S
  <1> QED BY <1>4 DEF Follows

----------------------------------------------------------------------------
(* What one more link leads to. *)

\* The ends of an active link are versions.
LEMMA EdgesTyped ==
    ASSUME NEW i \in Active, NEW dir \in Directions
    PROVE  /\ i \in LinkInputs /\ Source(i, dir) \in Refs \cap Ends
           /\ Target(i, dir) \in Refs \cap Ends
  <1>1. i \in Inputs
    BY InputsAssumption DEF Active
  <1>2. i.from \in Refs /\ i.to \in Refs
    BY <1>1 DEF Inputs
  <1> QED BY <1>2 DEF Active, Ends, Source, Target, Directions

\* One hop leads from versions to versions.
LEMMA OneFurtherTyped ==
    ASSUME NEW dir \in Directions, NEW s
    PROVE  OneFurther(s, dir) \subseteq Refs \cap Ends
  BY EdgesTyped DEF OneFurther

\* Ball as a function of its radius: a value at 0, and from each radius to the next.
BallStep(start, dir) == [x \in Nat \X SUBSET Refs |-> x[2] \cup OneFurther(x[2] \cup {start}, dir)]

\* The rule of a ball stays within the sets of versions.
LEMMA BallStepTyped ==
    ASSUME NEW start, NEW dir \in Directions
    PROVE  BallStep(start, dir) \in [Nat \X SUBSET Refs -> SUBSET Refs]
  <1>1. ASSUME NEW x \in Nat \X SUBSET Refs
        PROVE  x[2] \cup OneFurther(x[2] \cup {start}, dir) \in SUBSET Refs
    BY OneFurtherTyped
  <1> QED BY <1>1 DEF BallStep

\* A ball is the value of a function that follows its rule.
LEMMA BallFollows ==
    ASSUME NEW start, NEW dir \in Directions, NEW d \in Nat
    PROVE  \E h : /\ Follows(h, d, SUBSET Refs, {}, BallStep(start, dir))
                  /\ Ball(start, dir, d) = h[d]
  <1> DEFINE ball[k \in 0..d] == IF k = 0 THEN {}
                                 ELSE ball[k - 1] \cup OneFurther(ball[k - 1] \cup {start}, dir)
  <1>1. PICK g : Follows(g, d, SUBSET Refs, {}, BallStep(start, dir))
    BY FollowsExists, BallStepTyped
  <1>2. ASSUME NEW k \in 0..d
        PROVE  g[k] = IF k = 0 THEN {} ELSE g[k - 1] \cup OneFurther(g[k - 1] \cup {start}, dir)
    <2>1. CASE k = 0
      BY <1>1, <2>1 DEF Follows
    <2>2. CASE k # 0
      <3>1. k - 1 \in 0 .. d - 1 /\ k - 1 \in 0 .. d /\ (k - 1) + 1 = k
        BY <2>2
      <3>2. g[k - 1] \in SUBSET Refs /\ g[(k - 1) + 1] = BallStep(start, dir)[<<k - 1, g[k - 1]>>]
        BY <1>1, <3>1 DEF Follows
      <3>3. <<k - 1, g[k - 1]>> \in Nat \X SUBSET Refs
        BY <3>1, <3>2
      <3>4. BallStep(start, dir)[<<k - 1, g[k - 1]>>]
              = g[k - 1] \cup OneFurther(g[k - 1] \cup {start}, dir)
        BY <3>3 DEF BallStep
      <3> QED BY <2>2, <3>1, <3>2, <3>4
    <2> QED BY <2>1, <2>2
  <1>3. g = [k \in 0..d |-> IF k = 0 THEN {}
                            ELSE g[k - 1] \cup OneFurther(g[k - 1] \cup {start}, dir)]
    BY <1>1, <1>2 DEF Follows
  <1>4. ball = [k \in 0..d |-> IF k = 0 THEN {}
                               ELSE ball[k - 1] \cup OneFurther(ball[k - 1] \cup {start}, dir)]
    <2>1. \E h : h = [k \in 0..d |-> IF k = 0 THEN {}
                                     ELSE h[k - 1] \cup OneFurther(h[k - 1] \cup {start}, dir)]
      BY <1>3
    <2> QED BY <2>1, Zenon
  <1>5. Ball(start, dir, d) = ball[d]
    BY DEF Ball
  <1> HIDE DEF ball
  <1>6. PICK h : h = ball
    OBVIOUS
  <1>7. h = [k \in 0..d |-> IF k = 0 THEN {}
                            ELSE h[k - 1] \cup OneFurther(h[k - 1] \cup {start}, dir)]
    BY <1>4, <1>6
  <1> DEFINE S == {k \in Nat : k <= d => h[k] = g[k]}
  <1>8. 0 \in S
    BY <1>3, <1>7
  <1>9. ASSUME NEW k \in Nat, k \in S PROVE k + 1 \in S
    <2>1. SUFFICES ASSUME k + 1 <= d PROVE h[k + 1] = g[k + 1]
      OBVIOUS
    <2>2. h[k] = g[k] /\ k + 1 \in 0..d /\ k + 1 # 0 /\ (k + 1) - 1 = k
      BY <1>9, <2>1
    <2>3. h[k + 1] = h[k] \cup OneFurther(h[k] \cup {start}, dir)
      BY <1>7, <2>2
    <2>4. g[k + 1] = g[k] \cup OneFurther(g[k] \cup {start}, dir)
      BY <1>3, <2>2
    <2> QED BY <2>2, <2>3, <2>4
  <1> HIDE DEF S
  <1>10. Nat \subseteq S
    BY <1>8, <1>9, Induct
  <1>11. h[d] = g[d]
    BY <1>10 DEF S
  <1> QED BY <1>1, <1>5, <1>6, <1>11

\* The ball of radius 0 is empty; one more link makes the next.
LEMMA BallSteps ==
    ASSUME NEW start, NEW dir \in Directions
    PROVE  /\ Ball(start, dir, 0) = {}
           /\ \A k \in Nat : /\ Ball(start, dir, k) \subseteq Refs
                             /\ Ball(start, dir, k + 1) = Ball(start, dir, k)
                                   \cup OneFurther(Ball(start, dir, k) \cup {start}, dir)
  <1> DEFINE V == SUBSET Refs
             f == BallStep(start, dir)
  <1>1. f \in [Nat \X V -> V] /\ {} \in V
    BY BallStepTyped
  <1>2. \A d \in Nat : \E h : Follows(h, d, V, {}, f) /\ Ball(start, dir, d) = h[d]
    BY BallFollows
  <1>3. Ball(start, dir, 0) = {}
    BY <1>2 DEF Follows
  <1>4. ASSUME NEW k \in Nat
        PROVE  /\ Ball(start, dir, k) \subseteq Refs
               /\ Ball(start, dir, k + 1) = Ball(start, dir, k)
                     \cup OneFurther(Ball(start, dir, k) \cup {start}, dir)
    <2>1. PICK g : Follows(g, k, V, {}, f) /\ Ball(start, dir, k) = g[k]
      BY <1>2
    <2>2. k + 1 \in Nat /\ k <= k + 1 /\ k \in 0..k /\ k \in 0 .. (k + 1) - 1
      OBVIOUS
    <2>3. PICK h : Follows(h, k + 1, V, {}, f) /\ Ball(start, dir, k + 1) = h[k + 1]
      BY <1>2, <2>2
    <2>5. h[k + 1] = f[<<k, g[k]>>] /\ g[k] \in V
      <3> HIDE DEF V, f
      <3> QED BY <2>1, <2>3, FollowsOn
    <2>6. f[<<k, g[k]>>] = g[k] \cup OneFurther(g[k] \cup {start}, dir)
      <3>1. <<k, g[k]>> \in Nat \X SUBSET Refs
        BY <2>5
      <3> QED BY <3>1 DEF BallStep
    <2> QED BY <2>1, <2>3, <2>5, <2>6
  <1> QED BY <1>3, <1>4

\* A ball is the one before it and what is one hop further.
LEMMA BallNext ==
    ASSUME NEW start, NEW dir \in Directions, NEW k \in Nat
    PROVE  Ball(start, dir, k + 1)
             = Ball(start, dir, k) \cup OneFurther(Ball(start, dir, k) \cup {start}, dir)
  BY BallSteps

\* A ball holds the smaller ones, and ends of accepted links only.
LEMMA BallGrows ==
    ASSUME NEW start, NEW dir \in Directions
    PROVE  \A k \in Nat : /\ Ball(start, dir, k) \subseteq Ends
                          /\ \A j \in 0..k : Ball(start, dir, j) \subseteq Ball(start, dir, k)
  <1> DEFINE S == {k \in Nat : /\ Ball(start, dir, k) \subseteq Ends
                               /\ \A j \in 0..k : Ball(start, dir, j) \subseteq Ball(start, dir, k)}
  <1>1. 0 \in S
    BY BallSteps
  <1>2. ASSUME NEW k \in Nat, k \in S PROVE k + 1 \in S
    <2>1. /\ Ball(start, dir, k) \subseteq Ball(start, dir, k + 1)
          /\ Ball(start, dir, k + 1) \subseteq Ends
      <3>1. Ball(start, dir, k) \subseteq Ends
        BY <1>2
      <3>2. PICK X : X = OneFurther(Ball(start, dir, k) \cup {start}, dir)
        OBVIOUS
      <3>3. X \subseteq Ends
        BY <3>2, OneFurtherTyped
      <3>4. Ball(start, dir, k + 1) = Ball(start, dir, k) \cup X
        BY <3>2, BallNext
      <3> QED BY <3>1, <3>3, <3>4
    <2>2. ASSUME NEW j \in 0 .. k + 1 PROVE Ball(start, dir, j) \subseteq Ball(start, dir, k + 1)
      <3>1. CASE j = k + 1
        BY <3>1
      <3>2. CASE j # k + 1
        <4>1. j \in 0..k
          BY <3>2
        <4> QED BY <1>2, <2>1, <4>1
      <3> QED BY <3>1, <3>2
    <2> QED BY <2>1, <2>2
  <1> HIDE DEF S
  <1>3. Nat \subseteq S
    BY <1>1, <1>2, Induct
  <1> QED BY <1>3 DEF S

\* Every member has a distance: the radius of the first ball that holds it.
LEMMA Distance ==
    ASSUME NEW start, NEW dir \in Directions, NEW d \in Nat, NEW v \in Ball(start, dir, d)
    PROVE  \E e \in 1..d : /\ v \in Ball(start, dir, e) /\ v \notin Ball(start, dir, e - 1)
                           /\ \A k \in Nat : v \in Ball(start, dir, k) => e <= k
  <1> DEFINE T == {k \in Nat : v \in Ball(start, dir, k)}
  <1>1. T \in SUBSET Nat /\ d \in T
    OBVIOUS
  <1>2. PICK e \in T : \A k \in T : e <= k
    <2> HIDE DEF T
    <2> QED BY <1>1, Least
  <1>3. e \in Nat /\ e <= d /\ v \in Ball(start, dir, e)
    BY <1>1, <1>2
  <1>4. e # 0
    BY <1>3, BallSteps
  <1>5. e \in 1..d /\ e - 1 \in Nat /\ ~(e <= e - 1)
    BY <1>3, <1>4
  <1> QED BY <1>2, <1>3, <1>5

\* A ball that the next one equals is all there is.
LEMMA BallStable ==
    ASSUME NEW start, NEW dir \in Directions, NEW n \in Nat,
           Ball(start, dir, n + 1) = Ball(start, dir, n)
    PROVE  \A m \in Nat : m >= n => Ball(start, dir, m) = Ball(start, dir, n)
  <1> DEFINE S == {m \in Nat : m >= n => Ball(start, dir, m) = Ball(start, dir, n)}
  <1>1. 0 \in S
    <2>1. 0 >= n => n = 0
      OBVIOUS
    <2> QED BY <2>1
  <1>2. ASSUME NEW k \in Nat, k \in S PROVE k + 1 \in S
    <2>1. CASE k >= n
      <3>1. Ball(start, dir, k) = Ball(start, dir, n)
        BY <1>2, <2>1
      <3>2. Ball(start, dir, k + 1)
              = Ball(start, dir, k) \cup OneFurther(Ball(start, dir, k) \cup {start}, dir)
        BY BallNext
      <3>3. Ball(start, dir, n + 1)
              = Ball(start, dir, n) \cup OneFurther(Ball(start, dir, n) \cup {start}, dir)
        BY BallNext
      <3>4. Ball(start, dir, k + 1) = Ball(start, dir, n)
        BY <3>1, <3>2, <3>3
      <3> QED BY <3>4
    <2>2. CASE ~(k >= n)
      <3>1. k + 1 >= n => k + 1 = n
        BY <2>2
      <3> QED BY <3>1
    <2> QED BY <2>1, <2>2
  <1> HIDE DEF S
  <1>3. Nat \subseteq S
    BY <1>1, <1>2, Induct
  <1> QED BY <1>3 DEF S

\* There are finitely many versions.
LEMMA RefsFinite == IsFiniteSet(Refs) /\ Cardinality(Refs) \in Nat
  <1>1. IsFiniteSet({1, 2})
    <2>1. IsFiniteSet({1}) /\ IsFiniteSet({2})
      BY FS_Singleton
    <2>2. IsFiniteSet({1} \cup {2})
      BY <2>1, FS_Union
    <2>3. {1, 2} = {1} \cup {2}
      OBVIOUS
    <2> QED BY <2>2, <2>3
  <1>2. IsFiniteSet(Refs)
    BY <1>1, IdsAssumption, FS_Product DEF Refs
  <1> QED BY <1>2, FS_CardinalityType

\* Balls cannot grow more often than there are versions.
LEMMA BallFull ==
    ASSUME NEW start, NEW dir \in Directions
    PROVE  \E n \in 0 .. Cardinality(Refs) : Ball(start, dir, n + 1) = Ball(start, dir, n)
  <1> DEFINE N == Cardinality(Refs)
             S == {k \in Nat : k <= N + 1 => Cardinality(Ball(start, dir, k)) >= k}
  <1>1. SUFFICES ASSUME \A n \in 0..N : Ball(start, dir, n + 1) # Ball(start, dir, n) PROVE FALSE
    OBVIOUS
  <1>2. N \in Nat /\ IsFiniteSet(Refs)
    BY RefsFinite
  <1>3. \A k \in Nat : /\ IsFiniteSet(Ball(start, dir, k))
                       /\ Cardinality(Ball(start, dir, k)) \in Nat
                       /\ Cardinality(Ball(start, dir, k)) <= N
    <2> TAKE k \in Nat
    <2>1. Ball(start, dir, k) \subseteq Refs
      BY BallSteps
    <2> QED BY <1>2, <2>1, FS_Subset, FS_CardinalityType
  <1>4. 0 \in S
    BY <1>3
  <1>5. ASSUME NEW k \in Nat, k \in S PROVE k + 1 \in S
    <2>1. SUFFICES ASSUME k + 1 <= N + 1 PROVE Cardinality(Ball(start, dir, k + 1)) >= k + 1
      OBVIOUS
    <2>2. k \in 0..N /\ k <= N + 1 /\ k + 1 \in Nat
      BY <1>2, <2>1
    <2>3. PICK A, B : A = Ball(start, dir, k) /\ B = Ball(start, dir, k + 1)
      OBVIOUS
    <2>4. A \subseteq B /\ A # B
      <3>1. B # A
        BY <1>1, <2>2, <2>3
      <3>2. B = A \cup OneFurther(A \cup {start}, dir)
        BY <2>3, BallNext
      <3> QED BY <3>1, <3>2
    <2>5. IsFiniteSet(A) /\ IsFiniteSet(B) /\ Cardinality(A) \in Nat /\ Cardinality(B) \in Nat
      BY <1>3, <2>2, <2>3
    <2>6. Cardinality(A) <= Cardinality(B) /\ Cardinality(A) # Cardinality(B)
      BY <2>4, <2>5, FS_Subset
    <2>7. Cardinality(A) >= k
      BY <1>5, <2>2, <2>3
    <2>8. Cardinality(B) >= k + 1
      BY <2>5, <2>6, <2>7
    <2> QED BY <2>3, <2>8
  <1>6. N + 1 \in Nat /\ N + 1 <= N + 1 /\ ~(N >= N + 1)
    BY <1>2
  <1>7. N + 1 \in S
    <2> HIDE DEF S
    <2> QED BY <1>4, <1>5, <1>6, Induct
  <1>8. Cardinality(Ball(start, dir, N + 1)) >= N + 1 /\ Cardinality(Ball(start, dir, N + 1)) <= N
    BY <1>3, <1>6, <1>7
  <1> HIDE DEF N
  <1> QED BY <1>2, <1>3, <1>6, <1>8

\* So a ball that equals the one before it is all that can be reached.
LEMMA StableIsReachable ==
    ASSUME NEW start, NEW dir \in Directions, NEW d \in Nat,
           Ball(start, dir, d + 1) = Ball(start, dir, d)
    PROVE  Ball(start, dir, d + 1) = Reachable(start, dir)
  <1>1. PICK N : N = Cardinality(Refs)
    OBVIOUS
  <1>2. N \in Nat
    BY <1>1, RefsFinite
  <1>3. PICK n \in 0..N : Ball(start, dir, n + 1) = Ball(start, dir, n)
    BY <1>1, BallFull
  <1>4. PICK m \in Nat : m >= d /\ m >= N
    <2>1. d + N \in Nat /\ d + N >= d /\ d + N >= N
      BY <1>2
    <2> QED BY <2>1
  <1>5. n \in Nat /\ m >= n /\ N >= n
    BY <1>2, <1>3, <1>4
  <1>6. Ball(start, dir, m) = Ball(start, dir, n) /\ Ball(start, dir, N) = Ball(start, dir, n)
    BY <1>2, <1>3, <1>4, <1>5, BallStable
  <1>7. Ball(start, dir, m) = Ball(start, dir, d)
    BY <1>4, BallStable
  <1> QED BY <1>1, <1>6, <1>7 DEF Reachable

----------------------------------------------------------------------------
(* The rows of a walk. *)

WalkRows == [via : LinkInputs, node : Refs, depth : Nat, visited : SUBSET Ids]

\* What a row of a join consists of.
LEMMA JoinedRows ==
    ASSUME NEW node, NEW dir \in Directions, NEW depth, NEW visited,
           NEW row \in Joined(node, dir, depth, visited)
    PROVE  \E i \in Active : /\ Source(i, dir) = node /\ row.via = i
                             /\ row.node = Target(i, dir) /\ row.depth = depth
                             /\ row.visited = visited
  BY DEF Joined

\* The rows of a join lead to versions.
LEMMA JoinedTyped ==
    ASSUME NEW node, NEW dir \in Directions, NEW depth \in Nat, NEW visited \in SUBSET Ids
    PROVE  Joined(node, dir, depth, visited) \in SUBSET WalkRows
  <1> SUFFICES ASSUME NEW i \in Active
               PROVE  [via |-> i, node |-> Target(i, dir), depth |-> depth, visited |-> visited] \in WalkRows
    BY DEF Joined
  <1>1. i \in LinkInputs /\ Target(i, dir) \in Refs
    BY EdgesTyped
  <1> QED BY <1>1 DEF WalkRows

\* The rows of the recursive term lead to versions.
LEMMA ExtendedTyped ==
    ASSUME NEW rows \in SUBSET WalkRows, NEW dir \in Directions, NEW depth \in Nat
    PROVE  Extended(rows, dir, depth) \in SUBSET WalkRows
  <1>1. ASSUME NEW row \in rows
        PROVE  Joined(row.node, dir, depth, row.visited \cup {row.node[1]}) \in SUBSET WalkRows
    <2>1. row.node \in Refs /\ row.visited \in SUBSET Ids
      BY DEF WalkRows
    <2>2. row.visited \cup {row.node[1]} \in SUBSET Ids
      BY <2>1 DEF Refs
    <2> QED BY <2>2, JoinedTyped
  <1> QED BY <1>1 DEF Extended

RowStep(dir) == [x \in Nat \X SUBSET WalkRows |-> Extended(x[2], dir, x[1] + 2)]

\* The levels of a walk, depth by depth, as the query computes them.
Levels(L, start, dir, bound) ==
    /\ L[1] = Joined(start, dir, 1, {start[1]})
    /\ \A d \in 1 .. bound - 1 : L[d + 1] = Extended(L[d], dir, d + 1)

\* The rows of a walk are those of its levels.
LEMMA WalkLevels ==
    ASSUME NEW start \in Refs, NEW dir \in Directions, NEW bound \in Nat \ {0}
    PROVE  \E L : Levels(L, start, dir, bound)
                  /\ Walk(start, dir, bound) = UNION {L[d] : d \in 1..bound}
  <1> DEFINE rows[d \in 1..bound] == IF d = 1 THEN Joined(start, dir, 1, {start[1]})
                                     ELSE Extended(rows[d - 1], dir, d)
             V == SUBSET WalkRows
             v0 == Joined(start, dir, 1, {start[1]})
             f == RowStep(dir)
  <1>1. v0 \in V
    <2>1. {start[1]} \in SUBSET Ids
      BY DEF Refs
    <2> QED BY <2>1, JoinedTyped
  <1>2. f \in [Nat \X V -> V]
    <2>1. ASSUME NEW x \in Nat \X SUBSET WalkRows
          PROVE  Extended(x[2], dir, x[1] + 2) \in SUBSET WalkRows
      <3>1. x[2] \in SUBSET WalkRows /\ x[1] + 2 \in Nat
        OBVIOUS
      <3> QED BY <3>1, ExtendedTyped
    <2> QED BY <2>1 DEF RowStep
  <1>3. PICK g : Follows(g, bound - 1, V, v0, f)
    <2>1. bound - 1 \in Nat
      OBVIOUS
    <2> HIDE DEF V, v0, f
    <2> QED BY <1>1, <1>2, <2>1, FollowsExists
  <1>4. PICK G : G = [d \in 1..bound |-> g[d - 1]]
    OBVIOUS
  <1>5. ASSUME NEW d \in 1..bound
        PROVE  G[d] = IF d = 1 THEN Joined(start, dir, 1, {start[1]}) ELSE Extended(G[d - 1], dir, d)
    <2>1. CASE d = 1
      BY <1>3, <1>4, <2>1 DEF Follows
    <2>2. CASE d # 1
      <3>1. /\ d - 2 \in 0 .. (bound - 1) - 1 /\ d - 2 \in 0 .. bound - 1
            /\ (d - 2) + 1 = d - 1 /\ (d - 2) + 2 = d /\ d - 1 \in 1..bound /\ (d - 1) - 1 = d - 2
        BY <2>2
      <3>2. g[d - 2] \in V /\ g[(d - 2) + 1] = f[<<d - 2, g[d - 2]>>]
        BY <1>3, <3>1 DEF Follows
      <3>3. <<d - 2, g[d - 2]>> \in Nat \X SUBSET WalkRows
        BY <3>1, <3>2
      <3>4. f[<<d - 2, g[d - 2]>>] = Extended(g[d - 2], dir, (d - 2) + 2)
        BY <3>3 DEF RowStep
      <3>5. G[d] = g[d - 1] /\ G[d - 1] = g[d - 2]
        BY <1>4, <3>1
      <3> QED BY <2>2, <3>1, <3>2, <3>4, <3>5
    <2> QED BY <2>1, <2>2
  <1>6. G = [d \in 1..bound |-> IF d = 1 THEN Joined(start, dir, 1, {start[1]})
                                ELSE Extended(G[d - 1], dir, d)]
    BY <1>4, <1>5
  <1>7. rows = [d \in 1..bound |-> IF d = 1 THEN Joined(start, dir, 1, {start[1]})
                                   ELSE Extended(rows[d - 1], dir, d)]
    <2>1. \E h : h = [d \in 1..bound |-> IF d = 1 THEN Joined(start, dir, 1, {start[1]})
                                         ELSE Extended(h[d - 1], dir, d)]
      BY <1>6
    <2> QED BY <2>1, Zenon
  <1>8. Walk(start, dir, bound) = UNION {rows[d] : d \in 1..bound}
    BY DEF Walk
  <1> HIDE DEF rows
  <1>9. PICK L : L = rows
    OBVIOUS
  <1>10. L = [d \in 1..bound |-> IF d = 1 THEN Joined(start, dir, 1, {start[1]})
                                 ELSE Extended(L[d - 1], dir, d)]
    BY <1>7, <1>9
  <1>11. L[1] = Joined(start, dir, 1, {start[1]})
    BY <1>10
  <1>12. ASSUME NEW d \in 1 .. bound - 1 PROVE L[d + 1] = Extended(L[d], dir, d + 1)
    <2>1. d + 1 \in 1..bound /\ d + 1 # 1 /\ (d + 1) - 1 = d
      OBVIOUS
    <2> QED BY <1>10, <2>1
  <1> QED BY <1>8, <1>9, <1>11, <1>12 DEF Levels

\* A row of a level leads to a version of the ball of that radius.
LEMMA LevelSound ==
    ASSUME NEW start \in Refs, NEW dir \in Directions, NEW bound \in Nat \ {0}, NEW L,
           Levels(L, start, dir, bound)
    PROVE  \A d \in 1..bound : \A row \in L[d] : row.depth = d /\ row.node \in Ball(start, dir, d)
  <1> DEFINE S == {k \in Nat : k < bound => \A row \in L[k + 1] : /\ row.depth = k + 1
                                                   /\ row.node \in Ball(start, dir, k + 1)}
  <1>1. 0 \in S
    <2> SUFFICES ASSUME NEW row \in L[1] PROVE row.depth = 1 /\ row.node \in Ball(start, dir, 1)
      OBVIOUS
    <2>1. PICK i \in Active : Source(i, dir) = start /\ row.node = Target(i, dir) /\ row.depth = 1
      BY JoinedRows DEF Levels
    <2>2. row.node \in OneFurther(Ball(start, dir, 0) \cup {start}, dir)
      BY <2>1 DEF OneFurther
    <2>3. Ball(start, dir, 0 + 1)
            = Ball(start, dir, 0) \cup OneFurther(Ball(start, dir, 0) \cup {start}, dir)
      BY BallNext
    <2> QED BY <2>1, <2>2, <2>3
  <1>2. ASSUME NEW k \in Nat, k \in S PROVE k + 1 \in S
    <2> SUFFICES ASSUME k + 1 < bound, NEW row \in L[k + 2]
                 PROVE  row.depth = k + 2 /\ row.node \in Ball(start, dir, k + 2)
      <3>1. (k + 1) + 1 = k + 2
        OBVIOUS
      <3> QED BY <3>1
    <2>1. PICK d \in 1 .. bound - 1 : d = k + 1 /\ k + 2 = d + 1
      OBVIOUS
    <2>2. row \in Extended(L[d], dir, d + 1)
      BY <2>1 DEF Levels
    <2>3. PICK w \in L[d] : row \in Joined(w.node, dir, d + 1, w.visited \cup {w.node[1]})
      BY <2>2 DEF Extended
    <2>4. PICK i \in Active : Source(i, dir) = w.node /\ row.node = Target(i, dir) /\ row.depth = d + 1
      BY <2>3, JoinedRows
    <2>5. w.node \in Ball(start, dir, d)
      BY <1>2, <2>1, <2>3
    <2>6. row.node \in OneFurther(Ball(start, dir, d) \cup {start}, dir)
      BY <2>4, <2>5 DEF OneFurther
    <2>7. Ball(start, dir, d + 1)
            = Ball(start, dir, d) \cup OneFurther(Ball(start, dir, d) \cup {start}, dir)
      BY BallNext
    <2> QED BY <2>1, <2>4, <2>6, <2>7
  <1> HIDE DEF S
  <1>3. Nat \subseteq S
    BY <1>1, <1>2, Induct
  <1>4. ASSUME NEW d \in 1..bound, NEW row \in L[d] PROVE row.depth = d /\ row.node \in Ball(start, dir, d)
    <2>1. PICK k \in Nat : d = k + 1 /\ k < bound
      <3>1. d - 1 \in Nat /\ d = (d - 1) + 1 /\ d - 1 < bound
        OBVIOUS
      <3> QED BY <3>1
    <2> QED BY <1>3, <2>1 DEF S
  <1> QED BY <1>4

\* Only artifacts of the start and of nearer versions were passed on the way to a row.
PassedNear(row, start, dir, d) ==
    \A a \in row.visited : a = start[1] \/ \E u \in Ball(start, dir, d) : u[1] = a

\* Where each artifact takes part with one version, a level leads to every version at
\* that distance, on a way that passed nearer artifacts only, so that the visited check
\* did not stop it.
LEMMA LevelComplete ==
    ASSUME NEW start \in Refs, NEW dir \in Directions, NEW bound \in Nat \ {0}, NEW L,
           Levels(L, start, dir, bound), OneVersionEach
    PROVE  \A d \in 1..bound : \A v \in Ball(start, dir, d) :
              v \notin Ball(start, dir, d - 1) =>
                 \E row \in L[d] : row.node = v
  <1> DEFINE Found(k) == \A v \in Ball(start, dir, k + 1) : v \notin Ball(start, dir, k) =>
                            /\ start \in Ends
                            /\ \E row \in L[k + 1] : row.node = v /\ PassedNear(row, start, dir, k)
             S == {k \in Nat : k < bound => Found(k)}
  <1>1. 0 \in S
    <2> SUFFICES ASSUME NEW v \in Ball(start, dir, 1)
                 PROVE  /\ start \in Ends
                        /\ \E row \in L[1] : row.node = v /\ PassedNear(row, start, dir, 0)
      OBVIOUS
    <2>1. Ball(start, dir, 0 + 1)
            = Ball(start, dir, 0) \cup OneFurther(Ball(start, dir, 0) \cup {start}, dir)
      BY BallNext
    <2>2. Ball(start, dir, 1) = OneFurther({start}, dir)
      <3>1. Ball(start, dir, 0) = {} /\ 0 + 1 = 1
        BY BallSteps
      <3>2. Ball(start, dir, 0) \cup {start} = {start}
        BY <3>1
      <3> QED BY <2>1, <3>1, <3>2
    <2>3. PICK i \in Active : Source(i, dir) = start /\ v = Target(i, dir)
      BY <2>2 DEF OneFurther
    <2>4. start \in Ends
      BY <2>3, EdgesTyped
    <2>5. PICK row : row = [via |-> i, node |-> Target(i, dir), depth |-> 1, visited |-> {start[1]}]
      OBVIOUS
    <2>6. row \in L[1]
      BY <2>3, <2>5 DEF Levels, Joined
    <2>7. row.node = v /\ PassedNear(row, start, dir, 0)
      BY <2>3, <2>5 DEF PassedNear
    <2> QED BY <2>4, <2>6, <2>7
  <1>2. ASSUME NEW k \in Nat, k \in S PROVE k + 1 \in S
    <2>1. PICK d \in Nat : d = k + 1
      OBVIOUS
    <2> SUFFICES ASSUME d < bound, NEW v \in Ball(start, dir, d + 1), v \notin Ball(start, dir, d)
                 PROVE  /\ start \in Ends
                        /\ \E row \in L[d + 1] : row.node = v /\ PassedNear(row, start, dir, d)
      BY <2>1
    <2>2. d \in 1 .. bound - 1 /\ k < bound
      BY <2>1
    <2>3. Ball(start, dir, d + 1)
            = Ball(start, dir, d) \cup OneFurther(Ball(start, dir, d) \cup {start}, dir)
      BY BallNext
    <2>4. Ball(start, dir, d)
            = Ball(start, dir, k) \cup OneFurther(Ball(start, dir, k) \cup {start}, dir)
      BY <2>1, BallNext
    <2>5. PICK i \in Active : /\ Source(i, dir) \in Ball(start, dir, d) \cup {start}
                              /\ v = Target(i, dir)
      BY <2>3 DEF OneFurther
    <2>6. PICK u : u = Source(i, dir)
      OBVIOUS
    <2>7. u \notin Ball(start, dir, k) \cup {start}
      <3>1. SUFFICES ASSUME u \in Ball(start, dir, k) \cup {start} PROVE FALSE
        OBVIOUS
      <3>2. v \in OneFurther(Ball(start, dir, k) \cup {start}, dir)
        BY <2>5, <2>6, <3>1 DEF OneFurther
      <3> QED BY <2>4, <3>2
    <2>8. u \in Ball(start, dir, d) /\ u # start /\ u \notin Ball(start, dir, k)
      BY <2>5, <2>6, <2>7
    <2>9. PICK w \in L[d] : w.node = u /\ PassedNear(w, start, dir, k) /\ start \in Ends
      BY <1>2, <2>1, <2>2, <2>8
    <2>10. MayExtend(w)
      <3>1. SUFFICES ASSUME u[1] \in w.visited PROVE FALSE
        BY <2>9 DEF MayExtend
      <3>2. u \in Ends
        BY <2>6, EdgesTyped
      <3>3. u[1] # start[1]
        BY <2>8, <2>9, <3>2 DEF OneVersionEach
      <3>4. PICK x \in Ball(start, dir, k) : x[1] = u[1]
        BY <2>9, <3>1, <3>3 DEF PassedNear
      <3>5. x \in Ends
        BY <3>4, BallGrows
      <3>6. x = u
        BY <3>2, <3>4, <3>5 DEF OneVersionEach
      <3> QED BY <2>8, <3>4, <3>6
    <2>11. PICK row : row = [via |-> i, node |-> Target(i, dir), depth |-> d + 1,
                             visited |-> w.visited \cup {w.node[1]}]
      OBVIOUS
    <2>12. row \in Joined(w.node, dir, d + 1, w.visited \cup {w.node[1]})
      BY <2>6, <2>9, <2>11 DEF Joined
    <2>13. row \in L[d + 1]
      <3>1. row \in Extended(L[d], dir, d + 1)
        BY <2>9, <2>10, <2>12 DEF Extended
      <3> QED BY <2>2, <3>1 DEF Levels
    <2>14. PassedNear(row, start, dir, d)
      <3> SUFFICES ASSUME NEW a \in row.visited, a # start[1]
                   PROVE  \E x \in Ball(start, dir, d) : x[1] = a
        BY DEF PassedNear
      <3>1. CASE a = u[1]
        BY <2>8, <3>1
      <3>2. CASE a # u[1]
        <4>1. a \in w.visited
          BY <2>9, <2>11, <3>2
        <4>2. PICK x \in Ball(start, dir, k) : x[1] = a
          BY <2>9, <4>1 DEF PassedNear
        <4> QED BY <2>4, <4>2
      <3> QED BY <3>1, <3>2
    <2> QED BY <2>5, <2>9, <2>11, <2>13, <2>14
  <1> HIDE DEF S
  <1>3. Nat \subseteq S
    BY <1>1, <1>2, Induct
  <1>4. ASSUME NEW d \in 1..bound, NEW v \in Ball(start, dir, d), v \notin Ball(start, dir, d - 1)
        PROVE  \E row \in L[d] : row.node = v
    <2>1. PICK k \in Nat : k = d - 1 /\ d = k + 1 /\ k < bound
      <3>1. d - 1 \in Nat /\ d = (d - 1) + 1 /\ d - 1 < bound
        OBVIOUS
      <3> QED BY <3>1
    <2>2. Found(k)
      BY <1>3, <2>1 DEF S
    <2> QED BY <1>4, <2>1, <2>2
  <1> QED BY <1>4

----------------------------------------------------------------------------
(* What a walk answers. *)

\* The bound of a walk is between 1 and 64.
LEMMA DepthBounded ==
    ASSUME NEW n \in Depths PROVE DepthBound(n) \in 1..64 /\ DepthBound(n) \in Nat \ {0}
  BY DepthAssumption DEF DepthBound

\* The rows of a walk, and which of them are kept.
LEMMA KeptRows ==
    ASSUME NEW start \in Refs, NEW dir \in Directions, NEW bound \in Nat \ {0},
           NEW rows, rows = Walk(start, dir, bound)
    PROVE  /\ \A row \in rows : row.depth \in 1..bound /\ row.node \in Ball(start, dir, row.depth)
           /\ OneVersionEach =>
                 /\ \A row \in rows : Kept(row, rows) => row.node \notin Ball(start, dir, row.depth - 1)
                 /\ \A v \in Ball(start, dir, bound) :
                       \E row \in rows : /\ row.node = v /\ Kept(row, rows)
                                         /\ v \notin Ball(start, dir, row.depth - 1)
  <1>1. PICK L : Levels(L, start, dir, bound) /\ rows = UNION {L[d] : d \in 1..bound}
    BY WalkLevels
  <1>2. \A d \in 1..bound : \A row \in L[d] : row.depth = d /\ row.node \in Ball(start, dir, d)
    BY <1>1, LevelSound
  <1>3. \A row \in rows : row.depth \in 1..bound /\ row.node \in Ball(start, dir, row.depth)
    BY <1>1, <1>2
  <1>4. ASSUME OneVersionEach
        PROVE  \A d \in 1..bound : \A v \in Ball(start, dir, d) :
                  \E row \in rows : /\ row.node = v /\ row.depth <= d /\ Kept(row, rows)
                                    /\ v \notin Ball(start, dir, row.depth - 1)
    <2> TAKE d \in 1..bound
    <2> TAKE v \in Ball(start, dir, d)
    <2>0. d \in Nat /\ \A x \in 1..d : x \in 1..bound
      OBVIOUS
    <2>1. PICK e \in 1..d : /\ v \in Ball(start, dir, e) /\ v \notin Ball(start, dir, e - 1)
                            /\ \A k \in Nat : v \in Ball(start, dir, k) => e <= k
      BY <2>0, Distance
    <2>2. PICK row \in L[e] : row.node = v
      <3>1. e \in 1..bound
        BY <2>0
      <3> QED BY <1>1, <1>4, <2>1, <3>1, LevelComplete
    <2>3. row \in rows /\ row.depth = e /\ e <= d
      BY <1>1, <1>2, <2>0, <2>2
    <2>4. Kept(row, rows)
      <3> SUFFICES ASSUME NEW w \in rows, w.node = v PROVE w.depth >= e
        BY <2>2, <2>3 DEF Kept
      <3>1. w.depth \in 1..bound /\ v \in Ball(start, dir, w.depth)
        BY <1>3
      <3>2. w.depth \in Nat
        BY <3>1
      <3> QED BY <2>1, <3>1, <3>2
    <2> QED BY <2>1, <2>2, <2>3, <2>4
  <1>5. ASSUME OneVersionEach, NEW row \in rows, Kept(row, rows)
        PROVE  row.node \notin Ball(start, dir, row.depth - 1)
    <2>1. SUFFICES ASSUME row.node \in Ball(start, dir, row.depth - 1) PROVE FALSE
      OBVIOUS
    <2>2. PICK d : d = row.depth - 1
      OBVIOUS
    <2>3. row.depth \in 1..bound /\ d \in Nat /\ d <= bound
      BY <1>3, <2>2
    <2>4. d # 0
      BY <2>1, <2>2, BallSteps
    <2>5. d \in 1..bound
      BY <2>3, <2>4
    <2>6. PICK w \in rows : w.node = row.node /\ w.depth <= d
      BY <1>4, <1>5, <2>1, <2>2, <2>5
    <2>7. w.depth >= row.depth /\ w.depth \in 1..bound
      BY <1>3, <1>5, <2>6 DEF Kept
    <2> QED BY <2>2, <2>3, <2>6, <2>7
  <1>6. ASSUME OneVersionEach, NEW v \in Ball(start, dir, bound)
        PROVE  \E row \in rows : /\ row.node = v /\ Kept(row, rows)
                                 /\ v \notin Ball(start, dir, row.depth - 1)
    <2>1. bound \in 1..bound
      OBVIOUS
    <2> QED BY <1>4, <1>6, <2>1
  <1> QED BY <1>3, <1>5, <1>6

\* An answer, from the rows it keeps.
LEMMA TraverseAnswer ==
    ASSUME NEW start \in Refs, NEW dir \in Directions, NEW n \in Depths,
           NEW t, t = Traverse(start, dir, n), NEW bound, bound = DepthBound(n)
    PROVE  \E rows :
              /\ rows = Walk(start, dir, bound)
              /\ \A p \in t.paths : \E row \in rows :
                    Kept(row, rows) /\ p.target = row.node /\ p.depth = row.depth
              /\ \A row \in rows : Kept(row, rows) =>
                    /\ \E p \in t.paths : p.target = row.node /\ p.depth = row.depth
                    /\ row.depth >= bound => t.truncated
  <1>1. PICK rows : rows = Walk(start, dir, bound)
    OBVIOUS
  <1> DEFINE kept == {row \in rows : Kept(row, rows)}
             path(row) == [target |-> row.node, depth |-> row.depth,
                           hops |-> {w.via : w \in {x \in kept : x.node = row.node}}]
  <1>2. t = [paths |-> {path(row) : row \in kept}, truncated |-> \E row \in kept : AtBound(row, bound)]
    BY <1>1 DEF Traverse
  <1> HIDE DEF kept
  <1>3. t.paths = {path(row) : row \in kept} /\ (t.truncated <=> \E row \in kept : row.depth >= bound)
    BY <1>2 DEF AtBound
  <1>4. \A row \in kept : path(row).target = row.node /\ path(row).depth = row.depth
    OBVIOUS
  <1>5. \A row : row \in kept <=> row \in rows /\ Kept(row, rows)
    BY DEF kept
  <1> HIDE DEF path
  <1> QED BY <1>1, <1>3, <1>4, <1>5

\* What WalkAnswersExactly says of one question.
LEMMA WalkExact ==
    ASSUME NEW start \in Refs, NEW dir \in Directions, NEW n \in Depths,
           NEW t, t = Traverse(start, dir, n), NEW bound, bound = DepthBound(n)
    PROVE  /\ \A p \in t.paths : p.target \in Ball(start, dir, p.depth) /\ p.depth \in 1..bound
           /\ OneVersionEach =>
                 /\ \A p \in t.paths : p.target \notin Ball(start, dir, p.depth - 1)
                 /\ {p.target : p \in t.paths} = Ball(start, dir, bound)
                 /\ t.truncated \/ Ball(start, dir, bound) = Reachable(start, dir)
  <1>1. bound \in Nat \ {0}
    BY DepthBounded
  <1>2. PICK rows :
           /\ rows = Walk(start, dir, bound)
           /\ \A p \in t.paths : \E row \in rows :
                 Kept(row, rows) /\ p.target = row.node /\ p.depth = row.depth
           /\ \A row \in rows : Kept(row, rows) =>
                 /\ \E p \in t.paths : p.target = row.node /\ p.depth = row.depth
                 /\ row.depth >= bound => t.truncated
    BY TraverseAnswer
  <1>3. \A row \in rows : row.depth \in 1..bound /\ row.node \in Ball(start, dir, row.depth)
    BY <1>1, <1>2, KeptRows
  <1>4. \A p \in t.paths : p.target \in Ball(start, dir, p.depth) /\ p.depth \in 1..bound
    BY <1>2, <1>3
  <1>5. ASSUME OneVersionEach
        PROVE  /\ \A p \in t.paths : p.target \notin Ball(start, dir, p.depth - 1)
               /\ {p.target : p \in t.paths} = Ball(start, dir, bound)
               /\ t.truncated \/ Ball(start, dir, bound) = Reachable(start, dir)
    <2>1. /\ \A row \in rows : Kept(row, rows) => row.node \notin Ball(start, dir, row.depth - 1)
          /\ \A v \in Ball(start, dir, bound) :
                \E row \in rows : /\ row.node = v /\ Kept(row, rows)
                                  /\ v \notin Ball(start, dir, row.depth - 1)
      BY <1>1, <1>2, <1>5, KeptRows
    <2>2. \A p \in t.paths : p.target \notin Ball(start, dir, p.depth - 1)
      BY <1>2, <2>1
    <2>3. ASSUME NEW p \in t.paths PROVE p.target \in Ball(start, dir, bound)
      <3>1. p.depth \in 0..bound /\ bound \in Nat
        BY <1>1, <1>4
      <3>2. Ball(start, dir, p.depth) \subseteq Ball(start, dir, bound)
        BY <3>1, BallGrows
      <3> QED BY <1>4, <3>2
    <2>4. ASSUME NEW v \in Ball(start, dir, bound) PROVE v \in {p.target : p \in t.paths}
      BY <1>2, <2>1
    <2>5. ASSUME ~t.truncated PROVE Ball(start, dir, bound) = Reachable(start, dir)
      <3>1. PICK d \in Nat : bound = d + 1 /\ d = bound - 1
        <4>1. bound - 1 \in Nat /\ bound = (bound - 1) + 1
          BY <1>1
        <4> QED BY <4>1
      <3>2. Ball(start, dir, d + 1) \subseteq Ball(start, dir, d)
        <4> SUFFICES ASSUME NEW v \in Ball(start, dir, bound), v \notin Ball(start, dir, d) PROVE FALSE
          BY <3>1
        <4>1. PICK row \in rows : row.node = v /\ Kept(row, rows)
          BY <2>1
        <4>2. row.depth \in 1..bound /\ ~(row.depth >= bound) /\ v \in Ball(start, dir, row.depth)
          BY <1>2, <1>3, <2>5, <4>1
        <4>3. row.depth \in 0..d
          BY <1>1, <3>1, <4>2
        <4>4. Ball(start, dir, row.depth) \subseteq Ball(start, dir, d)
          BY <4>3, BallGrows
        <4> QED BY <4>2, <4>4
      <3>3. Ball(start, dir, d + 1) = Ball(start, dir, d)
        <4>1. PICK A, B : A = Ball(start, dir, d) /\ B = Ball(start, dir, d + 1)
          OBVIOUS
        <4>2. B = A \cup OneFurther(A \cup {start}, dir)
          BY <4>1, BallNext
        <4> QED BY <3>2, <4>1, <4>2
      <3> QED BY <3>1, <3>3, StableIsReachable
    <2> QED BY <2>2, <2>3, <2>4, <2>5
  <1> QED BY <1>4, <1>5

\* Walks are exact in the states of the invariant.
LEMMA WalkInv == IInv => WalkAnswersExactly
  <1> SUFFICES ASSUME IInv, NEW start \in versions, NEW dir \in Directions, NEW n \in Depths
               PROVE  LET t == Traverse(start, dir, n)
                          within == Ball(start, dir, DepthBound(n)) IN
                      /\ \A p \in t.paths : p.target \in Ball(start, dir, p.depth)
                      /\ OneVersionEach =>
                            /\ \A p \in t.paths : p.target \notin Ball(start, dir, p.depth - 1)
                            /\ {p.target : p \in t.paths} = within
                            /\ t.truncated \/ within = Reachable(start, dir)
    BY DEF WalkAnswersExactly
  <1>1. start \in Refs
    BY DEF IInv, TypeOK
  <1> QED BY <1>1, WalkExact

----------------------------------------------------------------------------
(* Severities. *)

\* A severity of LOW or above stays so, however far it decays, when it grades an
\* approved version.
LEMMA SeverityStays ==
    ASSUME NEW type, NEW n \in Nat \ {0}
    PROVE  SeverityForHop(type, TRUE, n) \in 2..5
  <1> DEFINE base == IF TRUE THEN raise(BaseSeverity(type)) ELSE BaseSeverity(type)
             after[d \in 1..n] == IF d = 1 THEN base ELSE Decay(after[d - 1], TRUE)
             V == 2..5
             f == [x \in Nat \X V |-> Decay(x[2], TRUE)]
  <1>1. base \in V
    BY DEF raise, BaseSeverity
  <1>2. \A s \in V : Decay(s, TRUE) \in V
    BY DEF Decay, lower
  <1>3. f \in [Nat \X V -> V]
    BY <1>2
  <1> HIDE DEF base
  <1>4. PICK g : Follows(g, n - 1, V, base, f)
    <2>1. n - 1 \in Nat
      OBVIOUS
    <2> HIDE DEF V, f
    <2> QED BY <1>1, <1>3, <2>1, FollowsExists
  <1>5. PICK G : G = [d \in 1..n |-> g[d - 1]]
    OBVIOUS
  <1>6. ASSUME NEW d \in 1..n PROVE G[d] = IF d = 1 THEN base ELSE Decay(G[d - 1], TRUE)
    <2>1. CASE d = 1
      BY <1>4, <1>5, <2>1 DEF Follows
    <2>2. CASE d # 1
      <3>1. /\ d - 2 \in 0 .. (n - 1) - 1 /\ d - 2 \in 0 .. n - 1 /\ (d - 2) + 1 = d - 1
            /\ d - 1 \in 1..n /\ (d - 1) - 1 = d - 2
        BY <2>2
      <3>2. g[d - 2] \in V /\ g[(d - 2) + 1] = f[<<d - 2, g[d - 2]>>]
        BY <1>4, <3>1 DEF Follows
      <3>3. <<d - 2, g[d - 2]>> \in Nat \X V
        BY <3>1, <3>2
      <3>4. f[<<d - 2, g[d - 2]>>] = Decay(g[d - 2], TRUE)
        BY <3>3
      <3>5. G[d] = g[d - 1] /\ G[d - 1] = g[d - 2]
        BY <1>5, <3>1
      <3> QED BY <2>2, <3>1, <3>2, <3>4, <3>5
    <2> QED BY <2>1, <2>2
  <1>7. G = [d \in 1..n |-> IF d = 1 THEN base ELSE Decay(G[d - 1], TRUE)]
    BY <1>5, <1>6
  <1>8. after = [d \in 1..n |-> IF d = 1 THEN base ELSE Decay(after[d - 1], TRUE)]
    <2>1. \E h : h = [d \in 1..n |-> IF d = 1 THEN base ELSE Decay(h[d - 1], TRUE)]
      BY <1>7
    <2> QED BY <2>1, Zenon
  <1>9. SeverityForHop(type, TRUE, n) = after[n]
    BY DEF SeverityForHop, base
  <1> HIDE DEF after
  <1> DEFINE S == {k \in Nat : k < n => after[k + 1] \in V}
  <1>10. 0 \in S
    BY <1>1, <1>8
  <1>11. ASSUME NEW k \in Nat, k \in S PROVE k + 1 \in S
    <2>1. SUFFICES ASSUME k + 1 < n PROVE after[(k + 1) + 1] \in V
      OBVIOUS
    <2>2. (k + 1) + 1 \in 1..n /\ (k + 1) + 1 # 1 /\ ((k + 1) + 1) - 1 = k + 1 /\ k < n
      BY <2>1
    <2>3. after[(k + 1) + 1] = Decay(after[k + 1], TRUE) /\ after[k + 1] \in V
      BY <1>8, <1>11, <2>2
    <2> QED BY <1>2, <2>3
  <1> HIDE DEF S
  <1>12. Nat \subseteq S
    BY <1>10, <1>11, Induct
  <1>13. n - 1 \in Nat /\ n - 1 < n /\ (n - 1) + 1 = n
    OBVIOUS
  <1>14. after[n] \in V
    BY <1>12, <1>13 DEF S
  <1> QED BY <1>9, <1>14

\* The ends of active links are stored.
LEMMA EndsAreStored ==
    ASSUME IInv PROVE Ends \subseteq versions
  <1>1. ASSUME NEW i \in Active PROVE i.from \in versions /\ i.to \in versions
    <2>1. i \in LinkInputs /\ Exists(i)
      BY NoneAssumption DEF Active, Exists, LinkStatuses
    <2> QED BY <2>1 DEF IInv, EndsStored
  <1> QED BY <1>1 DEF Ends

\* Impact sets are complete in the states of the invariant.
LEMMA ImpactInv == IInv => ApprovedImpactSeen
  <1> SUFFICES ASSUME IInv, OneVersionEach, NEW subject \in versions, NEW n \in Depths,
                      NEW v \in Ball(subject, "DOWNSTREAM", DepthBound(n))
               PROVE  \E e \in Impact(subject, versions, n) :
                         e.target = v /\ \A s \in e.severities : s >= 2
    BY DEF ApprovedImpactSeen
  <1>1. subject \in Refs /\ "DOWNSTREAM" \in Directions
    BY DEF IInv, TypeOK, Directions
  <1>2. PICK t : t = Traverse(subject, "DOWNSTREAM", n)
    OBVIOUS
  <1>3. PICK bound : bound = DepthBound(n)
    OBVIOUS
  <1>4. /\ \A p \in t.paths : p.depth \in 1..bound
        /\ {p.target : p \in t.paths} = Ball(subject, "DOWNSTREAM", bound)
    BY <1>1, <1>2, <1>3, WalkExact
  <1>5. PICK p \in t.paths : p.target = v
    BY <1>3, <1>4
  <1>6. p.depth \in Nat \ {0}
    BY <1>3, <1>4, DepthBounded
  <1>7. v \in versions
    <2>1. bound \in Nat
      BY <1>3, DepthBounded
    <2>2. Ball(subject, "DOWNSTREAM", bound) \subseteq Ends
      BY <1>1, <2>1, BallGrows
    <2> QED BY <1>3, <2>2, EndsAreStored
  <1>8. PICK e : e = [target |-> p.target, distance |-> p.depth,
                      severities |-> {SeverityForHop(h.type, p.target \in versions, p.depth) : h \in p.hops}]
    OBVIOUS
  <1>9. e \in Impact(subject, versions, n)
    BY <1>2, <1>5, <1>8 DEF Impact
  <1>10. ASSUME NEW s \in e.severities PROVE s >= 2
    <2>1. PICK h \in p.hops : s = SeverityForHop(h.type, p.target \in versions, p.depth)
      BY <1>8
    <2>2. (p.target \in versions) = TRUE
      BY <1>5, <1>7
    <2>3. s = SeverityForHop(h.type, TRUE, p.depth)
      BY <2>1, <2>2
    <2>4. s \in 2..5
      BY <1>6, <2>3, SeverityStays
    <2> QED BY <2>4
  <1> QED BY <1>5, <1>8, <1>9, <1>10

----------------------------------------------------------------------------
(* Theorems. *)

\* The variables keep their types, whatever creations, reviews and revisions interleave
\* (internal/artifactgraph).
THEOREM TypeCorrect == Spec => []TypeOK
  BY Inductive, PTL DEF IInv

\* Two creations never both succeed with one identifier, though NextArtifactSequence
\* takes no lock and both may have minted it: the primary key decides.
THEOREM IdentifiersStayUnique == Spec => []IdentifiersUnique
  BY Inductive, PTL DEF IInv

\* Once a rejection of a link is announced the link is rejected and only rejections
\* follow, whoever read the link while it was a proposal (UpdateLink compares version_no).
THEOREM RejectionsFinal == Spec => []RejectedIsFinal
  BY Inductive, PTL DEF IInv

\* On every table of links and for every depth bound, a walk invents no target and no
\* shorter way; where each artifact takes part with one version it finds every target
\* within the bound at its distance, and says so when it left one out (Traverse and the
\* recursive query of infra/links.go).
THEOREM WalksExact == Spec => []WalkAnswersExactly
  BY Inductive, WalkInv, PTL

\* An impact set grades every approved version downstream and within the bound LOW or
\* above at any distance (SeverityForHop).
THEOREM ImpactSeen == Spec => []ApprovedImpactSeen
  BY Inductive, ImpactInv, PTL

===============================================================================
