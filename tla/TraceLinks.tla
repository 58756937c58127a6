------------------------------ MODULE TraceLinks ------------------------------
(***************************************************************************)
(* The trace links of one project: who may assert, accept and reject an    *)
(* edge of the artifact graph, the graph version that cached answers are   *)
(* keyed by, the identifiers of its artifacts, and the walk that answers   *)
(* a traceability or an impact question.                                   *)
(*                                                                         *)
(* Code: internal/artifactgraph/app/links.go, domain/tracelink.go,         *)
(* infra/links.go, infra/postgres.go (NextArtifactSequence),               *)
(* internal/server/graph_handlers.go, migrations/0002_artifact_graph.sql.  *)
(*                                                                         *)
(* AcceptLink and RejectLink read the link on a second connection, outside *)
(* the transaction that updates it, so each is a read and a commit.  The   *)
(* transaction of a commit is one step: it holds the row of the link and   *)
(* the row of the project until it ends.                                   *)
(***************************************************************************)
EXTENDS Integers, Sequences, FiniteSets

CONSTANTS
    Ids,          \* numeric suffixes artifact identifiers may take
    FirstIds,     \* artifacts that exist at the start, each with version 1
    NamedIds,     \* identifiers a caller may ask for by name
    Creators,     \* requests that create an artifact
    Revised,      \* artifacts that get a second version
    LinkInputs,   \* create-link commands; each one that succeeds is a link
    Reviewers,    \* accept and reject requests
    Depths,       \* depth bounds a server may be configured with
    None

Refs == Ids \X {1, 2}
LinkTypes == {"SATISFIES", "IMPLEMENTS", "DERIVED_FROM", "VERIFIES", "REPRESENTED_BY",
              "DEPENDS_ON", "CONTAINS", "CONFLICTS_WITH", "EVIDENCES", "GOVERNS",
              "REALIZED_BY", "DEPLOYS", "SUPERSEDES"}
Origins == {"HUMAN", "ANALYZER", "LLM_PROPOSED"}
LinkStatuses == {"PROPOSED", "ACCEPTED", "REJECTED", "STALE"}
Inputs == [from : Refs, to : Refs, type : LinkTypes, origin : Origins,
           exact : BOOLEAN, machine : BOOLEAN]

ASSUME IdsAssumption == Ids \subseteq Nat \ {0} /\ FirstIds \subseteq Ids
                        /\ Revised \subseteq Ids /\ NamedIds \subseteq Ids
                        /\ IsFiniteSet(Ids)
ASSUME InputsAssumption == LinkInputs \subseteq Inputs
ASSUME DepthAssumption == Depths \subseteq Int
ASSUME NoneAssumption == None \notin LinkStatuses

VARIABLES
    versions,        \* the artifact versions there are
    links,           \* trace_links, by the command that made each
    graph_version,   \* projects.graph_version
    events,          \* history: the outbox events of each link, in commit order
    creator,         \* each creation: its step and the identifier it minted
    reviewer         \* each review: its step, and the link as it read it

vars == <<versions, links, graph_version, events, creator, reviewer>>

NoLink == [status |-> None, disposed |-> FALSE, no |-> 0]
NoReview == [step |-> "new", op |-> None, link |-> None, read |-> NoLink, disposed |-> FALSE]

Init ==
    /\ versions = FirstIds \X {1}
    /\ links = [i \in LinkInputs |-> NoLink]
    /\ graph_version = 0
    /\ events = [i \in LinkInputs |-> <<>>]
    /\ creator = [c \in Creators |-> [step |-> "new", id |-> None]]
    /\ reviewer = [r \in Reviewers |-> NoReview]

----------------------------------------------------------------------------
(* Artifacts and their identifiers. *)

ArtifactIds == {v[1] : v \in versions}

\* In the transaction of the change; the row of the project is locked until it ends.
BumpGraphVersion == graph_version + 1

\* The highest suffix there is, plus one.  Nothing is locked.
NextArtifactSequence ==
    IF ArtifactIds = {} THEN 1
    ELSE 1 + (CHOOSE n \in ArtifactIds : \A m \in ArtifactIds : m <= n)

\* The identifier is named by the caller, or minted from what is committed.
Allocate(c) ==
    /\ creator[c].step = "new"
    /\ \E n \in NamedIds \cup ({NextArtifactSequence} \cap Ids) :
          creator' = [creator EXCEPT ![c] = [step |-> "insert", id |-> n]]
    /\ UNCHANGED <<versions, links, graph_version, events, reviewer>>

\* INSERT ... ON CONFLICT DO NOTHING (mutation of CreateArtifact).
CreateArtifactUpsert(c) ==
    /\ creator[c].step = "insert"
    /\ creator' = [creator EXCEPT ![c].step = "created"]
    /\ versions' = versions \cup {<<creator[c].id, 1>>}
    /\ graph_version' = BumpGraphVersion
    /\ UNCHANGED <<links, events, reviewer>>

\* The identity row, version 1 and the graph version, in one transaction; the
\* primary key refuses whoever inserts an identifier second.
CreateArtifact(c) ==
    /\ creator[c].step = "insert"
    /\ IF creator[c].id \in ArtifactIds
       THEN creator' = [creator EXCEPT ![c].step = "failed"] /\ UNCHANGED <<versions, graph_version>>
       ELSE /\ versions' = versions \cup {<<creator[c].id, 1>>}
            /\ graph_version' = BumpGraphVersion
            /\ creator' = [creator EXCEPT ![c].step = "created"]
    /\ UNCHANGED <<links, events, reviewer>>

\* A second version (ArtifactVersions says when there may be one).
Revise(n) ==
    /\ n \in ArtifactIds /\ <<n, 2>> \notin versions
    /\ versions' = versions \cup {<<n, 2>>}
    /\ graph_version' = BumpGraphVersion
    /\ UNCHANGED <<links, events, creator, reviewer>>

----------------------------------------------------------------------------
(* Creating a link. *)

defaultStatusFor(origin, exact) ==
    IF origin = "HUMAN" \/ (origin = "ANALYZER" /\ exact) THEN "ACCEPTED" ELSE "PROPOSED"

Exists(i) == links[i].status # None
SameEdge(i, j) == i.from = j.from /\ i.to = j.to /\ i.type = j.type

\* What NewTraceLink, CreateLink, the endpoint trigger and the unique index,
\* whatever the status of the row it finds, answer to a command.
Refusal(i) ==
    IF i.from = i.to THEN "self_reference"
    ELSE IF i.origin = "HUMAN" /\ i.machine THEN "origin_not_permitted"
    ELSE IF ~ ({i.from, i.to} \subseteq versions) THEN "endpoint_missing"
    ELSE IF \E j \in LinkInputs : Exists(j) /\ SameEdge(i, j) THEN "duplicate"
    ELSE "ok"

\* trace_link.accepted or trace_link.proposed.
CreatedEvent(i) == defaultStatusFor(i.origin, i.exact)

\* A refused command changes nothing and may be sent again.
CreateLink(i) ==
    /\ Refusal(i) = "ok"
    /\ links' = [links EXCEPT ![i] =
          [status |-> defaultStatusFor(i.origin, i.exact), disposed |-> FALSE, no |-> 1]]
    /\ graph_version' = BumpGraphVersion
    /\ events' = [events EXCEPT ![i] = <<CreatedEvent(i)>>]
    /\ UNCHANGED <<versions, creator, reviewer>>

----------------------------------------------------------------------------
(* Reviewing a link. *)

\* GetLink, and what the caller asks for: an accept with or without a
\* disposition, or a reject with a rationale (one without is refused at once).
GetLink(r) ==
    /\ reviewer[r].step = "new"
    /\ \E op \in {"accept", "reject"}, i \in LinkInputs, d \in BOOLEAN :
          /\ Exists(i)
          /\ op = "reject" => ~ d
          /\ reviewer' = [reviewer EXCEPT ![r] =
                [step |-> "commit", op |-> op, link |-> i, read |-> links[i], disposed |-> d]]
    /\ UNCHANGED <<versions, links, graph_version, events, creator>>

RequiresDisposition(i) == i.origin = "LLM_PROPOSED"

\* What Accept leaves of the row it was given, or why it refuses.
Accept(row, d) ==
    IF row.status = "ACCEPTED" THEN row
    ELSE [row EXCEPT !.status = "ACCEPTED", !.disposed = row.disposed \/ d]
AcceptRefusal(row, i, d) ==
    IF row.status = "REJECTED" THEN "rejected"
    ELSE IF row.status # "ACCEPTED" /\ RequiresDisposition(i) /\ ~ d THEN "disposition_required"
    ELSE "ok"

\* Reject asks nothing of the status.
Reject(row) == [row EXCEPT !.status = "REJECTED"]

\* The llm_link_needs_disposition constraint.
CheckHolds(row, i) == row.status = "ACCEPTED" /\ i.origin = "LLM_PROPOSED" => row.disposed

\* UPDATE without the version_no condition (mutation of StillCurrent).
StillCurrentAlways(rv) == TRUE

\* UPDATE ... WHERE version_no = the one that was read.
StillCurrent(rv) == links[rv.link].no = rv.read.no

Finish(r) == reviewer' = [reviewer EXCEPT ![r] = [NoReview EXCEPT !.step = "done"]]

\* The domain, the version number and the constraint agree.
ReviewAllowed(rv) ==
    /\ rv.op = "accept" => /\ AcceptRefusal(rv.read, rv.link, rv.disposed) = "ok"
                           /\ CheckHolds(Accept(rv.read, rv.disposed), rv.link)
    /\ StillCurrent(rv)

ReviewRefused(r) ==
    /\ reviewer[r].step = "commit" /\ ~ ReviewAllowed(reviewer[r])
    /\ Finish(r)
    /\ UNCHANGED <<versions, links, graph_version, events, creator>>

AcceptLink(r) ==
    LET rv == reviewer[r] IN
    /\ rv.step = "commit" /\ rv.op = "accept" /\ ReviewAllowed(rv)
    /\ links' = [links EXCEPT ![rv.link] =
          [Accept(rv.read, rv.disposed) EXCEPT !.no = links[rv.link].no + 1]]
    /\ graph_version' = BumpGraphVersion
    /\ events' = [events EXCEPT ![rv.link] = Append(@, "ACCEPTED")]
    /\ Finish(r)
    /\ UNCHANGED <<versions, creator>>

\* The graph version is left alone.
RejectLink(r) ==
    LET rv == reviewer[r] IN
    /\ rv.step = "commit" /\ rv.op = "reject" /\ ReviewAllowed(rv)
    /\ links' = [links EXCEPT ![rv.link] = [Reject(rv.read) EXCEPT !.no = links[rv.link].no + 1]]
    /\ events' = [events EXCEPT ![rv.link] = Append(@, "REJECTED")]
    /\ Finish(r)
    /\ UNCHANGED <<versions, graph_version, creator>>

\* The transaction is rolled back: the database, the deadline, a crash.
CreateFails(c) ==
    /\ creator[c].step = "insert"
    /\ creator' = [creator EXCEPT ![c].step = "failed"]
    /\ UNCHANGED <<versions, links, graph_version, events, reviewer>>
ReviewFails(r) ==
    /\ reviewer[r].step = "commit"
    /\ Finish(r)
    /\ UNCHANGED <<versions, links, graph_version, events, creator>>

Next ==
    \/ \E c \in Creators : Allocate(c) \/ CreateArtifact(c) \/ CreateFails(c)
    \/ \E n \in Revised : Revise(n)
    \/ \E i \in LinkInputs : CreateLink(i)
    \/ \E r \in Reviewers :
          GetLink(r) \/ ReviewRefused(r) \/ AcceptLink(r) \/ RejectLink(r) \/ ReviewFails(r)

Spec == Init /\ [][Next]_vars

----------------------------------------------------------------------------
(* Traversal: the recursive query and the loop over its rows. *)

Active == {i \in LinkInputs : links[i].status = "ACCEPTED"}
Directions == {"UPSTREAM", "DOWNSTREAM"}

\* The ends of an edge as a walk in the direction meets them.
Source(i, dir) == IF dir = "UPSTREAM" THEN i.from ELSE i.to
Target(i, dir) == IF dir = "UPSTREAM" THEN i.to ELSE i.from

\* A bound outside 1..64 is replaced.
DepthBound(n) == IF n <= 0 \/ n > 64 THEN 12 ELSE n

\* A row whose artifact (whatever its version) was passed before is not extended.
MayExtend(row) == row.node[1] \notin row.visited

\* The rows that join a node to its edges: the edge walked last, the node it leads
\* to, the depth, and the artifacts passed on the way.
Joined(node, dir, depth, visited) ==
    {[via |-> i, node |-> Target(i, dir), depth |-> depth, visited |-> visited] :
        i \in {j \in Active : Source(j, dir) = node}}
Extended(rows, dir, depth) ==
    UNION {Joined(row.node, dir, depth, row.visited \cup {row.node[1]}) :
              row \in {w \in rows : MayExtend(w)}}

\* The rows of the query, depth by depth.
Walk(start, dir, bound) ==
    LET rows[d \in 1..bound] == IF d = 1 THEN Joined(start, dir, 1, {start[1]})
                                ELSE Extended(rows[d - 1], dir, d)
    IN UNION {rows[d] : d \in 1..bound}

\* The shallowest row of each node is kept.  Rows of one depth that lead to one
\* node come in any order and the first is kept, so several are candidates.
Kept(row, rows) == \A w \in rows : w.node = row.node => w.depth >= row.depth

\* Truncation told one step too late (mutation of AtBound).
AtBoundPast(row, bound) == row.depth > bound
AtBound(row, bound) == row.depth >= bound

\* What Traverse returns without a type filter: `hops' are the candidates for
\* the one edge it reports.
Traverse(start, dir, maxDepth) ==
    LET bound == DepthBound(maxDepth)
        rows == Walk(start, dir, bound)
        kept == {row \in rows : Kept(row, rows)}
    IN [paths |-> {[target |-> row.node, depth |-> row.depth,
                    hops |-> {w.via : w \in {x \in kept : x.node = row.node}}] : row \in kept},
        truncated |-> \E row \in kept : AtBound(row, bound)]

----------------------------------------------------------------------------
(* Impact. *)

\* Severities are their ranks: INFO 1, LOW 2, MEDIUM 3, HIGH 4, CRITICAL 5.
raise(s) == IF s < 5 THEN s + 1 ELSE 5
lower(s) == IF s > 1 THEN s - 1 ELSE 1

BaseSeverity(type) ==
    CASE type \in {"SATISFIES", "IMPLEMENTS", "DERIVED_FROM"} -> 4
      [] type \in {"DEPENDS_ON", "CONTAINS", "EVIDENCES", "GOVERNS"} -> 2
      [] type = "CONFLICTS_WITH" -> 5
      [] OTHER -> 3

\* The decay that ignores approval (mutation of Decay).
DecayToInfo(s, approved) == lower(s)

\* One step of distance.
Decay(s, approved) == IF approved /\ s = 2 THEN 2 ELSE lower(s)

SeverityForHop(type, approved, distance) ==
    LET base == IF approved THEN raise(BaseSeverity(type)) ELSE BaseSeverity(type)
        after[d \in 1..distance] == IF d = 1 THEN base ELSE Decay(after[d - 1], approved)
    IN after[distance]

\* The impact sets a change may be answered with, given the approved versions.
Impact(subject, approved, maxDepth) ==
    {[target |-> p.target, distance |-> p.depth,
      severities |-> {SeverityForHop(h.type, p.target \in approved, p.depth) : h \in p.hops}] :
        p \in Traverse(subject, "DOWNSTREAM", maxDepth).paths}

----------------------------------------------------------------------------
(* Properties. *)

LinkRows == [status : LinkStatuses \cup {None}, disposed : BOOLEAN, no : Nat]
Reviews == [step : {"new", "commit", "done"}, op : {"accept", "reject", None},
            link : LinkInputs \cup {None}, read : LinkRows, disposed : BOOLEAN]

\* The variables have their types; versions are the two a revision can make.
TypeOK ==
    /\ versions \subseteq Refs
    /\ links \in [LinkInputs -> LinkRows]
    /\ graph_version \in Nat
    /\ events \in [LinkInputs -> Seq(LinkStatuses)]
    /\ creator \in [Creators -> [step : {"new", "insert", "created", "failed"},
                                 id : Ids \cup {None}]]
    /\ reviewer \in [Reviewers -> Reviews]

\* A rejection is final, in the table and for whoever follows the events of the link: an
\* accept that read the link while it was a proposal and commits after the reject is
\* refused, never applied or announced (AcceptLink reads outside its transaction;
\* UpdateLink compares version_no).
RejectedIsFinal ==
    \A i \in LinkInputs : \A n \in DOMAIN events[i] : events[i][n] = "REJECTED" =>
        links[i].status = "REJECTED" /\ \A m \in n .. Len(events[i]) : events[i][m] = "REJECTED"

\* Two creations never both succeed with one identifier, though both may mint it
\* (NextArtifactSequence takes no lock; the primary key of artifacts decides).
IdentifiersUnique ==
    \A c, d \in Creators :
        c # d /\ creator[c].step = "created" /\ creator[d].step = "created" => creator[c].id # creator[d].id

\* The reference for a walk: what 1 to d accepted links lead to.
OneFurther(s, dir) == {Target(i, dir) : i \in {j \in Active : Source(j, dir) \in s}}
Ball(start, dir, d) ==
    LET ball[k \in 0..d] == IF k = 0 THEN {}
                            ELSE ball[k - 1] \cup OneFurther(ball[k - 1] \cup {start}, dir)
    IN ball[d]
Reachable(start, dir) == Ball(start, dir, Cardinality(Refs))

\* No accepted link joins two versions of one artifact to the same walk.
Ends == {i.from : i \in Active} \cup {i.to : i \in Active}
OneVersionEach == \A v, w \in Ends : v[1] = w[1] => v = w

\* Every creation and review is over.  Every table of links is also the table of
\* such a state (a request may fail at any time), so walks are judged there.
Settled == /\ \A c \in Creators : creator[c].step \in {"created", "failed"}
           /\ \A r \in Reviewers : reviewer[r].step = "done"

\* A walk never invents a target or a shorter way to it.  Where each artifact
\* takes part with one version, the depth is the distance, every target within
\* the bound is found, and an answer that leaves one out says it is truncated
\* (the visited check, the depth bound and `seen' of Traverse).
WalkAnswersExactly ==
    Settled => \A start \in versions, dir \in Directions, n \in Depths :
        LET t == Traverse(start, dir, n)
            within == Ball(start, dir, DepthBound(n)) IN
        /\ \A p \in t.paths : p.target \in Ball(start, dir, p.depth)
        /\ OneVersionEach =>
              /\ \A p \in t.paths : p.target \notin Ball(start, dir, p.depth - 1)
              /\ {p.target : p \in t.paths} = within
              /\ t.truncated \/ within = Reachable(start, dir)

\* An impact set grades every approved version downstream and within the bound
\* LOW or above, however far (SeverityForHop).  The grade of a version asks for
\* its own approval only, so all may be approved here.
ApprovedImpactSeen ==
    Settled /\ OneVersionEach => \A subject \in versions, n \in Depths :
        LET set == Impact(subject, versions, n) IN
        \A v \in Ball(subject, "DOWNSTREAM", DepthBound(n)) :
            \E e \in set : e.target = v /\ \A s \in e.severities : s >= 2
============================================================================
