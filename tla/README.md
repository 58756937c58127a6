# SpecForge in TLA+

TLA+ models of the parts of SpecForge that carry its guarantees, the TLC runs that
check them on small instances, and TLAPS proofs of the most important properties for
every instance. `PROJECT.json` lists the components, the runs, the mutants that show
each property can fail, the source lines behind every definition, the findings, the
hazards and the theorems.

    tlc -workers 2 -config MCArtifactVersions.cfg MCArtifactVersions
    tlapm ArtifactVersionsProofs.tla     # and the other seven *Proofs modules

## 1. Inventory

SpecForge is a Go platform on PostgreSQL that keeps the artifacts of software projects
(requirements, specifications, ...) as versioned, reviewed and approved documents. An
API process and a worker process run in several replicas; everything they share is in
the database.

| Component | State | Operations | Interacts with | What is hard | What makes it correct |
|---|---|---|---|---|---|
| Artifact versions (`internal/artifactgraph`) | rows `artifacts`, `artifact_versions` with `version_no`; buckets `sf-content`, `sf-evidence` | Create, UpdateDraft, Transition, Approve, Revise | audit and outbox in the same transaction; object store before it; authorization | every read is a transaction of its own, writes are optimistic; evidence is written before the seal | no lost update; one approved version; evidence for exactly what was approved; reviewed content never changes |
| Outbox and relay (`platform/outbox`) | rows `outbox_events` | Append, PublishBatch, Run | domain transactions; a publisher per process | several relays, crash between publish and mark, batches that fail | no phantom facts, at least once, log before delivery, eventually published |
| Event bus (`platform/eventbus`) | topic files, in-memory `seen` and `dlq` | FileLog.Publish, InProcess.deliver | called by the relay inside its transaction | shutdown in the middle of a delivery, memory lost on restart | a consumer never sees an event that is not in the log |
| Audit trail (`internal/audit`) | `audit_sequences`, `audit_records`, `audit_anchors`, anchors in `sf-evidence` | Append, Anchor, Verify, VerifyAgainstAnchor | every operation appends one record in its transaction; worker anchors hourly | multi-step reads while the chain grows, rollbacks, detached partitions | gapless linked chain, no false alarm, no damage passed as valid |
| Idempotency keys (`platform/idempotency`, `server/middleware.go`) | rows `idempotency_keys` | Begin, Complete, Abandon, GC | wraps the mutating handlers; each step its own transaction | racing attempts, timeouts, crashes, lost acknowledgements | one effect per key, faithful replay |
| Database sessions and driver (`platform/db`, `platform/db/pgwire`) | connection pool, the driver's and the server's state of each connection | Tx, ReadOnly, connect, query, cancel, reset | everything | reads inside a transaction take a second connection; cancel requests travel on their own; answers left unread | no slot lost, no session left behind, success means committed, every request ends |
| Artifact identifiers (`artifactgraph/infra`) | `max(suffix) + 1` | NextArtifactSequence | Create | no lock is taken | unique identifiers |
| Trace links (`artifactgraph/*/links.go`, `tracelink.go`) | `trace_links`, `projects.graph_version` | CreateLink, AcceptLink, RejectLink, Traverse, Impact | artifact versions, outbox | reviews race, cycles, the depth bound | a rejection is final, walks are exact or say they are not |
| Object store (`platform/objstore`) | objects and their metadata, on disk or in `objects` | PutAt, Get, GetVerified, Delete | approval, anchoring | two files per object, a lock per process, crash in between, retention | evidence is write-once |
| Tenancy (`internal/tenancy`, `platform/fsm`) | `tenants`, `projects` | CreateTenant, transitions, UpdateSettings, CreateProject, ListTenants | audit and outbox in the same transaction | whole rows are read, then written back | the trail replays to the rows, so final states stay |
| Identity, authorization (`internal/identity`, `platform/authz`) | `principals`, `role_assignments`, API keys, cached grants | ResolveFromClaims, AuthenticateAPIKey, AssignRole, Authorize | every request | two first sign-ins, stale cache entries, expiry | permissions come from the tenant asked about, and end |
| Rate limiting, cache (`platform/ratelimit`, `platform/cache`) | counters and entries | Allow, Get, Set, Incr, evict | HTTP middleware, grants | eviction of counters, a cache out of reach | at most the limit per window |
| Authentication (`platform/authn`) | codes, key set cache | authorize, redeem, verify, refresh | HTTP middleware, issuer | repeated callbacks, rotation, fetches that overtake each other | one grant per code, no withdrawn key, no expired token |
| Migrations runner | schema table | apply | start-up | concurrent runners | each migration once |
| HTTP server, worker, CLI, web console, telemetry, configuration, AI platform ports | wiring | - | - | - | - |

The hazards of this code, each at its line with the properties aimed at it, are in
`PROJECT.json`. Hazards the code takes no measure for, so that there is nothing to state, are described in section 3: a
FROZEN baseline beside an APPROVED version (`service.go` 657), the de-duplication map and the dead letters that are lost with
their process (`eventbus.go` 76 and 166), the error of Sync that is ignored (`eventbus.go` 297: the models take a written
line to be durable), records missing at the end of a chain (`writer.go` 142), the garbage collection that row security
lets remove nothing (`idempotency.go` 237), and the TLS negotiation without a deadline (`pgwire/conn.go` 139).

## 2. What is modelled

### ArtifactVersions: one artifact, many requests

`head` is the row of `artifacts`; `ver[v]` are the rows of `artifact_versions`; each
request has a program counter and the copies of rows it has read. An operation is a
chain of reading steps and one committing step:

| Code | Actions |
|---|---|
| `Create` | `Create` |
| `UpdateDraft` | `UpdateDraftRead`, `UpdateDraftCommit` |
| `Transition` | `TransitionRead`, `TransitionHead`, `TransitionCommit` |
| `Revise` | `ReviseRead`, `ReviseCommit` |
| `Approve` | `ApproveRead`, `Authorize`, `PutContent`, `PutEvidence`, `SealRead`, `SealHead`, `SealCommit` |
| an error, a refusal, a timeout, a crash | `Fail` |

Why this granularity is right: a repository `Get*` opens its own read-only transaction, so
it sees committed rows of the moment it runs. An `UPDATE ... WHERE version_no = $n` takes
the row lock and keeps it until commit, so nothing happens to the row between the update
and the commit, and the whole write can be shown at the commit. Two reads are merged into
one step in two places (`ReviseRead`, `SealRead`); if a row changed between the two in the
code, the `version_no` of the first read has moved and the commit fails, so no committed
behaviour is lost. An approval reads contributors and writes the two objects before
its transaction; those are steps of their own. The trigger that protects sealed
rows, the unique index on APPROVED rows and the primary key are part of the commits.

Abstractions: a content is a model value; a hash is the tuple of what it digests
(SHA-256 is taken to be injective); the gate outcome and the permission checks other
than SoD-1 can only refuse, which is `Fail`; audit and outbox rows written in the same
transaction are the subject of the other modules.

### OutboxRelay: the outbox of one aggregate and its relays

A relay stands for the process it runs in (API replica or worker). `Begin`, `CommitTx` and
`AbortTx` are domain transactions; `created_at` is the time a transaction began.
`SelectBatch` locks rows (`batch`), `WriteLog` appends to the topic file, the four `Deliver*`
actions are the outcomes of `InProcess.deliver`, `MarkPublished` commits. `PublishPoison`,
`MarkRefused` and `BatchFails` are the ways a batch is given up; `GiveUp` shows that the
attempt counter goes with the rollback. `Cancel`, `Restart` and `Crash` end the process.
`LogRelays` and `Subscribed` say which publisher a relay has (`openPublisher` in the API,
a bare bus in the worker); `BypassRLS` says whether the database role is exempt from
row security: the superuser of `deploy/docker/docker-compose.yml` is, the role `sf_app` of the migrations is not, and both
are run (section 3). One topic and one consumer group; the eviction of `seen` is not modelled.

### AuditChain and AuditLog: the trail of one tenant

`NextSequence` takes the row lock, `AppendRecord` seals the record, `CommitTx` makes record
and counter visible together, `RollbackTx` neither. `AnchorHead`, `AnchorStamp`, `AnchorPut`,
`SaveAnchor` and `AnchorFails` are the steps of `Anchor`; the time of an anchor is taken after
the head was read, as in the code. `VerifyStart`, `VerifyGet`, `VerifyRange` and `VerifyPrev` are
the separate reads of `VerifyAgainstAnchor` and `Verify(from, to)`. `Detach`, `Alter` and `Lose`
are what may happen to stored records from outside; a run enables them by its constants.
The object key of an anchor has a resolution of one second, so in the code a second anchor
of the same head in that second is refused; here that is `AnchorFails`.

`AuditLog` is the abstract specification: a sequence to which one entry is appended
at a time. `ImplementsLog` says that AuditChain refines it, the log being the payloads the committed chain head
covers (a hash is the tuple of what it digests), which no damage to a stored record changes. `ORDER BY sequence` is
`InOrder`: the arrangement of the rows that is `Ascending`.

### Idempotency: one key

`BeginFound`, `BeginExpired`, `BeginAbsent` and `Claim` are the branches of `Begin`; the read that
finds no row locks nothing, so the insert is a step of its own. `HandlerCommits`,
`HandlerFails` and `HandlerUnsure` are the outcomes of the wrapped handler (unsure: the commit
took effect and the acknowledgement was lost). `Complete` and `Abandon` run with the context
of the request and fail silently when it is cancelled. `Crash` also stands for a panic of
the handler. The TTL passes only when the claimant has ended: a request lives for
seconds, the TTL is a day. `GC` is owed nothing, so the run with an exempt role includes the behaviours of one that is
not, in which it removes nothing.

### TraceLinks: the links of one project

`versions` are the artifact versions, `links` the rows of `trace_links` by the command that made
each, `graph_version` the counter of the project. `Allocate` and `CreateArtifact` are the two halves of
a creation: the identifier is minted before the insert that may refuse it. `CreateLink` is one
transaction; `Refusal` collects its early returns, the endpoint trigger and the unique index.
`GetLink` reads on a second connection, `AcceptLink`, `RejectLink` and `ReviewRefused` commit or are
refused by the domain, the `version_no` or the constraint. `Walk` gives the rows of the recursive query, level
by level, `Traverse` what the loop over them keeps, `Impact` the graded answer. The rows of one depth come in
any order, so the edge reported for a target is a set of candidates. `Ball` is the reference: what
up to `d` links lead to. A walk excludes an artifact it has passed in whatever version, so it is exact only
where each artifact takes part with one version (`OneVersionEach`).

### Tenancy: lifecycles as data, commands as read and commit

A machine is a record; `Builds` is what `fsm.Build` demands of it (an assumption TLC evaluates), `Fire` what the
engine does: transition, permission, guard. A command reads its row (`ReadTransition`, `ReadSettings`,
`ReadProject`, `CheckProject`) and commits a whole row where `version_no` has not moved (`transitionTenant`,
`UpdateSettings`, `transitionProject`, `CreateProject`), with its audit record in `trail`. A refused command
changes nothing and may be given again. `PagesFrom` follows the cursors of `ListTenants`.

### Identity: from a token or a key to a decision

`FindPrincipal`, `Provision` and `ProvisionFails` resolve the principal; `CacheGet`, `ListRoleAssignments` and
`CacheSet` its grants; `LimitPrincipal` and `LimitTenant` consume the two limits and end in `Decision`.
`AssignRole` commits before `InvalidateGrants` drops the entry. `data` is the cache the grants and the counters
share; `EvictChoices` is what a full cache may drop; with `MayFail` each access may find the cache
out of reach, and the code goes on without it. A tick of the clock is one window. A request with a key comes as the
tenant and the account of the key, as the service makes it (`identity/app/service.go` 384).

### ConnPool: transactions on pooled connections

`conn[c]` holds both views of a connection: `tx`, what the driver read last, and `srv`, `tenant`, `unread`, what the
server has. A request is a stack of frames, the second one a `ReadOnly` inside its transaction. `Take`,
`Connect`, `startTLS`, `startup`, `authSCRAM` get a connection; `Statement` is a statement and its answer with
its outcomes: answered, connection lost before or after the server acted, connection found dead
and replaced, a value that cannot be decoded, hit by a cancel request, never sent because the context ended. `late` are
the cancel requests on their way. The pool is `database/sql`, modelled as the code relies on it. `Misdecodes` are the
requests one of whose rows holds a value the driver cannot decode.

### SignIn: codes, tokens and rotating keys

`Authorize`, `Redeem` and `issueToken` are the development identity provider: a code is spent under the lock,
before the verifier is looked at. `LookUp`, `Missed`, `Answer`, `Refresh`, `RefreshFails` and `Reread` are the steps of
`PublicKey` and `Refresh`, each the span of a lock or a wait; `Decide` checks the claims after the key was
found. `PublishKey` and `WithdrawKey` are the issuer (external). The clock moves only while what is
under way is younger than the timeout of its client (`FetchTime`, 10 seconds, `jwks.go` 184), which is not
above the refresh limit (`MinRefresh`, 30 seconds, 182).

### ObjectStore and WriteOnce

Both adapters in one module: `FSPutAt` and `FSPutMeta` are the two files of an object under the lock of one process,
`FSCrash` a process that dies between or within them; `DBPutAt` is the upsert with its trigger. `promised` records
what a caller was told is under retention; a promise that still runs is not replaced by one for other bytes or a shorter
time, so that `EvidenceKept` also sees a retention that is cut short. `WriteOnce` is the abstract specification: what is under retention stays as
it is until the retention ends; `ImplementsWriteOnce` says that ObjectStore refines it. Keys are content addresses or
name one evidence document, so two processes that write one key write the same bytes (`AddressedAssumption`). The one
exception in the code is outside the model: two workers that anchor one sequence within the same second on a shared
directory use one key with bodies that differ in their nanoseconds (`audit/app/writer.go` 213).

## 3. Runs

Passing runs (distinct states with the bounds of the cfg):

| Run | Instance | States | Shows |
|---|---|---|---|
| review | 2 requests, 2 principals, 2 contents, 2 versions, 2 edits, four-eyes, every routed event | 2.9 M | all properties of the review path: two concurrent approvals, an edit racing a submission, a revision racing an approval, `current_version` moved back |
| outbox | 3 events in 2 transactions, some refused by the log, 2 relays, 1 fault, fairness | 184 k | no phantom and nothing marked or delivered that is not in the log (`FactsLoggedFirst`), duplicates only after a batch that was given up, every committed event published unless one is poison, the role being exempt from row security |
| audit | 2 transactions at a time, 2 workers, 1 verification, 3 records, any of them altered, lost or detached | 454 k | chain, anchors, no false alarm, a valid report never covers damage, refinement of AuditLog |
| idempotency_key | 5 attempts (3 with one body, 2 with another whose response is too large), 2 faults, 1 expiry | 940 k | one effect, faithful replay of stored responses, the record is its claimant's, a completed one stays |
| links | 4 artifacts, 2 creations, 2 reviews, 7 link commands, depth bounds 2 and 3 | 114 k | rejections final in the table and in the events, identifiers unique, walks exact, impact sets complete |
| tenancy | 2 tenants, 1 project, 15 commands, pages of 1 | 228 k | trail replays to the rows whoever raced, complete listing |
| identity | 4 requests of which 2 come, 1 assignment that expires, a cache of 2 entries that may fail, limits of 1 | 835 k | permissions of the right tenant, limits hold |
| pool | 2 nested transactions of two tenants and a pool read on 2 connections, TLS, an undecodable value in a transaction, fairness | 93 k | no leak, no foreign session, success means committed, the embrace ends |
| login | 2 logins, 2 callbacks with either code, 2 keys | 2.8 M | one grant per code, validity, withdrawn keys end |
| objstore | 2 processes, evidence, anchor and document, 7 writes, both adapters | 262 k | evidence kept, locks intact, refinement of WriteOnce |

Every module has a type invariant. It is among the properties of the review run, and in every module it is proved
(section 4). `HashMatches`,
`NotSoleAuthor` and `ExpiredRoleEnds` are proved and in no run: the first needs no more than the proof, and the other two say what the
code gives where a document promises more (below). Every inductive invariant of section 4 also holds on
the instance of its component's run.

The events no route sends (`abandon`, `superseded_by` by itself, the AI outcomes) are in no run, but the
proofs of section 4 hold for any subset of the events of the machine, and for any number of versions.

The bounds are enough for the cases of interest: lost updates, racing approvals, duplicate claims, double
redemption and two processes at one key need two actors; an approval that moves `current_version` back needs two
versions; a duplicate publication needs one crash or one failed batch; a hole in the middle of a chain needs three
records; a walk cut off at its bound needs a chain longer than the bound; all connections held by
waiting transactions need as many of them as there are slots, and a third request for a late cancel to hit; an
evicted counter needs one entry more than the cache holds. `MaxEdits`, `MaxVersion`, `MaxFaults`, `MaxRetried`,
`MaxRecords`, `MaxAnchors`, `MaxExpiries`, `MaxClock` and `MaxStarted` bound counters that are unbounded in the
code. Model values that play the same part are symmetric where only safety is checked.

Deadlock is checked in the pool run. Elsewhere the system may stop: when all transactions, events, attempts,
commands or records of the instance are used up.

Runs that end in a violation state a sentence of the documentation or of a comment and
show a behaviour of the code that contradicts it; `PROJECT.json` quotes the sentence:

| Run | What the code does |
|---|---|
| doc_role | under the role the migrations describe, the policy's WITH CHECK asks for a tenant, which the relay session does not set: it may read and not mark, so every batch is logged, delivered and rolled back again and again. The same property holds in the outbox run, where the role is exempt |
| doc_cancel | the cancel request of a query that has ended, or the read deadline set with it, ends the statement of the next request on that connection |

Other disagreements met while modelling, without a run of their own.

Artifact versions, outbox, audit, idempotency:

- With version 2 in CHANGES_REQUESTED and version 1 approved afterwards, `Revise` tries to create version 2 again and meets
  the primary key for good (`service.go` 601 and 678; `03-state-machines.md` 47 has the edge without a guard).
- SoD-1 lets a co-author approve (`abac.go` 158): the architecture documents say "must not be its sole author"
  (`05-authorization-model.md` 165), README 639 says that an approver may not have authored any version, and `abac.go` 89 that one
  cosmetic edit of a colleague does not defeat the rule, which it does. `NotSoleAuthor` is the first of these.
- A FROZEN version neither blocks a revision nor is superseded by the next approval
  (`service.go` 657, `infra/postgres.go` 575; `03-state-machines.md` 48 and 49 say both).
- A permanently failing event blocks the others for ever: its attempt counter is written in the transaction that its error
  rolls back (`outbox.go` 300; the comment at 298 says that it eventually stops blocking the batch). `PublishPoison` has it;
  `EventuallyPublished` speaks of instances without such an event.
- `GC` of idempotency keys has no tenant session (`idempotency.go` 237), so under the documented role it removes nothing;
  no property speaks of it.
- Events go out in the order their transactions began, not the order they took effect (`outbox.go` 213; the comment at 69
  says events of one aggregate are strictly ordered).
- De-duplication is in the memory of a process, not in `processed_events` (`eventbus.go` 76; README 746); the
  worker's relay has no file log, so what it publishes never reaches the topic file (worker `main.go` 104).
- `Verify` ends at the last record there is, so a chain that lost its last records after the last anchor is
  reported valid (`writer.go` 142), and after a partition is detached a verification from the first
  record fails (`writer.go` 152). `DamageNeverCovered` and `NoFalseAlarm` state what does hold.
- A commit whose acknowledgement is lost is abandoned like a failure and a retry takes effect again
  (`middleware.go` 258); `EffectOnce` counts it. After a handler timeout the key is not released, because the release uses the
  cancelled context (258, the comment at 256). A response over 256 KiB is replayed with an empty body, where
  the comment at `idempotency.go` 159 speaks of running the request again; `ReplayFaithful` is about stored responses only.

Links and identifiers:

- The unique index also covers rejected links, so the same edge cannot be asserted again (`0002_artifact_graph.sql` 200;
  `tracelink.go` 105 says to create a new one).
- A rejection does not move `graph_version`, so answers cached under it may still hold the link (`app/links.go` 153;
  `08-lld.md` 388). Every step that adds to the graph does move it.
- A walk that meets an artifact in another version stops there without saying so, and the edge reported for a
  target is the last one only, any of several (`infra/links.go` 294).
- No lock is taken by `NextArtifactSequence`, whose comment says so (`infra/postgres.go` 225): the second of two creations is refused.

Tenancy and identity:

- `requireReason` sees the reason an earlier command left on the row (`tenant.go` 223). `AcceptsWrites` is asked only by
  `CreateProject` and outside its transaction, so a project may appear in a tenant suspended in between.
- Nothing but the CLI's seed provisions a tenant. The permission in the route table is not checked by itself (`routes.go`).
- Rows of one `created_at` at the end of a page are skipped; `PagesComplete` excludes equal times.
- The loser of two first sign-ins goes on with the row it finds, without comparing its tenant with the claim
  (`identity/app/service.go` 139); `AllowedByItsTenant` holds because grants are read by tenant. `resolveTenant` runs where no
  path values are set yet, so its comparison never fires (`middleware.go` 115); the model decides the tenant where the
  handlers do, in `Authorize`.
- A role that expired is honoured until its cache entry ends, as nothing reads the assignments again before a decision
  (`identity/app/service.go` 272; `cache.go` 8 says that anything security-relevant is re-verified against the database before it is
  acted on, and the worker, `main.go` 270, that access outliving its expiry is worse than none). `ExpiryTakesEffect`
  proves the bound there is, `TTL + FillTime`.
- A grants entry may be filled with what was read before an assignment; the window is fixed, where the package comment
  speaks of a sliding one; `Incr` does not keep the size bound of the cache; evicted counters start again.
- A Redis INCR that succeeds and whose PEXPIRE fails counts and passes; not modelled.

Database driver, sign-in, object store:

- COMMIT of a transaction the server has failed is answered with ROLLBACK and no error; `ToldCommitted` holds because
  `TxWith` rolls back on every error it saw. Neither the TLS negotiation nor COMMIT and ROLLBACK have a deadline.
- After a row that cannot be decoded, `rows.Close` reads no further (`pgwire/query.go` 290; the comment at 291 says the
  remainder is consumed so that the connection is reusable). Inside a transaction this is harmless: the answer of ROLLBACK is
  taken for the rest, and the connection is found out of step. After a read outside a transaction the connection goes back to
  the pool with the rest of the answer on it, and every later answer on it is taken for the one before: `SessionIsOwn` and
  `ToldCommitted` then fail. Nothing the code writes fails to decode, so the pool run has such a value
  inside a transaction only, and the proofs of these two name the condition (`PoolReadsDecode`). That a
  connection is handed out clean is not claimed.
- The refresh limit of the key set is checked before a fetch, without a lock, so several fetches may be under way
  (`jwks.go` 154 says once). While fetches fail, old keys are served however old; so are they when another request's fetch
  ends between the two looks at the cache, because the set read first decides (250 and 272). `WithdrawnKeyEnds` excludes both. A key that was rotated less than
  the refresh limit ago is refused. A wrong verifier burns the code; a replayed code does not revoke the tokens.
- The file system refuses other bytes for a locked key also after its retention, the database does not. Metadata is not synced to disk.

### Fairness

Two specifications have fairness. OutboxRelay: weak fairness of each relay's steps,
because `Run` loops on a ticker and the orchestrator restarts a process that
ended; transactions and faults are never forced, and `MaxFaults` makes faults finite.
ConnPool: deadlines come (`Timeout` middleware), and what waits or reads under an ended context gives up; a statement
within its deadline need never be answered. The TLS negotiation, COMMIT and ROLLBACK, which no deadline covers, are assumed
to be answered or to break.

## 4. Proofs

Eight modules prove for every value of the constants what the runs check on small instances. Six are about one component
each; PlatformProofs is about the outbox and the object store, CommandProofs about the commands of tenancy and the idempotency key
the server puts in front of them. Two components of one module share no state, and their names are kept apart: the
specification, types and inductive invariant of ObjectStore are `StoreSpec`, `StoreTypeOK` and `StoreInv`, those of Idempotency
`KeySpec`, `KeyTypeOK` and `KeyInv`.
Few of the properties are inductive by themselves. For each component an inductive invariant `IInv` is stated as a conjunction of
named parts; `Init` implies it, there is one lemma per action (or per kind of step), and the theorems follow.

**ArtifactVersionsProofs**: type correctness, soundness of optimistic writes, at most one approved version,
evidence for every approved version, matching hashes, four-eyes as SoD-1 has it, the gapless
chain, and the two action properties. A commit writes back
a copy read several steps before, so `IInv` says for each program counter how
the copies relate to the rows: a copy's `version_no` is at most the stored one, and equal only
if the copy is the stored row; past `putContent` the content is stored; past `putEvidence` the
document is, and it pins a hash that the version still has, because a version that has left
DRAFT keeps its body. `RowStep` names the ways a row may change and is proved once for every action.

**CommandProofs, idempotency keys**: type correctness, `ClaimHeld`, `EffectOnce`, `ReplayFaithful`
and `CompletedStays`. `EffectOnce` needs `Budget`: while the key can
be claimed or its claimant has not committed, every effect so far is one whose acknowledgement
was lost.

**PlatformProofs, outbox**: type correctness, `FactsLoggedFirst`, `DuplicatesOnlyAfterRollback`, `PublishedWasConsumed`.
`Apart` says that no two batches share a row, which is what SKIP LOCKED is for; `LoggedSoFar` and `ConsumedSoFar` say how far a
batch has come, so that marking it published is justified row by row; `LineBudget` says that an event no
relay has written since its last batch was given up has at most as many lines as batches were given up.

**AuditChainProofs**: type correctness, `ChainIntact`, `AnchorsOnChain`, `NoFalseAlarm`, `DamageNeverCovered`, and
`RefinesLog`, the refinement of AuditLog. As a hash is what it digests, the hash of record `i` is the prefix of length `i` of
the committed head: `RecordsOnChain` says so of every stored record, and that its payload is the one the head covers unless it was altered, `DraftsOnHead` of the record of
an open transaction, `AnchorsGenuine` of anchors at every step of `Anchor`, `VerifiersRead` of what a verification
holds between two of its reads. The head only grows, so all of these survive the steps of others. `ReportsRight` then says what a
report may claim of the records as they are. What follows along the chain is shown by the least counterexample (lemma
`Least`), because the provers cannot instantiate an induction scheme.

**SignInProofs**: type correctness, `OneGrantPerCode`, `AcceptedWhileValid`, `WithdrawnKeyEnds`. `CodesSpent` and `CodesApart` tie
every token to a code that is marked used; `Timely` bounds the age of every fetch under way by `FetchTime`; `CacheRecent` and
`AnswersRecent` say how old a key set may be that is stored or about to decide. The proof showed a condition that
the code meets and does not mention: the bound needs `FetchTime` to be at most the greater of `TTL` and `MinRefresh`, because a slow fetch of another
request may store its older set after one's own refresh.

**ConnPoolProofs**: type correctness and `SlotsAccounted` without condition; `SessionIsOwn` and
`ToldCommitted` under `PoolReadsDecode` (section 3). `Slots` relates the frames of all requests to the connections they hold; `Right` says for
the top frame what the driver believes, what the server's session is and what is left to read (`Session`), and for an idle
connection that it is clean or will be found bad by `ResetSession` (`RestOK`).

**PlatformProofs, object store**: type correctness, `LockedIsIntact`, `EvidenceKept`, and `RefinesWriteOnce`, the refinement of
WriteOnce. `Halfway` says what a write has done between its two files, `Covered` that the metadata of what was promised
locks those bytes for at least that long.

**IdentityProofs**: type correctness, `AllowedByItsTenant`, `ExpiredRoleEnds`, `LimitHolds`. `GrantsRight` says of the grants a request
holds and of those the cache holds that the tenant of the key assigned each role, and how long past its expiry the entry may
serve it; a principal that was resolved keeps its assignments, because only the provisioning of an unknown one
replaces them. `Windows` ties the life of a counter to its window; `Counters` says that the counter of the open window, unless it was evicted, has counted
every request that passed.

**TraceLinksProofs**: type correctness, `IdentifiersUnique`, `RejectedIsFinal`, `WalkAnswersExactly`, `ApprovedImpactSeen`.
The first two follow the races: `CreatedStored` says that a creation that was told it succeeded has its identifier in the table,
`ReviewsRead` that a review holds a row at most as new as the stored one, and that row itself where the numbers agree. The last
two are about operators and hold of every table of links (the types, and `EndsStored` for the impact set, are all they need of a reachable state).
`LevelSound` shows that every row of the query at depth `d` is a target at distance at most `d`. `LevelComplete` shows that, where
every artifact takes part with one version, each target at distance `d` has a row at depth `d`: a shortest way passes no artifact
twice, so the `visited` check never stops it. `BallFull` is the pigeonhole that makes reachability within `Cardinality(Refs)` hops
all there is. `SeverityStays` shows that the decay of a severity never takes an approved target below LOW.

**CommandProofs, tenancy**: type correctness (stored settings are valid settings), `TrailTellsState`, `PagesComplete`. `ReadsOld` says
that a copy is at most as new as its row and equal to it where `version_no` agrees, so that the record a command writes starts from the status the row has;
`RowsMade` that a row is blank before its first commit and has a time after it. `PagesComplete` is an argument about `PagesFrom` alone: `Sortable` shows that
ORDER BY has a result for every finite set of dated rows, `PageSplit` that a page and what comes before its cursor
are together what the page starts from, so that the function which gives everything before a cursor satisfies the equation of the pages, and is the only one that does.

Recursive functions (the levels of a walk, the distances of the reference definition, the pages of a listing, the decay of a severity) are
handled the same way everywhere: a function that satisfies the equation is shown to exist, the definition is then that function,
and what holds of all its values is shown by the least counterexample, because the provers cannot instantiate an induction scheme.

Assumptions, all named in the component modules: bounds are naturals; `None` (`Nil` in Idempotency) is none of the values it stands beside; `Events` of
the outbox, `Requests` of Identity, `Ids` of TraceLinks and `Tenants` of Tenancy are finite (other constant sets need not be); tenants
and projects have different identifiers, as UUIDs do, and a command about a project names one; `AddressedAssumption` of ObjectStore
and `TimeoutAssumption` of SignIn (section 2); the tenant of an API key in Identity. The proofs about hashes take SHA-256 to be injective.

Only model-checked: the liveness properties `EventuallyPublished` and `EveryRequestEnds`, because fairness and ENABLED are out of
reach of the prover. Every other property of a passing run is stated by a theorem.

## 5. Plan

Modelled: ArtifactVersions, OutboxRelay, AuditChain with AuditLog, Idempotency, TraceLinks, Tenancy, Identity,
ConnPool, SignIn, ObjectStore with WriteOnce. Next, in this order:

1. Action properties of the components that have proofs (anchors and log lines never go, a spent code stays spent).
2. The migrations runner (advisory lock), canonical JSON ordering as an operator.
3. The remaining separation-of-duties rules against a declarative reference.

## 6. Not modelled

Telemetry, configuration, problem formatting, DTOs and value types hold no state the
properties depend on. The web console and the CLI are clients of the services. The AI
platform consists of ports and a simulator. Of the modelled components: `MarkStale`, the type filter of a walk,
`ListLinks`, `DeletePrefix`, `UpdatePrincipal`, `DeleteRoleAssignment` and `RevokeAPIKey`, which nothing calls or which only
read; OIDC discovery, UserInfo and logout; the encoding of the wire protocol; the eviction of `seen` in the event bus.
Liveness under fairness stays with TLC.
