---------------------------- MODULE IdentityProofs ----------------------------
(***************************************************************************)
(* Proofs about Identity, for any tenants, principals, roles, requests and  *)
(* limits: a request is allowed by what its tenant gave its principal, a    *)
(* role that expired is used no longer than the cache may hold it, and a    *)
(* window lets no more requests through than its limit.                     *)
(***************************************************************************)
EXTENDS Identity, FiniteSetTheorems, TLAPS

ReqType == [step : Steps, grants : SUBSET Roles, at : Clock, counted : SUBSET Keys]

----------------------------------------------------------------------------
(* The inductive invariant. *)

\* The tenant gave the principal this role, and at a time n it had not expired for longer
\* than slack.
Backed(as, t, s, role, n, slack) ==
    \E a \in as : a.tenant = t /\ a.subject = s /\ a.role = role /\ n < a.expires + slack

\* What the tenant gave the principal, or its key, grants what the request needs.
Entitled(as, r) ==
    IF r.key = None
    THEN \E a \in as : a.tenant = r.path /\ a.subject = r.subject /\ r.need \in PermsOf[a.role]
    ELSE r.key.tenant = r.path /\ r.need \in r.key.perms \ Approvals

\* A request that went past provisioning has a principal, so that its roles are not replaced
\* any more; the roles it holds were assigned, and just now if it is about to cache them.
GoodReq(r, h, pr, as, now) ==
    /\ h.step \in {"provision", "grants", "list", "fill"} => r.key = None
    /\ r.key = None /\ h.step \notin {"new", "provision", "refused"} => pr[r.subject] # None
    /\ h.grants # {} => r.key = None /\ h.step \in {"fill", "limit", "tenant"}
    /\ \A x \in h.grants : Backed(as, r.tenant, r.subject, x, h.at, TTL + FillTime)
    /\ h.step = "fill" => /\ now <= h.at + FillTime
                          /\ \A x \in h.grants : Backed(as, r.tenant, r.subject, x, h.at, 0)
    /\ h.step = "allowed" => Entitled(as, r)

\* Roles that are cached were assigned, and the entry ends before they have been expired for
\* longer than TTL + FillTime.
GoodEntry(k, e, pr, as) ==
    k[2] = "grants" => \A x \in e.value : pr[k[3]] # None /\ Backed(as, k[1], k[3], x, e.until, TTL + FillTime)

GrantsRight ==
    /\ \A r \in Requests : GoodReq(r, req[r], principals, assigned, clock)
    /\ \A k \in DOMAIN data : GoodEntry(k, data[k], principals, assigned)

Passed(k) == {r \in Requests : k \in req[r].counted}

\* A counter lives through its window.
Windows == \A k \in DOMAIN data : k[2] # "grants" => k[4] \in Clock /\ data[k].until = k[4] + 2

\* Of the keys counted, those not lost are within the limit, and the counter of the window
\* that is open has counted them all.
Counters ==
    \A r \in Requests : \A k \in req[r].counted :
        /\ k[2] # "grants" /\ k[4] \in Clock /\ k[4] <= clock
        /\ k \notin lost => /\ Cardinality(Passed(k)) <= Effective(k)
                            /\ k[4] = clock => k \in DOMAIN data /\ Cardinality(Passed(k)) <= data[k].value

IInv == TypeOK /\ GrantsRight /\ Windows /\ Counters

----------------------------------------------------------------------------
(* Operators. *)

\* What makes room for a new entry.
LEMMA EvictFacts ==
    ASSUME NEW out \in EvictChoices
    PROVE  out \subseteq DOMAIN data
  BY DEF EvictChoices, kSubset, Expired

LEMMA KeyFacts ==
    ASSUME NEW r \in Requests, clock \in Clock
    PROVE  /\ GrantsKey(r.tenant, r.subject) \in Keys /\ GrantsKey(r.tenant, r.subject)[1] = r.tenant
           /\ GrantsKey(r.tenant, r.subject)[2] = "grants" /\ GrantsKey(r.tenant, r.subject)[3] = r.subject
           /\ CounterKey(r.tenant, "principal", r.subject) \in Keys
           /\ CounterKey(r.tenant, "principal", r.subject)[2] = "principal"
           /\ CounterKey(r.tenant, "principal", r.subject)[4] = clock
           /\ CounterKey(r.tenant, "tenant", None) \in Keys
           /\ CounterKey(r.tenant, "tenant", None)[2] = "tenant"
           /\ CounterKey(r.tenant, "tenant", None)[4] = clock
  <1>1. r.subject \in Subjects /\ r.tenant \in Tenants
    BY RequestsAssumption
  <1> QED BY <1>1 DEF GrantsKey, CounterKey, Key, Keys

\* Roles that a tenant gave stay where only those of unknown principals are replaced.
Keeps(pr, as, pr2, as2) ==
    /\ \A s \in Subjects : pr[s] # None => pr2[s] # None
    /\ \A a \in as : pr[a.subject] # None => a \in as2

LEMMA KeepsReq ==
    ASSUME NEW pr, NEW as, NEW pr2, NEW as2, Keeps(pr, as, pr2, as2),
           NEW r \in Requests, NEW h, NEW now, GoodReq(r, h, pr, as, now)
    PROVE  GoodReq(r, h, pr2, as2, now)
  <1>1. r.subject \in Subjects
    BY RequestsAssumption
  <1>2. r.key = None /\ h.step \notin {"new", "provision", "refused"} => pr[r.subject] # None /\ pr2[r.subject] # None
    BY <1>1 DEF GoodReq, Keeps
  <1>3. h.grants # {} => r.key = None /\ h.step \in {"fill", "limit", "tenant"} /\ pr[r.subject] # None
    BY <1>2 DEF GoodReq
  <1>4. ASSUME NEW x \in h.grants, NEW n, NEW m, Backed(as, r.tenant, r.subject, x, n, m)
        PROVE  Backed(as2, r.tenant, r.subject, x, n, m)
    <2>1. PICK a \in as : a.tenant = r.tenant /\ a.subject = r.subject /\ a.role = x /\ n < a.expires + m
      BY <1>4 DEF Backed
    <2>2. a \in as2
      BY <2>1, <1>3, <1>4 DEF Keeps
    <2> QED BY <2>1, <2>2 DEF Backed
  <1>5. h.step = "allowed" /\ Entitled(as, r) => Entitled(as2, r)
    BY <1>2 DEF Entitled, Keeps
  <1>6. \A x \in h.grants : Backed(as2, r.tenant, r.subject, x, h.at, TTL + FillTime)
    BY <1>4 DEF GoodReq
  <1>7. h.step = "fill" => /\ now <= h.at + FillTime
                           /\ \A x \in h.grants : Backed(as2, r.tenant, r.subject, x, h.at, 0)
    BY <1>4 DEF GoodReq
  <1>8. h.step = "allowed" => Entitled(as2, r)
    BY <1>5 DEF GoodReq
  <1>9. h.step \in {"provision", "grants", "list", "fill"} => r.key = None
    BY DEF GoodReq
  <1> QED BY <1>2, <1>3, <1>6, <1>7, <1>8, <1>9 DEF GoodReq

LEMMA KeepsEntry ==
    ASSUME NEW pr, NEW as, NEW pr2, NEW as2, Keeps(pr, as, pr2, as2),
           NEW k, NEW e, GoodEntry(k, e, pr, as), as \subseteq [tenant : Tenants, subject : Subjects, role : Roles, expires : Expiries]
    PROVE  GoodEntry(k, e, pr2, as2)
  <1> SUFFICES ASSUME k[2] = "grants", NEW x \in e.value
               PROVE  pr2[k[3]] # None /\ Backed(as2, k[1], k[3], x, e.until, TTL + FillTime)
    BY DEF GoodEntry
  <1>1. pr[k[3]] # None /\ Backed(as, k[1], k[3], x, e.until, TTL + FillTime)
    BY DEF GoodEntry
  <1>2. PICK a \in as : a.tenant = k[1] /\ a.subject = k[3] /\ a.role = x /\ e.until < a.expires + (TTL + FillTime)
    BY <1>1 DEF Backed
  <1>3. a \in as2 /\ k[3] \in Subjects
    BY <1>1, <1>2 DEF Keeps
  <1> QED BY <1>1, <1>2, <1>3 DEF Backed, Keeps

EntryType(k, e) ==
    /\ k \in Keys /\ e.until \in Nat
    /\ IF k[2] = "grants" THEN e.value \subseteq Roles ELSE e.value \in Nat \ {0}

\* A step of one request, which may put entries into the cache and lose others.
LEMMA ReqStep ==
    ASSUME TypeOK, GrantsRight, NEW r \in Requests, NEW h \in ReqType, req' = [req EXCEPT ![r] = h],
           UNCHANGED <<clock, adm>>, principals' \in [Subjects -> Tenants \cup {None}],
           assigned' \subseteq [tenant : Tenants, subject : Subjects, role : Roles, expires : Expiries],
           lost' \subseteq Keys, Keeps(principals, assigned, principals', assigned'),
           GoodReq(r, h, principals', assigned', clock),
           \A k \in DOMAIN data' : \/ k \in DOMAIN data /\ data'[k] = data[k]
                                   \/ EntryType(k, data'[k]) /\ GoodEntry(k, data'[k], principals, assigned)
    PROVE  TypeOK' /\ GrantsRight'
  <1>1. \A k \in DOMAIN data' : EntryType(k, data'[k]) /\ GoodEntry(k, data'[k], principals, assigned)
    BY DEF TypeOK, GrantsRight, EntryType
  <1>2. \A k \in DOMAIN data' : GoodEntry(k, data'[k], principals', assigned')
    BY <1>1, KeepsEntry DEF TypeOK
  <1>3. req' \in [Requests -> ReqType] /\ req'[r] = h /\ \A q \in Requests : q # r => req'[q] = req[q]
    BY DEF TypeOK, ReqType
  <1>4. \A q \in Requests : GoodReq(q, req'[q], principals', assigned', clock')
    <2> SUFFICES ASSUME NEW q \in Requests PROVE GoodReq(q, req'[q], principals', assigned', clock')
      OBVIOUS
    <2>1. CASE q = r
      BY <2>1, <1>3
    <2>2. CASE q # r
      <3>1. GoodReq(q, req[q], principals, assigned, clock)
        BY DEF GrantsRight
      <3>2. GoodReq(q, req[q], principals', assigned', clock)
        BY <3>1, KeepsReq
      <3> QED BY <2>2, <3>2, <1>3
    <2> QED BY <2>1, <2>2
  <1>5. TypeOK'
    BY <1>1, <1>3 DEF TypeOK, EntryType, ReqType
  <1>6. GrantsRight'
    BY <1>2, <1>4 DEF GrantsRight, GoodReq, GoodEntry, Backed, Entitled
  <1> QED BY <1>5, <1>6

\* The common case: neither principals nor roles change.
LEMMA QuietStep ==
    ASSUME TypeOK, GrantsRight, NEW r \in Requests, NEW h \in ReqType, req' = [req EXCEPT ![r] = h],
           UNCHANGED <<clock, principals, assigned, adm>>, lost' \subseteq Keys,
           GoodReq(r, h, principals, assigned, clock),
           \A k \in DOMAIN data' : \/ k \in DOMAIN data /\ data'[k] = data[k]
                                   \/ EntryType(k, data'[k]) /\ GoodEntry(k, data'[k], principals, assigned)
    PROVE  TypeOK' /\ GrantsRight'
  <1>1. Keeps(principals, assigned, principals', assigned')
    BY DEF Keeps
  <1>2. principals' \in [Subjects -> Tenants \cup {None}]
        /\ assigned' \subseteq [tenant : Tenants, subject : Subjects, role : Roles, expires : Expiries]
    BY DEF TypeOK
  <1>3. GoodReq(r, h, principals', assigned', clock)
    OBVIOUS
  <1> QED BY <1>1, <1>2, <1>3, ReqStep

\* A request is answered and forgets what it held.
LEMMA EndsFacts ==
    ASSUME TypeOK, GrantsRight, NEW r \in Requests, NEW step \in {"refused", "limited"}, Ends(r, step),
           step = "limited" => req[r].step = "limit",
           UNCHANGED <<clock, principals, assigned, adm>>, lost' \subseteq Keys,
           \A k \in DOMAIN data' : \/ k \in DOMAIN data /\ data'[k] = data[k]
                                   \/ EntryType(k, data'[k]) /\ GoodEntry(k, data'[k], principals, assigned)
    PROVE  TypeOK' /\ GrantsRight'
  <1> DEFINE h == [NotSeen EXCEPT !.step = step]
  <1>1. h = [step |-> step, grants |-> {}, at |-> 0, counted |-> {}]
    BY DEF NotSeen
  <1>2. h \in ReqType /\ h.step = step /\ h.grants = {}
    BY <1>1, BoundsAssumption DEF ReqType, Steps, Clock
  <1>3. req' = [req EXCEPT ![r] = h]
    BY DEF Ends
  <1> HIDE DEF h
  <1>4. r.key = None /\ step = "limited" => principals[r.subject] # None
    BY DEF GrantsRight, GoodReq
  <1>5. GoodReq(r, h, principals, assigned, clock)
    BY <1>2, <1>4 DEF GoodReq
  <1> QED BY <1>2, <1>3, <1>5, QuietStep

\* A request goes on and holds what it held.
LEMMA GotoFacts ==
    ASSUME TypeOK, GrantsRight, NEW r \in Requests, NEW step \in Steps, Goto(r, step),
           step \notin {"fill", "allowed"},
           req[r].grants # {} => step \in {"limit", "tenant"},
           step \in {"provision", "grants", "list"} => r.key = None,
           r.key = None /\ step # "provision" => principals[r.subject] # None,
           UNCHANGED <<clock, principals, assigned, adm>>, lost' \subseteq Keys,
           \A k \in DOMAIN data' : \/ k \in DOMAIN data /\ data'[k] = data[k]
                                   \/ EntryType(k, data'[k]) /\ GoodEntry(k, data'[k], principals, assigned)
    PROVE  TypeOK' /\ GrantsRight'
  <1> DEFINE h == [req[r] EXCEPT !.step = step]
  <1>1. req[r] \in ReqType
    BY DEF TypeOK, ReqType
  <1>2. h \in ReqType /\ h.step = step /\ h.grants = req[r].grants /\ h.at = req[r].at
    BY <1>1 DEF ReqType
  <1>3. req' = [req EXCEPT ![r] = h]
    BY DEF Goto
  <1>4. GoodReq(r, req[r], principals, assigned, clock)
    BY DEF GrantsRight
  <1> HIDE DEF h
  <1>5. GoodReq(r, h, principals, assigned, clock)
    BY <1>2, <1>4 DEF GoodReq
  <1> QED BY <1>2, <1>3, <1>5, QuietStep

\* A request that is new, or is being provisioned, holds nothing.
LEMMA HoldsNothing ==
    ASSUME TypeOK, GrantsRight, NEW r \in Requests, req[r].step \in {"new", "provision", "grants", "list"}
    PROVE  req[r].grants = {}
  BY DEF GrantsRight, GoodReq

LEMMA FindPrincipalGrants ==
    ASSUME TypeOK, GrantsRight, NEW r \in Requests, FindPrincipal(r)
    PROVE  TypeOK' /\ GrantsRight'
  <1>1. req[r].step = "new" /\ r.key = None /\ UNCHANGED <<clock, principals, assigned, data, lost, adm>>
    BY DEF FindPrincipal, Comes
  <1>2. req[r].grants = {} /\ lost' \subseteq Keys /\ \A k \in DOMAIN data' : k \in DOMAIN data /\ data'[k] = data[k]
    BY <1>1, HoldsNothing DEF TypeOK
  <1>3. r.tenant \in Tenants /\ r.tenant # None
    BY RequestsAssumption, NoneAssumption
  <1>4. CASE principals[r.subject] = None
    <2>1. Goto(r, "provision") /\ "provision" \in Steps
      BY <1>3, <1>4 DEF FindPrincipal, Steps
    <2> QED BY <2>1, <1>1, <1>2, GotoFacts
  <1>5. CASE principals[r.subject] = r.tenant
    <2>1. Goto(r, "grants") /\ "grants" \in Steps
      BY <1>3, <1>5 DEF FindPrincipal, Steps
    <2> QED BY <2>1, <1>1, <1>2, <1>3, <1>5, GotoFacts
  <1>6. CASE principals[r.subject] # None /\ principals[r.subject] # r.tenant
    <2>1. Ends(r, "refused")
      BY <1>6 DEF FindPrincipal
    <2> QED BY <2>1, <1>1, <1>2, EndsFacts
  <1> QED BY <1>4, <1>5, <1>6

LEMMA ProvisionGrants ==
    ASSUME TypeOK, GrantsRight, NEW r \in Requests, Provision(r)
    PROVE  TypeOK' /\ GrantsRight'
  <1> DEFINE h == [req[r] EXCEPT !.step = "grants"]
             made == {[tenant |-> r.tenant, subject |-> r.subject, role |-> x, expires |-> Never] : x \in r.mapped}
  <1>1. req[r].step = "provision" /\ UNCHANGED <<clock, data, lost, adm>> /\ Goto(r, "grants")
    BY DEF Provision
  <1>2. /\ r.tenant \in Tenants /\ r.tenant # None /\ r.subject \in Subjects /\ r.mapped \subseteq Roles
        /\ Never \in Expiries
    BY RequestsAssumption, NoneAssumption, BoundsAssumption DEF Expiries, Never
  <1>3. req[r].grants = {} /\ req[r] \in ReqType /\ r.key = None
    BY <1>1, HoldsNothing DEF TypeOK, ReqType, GrantsRight, GoodReq
  <1>4. h \in ReqType /\ h.step = "grants" /\ h.grants = {} /\ req' = [req EXCEPT ![r] = h]
    BY <1>1, <1>3 DEF ReqType, Steps, Goto
  <1> HIDE DEF h
  <1>5. /\ principals' \in [Subjects -> Tenants \cup {None}] /\ principals'[r.subject] # None
        /\ assigned' \subseteq [tenant : Tenants, subject : Subjects, role : Roles, expires : Expiries]
        /\ Keeps(principals, assigned, principals', assigned')
    <2>1. CASE principals[r.subject] = None
      <3>1. /\ principals' = [principals EXCEPT ![r.subject] = r.tenant]
            /\ \/ assigned' = assigned
               \/ assigned' = {a \in assigned : a.tenant # r.tenant \/ a.subject # r.subject} \cup made
        BY <2>1 DEF Provision
      <3>2. made \subseteq [tenant : Tenants, subject : Subjects, role : Roles, expires : Expiries]
        BY <1>2
      <3> HIDE DEF made
      <3>3. principals' \in [Subjects -> Tenants \cup {None}] /\ principals'[r.subject] # None
        BY <3>1, <1>2 DEF TypeOK
      <3>4. assigned' \subseteq [tenant : Tenants, subject : Subjects, role : Roles, expires : Expiries]
        BY <3>1, <3>2 DEF TypeOK
      <3>5. \A s \in Subjects : principals[s] # None => principals'[s] # None
        BY <3>1, <1>2 DEF TypeOK
      <3>6. \A a \in assigned : principals[a.subject] # None => a \in assigned'
        BY <3>1, <2>1
      <3> QED BY <3>3, <3>4, <3>5, <3>6 DEF Keeps
    <2>2. CASE principals[r.subject] # None
      BY <2>2 DEF Provision, TypeOK, Keeps
    <2> QED BY <2>1, <2>2
  <1>6. GoodReq(r, h, principals', assigned', clock)
    BY <1>3, <1>4, <1>5 DEF GoodReq
  <1>7. lost' \subseteq Keys /\ \A k \in DOMAIN data' : k \in DOMAIN data /\ data'[k] = data[k]
    BY <1>1 DEF TypeOK
  <1> QED BY <1>1, <1>4, <1>5, <1>6, <1>7, ReqStep

LEMMA ProvisionFailsGrants ==
    ASSUME TypeOK, GrantsRight, NEW r \in Requests, ProvisionFails(r)
    PROVE  TypeOK' /\ GrantsRight'
  <1>1. UNCHANGED <<clock, principals, assigned, data, lost, adm>> /\ Ends(r, "refused")
    BY DEF ProvisionFails
  <1>2. lost' \subseteq Keys /\ \A k \in DOMAIN data' : k \in DOMAIN data /\ data'[k] = data[k]
    BY <1>1 DEF TypeOK
  <1> QED BY <1>1, <1>2, EndsFacts

\* Roles are taken from the cache or the table.
LEMMA HoldFacts ==
    ASSUME TypeOK, GrantsRight, NEW r \in Requests, NEW gs \in SUBSET Roles, NEW step \in {"limit", "fill"},
           HoldGrants(r, gs, step), r.key = None, principals[r.subject] # None,
           \A x \in gs : Backed(assigned, r.tenant, r.subject, x, clock, TTL + FillTime),
           step = "fill" => \A x \in gs : Backed(assigned, r.tenant, r.subject, x, clock, 0),
           UNCHANGED <<clock, principals, assigned, data, lost, adm>>
    PROVE  TypeOK' /\ GrantsRight'
  <1> DEFINE h == [req[r] EXCEPT !.step = step, !.grants = gs, !.at = clock]
  <1>1. req[r] \in ReqType /\ clock \in Clock /\ clock \in Nat /\ FillTime \in Nat
    BY BoundsAssumption DEF TypeOK, ReqType, Clock
  <1>2. h \in ReqType /\ h.step = step /\ h.grants = gs /\ h.at = clock
    BY <1>1 DEF ReqType, Steps
  <1>3. req' = [req EXCEPT ![r] = h]
    BY DEF HoldGrants
  <1> HIDE DEF h
  <1>4. GoodReq(r, h, principals, assigned, clock)
    BY <1>1, <1>2 DEF GoodReq
  <1>5. lost' \subseteq Keys /\ \A k \in DOMAIN data' : k \in DOMAIN data /\ data'[k] = data[k]
    BY DEF TypeOK
  <1> QED BY <1>2, <1>3, <1>4, <1>5, QuietStep

LEMMA CacheGetGrants ==
    ASSUME TypeOK, GrantsRight, NEW r \in Requests, CacheGet(r)
    PROVE  TypeOK' /\ GrantsRight'
  <1> DEFINE k == GrantsKey(r.tenant, r.subject)
  <1>1. req[r].step = "grants" /\ UNCHANGED <<clock, principals, assigned, data, lost, adm>>
    BY DEF CacheGet
  <1>2. k \in Keys /\ k[1] = r.tenant /\ k[2] = "grants" /\ k[3] = r.subject
    BY KeyFacts DEF TypeOK
  <1>3. r.key = None /\ principals[r.subject] # None /\ req[r].grants = {}
    BY <1>1, HoldsNothing DEF GrantsRight, GoodReq
  <1> HIDE DEF k
  <1>4. CASE Live(k) /\ HoldGrants(r, data[k].value, "limit")
    <2>1. k \in DOMAIN data /\ clock <= data[k].until
      BY <1>4 DEF Live
    <2>2. data[k].value \subseteq Roles /\ data[k].until \in Nat /\ clock \in Nat
      BY <2>1, <1>2, BoundsAssumption DEF TypeOK, Clock
    <2>3. \A x \in data[k].value : Backed(assigned, r.tenant, r.subject, x, data[k].until, TTL + FillTime)
      BY <2>1, <1>2 DEF GrantsRight, GoodEntry
    <2>4. ASSUME NEW x \in data[k].value
          PROVE  Backed(assigned, r.tenant, r.subject, x, clock, TTL + FillTime)
      <3>1. PICK a \in assigned : /\ a.tenant = r.tenant /\ a.subject = r.subject /\ a.role = x
                                  /\ data[k].until < a.expires + (TTL + FillTime)
        BY <2>3, <2>4 DEF Backed
      <3>2. a.expires \in Nat /\ TTL + FillTime \in Nat
        BY <3>1, BoundsAssumption DEF TypeOK, Expiries, Never
      <3>3. clock < a.expires + (TTL + FillTime)
        BY <3>1, <3>2, <2>1, <2>2
      <3> QED BY <3>1, <3>3 DEF Backed
    <2> QED BY <2>2, <2>4, <1>1, <1>3, <1>4, HoldFacts
  <1>5. CASE Goto(r, "list")
    <2>1. lost' \subseteq Keys /\ \A j \in DOMAIN data' : j \in DOMAIN data /\ data'[j] = data[j]
      BY <1>1 DEF TypeOK
    <2>2. "list" \in Steps
      BY DEF Steps
    <2> QED BY <2>1, <2>2, <1>1, <1>3, <1>5, GotoFacts
  <1> QED BY <1>4, <1>5 DEF CacheGet, k

LEMMA ListGrants ==
    ASSUME TypeOK, GrantsRight, NEW r \in Requests, ListRoleAssignments(r)
    PROVE  TypeOK' /\ GrantsRight'
  <1> DEFINE own == {x \in assigned : x.tenant = r.tenant /\ x.subject = r.subject /\ Active(x)}
             gs == {a.role : a \in own}
  <1>1. req[r].step = "list" /\ UNCHANGED <<clock, principals, assigned, data, lost, adm>> /\ HoldGrants(r, gs, "fill")
    BY DEF ListRoleAssignments
  <1>2. r.key = None /\ principals[r.subject] # None
    BY <1>1 DEF GrantsRight, GoodReq
  <1>3. gs \subseteq Roles
    BY DEF TypeOK
  <1>4. ASSUME NEW x \in gs
        PROVE  /\ Backed(assigned, r.tenant, r.subject, x, clock, 0)
               /\ Backed(assigned, r.tenant, r.subject, x, clock, TTL + FillTime)
    <2>1. PICK a \in assigned : a.tenant = r.tenant /\ a.subject = r.subject /\ a.role = x /\ clock < a.expires
      BY <1>4 DEF Active
    <2>2. a.expires \in Nat /\ TTL + FillTime \in Nat /\ clock \in Nat
      BY <2>1, BoundsAssumption DEF TypeOK, Expiries, Never, Clock
    <2>3. clock < a.expires + 0 /\ clock < a.expires + (TTL + FillTime)
      BY <2>1, <2>2
    <2> QED BY <2>1, <2>3 DEF Backed
  <1> HIDE DEF gs
  <1> QED BY <1>1, <1>2, <1>3, <1>4, HoldFacts

LEMMA CacheSetGrants ==
    ASSUME TypeOK, GrantsRight, NEW r \in Requests, CacheSet(r)
    PROVE  TypeOK' /\ GrantsRight'
  <1> DEFINE k == GrantsKey(r.tenant, r.subject)
             e == Entry(req[r].grants, TTL)
  <1>1. req[r].step = "fill" /\ Goto(r, "limit") /\ UNCHANGED <<clock, principals, assigned, adm>>
    BY DEF CacheSet
  <1>2. k \in Keys /\ k[1] = r.tenant /\ k[2] = "grants" /\ k[3] = r.subject
    BY KeyFacts DEF TypeOK
  <1>3. /\ r.key = None /\ principals[r.subject] # None /\ clock <= req[r].at + FillTime
        /\ \A x \in req[r].grants : Backed(assigned, r.tenant, r.subject, x, req[r].at, 0)
    BY <1>1 DEF GrantsRight, GoodReq
  <1>4. clock \in Nat /\ req[r].at \in Nat /\ req[r].grants \subseteq Roles /\ TTL \in Nat /\ FillTime \in Nat
    BY BoundsAssumption DEF TypeOK, Clock
  <1>5. e.value = req[r].grants /\ e.until = clock + TTL
    BY DEF Entry
  <1> HIDE DEF k, e
  <1>6. EntryType(k, e)
    BY <1>2, <1>4, <1>5 DEF EntryType
  <1>7. GoodEntry(k, e, principals, assigned)
    <2> SUFFICES ASSUME NEW x \in req[r].grants
                 PROVE  Backed(assigned, r.tenant, r.subject, x, clock + TTL, TTL + FillTime)
      BY <1>2, <1>3, <1>5 DEF GoodEntry
    <2>1. PICK a \in assigned : a.tenant = r.tenant /\ a.subject = r.subject /\ a.role = x /\ req[r].at < a.expires + 0
      BY <1>3 DEF Backed
    <2>2. a.expires \in Nat
      BY <2>1, BoundsAssumption DEF TypeOK, Expiries, Never
    <2>3. clock + TTL < a.expires + (TTL + FillTime)
      BY <2>1, <2>2, <1>3, <1>4
    <2> QED BY <2>1, <2>3 DEF Backed
  <1>8. lost' \subseteq Keys
        /\ \A j \in DOMAIN data' : (j \in DOMAIN data /\ data'[j] = data[j]) \/ (j = k /\ data'[j] = e)
    <2>1. CASE UNCHANGED <<data, lost>>
      BY <2>1 DEF TypeOK
    <2>2. ASSUME NEW out \in EvictChoices, data' = With(Without(data, out), k, e),
                 lost' = lost \cup {j \in out \ Expired : j[2] # "grants"}
          PROVE  lost' \subseteq Keys
                 /\ \A j \in DOMAIN data' : (j \in DOMAIN data /\ data'[j] = data[j]) \/ (j = k /\ data'[j] = e)
      <3>1. out \subseteq DOMAIN data
        BY EvictFacts
      <3>2. lost' \subseteq Keys
        BY <3>1, <2>2 DEF TypeOK
      <3>3. /\ DOMAIN data' = (DOMAIN data \ out) \cup {k} /\ data'[k] = e
            /\ \A j \in DOMAIN data \ out : j # k => data'[j] = data[j]
        <4>1. PICK d : d = Without(data, out)
          OBVIOUS
        <4>2. DOMAIN d = DOMAIN data \ out /\ \A j \in DOMAIN d : d[j] = data[j]
          BY <4>1 DEF Without
        <4>3. data' = With(d, k, e)
          BY <4>1, <2>2
        <4> QED BY <4>2, <4>3 DEF With
      <3> QED BY <3>2, <3>3
    <2> QED BY <2>1, <2>2 DEF CacheSet, k, e
  <1>9. "limit" \in Steps
    BY DEF Steps
  <1> QED BY <1>1, <1>3, <1>6, <1>7, <1>8, <1>9, GotoFacts

LEMMA APIKeyGrants ==
    ASSUME TypeOK, GrantsRight, NEW r \in Requests, AuthenticateAPIKey(r)
    PROVE  TypeOK' /\ GrantsRight'
  <1>1. req[r].step = "new" /\ r.key # None /\ UNCHANGED <<clock, principals, assigned, data, lost, adm>>
        /\ (Ends(r, "refused") \/ Goto(r, "limit"))
    BY DEF AuthenticateAPIKey, Comes
  <1>2. lost' \subseteq Keys /\ \A j \in DOMAIN data' : j \in DOMAIN data /\ data'[j] = data[j]
    BY <1>1 DEF TypeOK
  <1>3. req[r].grants = {} /\ "limit" \in Steps
    BY <1>1, HoldsNothing DEF Steps
  <1>4. CASE Ends(r, "refused")
    BY <1>1, <1>2, <1>4, EndsFacts
  <1>5. CASE Goto(r, "limit")
    BY <1>1, <1>2, <1>3, <1>5, GotoFacts
  <1> QED BY <1>1, <1>4, <1>5

\* What a counter becomes.
LEMMA CountedFacts ==
    ASSUME TypeOK, NEW k \in Keys, k[2] # "grants", data' = Counted(data, k)
    PROVE  /\ DOMAIN data' = DOMAIN data \cup {k}
           /\ data'[k].value = Incr(k) /\ Incr(k) \in Nat \ {0}
           /\ data'[k].until = (IF Live(k) THEN data[k].until ELSE clock + 2) /\ data'[k].until \in Nat
           /\ \A j \in DOMAIN data : j # k => data'[j] = data[j]
           /\ \A j \in DOMAIN data' : \/ j \in DOMAIN data /\ data'[j] = data[j]
                                      \/ EntryType(j, data'[j]) /\ GoodEntry(j, data'[j], principals, assigned)
  <1> DEFINE e == [value |-> Incr(k), until |-> IF Live(k) THEN data[k].until ELSE clock + 2]
  <1>1. data' = With(data, k, e)
    BY DEF Counted
  <1>2. clock \in Nat
    BY BoundsAssumption DEF TypeOK, Clock
  <1>3. Incr(k) \in Nat \ {0}
    <2>1. CASE Live(k)
      <3>1. data[k].value \in Nat \ {0}
        BY <2>1 DEF Live, TypeOK
      <3> QED BY <2>1, <3>1 DEF Incr
    <2>2. CASE ~Live(k)
      BY <2>2 DEF Incr
    <2> QED BY <2>1, <2>2
  <1>4. e.value = Incr(k) /\ e.until = (IF Live(k) THEN data[k].until ELSE clock + 2) /\ e.until \in Nat
    <2>1. Live(k) => data[k].until \in Nat
      BY DEF Live, TypeOK
    <2> QED BY <2>1, <1>2
  <1> HIDE DEF e
  <1>5. /\ DOMAIN data' = DOMAIN data \cup {k} /\ data'[k] = e
        /\ \A j \in DOMAIN data : j # k => data'[j] = data[j]
    BY <1>1 DEF With
  <1>6. EntryType(k, e) /\ GoodEntry(k, e, principals, assigned)
    BY <1>3, <1>4 DEF EntryType, GoodEntry
  <1> QED BY <1>3, <1>4, <1>5, <1>6

LEMMA LimitPrincipalGrants ==
    ASSUME TypeOK, GrantsRight, NEW r \in Requests, LimitPrincipal(r)
    PROVE  TypeOK' /\ GrantsRight'
  <1> DEFINE k == CounterKey(r.tenant, "principal", r.subject)
             h == [req[r] EXCEPT !.step = "tenant", !.counted = {k}]
  <1>1. req[r].step = "limit" /\ UNCHANGED <<clock, principals, assigned, lost, adm>>
    BY DEF LimitPrincipal
  <1>2. k \in Keys /\ k[2] # "grants" /\ lost' \subseteq Keys
    BY <1>1, KeyFacts DEF TypeOK
  <1>3. req[r] \in ReqType /\ GoodReq(r, req[r], principals, assigned, clock)
    BY DEF TypeOK, ReqType, GrantsRight
  <1> HIDE DEF k
  <1>4. CASE data' = Counted(data, k) /\ Ends(r, "limited")
    BY <1>1, <1>2, <1>4, CountedFacts, EndsFacts
  <1>5. CASE data' = Counted(data, k) /\ req' = [req EXCEPT ![r] = h]
    <2>1. h \in ReqType /\ h.step = "tenant" /\ h.grants = req[r].grants /\ h.at = req[r].at
      BY <1>2, <1>3 DEF ReqType, Steps
    <2> HIDE DEF h
    <2>2. GoodReq(r, h, principals, assigned, clock)
      BY <2>1, <1>1, <1>3 DEF GoodReq
    <2> QED BY <2>1, <2>2, <1>1, <1>2, <1>5, CountedFacts, QuietStep
  <1>6. CASE Goto(r, "tenant") /\ UNCHANGED data
    <2>1. \A j \in DOMAIN data' : j \in DOMAIN data /\ data'[j] = data[j]
      BY <1>6
    <2>2. "tenant" \in Steps /\ (r.key = None => principals[r.subject] # None)
      BY <1>1, <1>3 DEF Steps, GoodReq
    <2> QED BY <2>1, <2>2, <1>1, <1>2, <1>6, GotoFacts
  <1> QED BY <1>4, <1>5, <1>6 DEF LimitPrincipal, k

\* A decision in favour of a request has a reason.
LEMMA AllowedHasReason ==
    ASSUME TypeOK, GrantsRight, NEW r \in Requests, Authorize(r)
    PROVE  Entitled(assigned, r)
  <1>1. CASE r.key = None
    <2>1. PICK x \in req[r].grants : r.need \in PermsOf[x]
      BY <1>1 DEF Authorize, PermissionsOf, Resolve
    <2>2. Backed(assigned, r.tenant, r.subject, x, req[r].at, TTL + FillTime)
      BY <2>1 DEF GrantsRight, GoodReq
    <2> QED BY <2>1, <2>2, <1>1 DEF Backed, Entitled, Authorize
  <1>2. CASE r.key # None
    <2>1. r.key.tenant = r.tenant
      BY <1>2, RequestsAssumption
    <2> QED BY <2>1, <1>2 DEF Authorize, PermissionsOf, ServiceAccountSet, Entitled
  <1> QED BY <1>1, <1>2

\* What a request that is through still holds.
LEMMA ClosedReq ==
    ASSUME NEW step \in Steps, NEW cs \in SUBSET Keys
    PROVE  /\ [NotSeen EXCEPT !.step = step, !.counted = cs] \in ReqType
           /\ [NotSeen EXCEPT !.step = step, !.counted = cs].step = step
           /\ [NotSeen EXCEPT !.step = step, !.counted = cs].grants = {}
           /\ [NotSeen EXCEPT !.step = step, !.counted = cs].counted = cs
  <1>1. 0 \in Clock
    BY BoundsAssumption DEF Clock
  <1>2. NotSeen \in ReqType /\ NotSeen.grants = {}
    BY <1>1 DEF NotSeen, ReqType, Steps
  <1> QED BY <1>2 DEF ReqType

\* The last step of a request.
LEMMA ClosesFacts ==
    ASSUME TypeOK, GrantsRight, NEW r \in Requests, req[r].step = "tenant",
           NEW step \in {"limited", Decision(r)}, NEW cs \in SUBSET Keys,
           req' = [req EXCEPT ![r] = [NotSeen EXCEPT !.step = step, !.counted = cs]],
           UNCHANGED <<clock, principals, assigned, lost, adm>>,
           \A k \in DOMAIN data' : \/ k \in DOMAIN data /\ data'[k] = data[k]
                                   \/ EntryType(k, data'[k]) /\ GoodEntry(k, data'[k], principals, assigned)
    PROVE  TypeOK' /\ GrantsRight'
  <1>1. PICK h : h = [NotSeen EXCEPT !.step = step, !.counted = cs]
    OBVIOUS
  <1>2. step \in {"limited", "allowed", "denied"} /\ (step = "allowed" => Authorize(r))
    BY DEF Decision
  <1>3. step \in Steps
    BY <1>2 DEF Steps
  <1>4. h \in ReqType /\ h.step = step /\ h.grants = {}
    BY <1>1, <1>3, ClosedReq
  <1>5. req' = [req EXCEPT ![r] = h]
    BY <1>1
  <1>6. r.key = None => principals[r.subject] # None
    BY DEF GrantsRight, GoodReq
  <1>7. step = "allowed" => Entitled(assigned, r)
    BY <1>2, AllowedHasReason
  <1>8. GoodReq(r, h, principals, assigned, clock)
    BY <1>2, <1>4, <1>6, <1>7 DEF GoodReq
  <1>9. lost' \subseteq Keys
    BY DEF TypeOK
  <1> QED BY <1>4, <1>5, <1>8, <1>9, QuietStep

LEMMA LimitTenantGrants ==
    ASSUME TypeOK, GrantsRight, NEW r \in Requests, LimitTenant(r)
    PROVE  TypeOK' /\ GrantsRight'
  <1> DEFINE k == CounterKey(r.tenant, "tenant", None)
             Closes(step, counted) == req' = [req EXCEPT ![r] = [NotSeen EXCEPT !.step = step, !.counted = counted]]
  <1>1. req[r].step = "tenant" /\ UNCHANGED <<clock, principals, assigned, lost, adm>>
    BY DEF LimitTenant
  <1>2. k \in Keys /\ k[2] # "grants" /\ req[r].counted \in SUBSET Keys /\ req[r].counted \cup {k} \in SUBSET Keys
    BY KeyFacts DEF TypeOK
  <1> HIDE DEF k
  <1>3. CASE data' = Counted(data, k) /\ Closes("limited", req[r].counted)
    BY <1>1, <1>2, <1>3, CountedFacts, ClosesFacts
  <1>4. CASE data' = Counted(data, k) /\ Closes(Decision(r), req[r].counted \cup {k})
    BY <1>1, <1>2, <1>4, CountedFacts, ClosesFacts
  <1>5. CASE Closes(Decision(r), req[r].counted) /\ UNCHANGED data
    <2>1. \A j \in DOMAIN data' : j \in DOMAIN data /\ data'[j] = data[j]
      BY <1>5
    <2> QED BY <2>1, <1>1, <1>2, <1>5, ClosesFacts
  <1> QED BY <1>3, <1>4, <1>5 DEF LimitTenant, k

\* Steps that no request takes: roles are added, entries dropped, time passes.
LEMMA OtherStep ==
    ASSUME TypeOK, GrantsRight, UNCHANGED <<principals, req, lost>>, assigned \subseteq assigned',
           assigned' \subseteq [tenant : Tenants, subject : Subjects, role : Roles, expires : Expiries],
           adm' \in [Assignments -> {"new", "committed", "done"}], clock' \in Clock,
           \A r \in Requests : req[r].step = "fill" => clock' <= req[r].at + FillTime,
           \A k \in DOMAIN data' : k \in DOMAIN data /\ data'[k] = data[k]
    PROVE  TypeOK' /\ GrantsRight'
  <1>1. Keeps(principals, assigned, principals', assigned')
    BY DEF Keeps
  <1>2. TypeOK'
    BY DEF TypeOK
  <1>3. \A r \in Requests : GoodReq(r, req'[r], principals', assigned', clock')
    <2> SUFFICES ASSUME NEW r \in Requests PROVE GoodReq(r, req[r], principals', assigned', clock')
      OBVIOUS
    <2>1. GoodReq(r, req[r], principals', assigned', clock)
      BY <1>1, KeepsReq DEF GrantsRight
    <2> QED BY <2>1 DEF GoodReq
  <1>4. \A k \in DOMAIN data' : GoodEntry(k, data'[k], principals', assigned')
    <2> SUFFICES ASSUME NEW k \in DOMAIN data, data'[k] = data[k]
                 PROVE  GoodEntry(k, data[k], principals', assigned')
      BY <1>1
    <2>1. GoodEntry(k, data[k], principals, assigned)
      BY DEF GrantsRight
    <2> QED BY <2>1, <1>1, KeepsEntry DEF TypeOK
  <1>5. GrantsRight'
    BY <1>3, <1>4 DEF GrantsRight, GoodReq, GoodEntry, Backed, Entitled
  <1> QED BY <1>2, <1>5

\* Everyone who is about to cache roles read them in time.
LEMMA FillInTime ==
    ASSUME GrantsRight
    PROVE  \A r \in Requests : req[r].step = "fill" => clock <= req[r].at + FillTime
  BY DEF GrantsRight, GoodReq

LEMMA TickGrants ==
    ASSUME TypeOK, GrantsRight, Tick
    PROVE  TypeOK' /\ GrantsRight'
  <1>1. clock' = clock + 1 /\ clock < MaxClock /\ UNCHANGED <<principals, assigned, data, lost, req, adm>>
    BY DEF Tick
  <1>2. clock \in Nat /\ MaxClock \in Nat /\ FillTime \in Nat /\ clock' \in Clock
    BY <1>1, BoundsAssumption DEF TypeOK, Clock
  <1>3. \A r \in Requests : req[r].at \in Nat
    BY BoundsAssumption DEF TypeOK, Clock
  <1>4. \A r \in Requests : req[r].step = "fill" => clock' <= req[r].at + FillTime
    BY <1>1, <1>2, <1>3 DEF Tick
  <1>5. \A k \in DOMAIN data' : k \in DOMAIN data /\ data'[k] = data[k]
    BY <1>1
  <1>6. assigned' \subseteq [tenant : Tenants, subject : Subjects, role : Roles, expires : Expiries]
        /\ adm' \in [Assignments -> {"new", "committed", "done"}]
    BY <1>1 DEF TypeOK
  <1> QED BY <1>1, <1>2, <1>4, <1>5, <1>6, OtherStep

LEMMA OthersGrants ==
    ASSUME TypeOK, GrantsRight,
           Janitor \/ \E a \in Assignments : AssignRole(a) \/ InvalidateGrants(a)
    PROVE  TypeOK' /\ GrantsRight'
  <1>1. UNCHANGED <<clock, principals, req, lost>> /\ assigned \subseteq assigned'
        /\ \A k \in DOMAIN data' : k \in DOMAIN data /\ data'[k] = data[k]
    BY DEF Janitor, AssignRole, InvalidateGrants, Without
  <1>2. assigned' \subseteq [tenant : Tenants, subject : Subjects, role : Roles, expires : Expiries]
    BY AssignmentsAssumption DEF TypeOK, Janitor, AssignRole, InvalidateGrants
  <1>3. adm' \in [Assignments -> {"new", "committed", "done"}]
    BY DEF TypeOK, Janitor, AssignRole, InvalidateGrants
  <1>4. clock' \in Clock /\ \A r \in Requests : req[r].step = "fill" => clock' <= req[r].at + FillTime
    BY <1>1, FillInTime DEF TypeOK
  <1> QED BY <1>1, <1>2, <1>3, <1>4, OtherStep

----------------------------------------------------------------------------
(* The limits. *)

\* Fewer requests passed where none counts a key that it had not counted.
LEMMA PassedShrinks ==
    ASSUME NEW k, \A r \in Requests : k \in req'[r].counted => k \in req[r].counted
    PROVE  /\ Cardinality(Passed(k)') \in Nat /\ Cardinality(Passed(k)) \in Nat
           /\ Cardinality(Passed(k)') <= Cardinality(Passed(k))
  <1>1. Passed(k)' \subseteq Passed(k) /\ Passed(k) \subseteq Requests
    BY DEF Passed
  <1>2. IsFiniteSet(Passed(k)) /\ IsFiniteSet(Passed(k)')
    BY <1>1, RequestsAssumption, FS_Subset
  <1> QED BY <1>1, <1>2, FS_Subset, FS_CardinalityType

\* One request more may have passed where one counts the key.
LEMMA PassedGrowsByOne ==
    ASSUME NEW k, NEW r \in Requests,
           \A q \in Requests : q # r => (k \in req'[q].counted => k \in req[q].counted)
    PROVE  /\ Cardinality(Passed(k)') \in Nat /\ Cardinality(Passed(k)) \in Nat
           /\ Cardinality(Passed(k)') <= Cardinality(Passed(k)) + 1
  <1> DEFINE S == Passed(k)
             T == S \cup {r}
  <1>1. Passed(k)' \subseteq T /\ S \subseteq Requests
    BY DEF Passed
  <1>2. IsFiniteSet(S)
    BY <1>1, RequestsAssumption, FS_Subset
  <1> HIDE DEF S
  <1>3. IsFiniteSet(T) /\ Cardinality(T) <= Cardinality(S) + 1
    <2>1. Cardinality(S) \in Nat
      BY <1>2, FS_CardinalityType
    <2>2. IsFiniteSet(T) /\ (Cardinality(T) = Cardinality(S) \/ Cardinality(T) = Cardinality(S) + 1)
      BY <1>2, FS_AddElement
    <2> QED BY <2>1, <2>2
  <1> HIDE DEF T
  <1>4. IsFiniteSet(Passed(k)') /\ Cardinality(Passed(k)') <= Cardinality(T)
    BY <1>1, <1>3, FS_Subset
  <1>5. Cardinality(Passed(k)') \in Nat /\ Cardinality(T) \in Nat /\ Cardinality(S) \in Nat
    BY <1>2, <1>3, <1>4, FS_CardinalityType
  <1> QED BY <1>3, <1>4, <1>5 DEF S

LEMMA EffectiveType ==
    ASSUME NEW k PROVE Effective(k) \in Nat
  BY BoundsAssumption DEF Effective

\* A step that counts nothing, and drops no counter of the open window without losing it.
LEMMA QuietCounters ==
    ASSUME TypeOK, Windows, Counters, clock' = clock, lost \subseteq lost',
           \A r \in Requests : req'[r].counted \subseteq req[r].counted,
           \A k \in DOMAIN data' : k[2] # "grants" => k \in DOMAIN data /\ data'[k] = data[k],
           \A k \in DOMAIN data : k[2] # "grants" /\ k[4] = clock => k \in DOMAIN data' \/ k \in lost'
    PROVE  Windows' /\ Counters'
  <1>1. Windows'
    BY DEF Windows
  <1>2. ASSUME NEW r \in Requests, NEW k \in req'[r].counted
        PROVE  /\ k[2] # "grants" /\ k[4] \in Clock /\ k[4] <= clock'
               /\ k \notin lost' => /\ Cardinality(Passed(k)') <= Effective(k)
                                    /\ k[4] = clock' => k \in DOMAIN data' /\ Cardinality(Passed(k)') <= data'[k].value
    <2>1. k \in req[r].counted
      BY <1>2
    <2>2. /\ k[2] # "grants" /\ k[4] \in Clock /\ k[4] <= clock
          /\ k \notin lost => /\ Cardinality(Passed(k)) <= Effective(k)
                              /\ k[4] = clock => k \in DOMAIN data /\ Cardinality(Passed(k)) <= data[k].value
      BY <2>1 DEF Counters
    <2>3. /\ Cardinality(Passed(k)') \in Nat /\ Cardinality(Passed(k)) \in Nat
          /\ Cardinality(Passed(k)') <= Cardinality(Passed(k))
      BY PassedShrinks
    <2> SUFFICES ASSUME k \notin lost'
                 PROVE  /\ Cardinality(Passed(k)') <= Effective(k)
                        /\ k[4] = clock => k \in DOMAIN data' /\ Cardinality(Passed(k)') <= data'[k].value
      BY <2>2
    <2>4. k \notin lost /\ Cardinality(Passed(k)) <= Effective(k) /\ Effective(k) \in Nat
      BY <2>2, EffectiveType
    <2>5. ASSUME k[4] = clock
          PROVE  k \in DOMAIN data' /\ Cardinality(Passed(k)') <= data'[k].value
      <3>1. k \in DOMAIN data /\ Cardinality(Passed(k)) <= data[k].value
        BY <2>2, <2>4, <2>5
      <3>2. k \in DOMAIN data' /\ data'[k] = data[k]
        BY <3>1, <2>2, <2>5
      <3>3. data[k].value \in Nat
        BY <3>1, <2>2 DEF TypeOK
      <3> QED BY <3>1, <3>2, <3>3, <2>3
    <2> QED BY <2>3, <2>4, <2>5
  <1>3. Counters'
    BY <1>2 DEF Counters, Effective
  <1> QED BY <1>1, <1>3

\* Time passes: what was counted belongs to a window that is over.
LEMMA TickCounters ==
    ASSUME TypeOK, Windows, Counters, Tick
    PROVE  Windows' /\ Counters'
  <1>1. clock' = clock + 1 /\ UNCHANGED <<data, lost, req>> /\ clock \in Nat
    BY BoundsAssumption DEF Tick, TypeOK, Clock
  <1>2. Windows'
    BY <1>1 DEF Windows
  <1>3. \A k : Passed(k)' = Passed(k)
    BY <1>1 DEF Passed
  <1>4. ASSUME NEW r \in Requests, NEW k \in req'[r].counted
        PROVE  /\ k[2] # "grants" /\ k[4] \in Clock /\ k[4] <= clock' /\ k[4] # clock'
               /\ k \notin lost' => Cardinality(Passed(k)') <= Effective(k)
    <2>1. /\ k[2] # "grants" /\ k[4] \in Clock /\ k[4] <= clock
          /\ k \notin lost => Cardinality(Passed(k)) <= Effective(k)
      BY <1>1, <1>4 DEF Counters
    <2>2. k[4] \in Nat
      BY <2>1, BoundsAssumption DEF Clock
    <2> QED BY <2>1, <2>2, <1>1, <1>3
  <1>5. Counters'
    BY <1>4 DEF Counters, Effective
  <1> QED BY <1>2, <1>5

\* A step that counts in the open window: more than passed is counted before, so that one
\* more may pass while the count is within the limit.
LEMMA CountingStep ==
    ASSUME TypeOK, Windows, Counters, NEW r \in Requests, NEW k0 \in Keys, k0[2] # "grants", k0[4] = clock,
           data' = Counted(data, k0), UNCHANGED <<clock, lost>>,
           \A q \in Requests : q # r => req'[q].counted = req[q].counted,
           \/ req'[r].counted \subseteq req[r].counted
           \/ req'[r].counted \subseteq req[r].counted \cup {k0} /\ Incr(k0) <= Effective(k0)
    PROVE  Windows' /\ Counters'
  <1>1. clock \in Nat /\ clock \in Clock
    BY BoundsAssumption DEF TypeOK, Clock
  <1>2. k0 \in DOMAIN data => Live(k0) /\ data[k0].until = clock + 2 /\ data[k0].value \in Nat
    BY <1>1 DEF Windows, Live, TypeOK
  <1>3. /\ DOMAIN data' = DOMAIN data \cup {k0} /\ data'[k0].value = Incr(k0) /\ Incr(k0) \in Nat
        /\ data'[k0].until = clock + 2 /\ \A j \in DOMAIN data : j # k0 => data'[j] = data[j]
    <2>1. Live(k0) => data[k0].until = clock + 2
      BY <1>2 DEF Live
    <2> QED BY <2>1, CountedFacts
  <1>4. Windows'
    BY <1>1, <1>3 DEF Windows
  <1>5. k0 \notin lost => Cardinality(Passed(k0)) + 1 <= Incr(k0)
    <2> SUFFICES ASSUME k0 \notin lost PROVE Cardinality(Passed(k0)) + 1 <= Incr(k0)
      OBVIOUS
    <2>1. CASE Passed(k0) = {}
      <3>1. Cardinality(Passed(k0)) = 0
        BY <2>1, FS_EmptySet
      <3>2. 1 <= Incr(k0)
        BY <1>2 DEF Incr, Live
      <3> QED BY <3>1, <3>2
    <2>2. CASE Passed(k0) # {}
      <3>1. PICK q \in Requests : k0 \in req[q].counted
        BY <2>2 DEF Passed
      <3>2. k0 \in DOMAIN data /\ Cardinality(Passed(k0)) <= data[k0].value
        BY <3>1 DEF Counters
      <3>3. Incr(k0) = data[k0].value + 1
        BY <3>2, <1>2 DEF Incr
      <3>4. Cardinality(Passed(k0)) \in Nat
        <4>1. IsFiniteSet(Passed(k0))
          BY RequestsAssumption, FS_Subset DEF Passed
        <4> QED BY <4>1, FS_CardinalityType
      <3> QED BY <3>2, <3>3, <3>4, <1>2
    <2> QED BY <2>1, <2>2
  <1>6. ASSUME NEW q \in Requests, NEW k \in req'[q].counted
        PROVE  /\ k[2] # "grants" /\ k[4] \in Clock /\ k[4] <= clock'
               /\ k \notin lost' => /\ Cardinality(Passed(k)') <= Effective(k)
                                    /\ k[4] = clock' => k \in DOMAIN data' /\ Cardinality(Passed(k)') <= data'[k].value
    <2>1. CASE k = k0
      <3> SUFFICES ASSUME k0 \notin lost
                   PROVE  Cardinality(Passed(k0)') <= Effective(k0) /\ Cardinality(Passed(k0)') <= Incr(k0)
        BY <2>1, <1>1, <1>3
      <3>1. CASE req'[r].counted \subseteq req[r].counted
        <4>1. k0 \in req[q].counted
          BY <3>1, <2>1, <1>6
        <4>2. Cardinality(Passed(k0)) <= Effective(k0) /\ Effective(k0) \in Nat
          BY <4>1, EffectiveType DEF Counters
        <4>3. /\ Cardinality(Passed(k0)') \in Nat /\ Cardinality(Passed(k0)) \in Nat
              /\ Cardinality(Passed(k0)') <= Cardinality(Passed(k0))
          <5>1. \A p \in Requests : k0 \in req'[p].counted => k0 \in req[p].counted
            BY <3>1
          <5> QED BY <5>1, PassedShrinks
        <4> QED BY <4>2, <4>3, <1>3, <1>5
      <3>2. CASE Incr(k0) <= Effective(k0)
        <4>1. /\ Cardinality(Passed(k0)') \in Nat /\ Cardinality(Passed(k0)) \in Nat
              /\ Cardinality(Passed(k0)') <= Cardinality(Passed(k0)) + 1
          BY PassedGrowsByOne
        <4>2. Effective(k0) \in Nat
          BY EffectiveType
        <4> QED BY <4>1, <4>2, <3>2, <1>3, <1>5
      <3> QED BY <3>1, <3>2
    <2>2. CASE k # k0
      <3>1. k \in req[q].counted /\ \A p \in Requests : k \in req'[p].counted => k \in req[p].counted
        BY <2>2, <1>6
      <3>2. /\ k[2] # "grants" /\ k[4] \in Clock /\ k[4] <= clock
            /\ k \notin lost => /\ Cardinality(Passed(k)) <= Effective(k)
                                /\ k[4] = clock => k \in DOMAIN data /\ Cardinality(Passed(k)) <= data[k].value
        BY <3>1 DEF Counters
      <3>3. /\ Cardinality(Passed(k)') \in Nat /\ Cardinality(Passed(k)) \in Nat
            /\ Cardinality(Passed(k)') <= Cardinality(Passed(k))
        BY <3>1, PassedShrinks
      <3>4. Effective(k) \in Nat /\ (k \in DOMAIN data => data[k].value \in Nat)
        BY <3>2, EffectiveType DEF TypeOK
      <3>5. k \in DOMAIN data => k \in DOMAIN data' /\ data'[k] = data[k]
        BY <2>2, <1>3
      <3> QED BY <3>2, <3>3, <3>4, <3>5
    <2> QED BY <2>1, <2>2
  <1>7. Counters'
    BY <1>6 DEF Counters, Effective
  <1> QED BY <1>4, <1>7

\* The steps of a request that count nothing.
LEMMA RequestCounters ==
    ASSUME TypeOK, Windows, Counters, NEW r \in Requests,
           \/ FindPrincipal(r) \/ Provision(r) \/ ProvisionFails(r) \/ CacheGet(r)
           \/ ListRoleAssignments(r) \/ CacheSet(r) \/ AuthenticateAPIKey(r)
    PROVE  Windows' /\ Counters'
  <1>1. clock' = clock
    BY DEF FindPrincipal, Provision, ProvisionFails, CacheGet, ListRoleAssignments, CacheSet, AuthenticateAPIKey
  <1>2. \E step, gs : Goto(r, step) \/ Ends(r, step) \/ HoldGrants(r, gs, step)
    <2>1. CASE FindPrincipal(r)
      <3>1. CASE principals[r.subject] = None
        <4>1. r.tenant # None
          BY RequestsAssumption, NoneAssumption
        <4> QED BY <2>1, <3>1, <4>1 DEF FindPrincipal
      <3>2. CASE principals[r.subject] # None
        BY <2>1, <3>2 DEF FindPrincipal
      <3> QED BY <3>1, <3>2
    <2>2. CASE Provision(r) \/ ProvisionFails(r)
      BY <2>2 DEF Provision, ProvisionFails
    <2>3. CASE CacheGet(r)
      BY <2>3 DEF CacheGet
    <2>4. CASE ListRoleAssignments(r)
      BY <2>4 DEF ListRoleAssignments
    <2>5. CASE CacheSet(r)
      BY <2>5 DEF CacheSet
    <2>6. CASE AuthenticateAPIKey(r)
      BY <2>6 DEF AuthenticateAPIKey
    <2> QED BY <2>1, <2>2, <2>3, <2>4, <2>5, <2>6
  <1>3. \A q \in Requests : req'[q].counted \subseteq req[q].counted
    <2>1. req \in [Requests -> ReqType]
      BY DEF TypeOK, ReqType
    <2>2. PICK step, gs : Goto(r, step) \/ Ends(r, step) \/ HoldGrants(r, gs, step)
      BY <1>2
    <2>3. \A q \in Requests : q # r => req'[q] = req[q]
      BY <2>1, <2>2 DEF Goto, Ends, HoldGrants
    <2>4. req'[r].counted \subseteq req[r].counted
      <3>1. CASE Goto(r, step)
        BY <2>1, <3>1 DEF Goto, ReqType
      <3>2. CASE Ends(r, step)
        BY <2>1, <3>2 DEF Ends, NotSeen
      <3>3. CASE HoldGrants(r, gs, step)
        BY <2>1, <3>3 DEF HoldGrants, ReqType
      <3> QED BY <2>2, <3>1, <3>2, <3>3
    <2> QED BY <2>3, <2>4
  <1>4. CASE UNCHANGED <<data, lost>>
    BY <1>1, <1>3, <1>4, QuietCounters
  <1>5. CASE CacheSet(r) /\ ~UNCHANGED <<data, lost>>
    <2> DEFINE g == GrantsKey(r.tenant, r.subject)
               e == Entry(req[r].grants, TTL)
    <2>1. PICK out \in EvictChoices : /\ data' = With(Without(data, out), g, e)
                                      /\ lost' = lost \cup {j \in out \ Expired : j[2] # "grants"}
      BY <1>5 DEF CacheSet
    <2>2. g[2] = "grants"
      BY KeyFacts DEF TypeOK
    <2> HIDE DEF g, e
    <2>3. PICK d : d = Without(data, out)
      OBVIOUS
    <2>4. DOMAIN d = DOMAIN data \ out /\ \A j \in DOMAIN d : d[j] = data[j]
      BY <2>3 DEF Without
    <2>5. data' = With(d, g, e)
      BY <2>1, <2>3
    <2>6. DOMAIN data' = DOMAIN d \cup {g} /\ \A j \in DOMAIN d : j # g => data'[j] = d[j]
      BY <2>5 DEF With
    <2>7. \A k \in DOMAIN data' : k[2] # "grants" => k \in DOMAIN data /\ data'[k] = data[k]
      BY <2>2, <2>4, <2>6
    <2>8. clock \in Nat
      BY BoundsAssumption DEF TypeOK, Clock
    <2>9. \A k \in DOMAIN data : k[2] # "grants" /\ k[4] = clock => k \notin Expired
      BY <2>8 DEF Windows, Expired, Live
    <2>10. \A k \in DOMAIN data : k[2] # "grants" /\ k[4] = clock => k \in DOMAIN data' \/ k \in lost'
      BY <2>1, <2>4, <2>6, <2>9
    <2>11. lost \subseteq lost'
      BY <2>1
    <2> QED BY <1>1, <1>3, <2>7, <2>10, <2>11, QuietCounters
  <1> QED BY <1>4, <1>5 DEF FindPrincipal, Provision, ProvisionFails, CacheGet, ListRoleAssignments, AuthenticateAPIKey

\* Neither the janitor nor an invalidation touches a counter of the open window.
LEMMA OthersCounters ==
    ASSUME TypeOK, Windows, Counters,
           Janitor \/ \E a \in Assignments : AssignRole(a) \/ InvalidateGrants(a)
    PROVE  Windows' /\ Counters'
  <1>1. UNCHANGED <<clock, lost, req>> /\ clock \in Nat
    <2>1. UNCHANGED <<clock, lost, req>>
      BY DEF Janitor, AssignRole, InvalidateGrants
    <2> QED BY <2>1, BoundsAssumption DEF TypeOK, Clock
  <1>2. PICK out : /\ data' = Without(data, out) \/ data' = data
                   /\ \A k \in out : k \in Expired \/ k[2] = "grants"
    <2>1. CASE Janitor
      BY <2>1 DEF Janitor
    <2>2. ASSUME NEW a \in Assignments, AssignRole(a)
          PROVE  data' = data
      BY <2>2 DEF AssignRole
    <2>3. ASSUME NEW a \in Assignments, InvalidateGrants(a)
          PROVE  data' = data \/ data' = Without(data, {GrantsKey(a.tenant, a.subject)})
      BY <2>3 DEF InvalidateGrants
    <2>4. \A a \in Assignments : GrantsKey(a.tenant, a.subject)[2] = "grants"
      BY DEF GrantsKey, Key
    <2>5. CASE data' = data
      <3>1. \A k \in {} : k \in Expired \/ k[2] = "grants"
        OBVIOUS
      <3> QED BY <2>5, <3>1
    <2>6. CASE \E a \in Assignments : data' = Without(data, {GrantsKey(a.tenant, a.subject)})
      BY <2>4, <2>6
    <2> QED BY <2>1, <2>2, <2>3, <2>5, <2>6
  <1>3. \A k \in DOMAIN data' : k \in DOMAIN data /\ data'[k] = data[k]
    BY <1>2 DEF Without
  <1>4. \A k \in DOMAIN data : k[2] # "grants" /\ k[4] = clock => k \notin Expired
    BY <1>1 DEF Windows, Expired, Live
  <1>5. \A k \in DOMAIN data : k[2] # "grants" /\ k[4] = clock => k \in DOMAIN data'
    BY <1>2, <1>4 DEF Without
  <1> QED BY <1>1, <1>3, <1>5, QuietCounters

LEMMA LimitPrincipalCounters ==
    ASSUME TypeOK, Windows, Counters, NEW r \in Requests, LimitPrincipal(r)
    PROVE  Windows' /\ Counters'
  <1> DEFINE k == CounterKey(r.tenant, "principal", r.subject)
  <1>1. UNCHANGED <<clock, lost>>
    BY DEF LimitPrincipal
  <1>2. k \in Keys /\ k[2] # "grants" /\ k[4] = clock
    BY KeyFacts DEF TypeOK
  <1>3. req \in [Requests -> ReqType]
    BY DEF TypeOK, ReqType
  <1> HIDE DEF k
  <1>4. CASE data' = Counted(data, k) /\ Ends(r, "limited")
    <2>1. req'[r].counted \subseteq req[r].counted /\ \A q \in Requests : q # r => req'[q].counted = req[q].counted
      BY <1>3, <1>4 DEF Ends, NotSeen
    <2> QED BY <2>1, <1>1, <1>2, <1>4, CountingStep
  <1>5. CASE /\ Incr(k) <= Effective(k) /\ data' = Counted(data, k)
             /\ req' = [req EXCEPT ![r] = [@ EXCEPT !.step = "tenant", !.counted = {k}]]
    <2>1. req'[r].counted = {k} /\ \A q \in Requests : q # r => req'[q].counted = req[q].counted
      BY <1>3, <1>5 DEF ReqType
    <2> QED BY <2>1, <1>1, <1>2, <1>5, CountingStep
  <1>6. CASE Goto(r, "tenant") /\ UNCHANGED data
    <2>1. \A q \in Requests : req'[q].counted \subseteq req[q].counted
      BY <1>3, <1>6 DEF Goto, ReqType
    <2> QED BY <2>1, <1>1, <1>6, QuietCounters
  <1> QED BY <1>4, <1>5, <1>6 DEF LimitPrincipal, k

LEMMA LimitTenantCounters ==
    ASSUME TypeOK, Windows, Counters, NEW r \in Requests, LimitTenant(r)
    PROVE  Windows' /\ Counters'
  <1> DEFINE k == CounterKey(r.tenant, "tenant", None)
             Closes(step, cs) == req' = [req EXCEPT ![r] = [NotSeen EXCEPT !.step = step, !.counted = cs]]
  <1>1. UNCHANGED <<clock, lost>>
    BY DEF LimitTenant
  <1>2. k \in Keys /\ k[2] # "grants" /\ k[4] = clock
    BY KeyFacts DEF TypeOK
  <1>3. req \in [Requests -> ReqType] /\ Decision(r) \in Steps /\ "limited" \in Steps
    BY DEF TypeOK, ReqType, Decision, Steps
  <1>4. ASSUME NEW step \in Steps, NEW cs \in SUBSET Keys, Closes(step, cs)
        PROVE  req'[r].counted = cs /\ \A q \in Requests : q # r => req'[q].counted = req[q].counted
    <2>1. PICK h : h = [NotSeen EXCEPT !.step = step, !.counted = cs]
      OBVIOUS
    <2>2. h.counted = cs
      BY <2>1, ClosedReq
    <2>3. req' = [req EXCEPT ![r] = h]
      BY <2>1, <1>4
    <2> QED BY <2>2, <2>3, <1>3
  <1>5. req[r].counted \in SUBSET Keys /\ req[r].counted \cup {k} \in SUBSET Keys
    BY <1>2, <1>3 DEF ReqType
  <1> HIDE DEF k
  <1>6. CASE data' = Counted(data, k) /\ Closes("limited", req[r].counted)
    <2>1. req'[r].counted = req[r].counted /\ \A q \in Requests : q # r => req'[q].counted = req[q].counted
      BY <1>3, <1>4, <1>5, <1>6
    <2> QED BY <2>1, <1>1, <1>2, <1>6, CountingStep
  <1>7. CASE Incr(k) <= Effective(k) /\ data' = Counted(data, k) /\ Closes(Decision(r), req[r].counted \cup {k})
    <2>1. req'[r].counted = req[r].counted \cup {k} /\ \A q \in Requests : q # r => req'[q].counted = req[q].counted
      BY <1>3, <1>4, <1>5, <1>7
    <2> QED BY <2>1, <1>1, <1>2, <1>7, CountingStep
  <1>8. CASE Closes(Decision(r), req[r].counted) /\ UNCHANGED data
    <2>1. req'[r].counted = req[r].counted /\ \A q \in Requests : q # r => req'[q].counted = req[q].counted
      BY <1>3, <1>4, <1>5, <1>8
    <2> QED BY <2>1, <1>1, <1>8, QuietCounters
  <1> QED BY <1>6, <1>7, <1>8 DEF LimitTenant, k

----------------------------------------------------------------------------
(* The theorems. *)

LEMMA InitInv == Init => IInv
  <1> SUFFICES ASSUME Init PROVE IInv
    OBVIOUS
  <1>1. 0 \in Clock /\ NotSeen \in ReqType /\ NotSeen.step = "new" /\ NotSeen.grants = {} /\ NotSeen.counted = {}
    BY BoundsAssumption DEF Clock, NotSeen, ReqType, Steps
  <1>2. req \in [Requests -> ReqType] /\ \A r \in Requests : req[r] = NotSeen
    BY <1>1 DEF Init
  <1>3. DOMAIN data = {}
    BY DEF Init
  <1>4. TypeOK
    BY <1>1, <1>2, <1>3 DEF Init, TypeOK, ReqType
  <1>5. GrantsRight
    BY <1>1, <1>2, <1>3 DEF GrantsRight, GoodReq
  <1>6. Windows /\ Counters
    BY <1>1, <1>2, <1>3 DEF Windows, Counters
  <1> QED BY <1>4, <1>5, <1>6 DEF IInv

LEMMA NextInv == IInv /\ [Next]_vars => IInv'
  <1> SUFFICES ASSUME IInv, [Next]_vars PROVE IInv'
    OBVIOUS
  <1> USE DEF IInv
  <1>1. ASSUME NEW r \in Requests, FindPrincipal(r) PROVE IInv'
    BY <1>1, FindPrincipalGrants, RequestCounters
  <1>2. ASSUME NEW r \in Requests, Provision(r) PROVE IInv'
    BY <1>2, ProvisionGrants, RequestCounters
  <1>3. ASSUME NEW r \in Requests, ProvisionFails(r) PROVE IInv'
    BY <1>3, ProvisionFailsGrants, RequestCounters
  <1>4. ASSUME NEW r \in Requests, CacheGet(r) PROVE IInv'
    BY <1>4, CacheGetGrants, RequestCounters
  <1>5. ASSUME NEW r \in Requests, ListRoleAssignments(r) PROVE IInv'
    BY <1>5, ListGrants, RequestCounters
  <1>6. ASSUME NEW r \in Requests, CacheSet(r) PROVE IInv'
    BY <1>6, CacheSetGrants, RequestCounters
  <1>7. ASSUME NEW r \in Requests, AuthenticateAPIKey(r) PROVE IInv'
    BY <1>7, APIKeyGrants, RequestCounters
  <1>8. ASSUME NEW r \in Requests, LimitPrincipal(r) PROVE IInv'
    BY <1>8, LimitPrincipalGrants, LimitPrincipalCounters
  <1>9. ASSUME NEW r \in Requests, LimitTenant(r) PROVE IInv'
    BY <1>9, LimitTenantGrants, LimitTenantCounters
  <1>10. CASE Tick
    BY <1>10, TickGrants, TickCounters
  <1>11. CASE Janitor \/ \E a \in Assignments : AssignRole(a) \/ InvalidateGrants(a)
    BY <1>11, OthersGrants, OthersCounters
  <1>12. CASE UNCHANGED vars
    <2>1. TypeOK' /\ Windows'
      BY <1>12 DEF vars, TypeOK, Windows
    <2>2. GrantsRight'
      BY <1>12 DEF vars, GrantsRight, GoodReq, GoodEntry, Backed, Entitled
    <2>3. Counters'
      BY <1>12 DEF vars, Counters, Passed, Effective
    <2> QED BY <2>1, <2>2, <2>3
  <1> QED BY <1>1, <1>2, <1>3, <1>4, <1>5, <1>6, <1>7, <1>8, <1>9, <1>10, <1>11, <1>12 DEF Next

LEMMA Invariant == Spec => []IInv
  BY InitInv, NextInv, PTL DEF Spec

\* The variables keep their types.
THEOREM TypeCorrect == Spec => []TypeOK
  <1>1. IInv => TypeOK
    BY DEF IInv
  <1> QED BY <1>1, Invariant, PTL

\* An allowed request rests on a role its tenant assigned, or on a key of its tenant without
\* the power to approve, whoever else signs in first, whatever the cache still holds.
THEOREM TenantAllows == Spec => []AllowedByItsTenant
  <1>1. IInv => AllowedByItsTenant
    BY DEF IInv, GrantsRight, GoodReq, Entitled, AllowedByItsTenant
  <1> QED BY <1>1, Invariant, PTL

\* A role is used for less than TTL + FillTime after it expired: the code's bound, where
\* cache.go 8 says that the database is asked again before a decision.
THEOREM ExpiryTakesEffect == Spec => []ExpiredRoleEnds
  <1>1. IInv => ExpiredRoleEnds
    <2> SUFFICES ASSUME IInv, NEW r \in Requests, NEW x \in req[r].grants
                 PROVE  \E a \in assigned : /\ a.tenant = r.tenant /\ a.subject = r.subject /\ a.role = x
                                            /\ req[r].at < a.expires + TTL + FillTime
      BY DEF ExpiredRoleEnds
    <2>1. Backed(assigned, r.tenant, r.subject, x, req[r].at, TTL + FillTime)
      BY DEF IInv, GrantsRight, GoodReq
    <2>2. PICK a \in assigned : a.tenant = r.tenant /\ a.subject = r.subject /\ a.role = x
                                /\ req[r].at < a.expires + (TTL + FillTime)
      BY <2>1 DEF Backed
    <2>3. a.expires \in Nat /\ TTL \in Nat /\ FillTime \in Nat
      BY <2>2, BoundsAssumption DEF IInv, TypeOK, Expiries, Never
    <2>4. a.expires + (TTL + FillTime) = a.expires + TTL + FillTime
      BY <2>3
    <2> QED BY <2>2, <2>4
  <1> QED BY <1>1, Invariant, PTL

\* In a window no more requests pass than the limit, unless its counter was evicted.
THEOREM LimitsHold == Spec => []LimitHolds
  <1>1. IInv => LimitHolds
    BY DEF IInv, Counters, Passed, LimitHolds
  <1> QED BY <1>1, Invariant, PTL
===============================================================================
