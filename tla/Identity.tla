------------------------------- MODULE Identity -------------------------------
(***************************************************************************)
(* From a verified token or an API key to an authorized request: finding or *)
(* provisioning the principal, its grants and the cache in front of them,   *)
(* role assignment, the rate limits that share that cache, and the decision.*)
(*                                                                         *)
(* Code: internal/identity (app/service.go, domain/principal.go,           *)
(* infra/postgres.go), internal/platform/cache/cache.go and redis.go,      *)
(* internal/platform/ratelimit/ratelimit.go, internal/platform/authz,      *)
(* internal/server/middleware.go.                                          *)
(*                                                                         *)
(* A tick of the clock is a rate limit window.  Every access to the        *)
(* database or the cache is a step.  A cache access may fail (Redis): the   *)
(* code then goes on without the cache.                                    *)
(***************************************************************************)
EXTENDS Integers, FiniteSets, FiniteSetsExt

CONSTANTS
    Tenants, Subjects, Roles, Perms,
    PermsOf,        \* rolePermissions: the permissions of each role
    Approvals,      \* the permissions no machine may hold
    Requests,       \* requests: subject, tenant claim, mapped roles, key, path, needed permission
    Assignments,    \* AssignRole commands: tenant, subject, role, expires
    TTL,            \* how long grants are cached
    FillTime,       \* how long a request may take from reading its grants to caching them
    MaxKeys,        \* size at which the in-memory cache evicts
    PrincipalLimit, TenantLimit,   \* requests a window
    MaxClock,       \* bound on the clock
    MaxStarted,     \* bound on the number of requests that come
    MayFail,        \* whether an access to the cache may fail
    None

Never == MaxClock + 1
Clock == 0 .. MaxClock
Expiries == 0 .. Never
APIKeys == [tenant : Tenants, subject : Subjects, perms : SUBSET Perms, expires : Expiries]

\* Who comes with a key comes as the tenant and the account of the key.
ASSUME RequestsAssumption ==
    /\ IsFiniteSet(Requests)
    /\ \A r \in Requests : /\ r.subject \in Subjects /\ r.tenant \in Tenants
                           /\ r.mapped \in SUBSET Roles /\ r.key \in APIKeys \cup {None}
                           /\ r.key # None => r.key.tenant = r.tenant /\ r.key.subject = r.subject
                           /\ r.path \in Tenants /\ r.need \in Perms
ASSUME NoneAssumption == None \notin Tenants
ASSUME AssignmentsAssumption ==
    Assignments \subseteq [tenant : Tenants, subject : Subjects, role : Roles, expires : Expiries]
ASSUME BoundsAssumption ==
    {TTL, FillTime, MaxClock, MaxKeys, PrincipalLimit, TenantLimit} \subseteq Nat

VARIABLES
    clock,
    principals,   \* principals by (issuer, subject): the tenant of the row
    assigned,     \* role_assignments
    data,         \* the entries of the cache
    lost,         \* history: counters that were evicted
    req,          \* each request: its step and what it holds
    adm           \* each AssignRole command: its step

vars == <<clock, principals, assigned, data, lost, req, adm>>

NotSeen == [step |-> "new", grants |-> {}, at |-> 0, counted |-> {}]

Init ==
    /\ clock = 0
    /\ principals = [s \in Subjects |-> None]
    /\ assigned = {}
    /\ data = << >>
    /\ lost = {}
    /\ req = [r \in Requests |-> NotSeen]
    /\ adm = [a \in Assignments |-> "new"]

----------------------------------------------------------------------------
(* The cache. *)

\* A command that cannot be sent to Redis, or whose reply cannot be read.
Unreachable == MayFail

Entry(value, ttl) == [value |-> value, until |-> clock + ttl]

Live(k) == k \in DOMAIN data /\ clock <= data[k].until

Without(d, keys) == [k \in DOMAIN d \ keys |-> d[k]]
With(d, k, e) == [j \in DOMAIN d \cup {k} |-> IF j = k THEN e ELSE d[j]]
Expired == {k \in DOMAIN data : ~Live(k)}

\* What is left for a Set on a full cache: the expired entries go first, then, while
\* that is not enough, a tenth of the entries, any of them, counters included.
EvictChoices ==
    LET live == DOMAIN data \ Expired
    IN IF Cardinality(DOMAIN data) < MaxKeys THEN {{}}
       ELSE IF Cardinality(live) < MaxKeys THEN {Expired}
       ELSE {Expired \cup v : v \in kSubset(Max({1, MaxKeys \div 10}), live)}

\* The namespace is the kind of the entry alone (mutation of Key).
KeyOfSubject(t, kind, s, bucket) == <<None, kind, s, bucket>>

\* Keys start with the tenant.
Key(t, kind, s, bucket) == <<t, kind, s, bucket>>

GrantsKey(t, s) == Key(t, "grants", s, None)

\* Fixed windows by the wall clock; a counter outlives its window.
CounterKey(t, dimension, s) == Key(t, dimension, s, clock)

----------------------------------------------------------------------------
(* Resolving a principal. *)

\* A request comes.
Comes(r) == /\ req[r].step = "new"
            /\ Cardinality({x \in Requests : req[x].step # "new"}) < MaxStarted

Goto(r, step) == req' = [req EXCEPT ![r].step = step]

\* Answered: what it held is forgotten.
Ends(r, step) == req' = [req EXCEPT ![r] = [NotSeen EXCEPT !.step = step]]

\* FindPrincipalBySubject, by issuer and subject only.
FindPrincipal(r) ==
    /\ Comes(r) /\ r.key = None
    /\ CASE principals[r.subject] = None -> Goto(r, "provision")
         [] principals[r.subject] = r.tenant -> Goto(r, "grants")
         [] OTHER -> Ends(r, "refused")
    /\ UNCHANGED <<clock, principals, assigned, data, lost, adm>>

\* The row and the roles its groups map to, where there are any, in one transaction.  The unique index on
\* (issuer, subject) sends whoever comes second to read again, and it takes the row as
\* it is: the tenant of the row is compared with the claim only where the first read
\* found it.
Provision(r) ==
    /\ req[r].step = "provision"
    /\ IF principals[r.subject] = None
       THEN /\ principals' = [principals EXCEPT ![r.subject] = r.tenant]
            /\ assigned' = IF r.mapped = {} THEN assigned
                           ELSE {a \in assigned : a.tenant # r.tenant \/ a.subject # r.subject}
                                \cup {[tenant |-> r.tenant, subject |-> r.subject, role |-> x,
                                       expires |-> Never] : x \in r.mapped}
       ELSE UNCHANGED <<principals, assigned>>
    /\ Goto(r, "grants")
    /\ UNCHANGED <<clock, data, lost, adm>>

\* The transaction fails for another reason.
ProvisionFails(r) ==
    /\ req[r].step = "provision" /\ Ends(r, "refused")
    /\ UNCHANGED <<clock, principals, assigned, data, lost, adm>>

HoldGrants(r, grants, step) ==
    req' = [req EXCEPT ![r] = [@ EXCEPT !.step = step, !.grants = grants, !.at = clock]]

\* A miss, or a cache that cannot be read.
CacheGet(r) ==
    /\ req[r].step = "grants"
    /\ LET k == GrantsKey(r.tenant, r.subject)
       IN \/ Live(k) /\ HoldGrants(r, data[k].value, "limit")
          \/ (~Live(k) \/ Unreachable) /\ Goto(r, "list")
    /\ UNCHANGED <<clock, principals, assigned, data, lost, adm>>

Active(a) == clock < a.expires

ListRoleAssignments(r) ==
    /\ req[r].step = "list"
    /\ HoldGrants(r, {a.role : a \in {x \in assigned : /\ x.tenant = r.tenant
                                                       /\ x.subject = r.subject /\ Active(x)}},
                  "fill")
    /\ UNCHANGED <<clock, principals, assigned, data, lost, adm>>

\* What was read is cached, also when a role was assigned since and the entry dropped.
CacheSet(r) ==
    /\ req[r].step = "fill" /\ Goto(r, "limit")
    /\ LET k == GrantsKey(r.tenant, r.subject)
       IN \/ \E out \in EvictChoices :
                /\ data' = With(Without(data, out), k, Entry(req[r].grants, TTL))
                /\ lost' = lost \cup {j \in out \ Expired : j[2] # "grants"}
          \/ Unreachable /\ UNCHANGED <<data, lost>>
    /\ UNCHANGED <<clock, principals, assigned, adm>>

\* FindAPIKey, Verify, GetPrincipal: a key carries its own permissions.
AuthenticateAPIKey(r) ==
    /\ Comes(r) /\ r.key # None
    /\ IF clock > r.key.expires THEN Ends(r, "refused") ELSE Goto(r, "limit")
    /\ UNCHANGED <<clock, principals, assigned, data, lost, adm>>

----------------------------------------------------------------------------
(* AssignRole: the transaction, then the cache. *)

AssignRole(a) ==
    /\ adm[a] = "new"
    /\ ~\E x \in assigned : x.tenant = a.tenant /\ x.subject = a.subject /\ x.role = a.role
    /\ assigned' = assigned \cup {a}
    /\ adm' = [adm EXCEPT ![a] = "committed"]
    /\ UNCHANGED <<clock, principals, data, lost, req>>

\* The error of the Delete is ignored.
InvalidateGrants(a) ==
    /\ adm[a] = "committed"
    /\ adm' = [adm EXCEPT ![a] = "done"]
    /\ \/ data' = Without(data, {GrantsKey(a.tenant, a.subject)})
       \/ Unreachable /\ UNCHANGED data
    /\ UNCHANGED <<clock, principals, assigned, lost, req>>

----------------------------------------------------------------------------
(* The decision of the handler. *)

\* The clamp that a key made before a rule changed would need.
ServiceAccountSet(perms) == perms \ Approvals

Resolve(grants) == UNION {PermsOf[x] : x \in grants}

PermissionsOf(r) ==
    IF r.key = None THEN Resolve(req[r].grants) ELSE ServiceAccountSet(r.key.perms)

\* The tenant of the resource first, then the permission.
Authorize(r) == r.path = r.tenant /\ r.need \in PermissionsOf(r)

----------------------------------------------------------------------------
(* The rate limits. *)

\* The first increment starts at zero (mutation of Incr).
IncrFromZero(k) == IF Live(k) THEN data[k].value + 1 ELSE 0

Incr(k) == IF Live(k) THEN data[k].value + 1 ELSE 1

Effective(k) == IF k[2] = "tenant" THEN TenantLimit ELSE PrincipalLimit

\* Allow: one unit is consumed whether or not it was there.
Counted(d, k) ==
    With(d, k, [value |-> Incr(k), until |-> IF Live(k) THEN d[k].until ELSE clock + 2])

Decision(r) == IF Authorize(r) THEN "allowed" ELSE "denied"

\* The principal first: a request it refuses takes nothing from the tenant.  A cache out
\* of reach lets the request pass.
LimitPrincipal(r) ==
    LET k == CounterKey(r.tenant, "principal", r.subject)
    IN /\ req[r].step = "limit"
       /\ \/ Incr(k) > Effective(k) /\ data' = Counted(data, k) /\ Ends(r, "limited")
          \/ /\ Incr(k) <= Effective(k) /\ data' = Counted(data, k)
             /\ req' = [req EXCEPT ![r] = [@ EXCEPT !.step = "tenant", !.counted = {k}]]
          \/ Unreachable /\ Goto(r, "tenant") /\ UNCHANGED data
       /\ UNCHANGED <<clock, principals, assigned, lost, adm>>

\* Then the tenant, by the clock as it is now.  What passes is handled.
LimitTenant(r) ==
    LET k == CounterKey(r.tenant, "tenant", None)
        Closes(step, counted) == req' = [req EXCEPT ![r] = [NotSeen EXCEPT !.step = step, !.counted = counted]]
    IN /\ req[r].step = "tenant"
       /\ \/ /\ Incr(k) > Effective(k) /\ data' = Counted(data, k)
             /\ Closes("limited", req[r].counted)
          \/ /\ Incr(k) <= Effective(k) /\ data' = Counted(data, k)
             /\ Closes(Decision(r), req[r].counted \cup {k})
          \/ Unreachable /\ Closes(Decision(r), req[r].counted) /\ UNCHANGED data
       /\ UNCHANGED <<clock, principals, assigned, lost, adm>>

\* Time passes; a request is given up before it sits on grants for longer than FillTime.
Tick ==
    /\ clock < MaxClock
    /\ \A r \in Requests : req[r].step = "fill" => clock - req[r].at < FillTime
    /\ clock' = clock + 1
    /\ UNCHANGED <<principals, assigned, data, lost, req, adm>>

\* Every half minute the janitor of the in-memory cache drops what has expired.
Janitor ==
    /\ Expired # {} /\ data' = Without(data, Expired)
    /\ UNCHANGED <<clock, principals, assigned, lost, req, adm>>

Next ==
    \/ \E r \in Requests :
          \/ FindPrincipal(r) \/ Provision(r) \/ ProvisionFails(r)
          \/ CacheGet(r) \/ ListRoleAssignments(r) \/ CacheSet(r) \/ AuthenticateAPIKey(r)
          \/ LimitPrincipal(r) \/ LimitTenant(r)
    \/ \E a \in Assignments : AssignRole(a) \/ InvalidateGrants(a)
    \/ Tick \/ Janitor

Spec == Init /\ [][Next]_vars

----------------------------------------------------------------------------
(* Properties. *)

Steps == {"new", "provision", "grants", "list", "fill", "limit", "tenant",
          "allowed", "denied", "limited", "refused"}

Keys == Tenants \X {"grants", "principal", "tenant"} \X (Subjects \cup {None}) \X (Clock \cup {None})

\* The variables have their types, and counters start at one (cache.go Incr).
TypeOK ==
    /\ clock \in Clock
    /\ principals \in [Subjects -> Tenants \cup {None}]
    /\ assigned \subseteq [tenant : Tenants, subject : Subjects, role : Roles, expires : Expiries]
    /\ DOMAIN data \subseteq Keys /\ lost \subseteq Keys
    /\ \A k \in DOMAIN data : /\ data[k].until \in Nat
                              /\ IF k[2] = "grants" THEN data[k].value \subseteq Roles
                                 ELSE data[k].value \in Nat \ {0}
    /\ req \in [Requests -> [step : Steps, grants : SUBSET Roles, at : Clock, counted : SUBSET Keys]]
    /\ adm \in [Assignments -> {"new", "committed", "done"}]

\* A request is allowed on a tenant only by what that tenant gave its principal: a role
\* assigned there, or a key of that tenant, and a key never approves.  It holds through
\* the race of two first sign-ins, whose loser goes on with the row of another tenant.
AllowedByItsTenant ==
    \A r \in Requests : req[r].step = "allowed" =>
        IF r.key = None
        THEN \E a \in assigned : /\ a.tenant = r.path /\ a.subject = r.subject
                                 /\ r.need \in PermsOf[a.role]
        ELSE r.key.tenant = r.path /\ r.need \in r.key.perms \ Approvals

\* A role that has expired is used for no longer than the cache may hold it: nothing
\* invalidates the entry when the role ends (grantsFor), and nothing asks the database
\* again before a decision, as cache.go 8 says of anything security-relevant.
ExpiredRoleEnds ==
    \A r \in Requests : \A x \in req[r].grants :
        \E a \in assigned : /\ a.tenant = r.tenant /\ a.subject = r.subject /\ a.role = x
                            /\ req[r].at < a.expires + TTL + FillTime

\* No more requests pass a limit in a window than the limit allows, while the counter of
\* that window was not evicted to make room for grants and could be reached
\* (ratelimit.go Allow, cache.go evictLocked).
LimitHolds ==
    \A k \in (UNION {req[r].counted : r \in Requests}) \ lost :
        Cardinality({r \in Requests : k \in req[r].counted})
            <= Effective(k)
===============================================================================
