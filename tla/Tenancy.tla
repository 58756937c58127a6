------------------------------- MODULE Tenancy --------------------------------
(***************************************************************************)
(* Tenants and projects: their lifecycles, the settings of a tenant, the   *)
(* audit trail of both, and the listing of tenants page by page.           *)
(*                                                                         *)
(* Code: internal/tenancy (app/service.go, app/helpers.go, domain/tenant.go,*)
(* domain/project.go, infra/postgres.go), internal/platform/fsm/fsm.go,    *)
(* internal/server/handlers.go.                                            *)
(*                                                                         *)
(* Every change reads its row through the pool, on another connection than *)
(* that of its transaction, and writes the whole row back WHERE version_no *)
(* is still the one it read.  So a command is two steps, a read and a      *)
(* commit, and other commands may commit in between.  A command that is     *)
(* refused before it changes anything is a step that changes nothing.      *)
(***************************************************************************)
EXTENDS Integers, Sequences, FiniteSets, SequencesExt

CONSTANTS
    Tenants,        \* tenant identifiers
    Projects,       \* project identifiers
    Commands,       \* the commands that are given, each of them once
    SettingKeys,    \* the settings that may be switched on
    BadSettings,    \* settings that Validate refuses
    Times,          \* values of created_at
    Limit,          \* the page size of a listing
    None

TenantStates == {"PROVISIONING", "ACTIVE", "SUSPENDED", "DEPROVISIONING", "PURGED", "FAILED"}
ProjectStates == {"ACTIVE", "ARCHIVED", "PURGED"}
Permissions == {"tenant:read", "tenant:create", "tenant:update", "tenant:suspend", "tenant:purge",
                "project:create", "project:archive"}
ValidSettings == (SUBSET SettingKeys) \ {BadSettings}

\* A transition of a machine; permission None is none.
Transition(from, event, to, permission, guarded) ==
    [from |-> from, event |-> event, to |-> to, permission |-> permission, guarded |-> guarded]

TenantMachine ==
    [initial |-> "PROVISIONING", states |-> TenantStates, terminal |-> {"PURGED", "FAILED"},
     transitions |->
        {Transition({"PROVISIONING"}, "provisioned", "ACTIVE", None, FALSE),
         Transition({"PROVISIONING"}, "provision_failed", "FAILED", None, FALSE),
         Transition({"ACTIVE"}, "suspend", "SUSPENDED", "tenant:suspend", TRUE),
         Transition({"SUSPENDED"}, "reinstate", "ACTIVE", "tenant:suspend", FALSE),
         Transition({"ACTIVE", "SUSPENDED"}, "request_deletion", "DEPROVISIONING",
                    "tenant:purge", TRUE),
         Transition({"DEPROVISIONING"}, "execute_purge", "PURGED", "tenant:purge", FALSE)}]

ProjectMachine ==
    [initial |-> "ACTIVE", states |-> ProjectStates, terminal |-> {"PURGED"},
     transitions |->
        {Transition({"ACTIVE"}, "archive", "ARCHIVED", "project:archive", FALSE),
         Transition({"ARCHIVED"}, "restore", "ACTIVE", "project:archive", FALSE),
         Transition({"ARCHIVED"}, "purge", "PURGED", "tenant:purge", FALSE)}]

\* What fsm.Build demands of a table before the process will start.
Builds(m) ==
    /\ m.initial \in m.states /\ m.terminal \subseteq m.states
    /\ \A t \in m.transitions : /\ t.from # {} /\ t.from \subseteq m.states \ m.terminal
                                /\ t.to \in m.states
    /\ \A t, u \in m.transitions : t.event = u.event /\ t.from \cap u.from # {} => t = u
    /\ m.states = {m.initial} \cup {t.to : t \in m.transitions}
    /\ m.states \ m.terminal \subseteq UNION {t.from : t \in m.transitions}

ASSUME TablesBuild == Builds(TenantMachine) /\ Builds(ProjectMachine)
ASSUME LimitAssumption == Limit \in Nat \ {0} /\ Times \subseteq Nat
ASSUME NoneAssumption == None \notin TenantStates \cup ProjectStates /\ None \notin Times
ASSUME TablesAssumption == IsFiniteSet(Tenants) /\ Tenants \cap Projects = {}

Ops == {"create", "settings", "project"}
       \cup {t.event : t \in TenantMachine.transitions \cup ProjectMachine.transitions}

Actors == [tenant : Tenants, system : BOOLEAN, may : SUBSET Permissions]

ASSUME CommandsAssumption ==
    \A c \in Commands :
        /\ c.op \in Ops /\ c.tenant \in Tenants /\ c.actor \in Actors
        /\ c.settings \subseteq SettingKeys
        /\ c.op \in {"project"} \cup {x.event : x \in ProjectMachine.transitions} => c.project \in Projects

VARIABLES
    tenants,    \* the rows of tenants
    projects,   \* the rows of projects
    trail,      \* history: the audit records of each tenant and project, in commit order
    cmd         \* each command: its step and the row as it read it

vars == <<tenants, projects, trail, cmd>>

NoTenant == [status |-> None, slug |-> None, reason |-> "", settings |-> {}, created |-> 0, no |-> 0]
NoProject == [status |-> None, tenant |-> None, key |-> None, no |-> 0]
NotGiven == [step |-> "new", read |-> None]

Init ==
    /\ tenants = [t \in Tenants |-> NoTenant]
    /\ projects = [p \in Projects |-> NoProject]
    /\ trail = [x \in Tenants \cup Projects |-> <<>>]
    /\ cmd = [c \in Commands |-> NotGiven]

ThereAre == {t \in Tenants : tenants[t].no > 0}

Record(event, from, to, reason, changed) ==
    [event |-> event, from |-> from, to |-> to, reason |-> reason, changed |-> changed]

----------------------------------------------------------------------------
(* Authorization and the engine that fires transitions. *)

\* The tenant must be the caller's own before a permission counts.
Require(actor, permission, t) == actor.tenant = t /\ permission \in actor.may

\* The guard looks at the row, which may still hold the reason of an earlier change.
requireReason(row) == row.reason # ""

\* The transition of an event, none when the state does not have it.  Without a check
\* the permission of the transition is not asked for.
Fire(m, c, row, checked) ==
    {x \in m.transitions :
        /\ row.status \in x.from /\ c.op = x.event
        /\ checked /\ x.permission # None => Require(c.actor, x.permission, c.tenant)
        /\ x.guarded => requireReason(row)}

\* The platform's own provisioning carries no permission; commands on projects always do.
FireTenant(c, row) == Fire(TenantMachine, c, row, ~c.actor.system)
FireProject(c, row) == Fire(ProjectMachine, c, row, TRUE)

----------------------------------------------------------------------------
(* Steps of a command. *)

\* A command that is refused leaves nothing and may be given again.
Fails(c) == cmd' = [cmd EXCEPT ![c] = NotGiven] /\ UNCHANGED <<tenants, projects, trail>>

Reads(c, row) == cmd' = [cmd EXCEPT ![c] = [step |-> "read", read |-> row]]
                /\ UNCHANGED <<tenants, projects, trail>>

Succeeds(c) == cmd' = [cmd EXCEPT ![c] = [step |-> "done", read |-> None]]

\* A transaction that fails on the way (the database, the audit record, the event)
\* leaves nothing of the command.
TxFails(c) == cmd[c].step = "read" /\ Fails(c)

\* Any authenticated caller may create a tenant: the permission the route names is
\* recorded in the route table and nowhere checked.  The slug is unique.
CreateTenant(c) ==
    /\ c.op = "create" /\ cmd[c].step = "new"
    /\ tenants[c.tenant].no = 0 /\ \A t \in ThereAre : tenants[t].slug # c.arg
    /\ \E now \in Times :
          tenants' = [tenants EXCEPT ![c.tenant] =
             [status |-> TenantMachine.initial, slug |-> c.arg, reason |-> "",
              settings |-> {}, created |-> now, no |-> 1]]
    /\ trail' = [trail EXCEPT ![c.tenant] =
                    <<Record("create", None, TenantMachine.initial, "", {})>>]
    /\ Succeeds(c)
    /\ UNCHANGED projects

\* Another commit in between is not noticed (mutation of StillCurrent).
StillCurrentAlways(row, read) == row.no > 0

\* UPDATE ... WHERE id = $1 AND version_no = $7.
StillCurrent(row, read) == row.no = read.no

\* The reason of the command, when it has one, is on the row before the guard looks.
WithReason(c, row) == IF c.arg = "" THEN row ELSE [row EXCEPT !.reason = c.arg]

\* Suspend, Reinstate, RequestDeletion, MarkProvisioned, MarkProvisionFailed: the read.
ReadTransition(c) ==
    /\ cmd[c].step = "new" /\ \E x \in TenantMachine.transitions : c.op = x.event
    /\ c.tenant \in ThereAre
    /\ LET row == WithReason(c, tenants[c.tenant])
       IN FireTenant(c, row) # {} /\ Reads(c, row)

\* ... and the commit: the row, the audit record and the event, in one transaction.
transitionTenant(c) ==
    /\ cmd[c].step = "read" /\ \E x \in TenantMachine.transitions : c.op = x.event
    /\ LET read == cmd[c].read
       IN IF StillCurrent(tenants[c.tenant], read)
          THEN \E x \in FireTenant(c, read) :
                  /\ tenants' = [tenants EXCEPT ![c.tenant] =
                        [read EXCEPT !.status = x.to, !.no = tenants[c.tenant].no + 1]]
                  /\ trail' = [trail EXCEPT ![c.tenant] =
                        Append(@, Record(c.op, read.status, x.to, c.arg, {}))]
                  /\ Succeeds(c) /\ UNCHANGED projects
          ELSE Fails(c)

Validate(s) == s # BadSettings

ReadSettings(c) ==
    /\ c.op = "settings" /\ cmd[c].step = "new"
    /\ Require(c.actor, "tenant:update", c.tenant) /\ c.tenant \in ThereAre
    /\ Validate(c.settings)
    /\ Reads(c, tenants[c.tenant])

changedSettingKeys(before, after) == (before \ after) \cup (after \ before)

UpdateSettings(c) ==
    /\ c.op = "settings" /\ cmd[c].step = "read"
    /\ LET read == cmd[c].read
       IN IF StillCurrent(tenants[c.tenant], read)
          THEN /\ tenants' = [tenants EXCEPT ![c.tenant] =
                     [read EXCEPT !.settings = c.settings, !.no = tenants[c.tenant].no + 1]]
               /\ trail' = [trail EXCEPT ![c.tenant] = Append(@,
                     Record("settings", None, None, "", changedSettingKeys(read.settings, c.settings)))]
               /\ Succeeds(c) /\ UNCHANGED projects
          ELSE Fails(c)

----------------------------------------------------------------------------
(* Projects. *)

AcceptsWrites(row) == row.status = "ACTIVE"

\* The tenant is read once, before the transaction, and not looked at again.
CheckProject(c) ==
    /\ c.op = "project" /\ cmd[c].step = "new"
    /\ Require(c.actor, "project:create", c.tenant)
    /\ c.tenant \in ThereAre /\ AcceptsWrites(tenants[c.tenant])
    /\ Reads(c, None)

\* The key is unique in the tenant.
CreateProject(c) ==
    /\ c.op = "project" /\ cmd[c].step = "read"
    /\ IF \/ projects[c.project].no > 0
          \/ \E p \in Projects : projects[p].tenant = c.tenant /\ projects[p].key = c.arg
       THEN Fails(c)
       ELSE /\ projects' = [projects EXCEPT ![c.project] =
                  [status |-> ProjectMachine.initial, tenant |-> c.tenant, key |-> c.arg, no |-> 1]]
            /\ trail' = [trail EXCEPT ![c.project] =
                  <<Record("create", None, ProjectMachine.initial, "", {})>>]
            /\ Succeeds(c) /\ UNCHANGED tenants

ReadProject(c) ==
    /\ cmd[c].step = "new" /\ \E x \in ProjectMachine.transitions : c.op = x.event
    /\ LET row == projects[c.project]
       IN row.tenant = c.tenant /\ FireProject(c, row) # {} /\ Reads(c, row)

transitionProject(c) ==
    /\ cmd[c].step = "read" /\ \E x \in ProjectMachine.transitions : c.op = x.event
    /\ LET read == cmd[c].read
       IN IF StillCurrent(projects[c.project], read)
          THEN \E x \in FireProject(c, read) :
                  /\ projects' = [projects EXCEPT ![c.project] =
                        [read EXCEPT !.status = x.to, !.no = projects[c.project].no + 1]]
                  /\ trail' = [trail EXCEPT ![c.project] =
                        Append(@, Record(c.op, read.status, x.to, "", {}))]
                  /\ Succeeds(c) /\ UNCHANGED tenants
          ELSE Fails(c)

Next == \E c \in Commands :
           \/ CreateTenant(c) \/ ReadTransition(c) \/ transitionTenant(c)
           \/ ReadSettings(c) \/ UpdateSettings(c)
           \/ CheckProject(c) \/ CreateProject(c) \/ ReadProject(c) \/ transitionProject(c)
           \/ TxFails(c)

Spec == Init /\ [][Next]_vars

----------------------------------------------------------------------------
(* Listing: newest first, the cursor is the created_at of the last row of a page. *)

\* Without tenant:read a caller is refused; without tenant:create it sees its own tenant
\* only, unless it is the platform.
Visible(actor) ==
    {t \in ThereAre : /\ "tenant:read" \in actor.may
                      /\ actor.system \/ "tenant:create" \in actor.may \/ t = actor.tenant}

\* The cursor is that of the row that did not fit (mutation of NextCursor).
NextCursorExtra(order) == tenants[order[Limit + 1]].created

NextCursor(order) == tenants[order[Limit]].created

\* ORDER BY created_at DESC leaves the order of equal times open.
NewestFirst(s) == \A i, j \in DOMAIN s : i < j => tenants[s[i]].created >= tenants[s[j]].created
InOrder(rows) == CHOOSE s \in SetToSeqs(rows) : NewestFirst(s)

\* What a page starts from; the first has no cursor.
Before(actor, cursor) ==
    {t \in Visible(actor) : cursor = None \/ tenants[t].created < cursor}

\* The tenants a caller is shown that follows the cursors from the first page on.
PagesFrom(actor) ==
    LET pages[c \in Times \cup {None}] ==
            LET order == InOrder(Before(actor, c))
            IN IF Len(order) <= Limit THEN Before(actor, c)
               ELSE {order[i] : i \in 1 .. Limit} \cup pages[NextCursor(order)]
    IN pages[None]

----------------------------------------------------------------------------
(* Properties. *)

Args == {c.arg : c \in Commands}
Rows == [status : TenantStates \cup {None}, slug : {None} \cup Args, reason : {""} \cup Args,
         settings : ValidSettings \cup {{}}, created : Times \cup {0}, no : Nat]
ProjectRows == [status : ProjectStates \cup {None}, tenant : Tenants \cup {None},
                key : {None} \cup Args, no : Nat]
Statuses == TenantStates \cup ProjectStates \cup {None}
Records == [event : Ops, from : Statuses, to : Statuses, reason : {""} \cup Args,
            changed : SUBSET SettingKeys]

\* The rows of both tables: the statuses are those of the machines, and stored
\* settings passed Validate (domain/tenant.go Validate).
TypeOK ==
    /\ tenants \in [Tenants -> Rows]
    /\ projects \in [Projects -> ProjectRows]
    /\ trail \in [Tenants \cup Projects -> Seq(Records)]
    /\ cmd \in [Commands -> [step : {"new", "read", "done"}, read : Rows \cup ProjectRows \cup {None}]]

\* The records of a trail that change the status.
Changes(s) == {i \in DOMAIN s : s[i].event # "settings"}

\* The changes lead from no row to a status, each from where the one before it ended.
Replays(s, status) ==
    /\ Changes(s) = {} => status = None
    /\ \A i \in Changes(s) :
          /\ (\A k \in Changes(s) : i <= k) => s[i].from = None
          /\ \A j \in Changes(s) : i < j /\ (\A k \in Changes(s) : k <= i \/ j <= k) => s[j].from = s[i].to
          /\ (\A k \in Changes(s) : k <= i) => s[i].to = status

\* How often a trail says that a setting was switched.
Switched(s, k) == Cardinality({i \in DOMAIN s : k \in s[i].changed})

\* The audit trail of a tenant or a project replays to its row, whoever raced with
\* whom: the first record starts from nothing, each other one where the one before it
\* ended, the last one ends in the status of the row, and the changed keys add up to the
\* settings (version_no in tenancy/infra/postgres.go, the records of transitionTenant and
\* UpdateSettings).
TrailTellsState ==
    /\ \A t \in Tenants : Replays(trail[t], tenants[t].status)
    /\ \A p \in Projects : Replays(trail[p], projects[p].status)
    /\ \A t \in ThereAre : \A k \in SettingKeys : k \in tenants[t].settings <=> Switched(trail[t], k) % 2 = 1

\* Whoever follows the cursors sees every tenant it may see, when no two were created
\* at the same instant (List in tenancy/infra/postgres.go).
PagesComplete ==
    \A c \in Commands :
        (\A t, u \in ThereAre : tenants[t].created = tenants[u].created => t = u)
        => PagesFrom(c.actor) = Visible(c.actor)

===============================================================================
