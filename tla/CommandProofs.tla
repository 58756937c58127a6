----------------------------- MODULE CommandProofs -----------------------------
(***************************************************************************)
(* Proofs about the commands of tenancy, and about the idempotency key     *)
(* that the server puts in front of a command.  The two share no state.    *)
(*                                                                         *)
(* Tenancy: any number of tenants, projects, commands, settings and times. *)
(* The audit trail while commands race, and what a caller is shown that    *)
(* follows the cursors of a listing.                                       *)
(***************************************************************************)
EXTENDS Tenancy, Idempotency, FiniteSetTheorems, WellFoundedInduction, TLAPS

----------------------------------------------------------------------------
(* The inductive invariant. *)

\* A row that was never made is blank; one that was made has a time.
MadeRow(stored) == /\ stored.no = 0 <=> stored.status = None
                   /\ stored.no > 0 => stored.created \in Times
RowsMade == /\ \A t \in Tenants : MadeRow(tenants[t])
            /\ \A p \in Projects : projects[p].no = 0 <=> projects[p].status = None

\* Commands that read and write back the row of a tenant, and of a project.
OnTenant(c) == c.op = "settings" \/ \E x \in TenantMachine.transitions : c.op = x.event
OnProject(c) == \E x \in ProjectMachine.transitions : c.op = x.event

\* What a command read of a row is the row, but for the reason it brings, unless the row
\* has a later version.
TenantRead(c, read, stored) ==
    /\ read \in Rows /\ MadeRow(read)
    /\ read.no > 0 /\ read.no <= stored.no
    /\ read.no = stored.no => read.status = stored.status /\ read.settings = stored.settings
    /\ c.op = "settings" => Validate(c.settings)
ProjectRead(read, stored) ==
    /\ read \in ProjectRows
    /\ read.no > 0 /\ read.no <= stored.no
    /\ read.no = stored.no => read = stored

\* Every command between its read and its commit.
ReadsOld ==
    \A c \in Commands : cmd[c].step = "read" =>
        /\ OnTenant(c) => TenantRead(c, cmd[c].read, tenants[c.tenant])
        /\ OnProject(c) => ProjectRead(cmd[c].read, projects[c.project])

IInv == TypeOK /\ RowsMade /\ ReadsOld /\ TrailTellsState

----------------------------------------------------------------------------
(* The machines. *)

\* The transitions of the tenant machine, spelled out: the events a command may send,
\* and the states they join.
LEMMA TenantEvents ==
    ASSUME NEW x \in TenantMachine.transitions
    PROVE  /\ x.event \in {"provisioned", "provision_failed", "suspend", "reinstate",
                           "request_deletion", "execute_purge"}
           /\ x.from \subseteq TenantStates /\ x.to \in TenantStates /\ x.event \in Ops
  <1>1. x \in {Transition({"PROVISIONING"}, "provisioned", "ACTIVE", None, FALSE),
               Transition({"PROVISIONING"}, "provision_failed", "FAILED", None, FALSE),
               Transition({"ACTIVE"}, "suspend", "SUSPENDED", "tenant:suspend", TRUE),
               Transition({"SUSPENDED"}, "reinstate", "ACTIVE", "tenant:suspend", FALSE),
               Transition({"ACTIVE", "SUSPENDED"}, "request_deletion", "DEPROVISIONING",
                          "tenant:purge", TRUE),
               Transition({"DEPROVISIONING"}, "execute_purge", "PURGED", "tenant:purge", FALSE)}
    BY DEF TenantMachine
  <1>2. x.event \in Ops
    BY DEF Ops
  <1> QED BY <1>1, <1>2 DEF Transition, TenantStates

\* The same of the project machine.
LEMMA ProjectEvents ==
    ASSUME NEW x \in ProjectMachine.transitions
    PROVE  /\ x.event \in {"archive", "restore", "purge"}
           /\ x.from \subseteq ProjectStates /\ x.to \in ProjectStates /\ x.event \in Ops
  <1>1. x \in {Transition({"ACTIVE"}, "archive", "ARCHIVED", "project:archive", FALSE),
               Transition({"ARCHIVED"}, "restore", "ACTIVE", "project:archive", FALSE),
               Transition({"ARCHIVED"}, "purge", "PURGED", "tenant:purge", FALSE)}
    BY DEF ProjectMachine
  <1>2. x.event \in Ops
    BY DEF Ops
  <1> QED BY <1>1, <1>2 DEF Transition, ProjectStates

\* A command is about a tenant's row, about a project's row, or makes one.
LEMMA Apart ==
    ASSUME NEW c \in Commands
    PROVE  /\ c.op \in {"create", "project"} => ~OnTenant(c) /\ ~OnProject(c)
           /\ OnTenant(c) => ~OnProject(c)
           /\ OnProject(c) \/ c.op = "project" => c.project \in Projects
           /\ c.tenant \in Tenants /\ c.arg \in Args /\ c.settings \subseteq SettingKeys
           /\ c.tenant \notin Projects
  <1>1. c.op \in {"create", "project"} => ~OnTenant(c) /\ ~OnProject(c)
    BY TenantEvents, ProjectEvents DEF OnTenant, OnProject
  <1>2. OnTenant(c) => ~OnProject(c)
    BY TenantEvents, ProjectEvents DEF OnTenant, OnProject
  <1>3. OnProject(c) \/ c.op = "project" => c.project \in Projects
    BY CommandsAssumption DEF OnProject
  <1>4. c.tenant \in Tenants /\ c.arg \in Args /\ c.settings \subseteq SettingKeys
    BY CommandsAssumption DEF Args
  <1> QED BY <1>1, <1>2, <1>3, <1>4, TablesAssumption

----------------------------------------------------------------------------
(* The trail. *)

\* What a further record adds to the changes of a trail.
LEMMA AppendChanges ==
    ASSUME NEW s \in Seq(Records), NEW r \in Records
    PROVE  /\ Append(s, r) \in Seq(Records)
           /\ Len(s) \in Nat /\ Changes(s) \subseteq 1 .. Len(s)
           /\ \A i \in 1 .. Len(s) : Append(s, r)[i] = s[i]
           /\ Append(s, r)[Len(s) + 1] = r
           /\ r.event = "settings" => Changes(Append(s, r)) = Changes(s)
           /\ r.event # "settings" => Changes(Append(s, r)) = Changes(s) \cup {Len(s) + 1}
  <1>1. Append(s, r) \in Seq(Records) /\ Len(s) \in Nat /\ DOMAIN s = 1 .. Len(s)
    OBVIOUS
  <1>2. /\ \A i \in 1 .. Len(s) : Append(s, r)[i] = s[i]
        /\ Append(s, r)[Len(s) + 1] = r
        /\ DOMAIN Append(s, r) = 1 .. Len(s) + 1
    OBVIOUS
  <1>3. \A i : i \in 1 .. Len(s) + 1 <=> i \in 1 .. Len(s) \/ i = Len(s) + 1
    BY <1>1
  <1>4. PICK u : u = Append(s, r)
    OBVIOUS
  <1>5. \A i : i \in Changes(u) <=> \/ i \in Changes(s)
                                    \/ i = Len(s) + 1 /\ r.event # "settings"
    BY <1>1, <1>2, <1>3, <1>4 DEF Changes
  <1>6. Changes(s) \subseteq 1 .. Len(s)
    BY <1>1 DEF Changes
  <1> QED BY <1>1, <1>2, <1>4, <1>5, <1>6

\* A record of new settings changes no status.
LEMMA AppendSettings ==
    ASSUME NEW s \in Seq(Records), NEW r \in Records, NEW status, Replays(s, status),
           r.event = "settings"
    PROVE  Replays(Append(s, r), status)
  <1>1. PICK u : u = Append(s, r)
    OBVIOUS
  <1>2. Changes(u) = Changes(s) /\ \A i \in Changes(s) : u[i] = s[i]
    BY <1>1, AppendChanges
  <1>3. Replays(u, status)
    BY <1>2 DEF Replays
  <1> QED BY <1>1, <1>3

\* A change from the status the trail has told is told by the longer trail.
LEMMA AppendChange ==
    ASSUME NEW s \in Seq(Records), NEW r \in Records, NEW status, Replays(s, status),
           r.event # "settings", r.from = status
    PROVE  Replays(Append(s, r), r.to)
  <1>1. PICK u, n : u = Append(s, r) /\ n = Len(s) + 1
    OBVIOUS
  <1>2. /\ Changes(u) = Changes(s) \cup {n} /\ u[n] = r
        /\ \A i \in Changes(s) : u[i] = s[i] /\ i \in Nat /\ i < n
    BY <1>1, AppendChanges
  <1>3. n \in Nat
    BY <1>1, AppendChanges
  <1>4. \A i \in Changes(u) : (\A k \in Changes(u) : i <= k) => u[i].from = None
    <2> SUFFICES ASSUME NEW i \in Changes(u), \A k \in Changes(u) : i <= k PROVE u[i].from = None
      OBVIOUS
    <2>1. CASE i \in Changes(s)
      BY <1>2, <2>1 DEF Replays
    <2>2. CASE i = n /\ i \notin Changes(s)
      <3>1. Changes(s) = {}
        <4> SUFFICES ASSUME NEW x \in Changes(s) PROVE FALSE
          OBVIOUS
        <4>1. n <= x /\ x < n /\ x \in Nat
          BY <1>2, <2>2
        <4> QED BY <1>3, <4>1
      <3> QED BY <1>2, <2>2, <3>1 DEF Replays
    <2> QED BY <1>2, <2>1, <2>2
  <1>5. ASSUME NEW i \in Changes(u), NEW j \in Changes(u), i < j,
               \A k \in Changes(u) : k <= i \/ j <= k
        PROVE  u[j].from = u[i].to
    <2>1. i \in Changes(s)
      BY <1>2, <1>3, <1>5
    <2>2. CASE j \in Changes(s)
      BY <1>2, <1>5, <2>1, <2>2 DEF Replays
    <2>3. CASE j = n
      <3>1. \A k \in Changes(s) : k <= i
        BY <1>2, <1>3, <1>5, <2>3
      <3>2. s[i].to = status
        BY <2>1, <3>1 DEF Replays
      <3> QED BY <1>2, <2>1, <2>3, <3>2
    <2> QED BY <1>2, <2>2, <2>3
  <1>6. \A i \in Changes(u) : (\A k \in Changes(u) : k <= i) => u[i].to = r.to
    BY <1>2, <1>3
  <1>7. Changes(u) # {}
    BY <1>2
  <1>8. Replays(u, r.to)
    BY <1>4, <1>5, <1>6, <1>7 DEF Replays
  <1> QED BY <1>1, <1>8

\* The first record of a trail.
LEMMA FirstRecord ==
    ASSUME NEW r \in Records, r.event # "settings", r.from = None, r.changed = {}
    PROVE  /\ <<r>> \in Seq(Records) /\ Replays(<<r>>, r.to)
           /\ \A k \in SettingKeys : Switched(<<r>>, k) % 2 # 1
  <1>1. PICK u : u = <<r>>
    OBVIOUS
  <1>2. DOMAIN u = {1} /\ u[1] = r /\ u \in Seq(Records)
    BY <1>1
  <1>3. Changes(u) = {1}
    BY <1>2 DEF Changes
  <1>4. Replays(u, r.to)
    BY <1>2, <1>3 DEF Replays
  <1>5. ASSUME NEW k \in SettingKeys PROVE Switched(u, k) % 2 # 1
    <2>1. {i \in DOMAIN u : k \in u[i].changed} = {}
      BY <1>2
    <2>2. Switched(u, k) = 0
      BY <2>1, FS_EmptySet DEF Switched
    <2> QED BY <2>2
  <1> QED BY <1>1, <1>2, <1>4, <1>5

\* One more record switches a setting once more when it lists it.
LEMMA AppendSwitched ==
    ASSUME NEW s \in Seq(Records), NEW r \in Records, NEW k
    PROVE  /\ k \notin r.changed => Switched(Append(s, r), k) = Switched(s, k)
           /\ k \in r.changed => Switched(Append(s, r), k) = Switched(s, k) + 1
           /\ Switched(s, k) \in Nat
  <1>1. PICK u, n : u = Append(s, r) /\ n = Len(s) + 1
    OBVIOUS
  <1>2. /\ DOMAIN s = 1 .. Len(s) /\ Len(s) \in Nat /\ DOMAIN u = 1 .. n /\ n \in Nat
        /\ u[n] = r /\ \A i \in 1 .. Len(s) : u[i] = s[i]
    BY <1>1
  <1>3. PICK A, B : A = {i \in DOMAIN s : k \in s[i].changed} /\ B = {i \in DOMAIN u : k \in u[i].changed}
    OBVIOUS
  <1>4. \A i : i \in 1 .. n <=> i \in 1 .. Len(s) \/ i = n
    BY <1>1, <1>2
  <1>5. n \notin 1 .. Len(s)
    BY <1>1, <1>2
  <1>6. IsFiniteSet(A) /\ Cardinality(A) \in Nat /\ n \notin A
    <2>1. IsFiniteSet(1 .. Len(s))
      BY <1>2, FS_Interval
    <2>2. A \subseteq 1 .. Len(s)
      BY <1>2, <1>3
    <2> QED BY <1>5, <2>1, <2>2, FS_Subset, FS_CardinalityType
  <1>7. \A i : i \in B <=> i \in A \/ (i = n /\ k \in r.changed)
    BY <1>2, <1>3, <1>4, <1>5
  <1>8. k \notin r.changed => Cardinality(B) = Cardinality(A)
    <2>1. k \notin r.changed => B = A
      BY <1>7
    <2> QED BY <2>1
  <1>9. k \in r.changed => Cardinality(B) = Cardinality(A) + 1
    <2>1. k \in r.changed => B = A \cup {n}
      BY <1>7
    <2> QED BY <1>6, <2>1, FS_AddElement
  <1> QED BY <1>1, <1>3, <1>6, <1>8, <1>9 DEF Switched

\* One more switch turns a setting over.
LEMMA Parity == \A n \in Nat : (n + 1) % 2 = 1 <=> n % 2 # 1
  OBVIOUS

----------------------------------------------------------------------------
(* Steps. *)

CmdRows == [step : {"new", "read", "done"}, read : Rows \cup ProjectRows \cup {None}]

\* Before any command every row is blank and every trail empty.
LEMMA InitInv == Init => IInv
  <1> SUFFICES ASSUME Init PROVE IInv
    OBVIOUS
  <1>1. NoTenant \in Rows /\ NoProject \in ProjectRows /\ NotGiven \in CmdRows
    BY DEF NoTenant, NoProject, NotGiven, Rows, ProjectRows, CmdRows
  <1>2. TypeOK
    BY <1>1 DEF Init, TypeOK, CmdRows
  <1>0. /\ NoTenant.no = 0 /\ NoTenant.status = None /\ ~(NoTenant.no > 0)
        /\ NoProject.no = 0 /\ NoProject.status = None
    BY DEF NoTenant, NoProject
  <1>3. RowsMade
    BY <1>0 DEF Init, RowsMade, MadeRow
  <1>4. ReadsOld
    BY DEF Init, ReadsOld, NotGiven
  <1>5. Replays(<<>>, None)
    BY DEF Replays, Changes
  <1>6. TrailTellsState
    <2>1. ThereAre = {}
      BY <1>0 DEF Init, ThereAre
    <2> QED BY <1>0, <1>5, <2>1 DEF Init, TrailTellsState
  <1> QED BY <1>2, <1>3, <1>4, <1>6 DEF IInv

\* A step of a command that changes no row.
LEMMA CommandStep ==
    ASSUME IInv, NEW c \in Commands, NEW g \in CmdRows, cmd' = [cmd EXCEPT ![c] = g],
           UNCHANGED <<tenants, projects, trail>>,
           g.step = "read" => /\ OnTenant(c) => TenantRead(c, g.read, tenants[c.tenant])
                              /\ OnProject(c) => ProjectRead(g.read, projects[c.project])
    PROVE  IInv'
  <1>1. TypeOK'
    BY DEF IInv, TypeOK, CmdRows
  <1>2. RowsMade' /\ TrailTellsState'
    BY DEF IInv, RowsMade, TrailTellsState, ThereAre
  <1>3. ReadsOld'
    <2> SUFFICES ASSUME NEW d \in Commands, cmd'[d].step = "read"
                 PROVE  /\ OnTenant(d) => TenantRead(d, cmd'[d].read, tenants'[d.tenant])
                        /\ OnProject(d) => ProjectRead(cmd'[d].read, projects'[d.project])
      BY DEF ReadsOld
    <2>1. CASE d = c
      BY <2>1 DEF IInv, TypeOK
    <2>2. CASE d # c
      <3>1. cmd'[d] = cmd[d]
        BY <2>2 DEF IInv, TypeOK
      <3> QED BY <3>1 DEF IInv, ReadsOld
    <2> QED BY <2>1, <2>2
  <1> QED BY <1>1, <1>2, <1>3 DEF IInv

\* A command that fails changes no row and forgets what it read.
LEMMA FailsInv == ASSUME IInv, NEW c \in Commands, Fails(c) PROVE IInv'
  <1>1. NotGiven \in CmdRows /\ NotGiven.step # "read"
    BY DEF NotGiven, CmdRows
  <1> QED BY <1>1, CommandStep DEF Fails

\* A command that commits the next version of a tenant's row with a trail that tells it.
LEMMA TenantCommit ==
    ASSUME IInv, NEW c \in Commands, NEW t \in Tenants, NEW h \in Rows,
           h.status # None, h.created \in Times, h.no = tenants[t].no + 1,
           NEW u \in Seq(Records), Replays(u, h.status),
           \A k \in SettingKeys : k \in h.settings <=> Switched(u, k) % 2 = 1,
           tenants' = [tenants EXCEPT ![t] = h], trail' = [trail EXCEPT ![t] = u],
           Succeeds(c), UNCHANGED projects
    PROVE  IInv'
  <1>1. /\ tenants \in [Tenants -> Rows] /\ projects \in [Projects -> ProjectRows]
        /\ trail \in [Tenants \cup Projects -> Seq(Records)] /\ cmd \in [Commands -> CmdRows]
    BY DEF IInv, TypeOK, CmdRows
  <1>2. [step |-> "done", read |-> None] \in CmdRows
    BY DEF CmdRows
  <1>3. TypeOK'
    BY <1>1, <1>2 DEF TypeOK, Succeeds, CmdRows
  <1>4. tenants[t].no \in Nat /\ h.no > 0 /\ h.no # 0
    <2>1. tenants[t] \in Rows
      BY <1>1
    <2>2. tenants[t].no \in Nat
      BY <2>1 DEF Rows
    <2> QED BY <2>2
  <1>5. RowsMade'
    BY <1>1, <1>4 DEF IInv, RowsMade, MadeRow
  <1>6. ReadsOld'
    <2> SUFFICES ASSUME NEW d \in Commands, cmd'[d].step = "read"
                 PROVE  /\ OnTenant(d) => TenantRead(d, cmd'[d].read, tenants'[d.tenant])
                        /\ OnProject(d) => ProjectRead(cmd'[d].read, projects'[d.project])
      BY DEF ReadsOld
    <2>1. d # c /\ cmd'[d] = cmd[d]
      BY <1>1 DEF Succeeds
    <2>2. /\ OnTenant(d) => TenantRead(d, cmd[d].read, tenants[d.tenant])
          /\ OnProject(d) => ProjectRead(cmd[d].read, projects[d.project])
      BY <2>1 DEF IInv, ReadsOld
    <2>3. CASE d.tenant = t
      <3> SUFFICES ASSUME OnTenant(d) PROVE TenantRead(d, cmd[d].read, h)
        BY <1>1, <2>1, <2>2, <2>3
      <3>1. TenantRead(d, cmd[d].read, tenants[t])
        BY <2>2, <2>3
      <3>2. cmd[d].read.no \in Nat
        BY <3>1 DEF TenantRead, Rows
      <3>3. cmd[d].read.no <= tenants[t].no
        BY <3>1 DEF TenantRead
      <3>4. cmd[d].read.no <= h.no /\ cmd[d].read.no # h.no
        BY <1>4, <3>2, <3>3
      <3> QED BY <3>1, <3>4 DEF TenantRead
    <2>4. CASE d.tenant # t
      <3>1. tenants'[d.tenant] = tenants[d.tenant]
        BY <1>1, <2>4, Apart
      <3> QED BY <2>1, <2>2, <3>1
    <2> QED BY <2>3, <2>4
  <1>7. TrailTellsState'
    <2>1. \A x \in Tenants \cup Projects : trail'[x] = IF x = t THEN u ELSE trail[x]
      BY <1>1
    <2>2. \A x \in Tenants : tenants'[x] = IF x = t THEN h ELSE tenants[x]
      BY <1>1
    <2>3. \A x \in Tenants : Replays(trail'[x], tenants'[x].status)
      BY <2>1, <2>2 DEF IInv, TrailTellsState
    <2>4. \A p \in Projects : Replays(trail'[p], projects'[p].status)
      BY <2>1, TablesAssumption DEF IInv, TrailTellsState
    <2>5. ASSUME NEW x \in ThereAre', NEW k \in SettingKeys
          PROVE  k \in tenants'[x].settings <=> Switched(trail'[x], k) % 2 = 1
      <3>1. CASE x = t
        BY <2>1, <2>2, <3>1
      <3>2. CASE x # t
        <4>1. x \in ThereAre /\ tenants'[x] = tenants[x] /\ trail'[x] = trail[x]
          BY <2>1, <2>2, <3>2 DEF ThereAre
        <4> QED BY <4>1 DEF IInv, TrailTellsState
      <3> QED BY <3>1, <3>2
    <2> QED BY <2>3, <2>4, <2>5 DEF TrailTellsState
  <1> QED BY <1>3, <1>5, <1>6, <1>7 DEF IInv

\* ... and one that commits the next version of a project's row.
LEMMA ProjectCommit ==
    ASSUME IInv, NEW c \in Commands, NEW p \in Projects, NEW h \in ProjectRows,
           h.status # None, h.no = projects[p].no + 1,
           NEW u \in Seq(Records), Replays(u, h.status),
           projects' = [projects EXCEPT ![p] = h], trail' = [trail EXCEPT ![p] = u],
           Succeeds(c), UNCHANGED tenants
    PROVE  IInv'
  <1>1. /\ tenants \in [Tenants -> Rows] /\ projects \in [Projects -> ProjectRows]
        /\ trail \in [Tenants \cup Projects -> Seq(Records)] /\ cmd \in [Commands -> CmdRows]
    BY DEF IInv, TypeOK, CmdRows
  <1>2. [step |-> "done", read |-> None] \in CmdRows
    BY DEF CmdRows
  <1>3. TypeOK'
    BY <1>1, <1>2 DEF TypeOK, Succeeds, CmdRows
  <1>4. projects[p].no \in Nat /\ h.no > 0 /\ h.no # 0
    BY <1>1 DEF ProjectRows
  <1>5. RowsMade'
    BY <1>1, <1>4 DEF IInv, RowsMade, MadeRow
  <1>6. ReadsOld'
    <2> SUFFICES ASSUME NEW d \in Commands, cmd'[d].step = "read"
                 PROVE  /\ OnTenant(d) => TenantRead(d, cmd'[d].read, tenants'[d.tenant])
                        /\ OnProject(d) => ProjectRead(cmd'[d].read, projects'[d.project])
      BY DEF ReadsOld
    <2>1. d # c /\ cmd'[d] = cmd[d]
      BY <1>1 DEF Succeeds
    <2>2. /\ OnTenant(d) => TenantRead(d, cmd[d].read, tenants[d.tenant])
          /\ OnProject(d) => ProjectRead(cmd[d].read, projects[d.project])
      BY <2>1 DEF IInv, ReadsOld
    <2>3. CASE d.project = p
      <3> SUFFICES ASSUME OnProject(d) PROVE ProjectRead(cmd[d].read, h)
        BY <1>1, <2>1, <2>2, <2>3
      <3>1. ProjectRead(cmd[d].read, projects[p])
        BY <2>2, <2>3
      <3>2. cmd[d].read.no \in Nat
        BY <3>1 DEF ProjectRead, ProjectRows
      <3>3. cmd[d].read.no <= projects[p].no
        BY <3>1 DEF ProjectRead
      <3>4. cmd[d].read.no <= h.no /\ cmd[d].read.no # h.no
        BY <1>4, <3>2, <3>3
      <3> QED BY <3>1, <3>4 DEF ProjectRead
    <2>4. CASE d.project # p
      <3>1. OnProject(d) => projects'[d.project] = projects[d.project]
        BY <1>1, <2>4, Apart
      <3> QED BY <2>1, <2>2, <3>1
    <2> QED BY <2>3, <2>4
  <1>7. TrailTellsState'
    <2>1. \A x \in Tenants \cup Projects : trail'[x] = IF x = p THEN u ELSE trail[x]
      BY <1>1
    <2>2. \A x \in Projects : projects'[x] = IF x = p THEN h ELSE projects[x]
      BY <1>1
    <2>3. \A x \in Tenants : trail'[x] = trail[x]
      BY <2>1, TablesAssumption
    <2>4. \A x \in Projects : Replays(trail'[x], projects'[x].status)
      BY <2>1, <2>2 DEF IInv, TrailTellsState
    <2>5. ThereAre' = ThereAre /\ ThereAre \subseteq Tenants
      BY DEF ThereAre
    <2> QED BY <2>3, <2>4, <2>5 DEF IInv, TrailTellsState
  <1> QED BY <1>3, <1>5, <1>6, <1>7 DEF IInv

LEMMA CreateTenantInv ==
    ASSUME IInv, NEW c \in Commands, CreateTenant(c) PROVE IInv'
  <1>1. PICK now \in Times :
           tenants' = [tenants EXCEPT ![c.tenant] =
              [status |-> TenantMachine.initial, slug |-> c.arg, reason |-> "",
               settings |-> {}, created |-> now, no |-> 1]]
    BY DEF CreateTenant
  <1>2. PICK h : h = [status |-> "PROVISIONING", slug |-> c.arg, reason |-> "",
                      settings |-> {}, created |-> now, no |-> 1]
    OBVIOUS
  <1>3. PICK r : r = Record("create", None, "PROVISIONING", "", {})
    OBVIOUS
  <1>4. TenantMachine.initial = "PROVISIONING"
    BY DEF TenantMachine
  <1>5. c.tenant \in Tenants /\ c.arg \in Args
    BY Apart
  <1>6. h \in Rows
    BY <1>2, <1>5 DEF Rows, TenantStates
  <1>7. h.status = "PROVISIONING" /\ h.settings = {} /\ h.created \in Times /\ h.no = 1
    BY <1>2
  <1>8. /\ r \in Records /\ r.event # "settings" /\ r.from = None /\ r.to = h.status
        /\ r.changed = {}
    BY <1>3, <1>7 DEF Record, Records, Ops, Statuses, TenantStates
  <1>9. /\ <<r>> \in Seq(Records) /\ Replays(<<r>>, h.status)
        /\ \A k \in SettingKeys : k \in h.settings <=> Switched(<<r>>, k) % 2 = 1
    BY <1>7, <1>8, FirstRecord
  <1>10. /\ tenants' = [tenants EXCEPT ![c.tenant] = h] /\ trail' = [trail EXCEPT ![c.tenant] = <<r>>]
         /\ Succeeds(c) /\ UNCHANGED projects
    BY <1>1, <1>2, <1>3, <1>4 DEF CreateTenant
  <1>11. h.no = tenants[c.tenant].no + 1 /\ h.status # None
    <2>1. tenants[c.tenant].no = 0
      BY DEF CreateTenant
    <2>2. h.status # None
      BY <1>7, NoneAssumption DEF TenantStates
    <2> QED BY <1>7, <2>1, <2>2
  <1> QED BY <1>5, <1>6, <1>7, <1>9, <1>10, <1>11, TenantCommit

\* What a command on a tenant's row reads.
LEMMA TenantReadInv ==
    ASSUME IInv, NEW c \in Commands, NEW stored \in Rows, c.tenant \in ThereAre,
           stored \in {tenants[c.tenant], WithReason(c, tenants[c.tenant])},
           OnTenant(c), c.op = "settings" => Validate(c.settings), Reads(c, stored)
    PROVE  IInv'
  <1>1. PICK t : t = tenants[c.tenant]
    OBVIOUS
  <1>2. t \in Rows /\ MadeRow(t) /\ t.no > 0 /\ t.no \in Nat
    <2>1. c.tenant \in Tenants /\ tenants[c.tenant].no > 0
      BY DEF ThereAre
    <2>2. t \in Rows /\ MadeRow(t) /\ t.no > 0
      BY <1>1, <2>1 DEF IInv, TypeOK, RowsMade
    <2> QED BY <2>2 DEF Rows
  <1>3. /\ stored.status = t.status /\ stored.settings = t.settings
        /\ stored.created = t.created /\ stored.no = t.no
    BY <1>1, <1>2 DEF WithReason, Rows
  <1>4. TenantRead(c, stored, t)
    BY <1>2, <1>3 DEF TenantRead, MadeRow
  <1>5. PICK g : g = [step |-> "read", read |-> stored]
    OBVIOUS
  <1>6. g \in CmdRows /\ g.read = stored
    BY <1>5 DEF CmdRows
  <1>7. ~OnProject(c)
    BY Apart
  <1>8. cmd' = [cmd EXCEPT ![c] = g] /\ UNCHANGED <<tenants, projects, trail>>
    BY <1>5 DEF Reads
  <1> QED BY <1>1, <1>4, <1>6, <1>7, <1>8, CommandStep

\* A row stays a row with the reason of a command on it.
LEMMA ReasonTyped ==
    ASSUME IInv, NEW c \in Commands PROVE WithReason(c, tenants[c.tenant]) \in Rows
  <1>1. tenants[c.tenant] \in Rows /\ c.arg \in Args
    BY Apart DEF IInv, TypeOK
  <1> QED BY <1>1 DEF WithReason, Rows

LEMMA ReadTransitionInv ==
    ASSUME IInv, NEW c \in Commands, ReadTransition(c) PROVE IInv'
  <1>1. PICK stored : stored = WithReason(c, tenants[c.tenant])
    OBVIOUS
  <1>2. stored \in Rows
    BY <1>1, ReasonTyped
  <1>3. c.tenant \in ThereAre /\ Reads(c, stored) /\ OnTenant(c)
    BY <1>1 DEF ReadTransition, OnTenant
  <1>4. c.op # "settings"
    BY TenantEvents DEF ReadTransition
  <1> QED BY <1>1, <1>2, <1>3, <1>4, TenantReadInv

LEMMA ReadSettingsInv ==
    ASSUME IInv, NEW c \in Commands, ReadSettings(c) PROVE IInv'
  <1>1. PICK stored : stored = tenants[c.tenant]
    OBVIOUS
  <1>2. stored \in Rows
    BY <1>1, Apart DEF IInv, TypeOK
  <1>3. c.tenant \in ThereAre /\ Reads(c, stored) /\ OnTenant(c) /\ Validate(c.settings)
    BY <1>1 DEF ReadSettings, OnTenant
  <1> QED BY <1>1, <1>2, <1>3, TenantReadInv

\* What is left of a command on a tenant's row that is still current.
LEMMA TenantCurrent ==
    ASSUME IInv, NEW c \in Commands, cmd[c].step = "read", OnTenant(c),
           NEW read, read = cmd[c].read, StillCurrent(tenants[c.tenant], read)
    PROVE  /\ read \in Rows /\ read.created \in Times /\ c.tenant \in ThereAre
           /\ read.status = tenants[c.tenant].status /\ read.settings = tenants[c.tenant].settings
           /\ c.op = "settings" => Validate(c.settings)
  <1>1. TenantRead(c, read, tenants[c.tenant])
    BY DEF IInv, ReadsOld
  <1>2. c.tenant \in Tenants
    BY Apart
  <1> QED BY <1>1, <1>2 DEF TenantRead, MadeRow, StillCurrent, ThereAre

LEMMA transitionTenantInv ==
    ASSUME IInv, NEW c \in Commands, transitionTenant(c) PROVE IInv'
  <1>1. PICK read : read = cmd[c].read
    OBVIOUS
  <1>2. CASE ~StillCurrent(tenants[c.tenant], read)
    BY <1>1, <1>2, FailsInv DEF transitionTenant
  <1>3. CASE StillCurrent(tenants[c.tenant], read)
    <2>1. PICK x \in FireTenant(c, read) :
             /\ tenants' = [tenants EXCEPT ![c.tenant] =
                   [read EXCEPT !.status = x.to, !.no = tenants[c.tenant].no + 1]]
             /\ trail' = [trail EXCEPT ![c.tenant] =
                   Append(@, Record(c.op, read.status, x.to, c.arg, {}))]
             /\ Succeeds(c) /\ UNCHANGED projects
      BY <1>1, <1>3 DEF transitionTenant
    <2>2. PICK t : t = c.tenant
      OBVIOUS
    <2>3. cmd[c].step = "read" /\ OnTenant(c)
      BY DEF transitionTenant, OnTenant
    <2>4. /\ read \in Rows /\ read.created \in Times /\ t \in ThereAre /\ t \in Tenants
          /\ read.status = tenants[t].status /\ read.settings = tenants[t].settings
      BY <1>1, <1>3, <2>2, <2>3, TenantCurrent DEF ThereAre
    <2>5. x \in TenantMachine.transitions /\ c.op = x.event
      BY <2>1 DEF Fire, FireTenant, FireProject
    <2>6. x.to \in TenantStates /\ c.op \in Ops /\ c.op # "settings"
      BY <2>5, TenantEvents
    <2>7. PICK n : n = tenants[t].no + 1
      OBVIOUS
    <2>8. tenants[t] \in Rows /\ trail[t] \in Seq(Records)
      BY <2>4 DEF IInv, TypeOK
    <2>9. n \in Nat
      <3>1. tenants[t].no \in Nat
        BY <2>8 DEF Rows
      <3> QED BY <2>7, <3>1
    <2>10. PICK h : h = [read EXCEPT !.status = x.to, !.no = n]
      OBVIOUS
    <2>11. h \in Rows /\ h.status = x.to /\ h.no = n /\ h.settings = read.settings
           /\ h.created = read.created
      BY <2>4, <2>6, <2>9, <2>10 DEF Rows
    <2>12. PICK r : r = Record(c.op, read.status, x.to, c.arg, {})
      OBVIOUS
    <2>13. /\ r \in Records /\ r.event = c.op /\ r.from = read.status /\ r.to = x.to
           /\ r.changed = {}
      <3>1. c.arg \in Args /\ read.status \in Statuses /\ x.to \in Statuses
        BY <2>4, <2>6, Apart DEF Rows, Statuses
      <3> QED BY <2>6, <2>12, <3>1 DEF Record, Records
    <2>14. PICK u : u = Append(trail[t], r)
      OBVIOUS
    <2>15. u \in Seq(Records) /\ Replays(u, h.status)
      <3>1. Replays(trail[t], tenants[t].status)
        BY <2>4 DEF IInv, TrailTellsState
      <3> QED BY <2>4, <2>6, <2>8, <2>11, <2>13, <2>14, <3>1, AppendChange, AppendChanges
    <2>16. \A k \in SettingKeys : k \in h.settings <=> Switched(u, k) % 2 = 1
      <3> TAKE k \in SettingKeys
      <3>1. Switched(u, k) = Switched(trail[t], k)
        BY <2>8, <2>13, <2>14, AppendSwitched
      <3>2. k \in tenants[t].settings <=> Switched(trail[t], k) % 2 = 1
        BY <2>4 DEF IInv, TrailTellsState
      <3> QED BY <2>4, <2>11, <3>1, <3>2
    <2>17. /\ tenants' = [tenants EXCEPT ![t] = h] /\ trail' = [trail EXCEPT ![t] = u]
           /\ Succeeds(c) /\ UNCHANGED projects
      BY <2>1, <2>2, <2>7, <2>10, <2>12, <2>14
    <2>18. h.status # None /\ h.created \in Times /\ h.no = tenants[t].no + 1
      BY <2>4, <2>6, <2>7, <2>11, NoneAssumption
    <2> QED BY <2>4, <2>11, <2>15, <2>16, <2>17, <2>18, TenantCommit
  <1> QED BY <1>2, <1>3

LEMMA UpdateSettingsInv ==
    ASSUME IInv, NEW c \in Commands, UpdateSettings(c) PROVE IInv'
  <1>1. PICK read : read = cmd[c].read
    OBVIOUS
  <1>2. CASE ~StillCurrent(tenants[c.tenant], read)
    BY <1>1, <1>2, FailsInv DEF UpdateSettings
  <1>3. CASE StillCurrent(tenants[c.tenant], read)
    <2>1. /\ tenants' = [tenants EXCEPT ![c.tenant] =
                [read EXCEPT !.settings = c.settings, !.no = tenants[c.tenant].no + 1]]
          /\ trail' = [trail EXCEPT ![c.tenant] = Append(@,
                Record("settings", None, None, "", changedSettingKeys(read.settings, c.settings)))]
          /\ Succeeds(c) /\ UNCHANGED projects
      BY <1>1, <1>3 DEF UpdateSettings
    <2>2. PICK t : t = c.tenant
      OBVIOUS
    <2>3. cmd[c].step = "read" /\ OnTenant(c) /\ c.op = "settings"
      BY DEF UpdateSettings, OnTenant
    <2>4. /\ read \in Rows /\ read.created \in Times /\ t \in ThereAre /\ t \in Tenants
          /\ read.status = tenants[t].status /\ read.settings = tenants[t].settings
          /\ Validate(c.settings)
      BY <1>1, <1>3, <2>2, <2>3, TenantCurrent DEF ThereAre
    <2>5. c.settings \in ValidSettings /\ c.settings \subseteq SettingKeys
      BY <2>4, Apart DEF Validate, ValidSettings
    <2>6. read.settings \subseteq SettingKeys
      BY <2>4 DEF Rows, ValidSettings
    <2>7. PICK n : n = tenants[t].no + 1
      OBVIOUS
    <2>8. tenants[t] \in Rows /\ trail[t] \in Seq(Records)
      BY <2>4 DEF IInv, TypeOK
    <2>9. n \in Nat /\ n # 0
      <3>1. tenants[t].no \in Nat
        BY <2>8 DEF Rows
      <3> QED BY <2>7, <3>1
    <2>10. PICK h : h = [read EXCEPT !.settings = c.settings, !.no = n]
      OBVIOUS
    <2>11. h \in Rows /\ h.status = read.status /\ h.no = n /\ h.settings = c.settings
           /\ h.created = read.created
      BY <2>4, <2>5, <2>9, <2>10 DEF Rows
    <2>12. PICK ks : ks = changedSettingKeys(read.settings, c.settings)
      OBVIOUS
    <2>13. PICK r : r = Record("settings", None, None, "", ks)
      OBVIOUS
    <2>14. r \in Records /\ r.event = "settings" /\ r.changed = ks
      <3>1. ks \subseteq SettingKeys
        BY <2>5, <2>6, <2>12 DEF changedSettingKeys
      <3> QED BY <2>13, <3>1 DEF Record, Records, Ops, Statuses
    <2>15. PICK u : u = Append(trail[t], r)
      OBVIOUS
    <2>16. u \in Seq(Records) /\ Replays(u, h.status)
      <3>1. Replays(trail[t], tenants[t].status)
        BY <2>4 DEF IInv, TrailTellsState
      <3> QED BY <2>4, <2>8, <2>11, <2>14, <2>15, <3>1, AppendSettings, AppendChanges
    <2>17. \A k \in SettingKeys : k \in h.settings <=> Switched(u, k) % 2 = 1
      <3> TAKE k \in SettingKeys
      <3>1. k \in read.settings <=> Switched(trail[t], k) % 2 = 1
        BY <2>4 DEF IInv, TrailTellsState
      <3>2. k \in ks <=> ~(k \in read.settings <=> k \in c.settings)
        BY <2>12 DEF changedSettingKeys
      <3>3. /\ k \notin ks => Switched(u, k) = Switched(trail[t], k)
            /\ k \in ks => Switched(u, k) = Switched(trail[t], k) + 1
            /\ Switched(trail[t], k) \in Nat
        BY <2>8, <2>14, <2>15, AppendSwitched
      <3>4. k \in ks => (Switched(u, k) % 2 = 1 <=> Switched(trail[t], k) % 2 # 1)
        BY <3>3, Parity
      <3> QED BY <2>11, <3>1, <3>2, <3>3, <3>4
    <2>18. /\ tenants' = [tenants EXCEPT ![t] = h] /\ trail' = [trail EXCEPT ![t] = u]
           /\ Succeeds(c) /\ UNCHANGED projects
      BY <2>1, <2>2, <2>7, <2>10, <2>12, <2>13, <2>15
    <2>19. h.status # None /\ h.created \in Times /\ h.no = tenants[t].no + 1
      <3>1. tenants[t].no # 0
        <4>1. tenants[t].no > 0 /\ tenants[t].no \in Nat
          BY <2>4, <2>8 DEF ThereAre, Rows
        <4> QED BY <4>1
      <3>2. tenants[t].status # None
        BY <2>4, <3>1 DEF IInv, RowsMade, MadeRow
      <3> QED BY <2>4, <2>7, <2>11, <3>2
    <2> QED BY <2>4, <2>11, <2>16, <2>17, <2>18, <2>19, TenantCommit
  <1> QED BY <1>2, <1>3

LEMMA CheckProjectInv ==
    ASSUME IInv, NEW c \in Commands, CheckProject(c) PROVE IInv'
  <1>1. PICK g : g = [step |-> "read", read |-> None]
    OBVIOUS
  <1>2. g \in CmdRows
    BY <1>1 DEF CmdRows
  <1>3. cmd' = [cmd EXCEPT ![c] = g] /\ UNCHANGED <<tenants, projects, trail>>
    BY <1>1 DEF CheckProject, Reads
  <1>4. ~OnTenant(c) /\ ~OnProject(c)
    BY Apart DEF CheckProject
  <1> QED BY <1>2, <1>3, <1>4, CommandStep

LEMMA CreateProjectInv ==
    ASSUME IInv, NEW c \in Commands, CreateProject(c) PROVE IInv'
  <1>1. CASE \/ projects[c.project].no > 0
             \/ \E p \in Projects : projects[p].tenant = c.tenant /\ projects[p].key = c.arg
    BY <1>1, FailsInv DEF CreateProject
  <1>2. CASE ~ \/ projects[c.project].no > 0
               \/ \E p \in Projects : projects[p].tenant = c.tenant /\ projects[p].key = c.arg
    <2>1. PICK p : p = c.project
      OBVIOUS
    <2>2. p \in Projects /\ c.tenant \in Tenants /\ c.arg \in Args
      BY <2>1, Apart DEF CreateProject
    <2>3. PICK h : h = [status |-> "ACTIVE", tenant |-> c.tenant, key |-> c.arg, no |-> 1]
      OBVIOUS
    <2>4. PICK r : r = Record("create", None, "ACTIVE", "", {})
      OBVIOUS
    <2>5. ProjectMachine.initial = "ACTIVE"
      BY DEF ProjectMachine
    <2>6. h \in ProjectRows /\ h.status = "ACTIVE" /\ h.no = 1
      BY <2>2, <2>3 DEF ProjectRows, ProjectStates
    <2>7. /\ r \in Records /\ r.event # "settings" /\ r.from = None /\ r.to = h.status
          /\ r.changed = {}
      BY <2>4, <2>6 DEF Record, Records, Ops, Statuses, ProjectStates
    <2>8. <<r>> \in Seq(Records) /\ Replays(<<r>>, h.status)
      BY <2>7, FirstRecord
    <2>9. /\ projects' = [projects EXCEPT ![p] = h] /\ trail' = [trail EXCEPT ![p] = <<r>>]
          /\ Succeeds(c) /\ UNCHANGED tenants
      BY <1>2, <2>1, <2>3, <2>4, <2>5 DEF CreateProject
    <2>10. h.no = projects[p].no + 1
      <3>1. projects[p] \in ProjectRows
        BY <2>2 DEF IInv, TypeOK
      <3>2. projects[p].no \in Nat /\ ~(projects[p].no > 0)
        BY <1>2, <2>1, <3>1 DEF ProjectRows
      <3> QED BY <2>6, <3>2
    <2>11. h.status # None
      BY <2>6, NoneAssumption DEF ProjectStates
    <2> QED BY <2>2, <2>6, <2>8, <2>9, <2>10, <2>11, ProjectCommit
  <1> QED BY <1>1, <1>2

LEMMA ReadProjectInv ==
    ASSUME IInv, NEW c \in Commands, ReadProject(c) PROVE IInv'
  <1>1. PICK stored : stored = projects[c.project]
    OBVIOUS
  <1>2. OnProject(c) /\ Reads(c, stored) /\ FireProject(c, stored) # {}
    BY <1>1 DEF ReadProject, OnProject
  <1>3. c.project \in Projects /\ ~OnTenant(c)
    BY <1>2, Apart
  <1>4. stored \in ProjectRows /\ stored.no \in Nat
    <2>1. stored \in ProjectRows
      BY <1>1, <1>3 DEF IInv, TypeOK
    <2> QED BY <2>1 DEF ProjectRows
  <1>5. stored.status \in ProjectStates
    BY <1>2, ProjectEvents DEF Fire, FireProject
  <1>6. stored.no # 0
    BY <1>1, <1>3, <1>5, NoneAssumption DEF IInv, RowsMade
  <1>7. ProjectRead(stored, projects[c.project])
    BY <1>1, <1>4, <1>6 DEF ProjectRead
  <1>8. PICK g : g = [step |-> "read", read |-> stored]
    OBVIOUS
  <1>9. g \in CmdRows /\ g.read = stored
    BY <1>4, <1>8 DEF CmdRows
  <1>10. cmd' = [cmd EXCEPT ![c] = g] /\ UNCHANGED <<tenants, projects, trail>>
    BY <1>2, <1>8 DEF Reads
  <1> QED BY <1>3, <1>7, <1>9, <1>10, CommandStep

LEMMA transitionProjectInv ==
    ASSUME IInv, NEW c \in Commands, transitionProject(c) PROVE IInv'
  <1>1. PICK read : read = cmd[c].read
    OBVIOUS
  <1>2. CASE ~StillCurrent(projects[c.project], read)
    BY <1>1, <1>2, FailsInv DEF transitionProject
  <1>3. CASE StillCurrent(projects[c.project], read)
    <2>1. PICK x \in FireProject(c, read) :
             /\ projects' = [projects EXCEPT ![c.project] =
                   [read EXCEPT !.status = x.to, !.no = projects[c.project].no + 1]]
             /\ trail' = [trail EXCEPT ![c.project] =
                   Append(@, Record(c.op, read.status, x.to, "", {}))]
             /\ Succeeds(c) /\ UNCHANGED tenants
      BY <1>1, <1>3 DEF transitionProject
    <2>2. PICK p : p = c.project
      OBVIOUS
    <2>3. cmd[c].step = "read" /\ OnProject(c) /\ p \in Projects
      BY <2>2, Apart DEF transitionProject, OnProject
    <2>4. read \in ProjectRows /\ read = projects[p]
      <3>1. ProjectRead(read, projects[p])
        BY <1>1, <2>2, <2>3 DEF IInv, ReadsOld
      <3> QED BY <1>3, <2>2, <3>1 DEF ProjectRead, StillCurrent
    <2>5. x \in ProjectMachine.transitions /\ c.op = x.event
      BY <2>1 DEF Fire, FireTenant, FireProject
    <2>6. x.to \in ProjectStates /\ c.op \in Ops /\ c.op # "settings"
      BY <2>5, ProjectEvents
    <2>7. PICK n : n = projects[p].no + 1
      OBVIOUS
    <2>8. trail[p] \in Seq(Records)
      BY <2>3 DEF IInv, TypeOK
    <2>9. n \in Nat
      <3>1. projects[p].no \in Nat
        BY <2>4 DEF ProjectRows
      <3> QED BY <2>7, <3>1
    <2>10. PICK h : h = [read EXCEPT !.status = x.to, !.no = n]
      OBVIOUS
    <2>11. h \in ProjectRows /\ h.status = x.to /\ h.no = n
      BY <2>4, <2>6, <2>9, <2>10 DEF ProjectRows
    <2>12. PICK r : r = Record(c.op, read.status, x.to, "", {})
      OBVIOUS
    <2>13. r \in Records /\ r.event = c.op /\ r.from = read.status /\ r.to = x.to
      <3>1. read.status \in Statuses /\ x.to \in Statuses
        BY <2>4, <2>6 DEF ProjectRows, Statuses
      <3> QED BY <2>6, <2>12, <3>1 DEF Record, Records
    <2>14. PICK u : u = Append(trail[p], r)
      OBVIOUS
    <2>15. u \in Seq(Records) /\ Replays(u, h.status)
      <3>1. Replays(trail[p], projects[p].status)
        BY <2>3 DEF IInv, TrailTellsState
      <3> QED BY <2>4, <2>6, <2>8, <2>11, <2>13, <2>14, <3>1, AppendChange, AppendChanges
    <2>16. /\ projects' = [projects EXCEPT ![p] = h] /\ trail' = [trail EXCEPT ![p] = u]
           /\ Succeeds(c) /\ UNCHANGED tenants
      BY <2>1, <2>2, <2>7, <2>10, <2>12, <2>14
    <2>17. h.status # None /\ h.no = projects[p].no + 1
      BY <2>6, <2>7, <2>11, NoneAssumption
    <2> QED BY <2>3, <2>11, <2>15, <2>16, <2>17, ProjectCommit
  <1> QED BY <1>2, <1>3

\* Every step, and stuttering, keeps the invariant.
LEMMA NextInv == IInv /\ [Next]_vars => IInv'
  <1> SUFFICES ASSUME IInv, [Next]_vars PROVE IInv'
    OBVIOUS
  <1>1. ASSUME NEW c \in Commands,
               CreateTenant(c) \/ ReadTransition(c) \/ transitionTenant(c)
               \/ ReadSettings(c) \/ UpdateSettings(c)
        PROVE  IInv'
    BY <1>1, CreateTenantInv, ReadTransitionInv, transitionTenantInv, ReadSettingsInv, UpdateSettingsInv
  <1>2. ASSUME NEW c \in Commands,
               CheckProject(c) \/ CreateProject(c) \/ ReadProject(c) \/ transitionProject(c)
        PROVE  IInv'
    BY <1>2, CheckProjectInv, CreateProjectInv, ReadProjectInv, transitionProjectInv
  <1>3. ASSUME NEW c \in Commands, TxFails(c) PROVE IInv'
    BY <1>3, FailsInv DEF TxFails
  <1>4. CASE UNCHANGED vars
    <2>1. TypeOK' /\ RowsMade' /\ ReadsOld'
      BY <1>4 DEF IInv, TypeOK, RowsMade, ReadsOld, vars
    <2>2. TrailTellsState'
      BY <1>4 DEF IInv, TrailTellsState, ThereAre, vars
    <2> QED BY <2>1, <2>2 DEF IInv
  <1> QED BY <1>1, <1>2, <1>3, <1>4 DEF Next

\* The invariant holds throughout.
LEMMA Inductive == Spec => []IInv
  BY InitInv, NextInv, PTL DEF Spec

----------------------------------------------------------------------------
(* ORDER BY created_at DESC. *)

\* A set of natural numbers has a least one; the inductions below take the least
\* counterexample.
LEMMA Least ==
    ASSUME NEW T \in SUBSET Nat, T # {}
    PROVE  \E x \in T : \A y \in T : x <= y
  <1>1. PICK x \in T : \A y \in T : <<y, x>> \notin OpToRel(<, Nat)
    BY NatLessThanWellFounded, WFMin
  <1>2. \A y \in T : ~(y < x)
    BY <1>1 DEF OpToRel
  <1> QED BY <1>2

\* Tenants that have a time of creation.
Dated(S) == IsFiniteSet(S) /\ \A t \in S : tenants[t].created \in Nat

\* They can be put in order: the oldest of them behind the others.
LEMMA Sortable ==
    ASSUME NEW S, Dated(S)
    PROVE  \E s \in SetToSeqs(S) : NewestFirst(s)
  <1> DEFINE Sorted(T) == \E s \in SetToSeqs(T) : NewestFirst(s)
             Bad == {n \in Nat : \E T \in SUBSET S : Cardinality(T) = n /\ ~Sorted(T)}
  <1>1. \A T \in SUBSET S : Dated(T) /\ Cardinality(T) \in Nat
    BY FS_Subset, FS_CardinalityType DEF Dated
  <1>2. CASE Bad = {}
    <2>1. Cardinality(S) \in Nat /\ S \in SUBSET S
      BY <1>1
    <2>2. Sorted(S)
      BY <1>2, <2>1
    <2> QED BY <2>2
  <1>3. CASE Bad # {}
    <2>1. PICK n \in Bad : \A m \in Bad : n <= m
      <3>1. Bad \in SUBSET Nat
        OBVIOUS
      <3> HIDE DEF Bad
      <3> QED BY <1>3, <3>1, Least
    <2>2. PICK T \in SUBSET S : Cardinality(T) = n /\ ~Sorted(T)
      BY <2>1
    <2>3. n \in Nat /\ Dated(T) /\ IsFiniteSet(T)
      BY <1>1, <2>1, <2>2 DEF Dated
    <2>4. CASE T = {}
      <3>1. Cardinality(T) = 0
        BY <2>4, FS_EmptySet
      <3>2. <<>> \in [1..0 -> T]
        OBVIOUS
      <3>3. <<>> \in SetToSeqs(T) /\ NewestFirst(<<>>)
        BY <3>1, <3>2 DEF SetToSeqs, NewestFirst
      <3> QED BY <2>2, <3>3
    <2>5. CASE T # {}
      <3>1. PICK x \in T : \A y \in T : tenants[x].created <= tenants[y].created
        <4> DEFINE times == {tenants[y].created : y \in T}
        <4>1. times \in SUBSET Nat /\ times # {}
          BY <2>3, <2>5 DEF Dated
        <4>2. PICK k \in times : \A m \in times : k <= m
          <5> HIDE DEF times
          <5> QED BY <4>1, Least
        <4> QED BY <4>2
      <3> DEFINE R == T \ {x}
      <3>2. IsFiniteSet(R) /\ Cardinality(R) = n - 1 /\ R \in SUBSET S /\ n - 1 \in Nat
        <4>1. IsFiniteSet(R) /\ Cardinality(R) = n - 1
          BY <2>2, <2>3, <3>1, FS_RemoveElement
        <4>2. n # 0
          BY <2>2, <2>3, <2>5, FS_EmptySet
        <4> QED BY <2>3, <4>1, <4>2
      <3>3. Sorted(R)
        <4>1. n - 1 \notin Bad
          <5> HIDE DEF Bad
          <5> QED BY <2>1, <2>3, <3>2
        <4> QED BY <3>2, <4>1
      <3>4. PICK s \in SetToSeqs(R) : NewestFirst(s)
        BY <3>3
      <3>5. /\ s \in [1..n - 1 -> R]
            /\ \A i, j \in 1..n - 1 : i # j => s[i] # s[j]
            /\ \A i, j \in 1..n - 1 : i < j => tenants[s[i]].created >= tenants[s[j]].created
        BY <3>2, <3>4 DEF SetToSeqs, NewestFirst
      <3> DEFINE u == [i \in 1..n |-> IF i = n THEN x ELSE s[i]]
      <3>6. \A i \in 1..n : i # n => i \in 1..n - 1 /\ u[i] = s[i] /\ u[i] \in R
        BY <2>3, <3>5
      <3>7. u \in [1..n -> T] /\ \A i, j \in 1..n : i # j => u[i] # u[j]
        BY <2>3, <3>1, <3>2, <3>5
      <3>8. \A i, j \in 1..n : i < j => tenants[u[i]].created >= tenants[u[j]].created
        <4> SUFFICES ASSUME NEW i \in 1..n, NEW j \in 1..n, i < j
                     PROVE  tenants[u[i]].created >= tenants[u[j]].created
          OBVIOUS
        <4>1. i # n
          BY <2>3
        <4>2. CASE j = n
          <5>1. u[j] = x /\ u[i] \in T /\ tenants[x].created <= tenants[u[i]].created
            BY <3>1, <3>6, <4>1, <4>2
          <5>2. tenants[x].created \in Nat /\ tenants[u[i]].created \in Nat
            BY <2>3, <3>1, <5>1 DEF Dated
          <5> HIDE DEF u
          <5> QED BY <5>1, <5>2
        <4>3. CASE j # n
          <5> HIDE DEF u
          <5> QED BY <3>5, <3>6, <4>1, <4>3
        <4> QED BY <4>2, <4>3
      <3>9. u \in SetToSeqs(T)
        BY <2>2, <3>7 DEF SetToSeqs
      <3>10. NewestFirst(u)
        BY <3>7, <3>8 DEF NewestFirst
      <3> QED BY <2>2, <3>9, <3>10
    <2> QED BY <2>4, <2>5
  <1> QED BY <1>2, <1>3

\* Every row once, newest first.
LEMMA Ordered ==
    ASSUME NEW S, Dated(S), NEW s, s = InOrder(S)
    PROVE  /\ Len(s) = Cardinality(S) /\ Len(s) \in Nat /\ s \in [1 .. Len(s) -> S]
           /\ NewestFirst(s)
           /\ \A i, j \in 1 .. Len(s) : i # j => s[i] # s[j]
           /\ \A x \in S : \E i \in 1 .. Len(s) : s[i] = x
  <1>0. PICK n : n = Cardinality(S)
    OBVIOUS
  <1>1. s \in SetToSeqs(S) /\ NewestFirst(s)
    BY Sortable DEF InOrder
  <1>2. n \in Nat /\ IsFiniteSet(S)
    BY <1>0, FS_CardinalityType DEF Dated
  <1>3. s \in [1..n -> S] /\ \A i, j \in 1..n : i # j => s[i] # s[j]
    BY <1>0, <1>1 DEF SetToSeqs
  <1>4. s \in Seq(S) /\ Len(s) = n
    BY <1>2, <1>3
  <1>5. \A x \in S : \E i \in 1..n : s[i] = x
    <2>1. s \in Injection(1..n, S)
      BY <1>3 DEF Injection, IsInjective
    <2>2. Cardinality(1..n) = n
      BY <1>2, FS_Interval
    <2>3. s \in Surjection(1..n, S)
      BY <1>0, <1>2, <2>1, <2>2, FS_Injection
    <2> QED BY <2>3 DEF Surjection
  <1> QED BY <1>0, <1>1, <1>2, <1>3, <1>4, <1>5

----------------------------------------------------------------------------
(* Pages. *)

OneEachTime == \A t, u \in ThereAre : tenants[t].created = tenants[u].created => t = u

\* What a caller may see are finitely many rows, each with its time.
LEMMA VisibleDated ==
    ASSUME IInv, NEW actor
    PROVE  /\ Visible(actor) \subseteq ThereAre
           /\ \A t \in Visible(actor) : tenants[t].created \in Times
           /\ \A c : Dated(Before(actor, c))
  <1>1. Visible(actor) \subseteq ThereAre /\ ThereAre \subseteq Tenants
    BY DEF Visible, ThereAre
  <1>2. \A t \in ThereAre : tenants[t].created \in Times
    BY DEF IInv, RowsMade, MadeRow, ThereAre
  <1>3. ASSUME NEW c PROVE Dated(Before(actor, c))
    <2>1. Before(actor, c) \subseteq Tenants /\ Before(actor, c) \subseteq ThereAre
      BY <1>1 DEF Before
    <2>2. IsFiniteSet(Before(actor, c))
      BY <2>1, TablesAssumption, FS_Subset
    <2> QED BY <1>2, <2>1, <2>2, LimitAssumption DEF Dated
  <1> QED BY <1>1, <1>2, <1>3

\* A page that is not the last, and what comes before its cursor, are what it starts from.
LEMMA PageSplit ==
    ASSUME IInv, OneEachTime, NEW actor, NEW c \in Times \cup {None},
           NEW order, order = InOrder(Before(actor, c)), ~(Len(order) <= Limit)
    PROVE  /\ NextCursor(order) \in Times
           /\ c # None => NextCursor(order) < c
           /\ {order[i] : i \in 1 .. Limit} \cup Before(actor, NextCursor(order)) = Before(actor, c)
  <1>1. PICK B : B = Before(actor, c)
    OBVIOUS
  <1>2. PICK n : n = Len(order)
    OBVIOUS
  <1>3. /\ n \in Nat /\ order \in [1..n -> B] /\ NewestFirst(order)
        /\ \A i, j \in 1..n : i # j => order[i] # order[j]
        /\ \A x \in B : \E i \in 1..n : order[i] = x
    <2>1. Dated(B) /\ order = InOrder(B)
      BY <1>1, VisibleDated
    <2>2. /\ Len(order) \in Nat /\ order \in [1..Len(order) -> B] /\ NewestFirst(order)
          /\ \A i, j \in 1..Len(order) : i # j => order[i] # order[j]
          /\ \A x \in B : \E i \in 1..Len(order) : order[i] = x
      BY <2>1, Ordered
    <2> QED BY <1>2, <2>2
  <1>4. Limit \in 1..n /\ Limit \in Nat /\ 1 .. Limit \subseteq 1..n
    BY <1>2, <1>3, LimitAssumption
  <1>5. PICK k : k = NextCursor(order)
    OBVIOUS
  <1>6. k = tenants[order[Limit]].created /\ order[Limit] \in B
    BY <1>3, <1>4, <1>5 DEF NextCursor
  <1>7. \A t \in Visible(actor) : tenants[t].created \in Times /\ tenants[t].created \in Nat /\ t \in ThereAre
    BY VisibleDated, LimitAssumption
  <1>8. B \subseteq Visible(actor)
    BY <1>1 DEF Before
  <1>9. k \in Times /\ k \in Nat /\ k # None
    BY <1>6, <1>7, <1>8, NoneAssumption
  <1>10. c # None => k < c /\ c \in Nat
    BY <1>1, <1>6, LimitAssumption DEF Before
  <1>11. ASSUME NEW t \in Before(actor, k) PROVE t \in B
    <2>1. t \in Visible(actor) /\ tenants[t].created < k /\ tenants[t].created \in Nat
      BY <1>7, <1>9 DEF Before
    <2>2. CASE c = None
      BY <1>1, <2>1, <2>2 DEF Before
    <2>3. CASE c # None
      <3>1. tenants[t].created < c
        BY <1>9, <1>10, <2>1, <2>3
      <3> QED BY <1>1, <2>1, <3>1 DEF Before
    <2> QED BY <2>2, <2>3
  <1>12. ASSUME NEW x \in B, x \notin {order[i] : i \in 1 .. Limit} PROVE x \in Before(actor, k)
    <2>1. PICK i \in 1..n : order[i] = x
      BY <1>3
    <2>2. i > Limit /\ i # Limit
      BY <1>3, <1>4, <1>12, <2>1
    <2>3. tenants[order[Limit]].created >= tenants[x].created
      BY <1>3, <1>4, <2>1, <2>2 DEF NewestFirst
    <2>4. order[Limit] # x
      BY <1>3, <1>4, <2>1, <2>2
    <2>5. x \in Visible(actor) /\ x \in ThereAre /\ order[Limit] \in ThereAre
          /\ tenants[x].created \in Nat
      BY <1>6, <1>7, <1>8
    <2>6. tenants[x].created # k
      BY <1>6, <2>4, <2>5 DEF OneEachTime
    <2>7. tenants[x].created < k
      BY <1>6, <1>9, <2>3, <2>5, <2>6
    <2> QED BY <2>5, <2>7 DEF Before
  <1>13. {order[i] : i \in 1 .. Limit} \subseteq B
    BY <1>3, <1>4
  <1>14. {order[i] : i \in 1 .. Limit} \cup Before(actor, k) = B
    BY <1>11, <1>12, <1>13
  <1> QED BY <1>1, <1>5, <1>9, <1>10, <1>14

\* The pages from a cursor on are all that comes before it.
LEMMA PagesAll ==
    ASSUME IInv, OneEachTime, NEW actor
    PROVE  PagesFrom(actor) = Visible(actor)
  <1> DEFINE pages[c \in Times \cup {None}] ==
                LET order == InOrder(Before(actor, c))
                IN IF Len(order) <= Limit THEN Before(actor, c)
                   ELSE {order[i] : i \in 1 .. Limit} \cup pages[NextCursor(order)]
             Page(c, rest) ==
                IF Len(InOrder(Before(actor, c))) <= Limit THEN Before(actor, c)
                ELSE {InOrder(Before(actor, c))[i] : i \in 1 .. Limit} \cup rest
  <1>1. PICK g : g = [c \in Times \cup {None} |-> Before(actor, c)]
    OBVIOUS
  <1>2. \A c \in Times \cup {None} : g[c] = Page(c, g[NextCursor(InOrder(Before(actor, c)))])
    <2> TAKE c \in Times \cup {None}
    <2>1. PICK order : order = InOrder(Before(actor, c))
      OBVIOUS
    <2>2. CASE Len(order) <= Limit
      BY <1>1, <2>1, <2>2
    <2>3. CASE ~(Len(order) <= Limit)
      <3>1. /\ NextCursor(order) \in Times
            /\ {order[i] : i \in 1 .. Limit} \cup Before(actor, NextCursor(order)) = Before(actor, c)
        BY <2>1, <2>3, PageSplit
      <3>2. g[NextCursor(order)] = Before(actor, NextCursor(order)) /\ g[c] = Before(actor, c)
        BY <1>1, <3>1
      <3> QED BY <2>1, <2>3, <3>1, <3>2
    <2> QED BY <2>2, <2>3
  <1>3. g = [c \in Times \cup {None} |-> Page(c, g[NextCursor(InOrder(Before(actor, c)))])]
    BY <1>1, <1>2
  <1>4. pages = [c \in Times \cup {None} |-> Page(c, pages[NextCursor(InOrder(Before(actor, c)))])]
    <2>1. \E h : h = [c \in Times \cup {None} |-> Page(c, h[NextCursor(InOrder(Before(actor, c)))])]
      BY <1>3
    <2> QED BY <2>1, Zenon
  <1>5. PagesFrom(actor) = pages[None]
    BY DEF PagesFrom
  <1> HIDE DEF pages
  <1>6. ASSUME NEW c \in Times \cup {None},
               \A k \in Times : (c # None => k < c) => pages[k] = Before(actor, k)
        PROVE  pages[c] = Before(actor, c)
    <2>1. PICK order : order = InOrder(Before(actor, c))
      OBVIOUS
    <2>2. pages[c] = Page(c, pages[NextCursor(order)])
      BY <1>4, <2>1
    <2>3. CASE Len(order) <= Limit
      BY <2>1, <2>2, <2>3
    <2>4. CASE ~(Len(order) <= Limit)
      <3>1. /\ NextCursor(order) \in Times
            /\ c # None => NextCursor(order) < c
            /\ {order[i] : i \in 1 .. Limit} \cup Before(actor, NextCursor(order)) = Before(actor, c)
        BY <2>1, <2>4, PageSplit
      <3>2. pages[NextCursor(order)] = Before(actor, NextCursor(order))
        BY <1>6, <3>1
      <3> QED BY <2>1, <2>2, <2>4, <3>1, <3>2
    <2> QED BY <2>3, <2>4
  <1>7. \A k \in Times : pages[k] = Before(actor, k)
    <2> DEFINE Bad == {k \in Times : pages[k] # Before(actor, k)}
    <2>1. SUFFICES ASSUME Bad # {} PROVE FALSE
      OBVIOUS
    <2>2. Bad \in SUBSET Nat
      BY LimitAssumption
    <2>3. PICK c \in Bad : \A k \in Bad : c <= k
      <3> HIDE DEF Bad
      <3> QED BY <2>1, <2>2, Least
    <2>4. c \in Times /\ c # None /\ c \in Nat /\ pages[c] # Before(actor, c)
      BY <2>3, LimitAssumption, NoneAssumption
    <2>5. ASSUME NEW k \in Times, k < c PROVE pages[k] = Before(actor, k)
      <3>1. k \notin Bad
        <4>1. k \in Nat /\ ~(c <= k)
          BY <2>4, <2>5, LimitAssumption
        <4> QED BY <2>3, <4>1
      <3> QED BY <3>1
    <2> QED BY <1>6, <2>4, <2>5
  <1>8. pages[None] = Before(actor, None)
    BY <1>6, <1>7
  <1>9. Before(actor, None) = Visible(actor)
    BY DEF Before
  <1> QED BY <1>5, <1>8, <1>9

\* The listing is complete in the states of the invariant.
LEMMA PagesInv == IInv => PagesComplete
  BY PagesAll DEF PagesComplete, OneEachTime

----------------------------------------------------------------------------
(* Theorems. *)

\* The variables keep their types; in particular stored settings passed Validate, though
\* it looks at them before the transaction (UpdateSettings in tenancy/app/service.go).
THEOREM TypeCorrect == Spec => []TypeOK
  BY Inductive, PTL DEF IInv

\* However commands race, the audit trail of every tenant and project replays to its row:
\* no commit is overwritten and none is recorded that did not happen (version_no in
\* tenancy/infra/postgres.go).
THEOREM TrailsTellState == Spec => []TrailTellsState
  BY Inductive, PTL DEF IInv

\* Whoever follows the cursors of a listing sees every tenant it may see, for any page
\* size, when no two were created at the same instant (List in tenancy/infra/postgres.go).
THEOREM PagesAreComplete == Spec => []PagesComplete
  BY Inductive, PagesInv, PTL

----------------------------------------------------------------------------
(***************************************************************************)
(* The idempotency key: any number of attempts, bodies, faults and         *)
(* expiries.                                                               *)
(*                                                                         *)
(* EffectOnce is not inductive: that the next handler may still commit     *)
(* depends on who may reach it.  Budget says that as long as the key can   *)
(* be claimed, or its claimant has not committed, every effect so far is   *)
(* one whose acknowledgement was lost; ClaimHeld makes the claimant unique.*)
(***************************************************************************)

----------------------------------------------------------------------------
(* The inductive invariant. *)

\* Somebody may still run the handler under the present claim, or claim anew.
Open ==
    \/ row.status = "ABSENT"
    \/ row.expired
    \/ \E r \in Requests : pc[r] \in {"run", "abandon"}

Budget ==
    /\ IsFiniteSet(window)
    /\ Cardinality(window) <= 1 + unsure
    /\ Open => Cardinality(window) <= unsure

\* What is stored or was replayed came from a committed handler of that body.
Genuine(resp, body) == \E q \in ran : resp = Stored(q) /\ BodyOf[q] = body

Replayable ==
    /\ row.status = "COMPLETED" => Genuine(row.resp, row.hash)
    /\ \A r \in Requests : pc[r] = "complete" => r \in ran
    /\ \A r \in Requests : answer[r].kind = "replay" => Genuine(answer[r].resp, BodyOf[r])

KeyInv == KeyTypeOK /\ ClaimHeld /\ Budget /\ Replayable

----------------------------------------------------------------------------

\* One more effect raises the number of effects by at most one.
LEMMA OneMore ==
    ASSUME NEW S, NEW x, IsFiniteSet(S)
    PROVE  /\ IsFiniteSet(S \cup {x})
           /\ Cardinality(S \cup {x}) <= Cardinality(S) + 1
           /\ Cardinality(S) \in Nat
  BY FS_AddElement, FS_CardinalityType

\* The initial state satisfies the invariant.
LEMMA KeyInitInv == KeyInit => KeyInv
  <1> SUFFICES ASSUME KeyInit PROVE KeyInv
    OBVIOUS
  <1> USE BodiesAssumption, BoundsAssumption, NilAssumption DEF KeyInit
  <1>1. KeyTypeOK
    BY DEF KeyTypeOK, NoRow, NoAnswer
  <1>2. ClaimHeld
    BY DEF ClaimHeld
  <1>3. Budget
    BY FS_EmptySet DEF Budget
  <1>4. Replayable
    BY DEF Replayable, NoRow, NoAnswer
  <1> QED BY <1>1, <1>2, <1>3, <1>4 DEF KeyInv

\* Every step, and stuttering, keeps the types.
LEMMA KeyTypeStep == KeyInv /\ [KeyNext]_keyVars => KeyTypeOK'
  <1> SUFFICES ASSUME KeyInv, [KeyNext]_keyVars PROVE KeyTypeOK'
    OBVIOUS
  <1> USE BodiesAssumption, BoundsAssumption, NilAssumption DEF KeyInv, KeyTypeOK, Answer, Fault, past
  <1>1. CASE UNCHANGED keyVars
    BY <1>1 DEF keyVars
  <1>2. ASSUME NEW r \in Requests, BeginFound(r) PROVE KeyTypeOK'
    <2>1. CASE Conflicts(r)
      BY <1>2, <2>1 DEF BeginFound
    <2>2. CASE ~ Conflicts(r)
      BY <1>2, <2>2 DEF BeginFound
    <2> QED BY <2>1, <2>2
  <1>3. ASSUME NEW r \in Requests, BeginExpired(r) PROVE KeyTypeOK'
    BY <1>3 DEF BeginExpired, Claimed
  <1>4. ASSUME NEW r \in Requests, BeginAbsent(r) PROVE KeyTypeOK'
    BY <1>4 DEF BeginAbsent
  <1>5. ASSUME NEW r \in Requests, Claim(r) PROVE KeyTypeOK'
    <2>1. CASE row.status = "ABSENT"
      <3>1. /\ row' = Claimed(r) /\ claimant' = r
            /\ pc' = [pc EXCEPT ![r] = "run"]
            /\ UNCHANGED <<answer, cancelled, ran, window, unsure, expiries, faults>>
        BY <1>5, <2>1 DEF Claim
      <3> QED BY <3>1 DEF Claimed
    <2>2. CASE row.status # "ABSENT"
      BY <1>5, <2>2 DEF Claim
    <2> QED BY <2>1, <2>2
  <1>6. ASSUME NEW r \in Requests, BeginFails(r) PROVE KeyTypeOK'
    BY <1>6 DEF BeginFails
  <1>7. ASSUME NEW r \in Requests, HandlerCommits(r) PROVE KeyTypeOK'
    BY <1>7 DEF HandlerCommits
  <1>8. ASSUME NEW r \in Requests, HandlerFails(r) PROVE KeyTypeOK'
    BY <1>8 DEF HandlerFails
  <1>9. ASSUME NEW r \in Requests, HandlerUnsure(r) PROVE KeyTypeOK'
    BY <1>9 DEF HandlerUnsure
  <1>10. ASSUME NEW r \in Requests, Complete(r) PROVE KeyTypeOK'
    BY <1>10 DEF Complete, Completed, Stored
  <1>11. ASSUME NEW r \in Requests, CompleteFails(r) PROVE KeyTypeOK'
    BY <1>11 DEF CompleteFails
  <1>12. ASSUME NEW r \in Requests, Abandon(r) PROVE KeyTypeOK'
    BY <1>12 DEF Abandon, Abandoned, NoRow
  <1>13. ASSUME NEW r \in Requests, AbandonFails(r) PROVE KeyTypeOK'
    BY <1>13 DEF AbandonFails
  <1>14. ASSUME NEW r \in Requests, Cancel(r) PROVE KeyTypeOK'
    BY <1>14 DEF Cancel
  <1>15. ASSUME NEW r \in Requests, Crash(r) PROVE KeyTypeOK'
    BY <1>15 DEF Crash
  <1>16. CASE Expire
    <2>1. expiries' \in 0..MaxExpiries /\ window' \subseteq ran' /\ unsure' \in Nat
      BY <1>16 DEF Expire
    <2>2. /\ row' = [row EXCEPT !.expired = TRUE]
          /\ UNCHANGED <<pc, cancelled, answer, claimant, ran, faults>>
      BY <1>16 DEF Expire
    <2> QED BY <2>1, <2>2
  <1>17. CASE GC
    BY <1>17 DEF GC, NoRow
  <1> QED
    BY <1>1, <1>2, <1>3, <1>4, <1>5, <1>6, <1>7, <1>8, <1>9, <1>10, <1>11, <1>12, <1>13, <1>14,
       <1>15, <1>16, <1>17 DEF KeyNext, RequestStep

\* The record under a running handler stays the one its request claimed: the
\* other attempts find it unexpired and in flight, and are refused.
LEMMA ClaimStep == KeyInv /\ [KeyNext]_keyVars => ClaimHeld'
  <1> SUFFICES ASSUME KeyInv, [KeyNext]_keyVars PROVE ClaimHeld'
    OBVIOUS
  <1> USE DEF KeyInv, KeyTypeOK, ClaimHeld, Answer, Fault
  <1>1. CASE UNCHANGED keyVars
    BY <1>1 DEF keyVars
  <1>2. ASSUME NEW r \in Requests, BeginFound(r) PROVE ClaimHeld'
    BY <1>2 DEF BeginFound
  <1>3. ASSUME NEW r \in Requests, BeginExpired(r) PROVE ClaimHeld'
    BY <1>3 DEF BeginExpired, Claimed
  <1>4. ASSUME NEW r \in Requests, BeginAbsent(r) PROVE ClaimHeld'
    BY <1>4 DEF BeginAbsent
  <1>5. ASSUME NEW r \in Requests, Claim(r) PROVE ClaimHeld'
    BY <1>5 DEF Claim, Claimed
  <1>6. ASSUME NEW r \in Requests, BeginFails(r) PROVE ClaimHeld'
    BY <1>6 DEF BeginFails
  <1>7. ASSUME NEW r \in Requests, HandlerCommits(r) PROVE ClaimHeld'
    BY <1>7 DEF HandlerCommits
  <1>8. ASSUME NEW r \in Requests, HandlerFails(r) PROVE ClaimHeld'
    BY <1>8 DEF HandlerFails
  <1>9. ASSUME NEW r \in Requests, HandlerUnsure(r) PROVE ClaimHeld'
    BY <1>9 DEF HandlerUnsure
  <1>10. ASSUME NEW r \in Requests, Complete(r) PROVE ClaimHeld'
    BY <1>10 DEF Complete
  <1>11. ASSUME NEW r \in Requests, CompleteFails(r) PROVE ClaimHeld'
    BY <1>11 DEF CompleteFails
  <1>12. ASSUME NEW r \in Requests, Abandon(r) PROVE ClaimHeld'
    BY <1>12 DEF Abandon
  <1>13. ASSUME NEW r \in Requests, AbandonFails(r) PROVE ClaimHeld'
    BY <1>13 DEF AbandonFails
  <1>14. ASSUME NEW r \in Requests, Cancel(r) PROVE ClaimHeld'
    BY <1>14 DEF Cancel
  <1>15. ASSUME NEW r \in Requests, Crash(r) PROVE ClaimHeld'
    BY <1>15 DEF Crash
  <1>16. CASE Expire
    BY <1>16 DEF Expire
  <1>17. CASE GC
    BY <1>17 DEF GC
  <1> QED
    BY <1>1, <1>2, <1>3, <1>4, <1>5, <1>6, <1>7, <1>8, <1>9, <1>10, <1>11, <1>12, <1>13, <1>14,
       <1>15, <1>16, <1>17 DEF KeyNext, RequestStep

\* The budget of effects is kept: a handler commits only while it is open, and
\* the commit closes it unless the acknowledgement is lost.
LEMMA BudgetStep == KeyInv /\ [KeyNext]_keyVars => Budget'
  <1> SUFFICES ASSUME KeyInv, [KeyNext]_keyVars PROVE Budget'
    OBVIOUS
  <1> USE DEF KeyInv, KeyTypeOK, ClaimHeld, Budget, Open, Answer, Fault, past
  <1>0. Cardinality(window) \in Nat
    BY FS_CardinalityType
  <1>1. CASE UNCHANGED keyVars
    BY <1>1 DEF keyVars
  <1>2. ASSUME NEW r \in Requests, BeginFound(r) PROVE Budget'
    BY <1>2 DEF BeginFound
  <1>3. ASSUME NEW r \in Requests, BeginExpired(r) PROVE Budget'
    BY <1>3 DEF BeginExpired
  <1>4. ASSUME NEW r \in Requests, BeginAbsent(r) PROVE Budget'
    BY <1>4 DEF BeginAbsent
  <1>5. ASSUME NEW r \in Requests, Claim(r) PROVE Budget'
    BY <1>5 DEF Claim
  <1>6. ASSUME NEW r \in Requests, BeginFails(r) PROVE Budget'
    BY <1>6 DEF BeginFails
  <1>7. ASSUME NEW r \in Requests, HandlerCommits(r) PROVE Budget'
    <2>1. /\ IsFiniteSet(window \cup {r})
          /\ Cardinality(window \cup {r}) <= Cardinality(window) + 1
          /\ Cardinality(window \cup {r}) \in Nat
      BY OneMore, FS_CardinalityType
    <2>2. Cardinality(window) <= unsure
      BY <1>7 DEF HandlerCommits
    <2>3. ~ Open'
      BY <1>7 DEF HandlerCommits
    <2> QED BY <1>0, <1>7, <2>1, <2>2, <2>3 DEF HandlerCommits
  <1>8. ASSUME NEW r \in Requests, HandlerFails(r) PROVE Budget'
    BY <1>8 DEF HandlerFails
  <1>9. ASSUME NEW r \in Requests, HandlerUnsure(r) PROVE Budget'
    <2>1. /\ IsFiniteSet(window \cup {r})
          /\ Cardinality(window \cup {r}) <= Cardinality(window) + 1
          /\ Cardinality(window \cup {r}) \in Nat
      BY OneMore, FS_CardinalityType
    <2>2. Cardinality(window) <= unsure
      BY <1>9 DEF HandlerUnsure
    <2> QED BY <1>0, <1>9, <2>1, <2>2 DEF HandlerUnsure
  <1>10. ASSUME NEW r \in Requests, Complete(r) PROVE Budget'
    BY <1>10 DEF Complete, Completed
  <1>11. ASSUME NEW r \in Requests, CompleteFails(r) PROVE Budget'
    BY <1>11 DEF CompleteFails
  <1>12. ASSUME NEW r \in Requests, Abandon(r) PROVE Budget'
    BY <1>12 DEF Abandon
  <1>13. ASSUME NEW r \in Requests, AbandonFails(r) PROVE Budget'
    BY <1>13 DEF AbandonFails
  <1>14. ASSUME NEW r \in Requests, Cancel(r) PROVE Budget'
    BY <1>14 DEF Cancel
  <1>15. ASSUME NEW r \in Requests, Crash(r) PROVE Budget'
    BY <1>15 DEF Crash
  <1>16. CASE Expire
    BY <1>16, FS_EmptySet DEF Expire
  <1>17. CASE GC
    BY <1>17 DEF GC
  <1> QED
    BY <1>1, <1>2, <1>3, <1>4, <1>5, <1>6, <1>7, <1>8, <1>9, <1>10, <1>11, <1>12, <1>13, <1>14,
       <1>15, <1>16, <1>17 DEF KeyNext, RequestStep

\* What is stored or replayed stays genuine.
LEMMA ReplayStep == KeyInv /\ [KeyNext]_keyVars => Replayable'
  <1> SUFFICES ASSUME KeyInv, [KeyNext]_keyVars PROVE Replayable'
    OBVIOUS
  <1> USE BodiesAssumption DEF KeyInv, KeyTypeOK, ClaimHeld, Replayable, Genuine, Answer, Fault, past
  <1>1. CASE UNCHANGED keyVars
    BY <1>1 DEF keyVars
  <1>2. ASSUME NEW r \in Requests, BeginFound(r) PROVE Replayable'
    BY <1>2 DEF BeginFound, Conflicts
  <1>3. ASSUME NEW r \in Requests, BeginExpired(r) PROVE Replayable'
    BY <1>3 DEF BeginExpired, Claimed
  <1>4. ASSUME NEW r \in Requests, BeginAbsent(r) PROVE Replayable'
    BY <1>4 DEF BeginAbsent
  <1>5. ASSUME NEW r \in Requests, Claim(r) PROVE Replayable'
    BY <1>5 DEF Claim, Claimed
  <1>6. ASSUME NEW r \in Requests, BeginFails(r) PROVE Replayable'
    BY <1>6 DEF BeginFails
  <1>7. ASSUME NEW r \in Requests, HandlerCommits(r) PROVE Replayable'
    BY <1>7 DEF HandlerCommits
  <1>8. ASSUME NEW r \in Requests, HandlerFails(r) PROVE Replayable'
    BY <1>8 DEF HandlerFails
  <1>9. ASSUME NEW r \in Requests, HandlerUnsure(r) PROVE Replayable'
    BY <1>9 DEF HandlerUnsure
  <1>10. ASSUME NEW r \in Requests, Complete(r) PROVE Replayable'
    BY <1>10 DEF Complete, Completed, Stored
  <1>11. ASSUME NEW r \in Requests, CompleteFails(r) PROVE Replayable'
    BY <1>11 DEF CompleteFails
  <1>12. ASSUME NEW r \in Requests, Abandon(r) PROVE Replayable'
    BY <1>12 DEF Abandon, Abandoned, NoRow
  <1>13. ASSUME NEW r \in Requests, AbandonFails(r) PROVE Replayable'
    BY <1>13 DEF AbandonFails
  <1>14. ASSUME NEW r \in Requests, Cancel(r) PROVE Replayable'
    BY <1>14 DEF Cancel
  <1>15. ASSUME NEW r \in Requests, Crash(r) PROVE Replayable'
    BY <1>15 DEF Crash
  <1>16. CASE Expire
    BY <1>16 DEF Expire
  <1>17. CASE GC
    BY <1>17 DEF GC, NoRow
  <1> QED
    BY <1>1, <1>2, <1>3, <1>4, <1>5, <1>6, <1>7, <1>8, <1>9, <1>10, <1>11, <1>12, <1>13, <1>14,
       <1>15, <1>16, <1>17 DEF KeyNext, RequestStep

\* The invariant holds in every reachable state of every instance.
THEOREM KeyInductive == KeySpec => []KeyInv
  <1>1. KeyInv /\ [KeyNext]_keyVars => KeyInv'
    BY KeyTypeStep, ClaimStep, BudgetStep, ReplayStep DEF KeyInv
  <1> QED BY KeyInitInv, <1>1, PTL DEF KeySpec

\* Every variable always has its type.
THEOREM KeyTypeCorrect == KeySpec => []KeyTypeOK
  <1>1. KeyInv => KeyTypeOK
    BY DEF KeyInv
  <1> QED BY KeyInductive, <1>1, PTL

\* While a handler runs, nobody else's Begin, Complete or Abandon touches the
\* record its request claimed, although these statements name the key alone.
THEOREM ClaimAlwaysHeld == KeySpec => []ClaimHeld
  <1>1. KeyInv => ClaimHeld
    BY DEF KeyInv
  <1> QED BY KeyInductive, <1>1, PTL

\* A key takes effect at most once per TTL window, up to lost acknowledgements.
THEOREM AtMostOneEffect == KeySpec => []EffectOnce
  <1>1. KeyInv => EffectOnce
    BY DEF KeyInv, Budget, EffectOnce
  <1> QED BY KeyInductive, <1>1, PTL

\* A replayed response is that of a committed attempt with the same body.
THEOREM ReplaysAreFaithful == KeySpec => []ReplayFaithful
  <1>1. KeyInv => ReplayFaithful
    BY DEF KeyInv, Replayable, Genuine, ReplayFaithful, Stored
  <1> QED BY KeyInductive, <1>1, PTL

\* A completed record is not touched by another attempt until it expires.
THEOREM CompletedRecordsStay == KeySpec => CompletedStays
  <1> DEFINE Kept == row' \in {row, [row EXCEPT !.expired = TRUE]}
  <1>1. ASSUME KeyInv, [KeyNext]_keyVars, row.status = "COMPLETED", ~ row.expired PROVE Kept
    <2> USE <1>1 DEF KeyInv, KeyTypeOK, ClaimHeld, Answer, Fault
    <2>1. CASE UNCHANGED keyVars
      BY <2>1 DEF keyVars
    <2>2. ASSUME NEW r \in Requests, RequestStep(r) \/ Cancel(r) \/ Crash(r) PROVE Kept
      BY <2>2 DEF RequestStep, BeginFound, BeginExpired, BeginAbsent, Claim, BeginFails,
                  HandlerCommits, HandlerFails, HandlerUnsure, Complete, CompleteFails, Abandon,
                  AbandonFails, Cancel, Crash
    <2>3. CASE Expire
      BY <2>3 DEF Expire
    <2>4. CASE GC
      BY <2>4 DEF GC
    <2> QED BY <2>1, <2>2, <2>3, <2>4 DEF KeyNext
  <1>2. KeyInv /\ [KeyNext]_keyVars =>
          [row.status = "COMPLETED" /\ ~ row.expired => Kept]_keyVars
    BY <1>1
  <1> QED BY KeyInductive, <1>2, PTL DEF KeySpec, CompletedStays

===============================================================================
