------------------------------ MODULE MCTenancy -------------------------------
(* Two tenants; everything but a creation happens to the first of them. *)
EXTENDS Tenancy

CONSTANTS t1, t2, p1

Operator == [tenant |-> t1, system |-> TRUE, may |-> {}]
Owner == [tenant |-> t1, system |-> FALSE, may |-> Permissions \ {"tenant:create"}]
Stranger == [tenant |-> t2, system |-> FALSE, may |-> Permissions]

Given(op, tenant, project, arg, actor) ==
    [op |-> op, tenant |-> tenant, project |-> project, arg |-> arg, settings |-> {},
     actor |-> actor]

MCCommands ==
    {Given("create", t1, None, "acme", Owner), Given("create", t2, None, "other", Stranger),
     Given("create", t2, None, "acme", Owner),
     Given("provisioned", t1, None, "", Operator),
     Given("provision_failed", t1, None, "quota", Operator),
     Given("suspend", t1, None, "billing", Owner), Given("suspend", t1, None, "", Owner),
     Given("reinstate", t1, None, "", Owner), Given("request_deletion", t1, None, "", Owner),
     [Given("settings", t1, None, "", Owner) EXCEPT !.settings = {"four_eyes"}],
     [Given("settings", t1, None, "", Owner) EXCEPT !.settings = {"residency"}],
     Given("settings", t1, None, "", Owner),
     Given("project", t1, p1, "CORE", Owner),
     Given("archive", t1, p1, "", Owner), Given("restore", t1, p1, "", Owner)}

MCSettingKeys == {"four_eyes", "residency"}
MCBadSettings == {"residency"}
MCTimes == 1 .. 2
===============================================================================
