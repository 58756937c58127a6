------------------------------ MODULE MCIdentity ------------------------------
(* One person known to two tenants, a service account, two tenants' administrators. *)
EXTENDS Identity

CONSTANTS t1, t2, ann, bot

MCPermsOf == [admin |-> {"write", "approve"}, viewer |-> {"read"}]

Token(n, tenant, mapped, path, need) ==
    [n |-> n, subject |-> ann, tenant |-> tenant, mapped |-> mapped, key |-> None,
     path |-> path, need |-> need]

BotKey == [tenant |-> t1, subject |-> bot, perms |-> {"write", "approve"}, expires |-> 1]

MCRequests ==
    {Token(1, t1, {"viewer"}, t1, "write"), Token(2, t2, {}, t2, "read"),
     Token(3, t1, {"viewer"}, t1, "read"),
     [n |-> 4, subject |-> bot, tenant |-> t1, mapped |-> {}, key |-> BotKey,
      path |-> t1, need |-> "write"]}

MCAssignments == {[tenant |-> t1, subject |-> ann, role |-> "admin", expires |-> 1]}
===============================================================================
