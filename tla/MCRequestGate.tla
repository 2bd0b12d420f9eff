--------------------------- MODULE MCRequestGate ---------------------------
(* An instance of RequestGate for TLC: member and root are a member of       *)
(* tenant ta and a super_admin.  c1 signs in as one of them, c2 tries to;  *)
(* what is sent afterwards is sent with whatever cookie the jar holds.  *)
EXTENDS RequestGate

CONSTANTS ta, tb, member, root, k1, c1, c2, r1, r2

MCTenantOf == [u \in {member, root} |-> IF u = member THEN ta ELSE NoTenant]
MCRole     == [u \in {member, root} |-> IF u = member THEN "member" ELSE "super_admin"]
MCTenantAt == [a \in {"a", "b", "admin"} |-> CASE a = "a" -> ta [] a = "b" -> tb [] OTHER -> NoTenant]

Signs(c, u, a, ok) == [client |-> c, address |-> a, op |-> "login", proper |-> TRUE,
                       email |-> u, passwordOk |-> ok, param |-> "none"]
Sends(c, a, op) == [Signs(c, NoUser, a, FALSE) EXCEPT !.op = op]

MCRequests ==
    {Signs(c1, member, "a", TRUE), Signs(c1, root, "admin", TRUE), Signs(c2, member, "a", FALSE),
     Sends(c1, "a", "logout"), Sends(c1, "a", "uploadDocuments"), Sends(c1, "a", "uploadVersion"),
     Sends(c1, "a", "listUnconfirmed"),
     Sends(c1, "b", "listDocuments"), Sends(c1, "nowhere", "me"),
     [Sends(c1, "a", "setConfigValue") EXCEPT !.param = "storage_quota_gb"],
     [Sends(c1, "a", "setConfigValue") EXCEPT !.proper = FALSE]}

MCLimit  == [l \in {"upload"} |-> 1]
MCWindow == [l \in DOMAIN MCLimit |-> 2]

SlotSymmetry == Permutations(Slots)
=============================================================================
