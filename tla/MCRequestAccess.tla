-------------------------- MODULE MCRequestAccess --------------------------
(* Two requests to a service with a vendor, its customer, and the vendor    *)
(* whose path key is the end of the first one's range.                      *)
EXTENDS RequestAccess

MCOrgIds == {"o1", "o2", "o3"}
MCHeaders == {NoOrg, "o1"}
MCOrgData ==
    [o1 |-> CoverageOrg("o1", "vendor", <<<<0, 1>>>>),
     o2 |-> CoverageOrg("o2", "customer", <<<<0, 1>>, <<1>>>>),
     o3 |-> CoverageOrg("o3", "vendor", <<<<1, 0>>>>)]

UserRead == <<"user", "read">>
UserAny  == <<"user", "*">>
MCRequired == {UserRead}
MCGrantSets == {{}, {UserAny}, {AdminVendorPermission}, {RootPermission}}

(* The first build takes some version, the next one another or that again. *)
MCNumbers == <<{1}, {1, 2}>>

(* Root or an admin is granted globally, a plain user in o1, which is       *)
(* listed, or is not, or is without its path key.                           *)
MCSituation(perms, entries) ==
    [grant |-> [s \in Scopes |-> IF s = Global THEN {perms} ELSE {UserAny}],
     listed |-> {MCOrgData["o2"], MCOrgData["o3"]} \cup entries]
MCSituations ==
    {MCSituation(RootPermission, {MCOrgData["o1"]}),
     MCSituation(AdminVendorPermission, {}),
     MCSituation(AdminVendorPermission, {CoverageOrg("o1", "vendor", <<>>)})}
=============================================================================
