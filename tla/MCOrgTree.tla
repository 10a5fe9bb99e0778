----------------------------- MODULE MCOrgTree -----------------------------
(* Six organizations; vendors and customers have two-digit segments. *)
EXTENDS OrgTree, TLC

MCWidth == [t \in OrgTypes |-> IF t \in {"vendor", "customer"} THEN 2 ELSE 1]
MCNoParent == "no parent"
Symmetry == Permutations(OrgIds)

(* Bound: vendors and customers take two of the four path keys of their    *)
(* width, one of them the highest.                                         *)
FewSiblings ==
    \A o \in DOMAIN orgs : orgs[o].type \in {"vendor", "customer"} =>
        Last(orgs[o].pathKey) \in {<<0, 1>>, <<1, 1>>}
=============================================================================
