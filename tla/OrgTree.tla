------------------------------- MODULE OrgTree -------------------------------
(***************************************************************************)
(* The organization tree as it grows through creation requests: the        *)
(* ValidateOrgHierarchy middleware (microservices/http/middlewares/        *)
(* orghierarchy) in front of the service that stores an organization.      *)
(* That service is not in the repository: it gives a new organization a    *)
(* free path key of its type's width under its parent, and it refreshes    *)
(* the coverage a user's request works with, which may be out of date.     *)
(***************************************************************************)
EXTENDS OrgFilter

CONSTANTS
    Width,     \* digits of a segment for each organization type
    NoParent   \* the parentOrgId of a DTO that has none

OrgTypes == {"vendor", "customer", "site", "building", "floor", "zone"}

(* ValidChildTypes; zone is a leaf. *)
ValidChildTypes ==
    [vendor |-> "customer", customer |-> "site", site |-> "building",
     building |-> "floor", floor |-> "zone"]

ASSUME WidthAssumption == Width \in [OrgTypes -> Nat \ {0}]
ASSUME IdAssumption == NoParent \notin OrgIds /\ NoOrg \notin OrgIds

VARIABLES
    orgs,      \* the stored organizations
    coverage,  \* the CoverageOrgs of the user's request context
    lineage    \* ghost: for each organization, itself and all above it

treeVars == <<orgs, coverage, lineage>>

(* The stored organizations, the coverage and the lineage have their types. *)
TreeTypeOK ==
    /\ DOMAIN orgs \subseteq OrgIds
    /\ \A o \in DOMAIN orgs : orgs[o].id = o /\ orgs[o].type \in OrgTypes
    /\ DOMAIN lineage = DOMAIN orgs
    /\ coverage \subseteq {orgs[o] : o \in DOMAIN orgs}

-----------------------------------------------------------------------------
(* A body the extractor cannot read, and what the coverage middleware left  *)
(* in the Locals of the request.                                            *)
NoDTO == "no dto"
Locals == {"requestContext", "none"}

(* The child's type is not compared with the one expected. *)
ValidateOrgHierarchy_AnyType(type, parentOrgId, locals, coverageOrgs) ==
    LET parent == FindOrgInCoverage(parentOrgId, coverageOrgs)
    IN  IF type = NoDTO THEN "400"
        ELSE IF parentOrgId = NoParent THEN IF type = "vendor" THEN "next" ELSE "400"
        ELSE IF parent # NoOrgData /\ parent.type # "zone" THEN "next" ELSE "403"

(* ValidateOrgHierarchy: the status it answers with, "next" when it calls   *)
(* the next handler.                                                        *)
ValidateOrgHierarchy(type, parentOrgId, locals, coverageOrgs) ==
    LET parent == FindOrgInCoverage(parentOrgId, coverageOrgs)
    IN  IF type = NoDTO THEN "400"
        ELSE IF parentOrgId = NoParent THEN IF type = "vendor" THEN "next" ELSE "400"
        ELSE IF locals # "requestContext" THEN "500"
        ELSE IF parent = NoOrgData THEN "403"
        ELSE IF /\ parent.type # "zone"
                /\ parent.type \in DOMAIN ValidChildTypes
                /\ type = ValidChildTypes[parent.type]
             THEN "next" ELSE "400"

(* The organization service's part: a path key not in use, one segment      *)
(* below the parent's.                                                      *)
FreePathKeys(type, parentOrgId) ==
    LET above == IF parentOrgId = NoParent THEN <<>> ELSE orgs[parentOrgId].pathKey
    IN  {Append(above, seg) : seg \in [1 .. Width[type] -> 0 .. Radix - 1]}
        \ {orgs[o].pathKey : o \in DOMAIN orgs}

(* Stored under the id of the parent. *)
CreateOrganization_ParentId(id, type, parentOrgId, locals) ==
    /\ id \notin DOMAIN orgs
    /\ ValidateOrgHierarchy(type, parentOrgId, locals, coverage) = "next"
    /\ \E pk \in FreePathKeys(type, parentOrgId) :
          orgs' = [o \in DOMAIN orgs \cup {id} |->
                      IF o = id THEN CoverageOrg(parentOrgId, type, pk) ELSE orgs[o]]
    /\ lineage' = [o \in DOMAIN orgs \cup {id} |-> IF o # id THEN lineage[o] ELSE {id}]
    /\ UNCHANGED coverage

(* A creation request that passes the middleware is stored. *)
CreateOrganization(id, type, parentOrgId, locals) ==
    /\ id \notin DOMAIN orgs
    /\ ValidateOrgHierarchy(type, parentOrgId, locals, coverage) = "next"
    /\ \E pk \in FreePathKeys(type, parentOrgId) :
          orgs' = [o \in DOMAIN orgs \cup {id} |->
                      IF o = id THEN CoverageOrg(id, type, pk) ELSE orgs[o]]
    /\ lineage' = [o \in DOMAIN orgs \cup {id} |->
                      IF o # id THEN lineage[o]
                      ELSE {id} \cup (IF parentOrgId = NoParent THEN {} ELSE lineage[parentOrgId])]
    /\ UNCHANGED coverage

(* The coverage is built again, for a membership in organization o that is  *)
(* local to it or recursive.                                                *)
RefreshCoverage(o) ==
    /\ \/ coverage' = {orgs[o]}
       \/ coverage' = {orgs[p] : p \in {q \in DOMAIN orgs : o \in lineage[q]}}
    /\ coverage' # coverage
    /\ UNCHANGED <<orgs, lineage>>

TreeInit ==
    /\ orgs = <<>>
    /\ coverage = {}
    /\ lineage = <<>>

TreeNext ==
    \/ \E id \in OrgIds, type \in OrgTypes \cup {NoDTO},
          parentOrgId \in OrgIds \cup {NoParent}, locals \in Locals :
          CreateOrganization(id, type, parentOrgId, locals)
    \/ \E o \in DOMAIN orgs : RefreshCoverage(o)

TreeSpec == TreeInit /\ [][TreeNext]_treeVars

-----------------------------------------------------------------------------
(* The context of a request that names organization o. *)
ContextOf(o) == RequestContext(o, orgs[o], DOMAIN orgs, coverage)

(* The last segment has the highest value of its width: its next sibling    *)
(* is one digit wider.                                                      *)
AtTop(pk) == \A i \in DOMAIN Last(pk) : Last(pk)[i] = Radix - 1

(* The organizations a path key range query returns, in MongoDB and in      *)
(* ClickHouse, are the organization and everything created below it:        *)
(* CalculateNextSiblingPathKey, IsDescendantOrSelf and GetAncestorPaths     *)
(* describe one tree, the one the creations built (pathkey.go), except for  *)
(* an organization whose segment is the highest of its width.               *)
RangeIsSubtree ==
    \A o, p \in DOMAIN orgs :
        LET below == o \in lineage[p]
        IN  /\ IsDescendantOrSelf(orgs[p].pathKey, orgs[o].pathKey) <=> below
            /\ Contains(GetAncestorPaths(orgs[p].pathKey), orgs[o].pathKey) <=> below /\ o # p
            /\ ~AtTop(orgs[o].pathKey) =>
                  /\ Selects(BuildOrgFilter(ContextOf(o), TRUE), orgs[p]) <=> below
                  /\ Selects(BuildOrgFilterClickHouse(ContextOf(o), TRUE), orgs[p]) <=> below

(* The comment of CalculateNextSiblingPathKey: "This query efficiently      *)
(* selects the org and ALL its descendants", with no exception.             *)
RangeSelectsSelf ==
    \A o \in DOMAIN orgs : Selects(BuildOrgFilter(ContextOf(o), TRUE), orgs[o])

(* orgfilter derives an organization's type from the depth of its path key, *)
(* the hierarchy middleware from the stored type of its parent, read from a *)
(* coverage that may be old: the two agree on every organization.           *)
DepthMatchesType ==
    \A o \in DOMAIN orgs :
        LET byDepth == GetOrgTypeFromPathKey(orgs[o].pathKey)
        IN  IF orgs[o].type \in {"vendor", "customer", "site"} THEN byDepth = orgs[o].type
            ELSE byDepth = "other"

(* An organization sees the templates of exactly those organizations at or  *)
(* above it that ValidateTemplateCreation lets create templates.            *)
TemplatesVisible ==
    \A o \in DOMAIN orgs :
        BuildTemplateAncestorFilter(ContextOf(o))
          = {orgs[a].pathKey : a \in {b \in lineage[o] : ValidateTemplateCreation(orgs[b].pathKey)}}
=============================================================================
