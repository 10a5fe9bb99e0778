---------------------------- MODULE RequestAccess ----------------------------
(***************************************************************************)
(* The middleware chain in front of a list endpoint: AuthMiddleware,       *)
(* RequirePermissions, InjectRequestContext, and BuildOrgFilter in the     *)
(* service (microservices/http/middlewares/{auth,permission,coverage},     *)
(* utils/orgfilter), for the concurrent requests of one user; users share  *)
(* no keys of the shared cache.                                            *)
(*                                                                         *)
(* The shared cache (Redis) holds for every scope (an organization, or     *)
(* "global") a version pointer and the permissions of each version, and    *)
(* the user's coverage.  The identity service that fills it is not in the  *)
(* repository.  As the middlewares describe it, a build moves the pointer  *)
(* first and saves the permissions later.  A version is a number from 1 to *)
(* Versions, and permissions stay cached for 30 days: a build may take a   *)
(* number whose permissions are still cached.  Builds are counted here,    *)
(* and number says which version each of them took.                        *)
(***************************************************************************)
EXTENDS OrgFilter, FiniteSets

CONSTANTS
    Requests,       \* the requests, each made once
    Headers,        \* the X-Org-Context headers sent, NoOrg for none
    OrgData,        \* the CoverageOrg of every organization
    Required,       \* the permissions the route asks for
    GrantSets,      \* the permission lists the identity service may grant
    Situations,     \* what the identity service may hold at the start: the
                    \* grants of every scope, the coverage entries it lists
    Versions,       \* the version numbers of a scope (100)
    Numbers,        \* the numbers each build may take
    MaxRetries,     \* reads of a version's permissions before giving up (10)
    MaxVersion,     \* bound: builds of a scope
    MaxChanges      \* bound: changes of grants and coverage, and evictions

(* A permission is its resource and its action, "*" for any. *)
RootPermission          == <<"mapex", "*">>
AdminVendorPermission   == <<"admin_vendor", "*">>
AdminCustomerPermission == <<"admin_customer", "*">>
AdminPermission         == <<"admin", "*">>

Global == "global"
Scopes == (Headers \ {NoOrg}) \cup {Global}

ASSUME HeadersAssumption == Headers \subseteq OrgIds \cup {NoOrg}
ASSUME OrgDataAssumption ==
    /\ NoOrg \notin OrgIds /\ OrgIds \cap BadIds = {}
    /\ \A o \in OrgIds : OrgData[o].id = o /\ OrgData[o].pathKey # <<>>
ASSUME LimitsAssumption ==
    MaxRetries \in Nat \ {0} /\ Versions \in Nat /\ MaxVersion \in Nat /\ MaxChanges \in Nat
ASSUME NumbersAssumption == Numbers \in [1 .. MaxVersion -> SUBSET (1 .. Versions)]

(* An organization is listed once, as it is or without its path key.        *)
ASSUME SituationsAssumption ==
    \A situation \in Situations :
        /\ situation.grant \in [Scopes -> GrantSets]
        /\ \A e \in situation.listed :
              /\ e.id \in OrgIds /\ (e = OrgData[e.id] \/ e.pathKey = <<>>)
              /\ \A f \in situation.listed : f.id = e.id => f = e

NotFound   == 0         \* no build's permissions
NoCoverage == {NoOrg}   \* an absent coverage

VARIABLES
    grant,     \* the permissions the identity service grants in each scope
    member,    \* the organizations it lets the user access
    listed,    \* the coverage entries it has for them
    ver,       \* the build each scope's version pointer is from, 0 when absent
    number,    \* the version each build took, 0 before it
    data,      \* the build whose permissions are cached under each version
    built,     \* the permissions each build computed, sent to its caller
    cov,       \* the ids of the cached coverage
    builds,    \* builds that moved the pointer and have not saved yet
    last,      \* the builds of each scope so far
    pc,        \* the step each request is at, its answer once done
    header,    \* its X-Org-Context
    phase,     \* which list RequirePermissions is reading: admin or required
    vread,     \* the build whose version it read, or that was made for it
    attempt,   \* reads of that version so far
    filter,    \* the filter its query ran with
    changes,   \* changes and evictions so far
    saved,     \* ghost: the newest build saved in each scope
    reused,    \* ghost: builds that took a version still in use for older ones
    floor,     \* ghost: the newest of its scope when the request arrived
    used,      \* ghost: builds a request was let through on
    calm       \* ghost: nothing failed, changed or was being built meanwhile

buildVars == <<ver, number, built, builds, last, reused>>
cacheVars == <<buildVars, data, cov, saved>>
truthVars == <<grant, member, listed, changes>>
reqVars   == <<pc, header, phase, vread, attempt, filter, floor, used, calm>>
vars == <<cacheVars, truthVars, reqVars>>

Answers == {"served", "401", "403", "500"}
Steps == {"idle", "auth", "ver", "data", "build", "await", "coverage", "covBuild",
          "rootVer", "rootData"} \cup Answers

(* The types of the cache, the identity service and the requests. *)
TypeOK ==
    /\ grant \in [Scopes -> GrantSets] /\ member \subseteq OrgIds
    /\ ver \in [Scopes -> 0 .. MaxVersion]
    /\ number \in [Scopes -> [1 .. MaxVersion -> 0 .. Versions]]
    /\ data \in [Scopes -> [1 .. Versions -> 0 .. MaxVersion]]
    /\ cov \in {NoCoverage} \cup SUBSET OrgIds
    /\ \A b \in builds : b.scope \in Scopes /\ b.version \in 1 .. last[b.scope]
    /\ \A s \in Scopes : ver[s] \in {0, last[s]} /\ saved[s] <= last[s]
    /\ pc \in [Requests -> Steps]
    /\ header \in [Requests -> Headers \cup {NoOrg}]
    /\ attempt \in [Requests -> 0 .. MaxRetries - 1]
    /\ vread \in [Requests -> 0 .. MaxVersion]

-----------------------------------------------------------------------------
(* matchesPermission and hasAnyPermission. *)
MatchesPermission(userPerm, required) ==
    \/ userPerm \in {RootPermission, AdminVendorPermission, AdminCustomerPermission, AdminPermission}
    \/ userPerm = required
    \/ userPerm[2] = "*" /\ userPerm[1] = required[1]

HasAnyPermission(userPerms, required) ==
    \E p \in userPerms, q \in required : MatchesPermission(p, q)

AdminLevel == {RootPermission, AdminVendorPermission, AdminCustomerPermission}

(* The scope whose permissions a request needs; "" is normalized to global. *)
ScopeOfOrg(org) == IF org = NoOrg THEN Global ELSE org
ScopeOf(r) == ScopeOfOrg(header[r])

Goto(r, step) == pc' = [pc EXCEPT ![r] = step]
Disturbed(r) == calm' = [calm EXCEPT ![r] = FALSE]
AllDisturbed == calm' = [r \in Requests |-> FALSE]

(* The version and the count of reads are local to one look-up. *)
Forget(r) == vread' = [vread EXCEPT ![r] = 0] /\ attempt' = [attempt EXCEPT ![r] = 0]

-----------------------------------------------------------------------------
(* Whether older permissions are cached under a version, or about to be.    *)
InUse(scope, n) ==
    \/ data[scope][n] # NotFound
    \/ \E b \in builds : b.scope = scope /\ number[scope][b.version] = n

(* The identity service: a build moves the pointer to a version for the     *)
(* permissions granted now ...                                              *)
Build(scope, perms, by) ==
    LET new == last[scope] + 1
    IN  /\ new <= MaxVersion
        /\ last' = [last EXCEPT ![scope] = new]
        /\ ver' = [ver EXCEPT ![scope] = new]
        /\ built' = [built EXCEPT ![scope][new] = perms]
        /\ builds' = builds \cup {[scope |-> scope, version |-> new, by |-> by]}
        /\ \E n \in Numbers[new] :
              /\ number' = [number EXCEPT ![scope][new] = n]
              /\ reused' = [reused EXCEPT ![scope] = IF InUse(scope, n) THEN @ \cup {new} ELSE @]

(* ... and saves them under that version.  A request waiting for its build  *)
(* is answered then.                                                        *)
Save(b) ==
    /\ b \in builds
    /\ builds' = builds \ {b}
    /\ data' = [data EXCEPT ![b.scope][number[b.scope][b.version]] = b.version]
    /\ saved' = [saved EXCEPT ![b.scope] = IF b.version > @ THEN b.version ELSE @]
    /\ UNCHANGED <<ver, number, built, cov, last, reused, truthVars, reqVars>>

(* A role changes: the service publishes the new permissions. *)
ChangeGrant(scope, perms) ==
    /\ changes < MaxChanges
    /\ perms # grant[scope]
    /\ grant' = [grant EXCEPT ![scope] = perms]
    /\ Build(scope, perms, "service")
    /\ changes' = changes + 1
    /\ AllDisturbed
    /\ UNCHANGED <<member, listed, data, cov, saved,
                   pc, header, phase, vread, attempt, filter, floor, used>>

(* A membership is given or taken: the service drops the cached coverage. *)
ChangeMember(org) ==
    /\ changes < MaxChanges
    /\ member' \in {member \cup {org}, member \ {org}} \ {member}
    /\ cov' = NoCoverage
    /\ changes' = changes + 1
    /\ AllDisturbed
    /\ UNCHANGED <<grant, listed, buildVars, data, saved,
                   pc, header, phase, vread, attempt, filter, floor, used>>

(* Redis drops a key: its TTL ran out, or memory did. *)
Evict ==
    /\ changes < MaxChanges
    /\ changes' = changes + 1
    /\ \/ /\ \E s \in Scopes : ver[s] # 0 /\ ver' = [ver EXCEPT ![s] = 0]
          /\ UNCHANGED <<data, cov>>
       \/ /\ \E s \in Scopes, n \in 1 .. Versions :
                data[s][n] # NotFound /\ data' = [data EXCEPT ![s][n] = NotFound]
          /\ UNCHANGED <<ver, cov>>
       \/ cov # NoCoverage /\ cov' = NoCoverage /\ UNCHANGED <<ver, data>>
    /\ AllDisturbed
    /\ UNCHANGED <<grant, member, listed, number, built, builds, last, reused, saved,
                   pc, header, phase, vread, attempt, filter, floor, used>>

-----------------------------------------------------------------------------
(* The build whose permissions a reader finds under the version of build b. *)
Found(s, b) == data[s][number[s][b]]

(* A request arrives. *)
Arrive(r, org) ==
    /\ pc[r] = "idle"
    /\ Goto(r, "auth")
    /\ header' = [header EXCEPT ![r] = org]
    /\ floor' = [floor EXCEPT ![r] = saved[ScopeOfOrg(org)]]
    /\ calm' = [calm EXCEPT ![r] = builds = {}
                    /\ \A s \in Scopes : ver[s] # 0 => Found(s, ver[s]) = ver[s]]
    /\ UNCHANGED <<cacheVars, truthVars, phase, vread, attempt, filter, used>>

(* An Authorization header is the set of the tests it passes, empty when    *)
(* none was sent: verified means signed with the key and in date, userId    *)
(* that the claim is there and is text.                                     *)
Tokens == SUBSET {"sent", "algorithm", "verified", "userId"}

ParseJWTTokenWithSecret(t) == {"algorithm", "verified"} \subseteq t

(* The key set is fetched for every token; the algorithm is the key's own. *)
ParseJWTTokenWithJWKS(t, fetched) == fetched /\ "verified" \in t

GetUserIdFromToken(t) == "userId" \in t

AuthMiddleware(t, strategy, fetched) ==
    /\ "sent" \in t
    /\ \/ strategy = "jwt" /\ ParseJWTTokenWithSecret(t)
       \/ strategy = "oauth2" /\ ParseJWTTokenWithJWKS(t, fetched)

(* Whether the chain learns who calls, for each token, strategy and fetch. *)
Identified ==
    {AuthMiddleware(t, strategy, fetched) /\ GetUserIdFromToken(t) :
        t \in Tokens, strategy \in {"jwt", "oauth2", "other"}, fetched \in BOOLEAN}

(* Then RequirePermissions, which needs the userId and reads the admin list *)
(* first when no org is named.                                              *)
Authenticate(r) ==
    /\ pc[r] = "auth"
    /\ \E identified \in Identified :
          IF identified
          THEN /\ Goto(r, "ver")
               /\ phase' = [phase EXCEPT ![r] = IF header[r] = NoOrg THEN "admin" ELSE "required"]
          ELSE Goto(r, "401") /\ UNCHANGED phase
    /\ UNCHANGED <<cacheVars, truthVars, header, vread, attempt, filter, floor, used, calm>>

(* RequirePermissions goes on with the list getUserPermissions returned,    *)
(* the one of build b.                                                      *)
WithPermissions(r, perms, b) ==
    /\ Forget(r)
    /\ \/ /\ phase[r] = "admin"
          /\ Goto(r, IF HasAnyPermission(perms, AdminLevel) THEN "ver" ELSE "403")
          /\ phase' = [phase EXCEPT ![r] = "required"]
          /\ UNCHANGED used
       \/ /\ phase[r] = "required"
          /\ Goto(r, IF HasAnyPermission(perms, Required) THEN "coverage" ELSE "403")
          /\ used' = [used EXCEPT ![r].required = b]
          /\ UNCHANGED phase

(* Any failure makes getUserPermissions return the empty list. *)
PermissionsFailed(r) == WithPermissions(r, {}, NotFound) /\ Disturbed(r)

(* A missing pointer counts as no permissions instead of building them. *)
ReadVersion_NoBuild(r) ==
    /\ pc[r] = "ver"
    /\ \/ /\ ver[ScopeOf(r)] # 0
          /\ vread' = [vread EXCEPT ![r] = ver[ScopeOf(r)]]
          /\ Goto(r, "data") /\ UNCHANGED <<attempt, phase, used, calm>>
       \/ ver[ScopeOf(r)] = 0 /\ WithPermissions(r, {}, NotFound) /\ UNCHANGED calm
    /\ UNCHANGED <<cacheVars, truthVars, header, filter, floor>>

(* getUserPermissionsWithVersioning, 1 and 2: the version pointer. *)
ReadVersion(r) ==
    /\ pc[r] = "ver"
    /\ \/ /\ ver[ScopeOf(r)] # 0
          /\ vread' = [vread EXCEPT ![r] = ver[ScopeOf(r)]]
          /\ Goto(r, "data") /\ UNCHANGED <<attempt, phase, used, calm>>
       \/ /\ ver[ScopeOf(r)] = 0
          /\ Goto(r, "build") /\ UNCHANGED <<vread, attempt, phase, used, calm>>
       \/ PermissionsFailed(r)
    /\ UNCHANGED <<cacheVars, truthVars, header, filter, floor>>

(* One read too many. *)
ReadPermissions_OneMore(r) ==
    /\ pc[r] = "data"
    /\ Found(ScopeOf(r), vread[r]) = NotFound
    /\ attempt' = [attempt EXCEPT ![r] = @ + 1]
    /\ IF attempt[r] < MaxRetries THEN UNCHANGED pc ELSE Goto(r, "build")
    /\ UNCHANGED <<cacheVars, truthVars, header, phase, vread, filter, floor, used, calm>>

(* The reads are not counted. *)
ReadPermissions_Uncounted(r) ==
    LET found == Found(ScopeOf(r), vread[r])
    IN  /\ pc[r] = "data"
        /\ \/ found # NotFound /\ WithPermissions(r, built[ScopeOf(r)][found], found)
           \/ found = NotFound /\ UNCHANGED <<pc, phase, vread, attempt, used>>
        /\ UNCHANGED <<cacheVars, truthVars, header, filter, floor, calm>>

(* The permissions of any version are taken. *)
ReadPermissions_AnyVersion(r) ==
    /\ pc[r] = "data"
    /\ \E n \in 1 .. Versions :
          LET found == data[ScopeOf(r)][n]
          IN  found # NotFound /\ WithPermissions(r, built[ScopeOf(r)][found], found)
    /\ UNCHANGED <<cacheVars, truthVars, header, filter, floor, calm>>

(* 3: the permissions of that version, read again while they are missing.   *)
ReadPermissions(r) ==
    LET found == Found(ScopeOf(r), vread[r])
    IN  /\ pc[r] = "data"
        /\ \/ /\ found # NotFound
              /\ WithPermissions(r, built[ScopeOf(r)][found], found) /\ UNCHANGED calm
           \/ /\ found = NotFound /\ attempt[r] < MaxRetries - 1
              /\ attempt' = [attempt EXCEPT ![r] = @ + 1]
              /\ UNCHANGED <<pc, phase, vread, used, calm>>
           \/ /\ found = NotFound /\ attempt[r] = MaxRetries - 1
              /\ Forget(r) /\ Goto(r, "build") /\ UNCHANGED <<phase, used, calm>>
           \/ PermissionsFailed(r)
        /\ UNCHANGED <<cacheVars, truthVars, header, filter, floor>>

(* buildAuthorizationCacheViaAPI: the call reaches the service or fails. *)
CallBuild(r) ==
    /\ pc[r] = "build"
    /\ \/ /\ Build(ScopeOf(r), grant[ScopeOf(r)], r)
          /\ vread' = [vread EXCEPT ![r] = last[ScopeOf(r)] + 1]
          /\ Goto(r, "await")
          /\ calm' = [q \in Requests |-> calm[q] /\ q = r]
          /\ UNCHANGED <<attempt, phase, used>>
       \/ PermissionsFailed(r) /\ UNCHANGED buildVars
    /\ UNCHANGED <<data, cov, saved, truthVars, header, filter, floor>>

(* Its answer arrives once the service saved, or the client times out. *)
AwaitBuild(r) ==
    /\ pc[r] = "await"
    /\ \/ /\ ~ \E b \in builds : b.by = r
          /\ WithPermissions(r, built[ScopeOf(r)][vread[r]], vread[r]) /\ UNCHANGED calm
       \/ PermissionsFailed(r)
    /\ UNCHANGED <<cacheVars, truthVars, header, filter, floor>>

-----------------------------------------------------------------------------
(* The service's query: BuildOrgFilter on the injected request context and  *)
(* the includeChildren of the query, or the error it returns instead.       *)
Serve(r, ctx) ==
    \E includeChildren \in BOOLEAN :
        LET query == BuildOrgFilter(ctx, includeChildren)
        IN  /\ filter' = [filter EXCEPT ![r] = query]
            /\ Goto(r, IF query.kind = "error" THEN "500" ELSE "served")

(* InjectRequestContext, steps 3 to 9, once it has the coverage: its        *)
(* AccessibleOrgIds, and of its Organizations those the service listed.     *)
WithCoverage(r, ids) ==
    LET access == {e \in listed : e.id \in ids}
        found == FindOrgInCoverage(header[r], access)
    IN  \/ header[r] = NoOrg /\ Goto(r, "rootVer") /\ UNCHANGED filter
        \/ /\ header[r] # NoOrg
           /\ ~ValidateOrgContext(header[r], ids) \/ found = NoOrgData
           /\ Goto(r, "403") /\ UNCHANGED filter
        \/ /\ header[r] # NoOrg
           /\ ValidateOrgContext(header[r], ids) /\ found # NoOrgData
           /\ Serve(r, RequestContext(header[r], found, ids, access))

(* getCoverageWithLazyBuild: the cached coverage ... *)
ReadCoverage(r) ==
    /\ pc[r] = "coverage"
    /\ \/ cov # NoCoverage /\ WithCoverage(r, cov) /\ UNCHANGED calm
       \/ cov = NoCoverage /\ Goto(r, "covBuild") /\ UNCHANGED <<filter, calm>>
       \/ Goto(r, "500") /\ Disturbed(r) /\ UNCHANGED filter
    /\ UNCHANGED <<cacheVars, truthVars, header, phase, vread, attempt, floor, used>>

(* ... or one the service builds and caches on demand. *)
BuildCoverage(r) ==
    /\ pc[r] = "covBuild"
    /\ \/ /\ cov' = member
          /\ WithCoverage(r, member)
          /\ UNCHANGED calm
       \/ Goto(r, "500") /\ Disturbed(r) /\ UNCHANGED <<cov, filter>>
    /\ UNCHANGED <<buildVars, data, saved, truthVars, header, phase, vread, attempt, floor, used>>

(* hasRootPermissions: no pointer, or any error, means no. *)
ReadRootVersion(r) ==
    /\ pc[r] = "rootVer"
    /\ \/ /\ ver[Global] # 0
          /\ vread' = [vread EXCEPT ![r] = ver[Global]]
          /\ Goto(r, "rootData") /\ UNCHANGED calm
       \/ ver[Global] = 0 /\ Goto(r, "403") /\ UNCHANGED <<vread, calm>>
       \/ Goto(r, "403") /\ Disturbed(r) /\ UNCHANGED vread
    /\ UNCHANGED <<cacheVars, truthVars, header, phase, attempt, filter, floor, used>>

IsRoot_AnyAdmin(perms) == perms \cap AdminLevel # {}

(* The comparison of hasRootPermissions: mapex.* itself. *)
IsRoot(perms) == RootPermission \in perms

(* Its permissions are read again on a miss and on an error alike. *)
ReadRootPermissions(r) ==
    LET found == Found(Global, vread[r])
    IN  /\ pc[r] = "rootData"
        /\ \/ /\ found # NotFound /\ IsRoot(built[Global][found])
              /\ Forget(r) /\ Serve(r, RequestContext(NoOrg, NoOrgData, {}, {}))
              /\ used' = [used EXCEPT ![r].root = found]
              /\ UNCHANGED calm
           \/ /\ found # NotFound /\ ~IsRoot(built[Global][found])
              /\ Forget(r) /\ Goto(r, "403") /\ UNCHANGED <<calm, filter, used>>
           \/ /\ attempt[r] < MaxRetries - 1
              /\ attempt' = [attempt EXCEPT ![r] = @ + 1]
              /\ Disturbed(r)
              /\ UNCHANGED <<pc, vread, filter, used>>
           \/ /\ attempt[r] = MaxRetries - 1
              /\ Forget(r) /\ Goto(r, "403") /\ Disturbed(r) /\ UNCHANGED <<filter, used>>
        /\ UNCHANGED <<cacheVars, truthVars, header, phase, floor>>

-----------------------------------------------------------------------------
Init ==
    /\ \E situation \in Situations : grant = situation.grant /\ listed = situation.listed
    /\ member = OrgIds
    /\ ver = [s \in Scopes |-> 0] /\ last = ver /\ saved = ver
    /\ number = [s \in Scopes |-> [b \in 1 .. MaxVersion |-> 0]]
    /\ built = [s \in Scopes |-> [b \in 1 .. MaxVersion |-> {}]]
    /\ data = [s \in Scopes |-> [n \in 1 .. Versions |-> NotFound]]
    /\ reused = [s \in Scopes |-> {}]
    /\ cov = NoCoverage /\ builds = {} /\ changes = 0
    /\ pc = [r \in Requests |-> "idle"]
    /\ header = [r \in Requests |-> NoOrg]
    /\ phase = [r \in Requests |-> "required"]
    /\ vread = [r \in Requests |-> 0] /\ attempt = vread
    /\ filter = [r \in Requests |-> ErrorFilter]
    /\ floor = vread
    /\ used = [r \in Requests |-> [required |-> 0, root |-> 0]]
    /\ calm = [r \in Requests |-> TRUE]

Step(r) ==
    \/ Authenticate(r) \/ ReadVersion(r) \/ ReadPermissions(r) \/ CallBuild(r) \/ AwaitBuild(r)
    \/ ReadCoverage(r) \/ BuildCoverage(r) \/ ReadRootVersion(r) \/ ReadRootPermissions(r)

Next ==
    \/ \E r \in Requests, org \in Headers : Arrive(r, org)
    \/ \E r \in Requests : Step(r)
    \/ \E b \in builds : Save(b)
    \/ \E s \in Scopes, perms \in GrantSets : ChangeGrant(s, perms)
    \/ \E org \in OrgIds : ChangeMember(org)
    \/ Evict

(* A handler's goroutine runs on, and the HTTP clients have a timeout. *)
Fairness == \A r \in Requests : WF_vars(Step(r))

Spec == Init /\ [][Next]_vars /\ Fairness

-----------------------------------------------------------------------------
(* Permissions a request may be judged by: no older than the newest the     *)
(* service had saved when it arrived, unless a build since then took their  *)
(* version while they, or older ones, were cached or being saved under it.  *)
Current(r, b) ==
    LET s == ScopeOf(r)
    IN  /\ b # NotFound
        /\ \/ b >= floor[r]
           \/ \E g \in reused[s] : g >= floor[r] /\ number[s][g] = number[s][b]

(* A request is never let through on permissions older than the newest the  *)
(* service had saved when the request arrived: a permission taken away and  *)
(* rebuilt before the request does not serve it, whatever the pointer, the  *)
(* retries and the rebuilds of other requests do meanwhile.  The exception  *)
(* is a version that comes back before its old permissions are gone: until  *)
(* the new ones are saved, the version leads to the old ones.               *)
ServedOnFreshGrant ==
    \A r \in Requests : pc[r] = "served" =>
        /\ Current(r, used[r].required)
        /\ HasAnyPermission(built[ScopeOf(r)][used[r].required], Required)

(* The two middlewares judge a request without an organization differently, *)
(* RequirePermissions by any admin-level permission and the coverage        *)
(* middleware by mapex.* alone, on reads at different times.  Together they *)
(* leave a query unfiltered only for a root user, by permissions as fresh   *)
(* as those it was let through on; any other query stays within the named   *)
(* subtree, whatever path keys the coverage lacks.                          *)
ScopeOfServed ==
    \A r \in Requests : pc[r] = "served" =>
        \/ /\ header[r] = NoOrg
           /\ Current(r, used[r].root)
           /\ RootPermission \in built[Global][used[r].root]
        \/ /\ header[r] # NoOrg /\ filter[r].kind \in {"org", "range"}
           /\ \A o \in OrgIds : Selects(filter[r], OrgData[o]) <=>
                  IF filter[r].kind = "range" THEN IsDescendantOrSelf(OrgData[o].pathKey, OrgData[header[r]].pathKey)
                  ELSE o = header[r]

(* With nothing failing and nothing changing meanwhile, a request is        *)
(* refused only when the identity service would refuse it, or does not list *)
(* the organization with its path key: a cold cache is built on demand and  *)
(* does not cost the user the request.                                      *)
RefusedForCause ==
    \A r \in Requests : pc[r] \in {"403", "500"} /\ calm[r] =>
        \/ ~HasAnyPermission(grant[ScopeOf(r)], Required)
        \/ header[r] = NoOrg /\ RootPermission \notin grant[Global]
        \/ header[r] # NoOrg /\ (header[r] \notin member \/ OrgData[header[r]] \notin listed)

(* Every request is answered, though it may wait for permissions that are   *)
(* being built and for calls that fail: the retries end.                    *)
Answered == \A r \in Requests : pc[r] # "idle" ~> pc[r] \in Answers
=============================================================================
