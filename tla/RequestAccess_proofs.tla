------------------------ MODULE RequestAccess_proofs ------------------------
(***************************************************************************)
(* What the middleware chain of RequestAccess guarantees for any number of *)
(* requests, organizations, versions and retries.                          *)
(***************************************************************************)
EXTENDS RequestAccess, OrgTree_proofs

Vs == 0 .. MaxVersion

(* The permissions a build may have computed. *)
Perms == GrantSets \cup {{}}

(* The coverage entries are those of the organizations, once each. *)
ListedOK ==
    \A e \in listed :
        /\ e.id \in OrgIds /\ (e = OrgData[e.id] \/ e.pathKey = <<>>)
        /\ \A f \in listed : f.id = e.id => f = e

(* The types of all variables, those of TypeOK included. *)
TypeInv ==
    /\ TypeOK
    /\ last \in [Scopes -> Vs] /\ saved \in [Scopes -> Vs]
    /\ built \in [Scopes -> [1 .. MaxVersion -> Perms]]
    /\ builds \subseteq [scope : Scopes, version : 1 .. MaxVersion, by : Requests \cup {"service"}]
    /\ reused \in [Scopes -> SUBSET (1 .. MaxVersion)]
    /\ ListedOK
    /\ phase \in [Requests -> {"admin", "required"}]
    /\ floor \in [Requests -> Vs]
    /\ used \in [Requests -> [required : Vs, root : Vs]]
    /\ calm \in [Requests -> BOOLEAN]
    /\ DOMAIN filter = Requests

(* Every build took a version, what is cached under a version is from a     *)
(* build that took it, and a request's floor was saved.                     *)
VersionInv ==
    /\ \A r \in Requests : floor[r] <= saved[ScopeOf(r)]
    /\ \A s \in Scopes, b \in 1 .. MaxVersion :
          /\ b <= last[s] => number[s][b] \in 1 .. Versions
          /\ b \in reused[s] => b <= last[s]
    /\ \A s \in Scopes, n \in 1 .. Versions :
          data[s][n] # NotFound => data[s][n] <= last[s] /\ number[s][data[s][n]] = n

(* Under the version of a build that found it free, older permissions       *)
(* neither are cached nor will be.                                          *)
NothingOlder(s, g) ==
    /\ Found(s, g) # NotFound => Found(s, g) >= g
    /\ \A b \in builds : b.scope = s /\ number[s][b.version] = number[s][g] => b.version >= g

ReuseInv == \A s \in Scopes, g \in 1 .. MaxVersion : g <= last[s] /\ g \notin reused[s] => NothingOlder(s, g)

(* A build whose version request r may look under. *)
Recent(r, b) == b \in 1 .. last[ScopeOf(r)] /\ b >= floor[r]

(* A build whose permissions request r may rely on. *)
Usable(r, b) == b \in 1 .. last[ScopeOf(r)] /\ Current(r, b)

(* What a request has read. *)
ReadOK(r) ==
    /\ pc[r] \in {"data", "await", "rootData"} => Recent(r, vread[r])
    /\ pc[r] \in {"rootVer", "rootData"} => header[r] = NoOrg

Passed == {"coverage", "covBuild", "rootVer", "rootData", "served"}

(* What a request was let through on. *)
UsedOK(r) ==
    /\ pc[r] \in Passed =>
          /\ Usable(r, used[r].required)
          /\ HasAnyPermission(built[ScopeOf(r)][used[r].required], Required)
    /\ pc[r] = "served" /\ header[r] = NoOrg =>
          /\ Usable(r, used[r].root)
          /\ RootPermission \in built[Global][used[r].root]
    /\ pc[r] = "served" /\ header[r] # NoOrg =>
          \/ filter[r] = Filter("org", <<>>, <<>>, {header[r]})
          \/ filter[r] = RangeFilter(RequestContext(header[r], OrgData[header[r]], {}, {}))

RequestInv == \A r \in Requests : ReadOK(r) /\ UsedOK(r)

SafeInv == TypeInv /\ VersionInv /\ ReuseInv /\ RequestInv

(* The pointer leads to the permissions granted now, and the cached         *)
(* coverage is the membership now.                                          *)
GrantInv ==
    /\ \A s \in Scopes : ver[s] # 0 => built[s][ver[s]] = grant[s]
    /\ cov \in {NoCoverage, member}

(* The admin list is read only without an organization. *)
PhaseOK(r) == phase[r] = "admin" => pc[r] # "idle" /\ header[r] = NoOrg

(* Why a request may be refused. *)
Cause(r) ==
    \/ ~HasAnyPermission(grant[ScopeOf(r)], Required)
    \/ header[r] = NoOrg /\ RootPermission \notin grant[Global]
    \/ header[r] # NoOrg /\ (header[r] \notin member \/ OrgData[header[r]] \notin listed)

(* No build but r's own is under way, and what the pointers were moved for  *)
(* is in the cache or being saved.                                          *)
Quiet(r) ==
    /\ \A b \in builds : pc[r] = "await" /\ b.by = r /\ b.version = ver[b.scope]
    /\ \A s \in Scopes : ver[s] # 0 /\ Found(s, ver[s]) # ver[s] =>
          \E b \in builds : b.scope = s /\ b.version = ver[s]

(* What a request sees when nothing fails or changes meanwhile. *)
Sees(r) ==
    /\ pc[r] \in {"data", "await"} => vread[r] = ver[ScopeOf(r)]
    /\ pc[r] = "rootData" => vread[r] = ver[Global]
    /\ pc[r] \in Passed => ver[ScopeOf(r)] # 0
    /\ pc[r] \in {"403", "500"} => Cause(r)

CalmOK(r) == PhaseOK(r) /\ (pc[r] # "idle" /\ calm[r] => Quiet(r) /\ Sees(r))

CalmInv == \A r \in Requests : CalmOK(r)

-----------------------------------------------------------------------------
(* Facts about the operators. *)

LEMMA ScopeIsScope == ASSUME TypeInv, NEW r \in Requests PROVE ScopeOf(r) \in Scopes
BY DEF TypeInv, TypeOK, ScopeOf, ScopeOfOrg, Scopes

LEMMA OrgIsScope == ASSUME NEW org \in Headers PROVE ScopeOfOrg(org) \in Scopes
BY DEF ScopeOfOrg, Scopes

LEMMA GlobalIsScope == Global \in Scopes
BY DEF Scopes

(* No permissions let nobody through. *)
LEMMA NoPermissions == ASSUME NEW required PROVE ~HasAnyPermission({}, required)
BY DEF HasAnyPermission

(* mapex.* is an admin-level permission. *)
LEMMA RootIsAdmin ==
    ASSUME NEW perms, RootPermission \in perms PROVE HasAnyPermission(perms, AdminLevel)
BY DEF HasAnyPermission, MatchesPermission, AdminLevel

(* A look-up's locals are types again when it ends. *)
LEMMA ForgetStep ==
    ASSUME TypeInv, NEW r \in Requests, Forget(r)
    PROVE  /\ vread' \in [Requests -> Vs] /\ attempt' \in [Requests -> 0 .. MaxRetries - 1]
           /\ \A q \in Requests : q # r => vread'[q] = vread[q]
<1>1. 0 \in 0 .. MaxRetries - 1 /\ 0 \in Vs
  BY LimitsAssumption DEF Vs
<1>2. vread \in [Requests -> Vs] /\ attempt \in [Requests -> 0 .. MaxRetries - 1]
  BY DEF TypeInv, TypeOK, Vs
<1>3. vread' = [vread EXCEPT ![r] = 0] /\ attempt' = [attempt EXCEPT ![r] = 0]
  BY DEF Forget
<1>4. QED
  BY <1>1, <1>2, <1>3

(* What RequirePermissions does with a list. *)
LEMMA WithPermissionsStep ==
    ASSUME TypeInv, NEW r \in Requests, NEW perms, NEW b \in Vs, WithPermissions(r, perms, b)
    PROVE  /\ pc' \in [Requests -> Steps]
           /\ phase' \in [Requests -> {"admin", "required"}]
           /\ used' \in [Requests -> [required : Vs, root : Vs]]
           /\ vread' \in [Requests -> Vs] /\ attempt' \in [Requests -> 0 .. MaxRetries - 1]
           /\ \A q \in Requests : q # r => /\ pc'[q] = pc[q] /\ phase'[q] = phase[q]
                                           /\ used'[q] = used[q] /\ vread'[q] = vread[q]
           /\ phase[r] = "admin" =>
                 /\ pc'[r] = IF HasAnyPermission(perms, AdminLevel) THEN "ver" ELSE "403"
                 /\ phase'[r] = "required"
           /\ phase[r] = "required" =>
                 /\ pc'[r] = IF HasAnyPermission(perms, Required) THEN "coverage" ELSE "403"
                 /\ used'[r].required = b /\ phase'[r] = "required"
<1>1. /\ pc \in [Requests -> Steps] /\ phase \in [Requests -> {"admin", "required"}]
      /\ used \in [Requests -> [required : Vs, root : Vs]]
  BY DEF TypeInv, TypeOK, Vs
<1>2. /\ vread' \in [Requests -> Vs] /\ attempt' \in [Requests -> 0 .. MaxRetries - 1]
      /\ \A q \in Requests : q # r => vread'[q] = vread[q]
  BY ForgetStep DEF WithPermissions
<1>3. CASE phase[r] = "admin"
  <2>1. /\ pc' = [pc EXCEPT ![r] = IF HasAnyPermission(perms, AdminLevel) THEN "ver" ELSE "403"]
        /\ phase' = [phase EXCEPT ![r] = "required"] /\ used' = used
    BY <1>3 DEF WithPermissions, Goto
  <2>2. QED
    BY <1>1, <1>2, <1>3, <2>1 DEF Steps, Answers
<1>4. CASE phase[r] = "required"
  <2>1. /\ pc' = [pc EXCEPT ![r] = IF HasAnyPermission(perms, Required) THEN "coverage" ELSE "403"]
        /\ used' = [used EXCEPT ![r].required = b] /\ phase' = phase
    BY <1>4 DEF WithPermissions, Goto
  <2>2. used' \in [Requests -> [required : Vs, root : Vs]] /\ used'[r].required = b
    BY <1>1, <2>1
  <2>3. QED
    BY <1>1, <1>2, <1>4, <2>1, <2>2 DEF Steps, Answers
<1>5. QED
  BY <1>1, <1>3, <1>4

(* A failure of the cache or of a build ends in 403. *)
LEMMA PermissionsFailedStep ==
    ASSUME TypeInv, NEW r \in Requests, PermissionsFailed(r)
    PROVE  /\ pc' \in [Requests -> Steps]
           /\ phase' \in [Requests -> {"admin", "required"}]
           /\ used' \in [Requests -> [required : Vs, root : Vs]]
           /\ vread' \in [Requests -> Vs] /\ attempt' \in [Requests -> 0 .. MaxRetries - 1]
           /\ calm' \in [Requests -> BOOLEAN] /\ ~calm'[r] /\ pc'[r] = "403" /\ phase'[r] = "required"
           /\ \A q \in Requests : q # r => /\ pc'[q] = pc[q] /\ phase'[q] = phase[q]
                                           /\ used'[q] = used[q] /\ vread'[q] = vread[q]
                                           /\ calm'[q] = calm[q]
<1>1. WithPermissions(r, {}, NotFound) /\ calm' = [calm EXCEPT ![r] = FALSE] /\ NotFound \in Vs
  BY LimitsAssumption DEF PermissionsFailed, Disturbed, NotFound, Vs
<1>2. calm' \in [Requests -> BOOLEAN] /\ ~calm'[r]
      /\ \A q \in Requests : q # r => calm'[q] = calm[q]
  BY <1>1 DEF TypeInv
<1>3. phase[r] \in {"admin", "required"}
  BY DEF TypeInv
<1>4. pc'[r] = "403" /\ phase'[r] = "required"
  BY <1>1, <1>3, WithPermissionsStep, NoPermissions
<1>5. QED
  BY <1>1, <1>2, <1>4, WithPermissionsStep

(* A build is one more and leaves the others as they are.                   *)
LEMMA BuildStep ==
    ASSUME TypeInv, NEW s \in Scopes, NEW perms \in GrantSets,
           NEW by \in Requests \cup {"service"}, Build(s, perms, by)
    PROVE  /\ last[s] + 1 \in 1 .. MaxVersion
           /\ last' \in [Scopes -> Vs] /\ ver' \in [Scopes -> Vs]
           /\ built' \in [Scopes -> [1 .. MaxVersion -> Perms]]
           /\ builds' \subseteq [scope : Scopes, version : 1 .. MaxVersion,
                                 by : Requests \cup {"service"}]
           /\ \A b \in builds' : b.version \in 1 .. last'[b.scope]
           /\ last'[s] = last[s] + 1 /\ ver'[s] = last[s] + 1 /\ built'[s][last[s] + 1] = perms
           /\ \A t \in Scopes : t # s => last'[t] = last[t] /\ ver'[t] = ver[t] /\ built'[t] = built[t]
           /\ \A v \in 1 .. MaxVersion : v # last[s] + 1 => built'[s][v] = built[s][v]
<1> USE LimitsAssumption
<1>1. last[s] + 1 \in 1 .. MaxVersion
  BY DEF Build, TypeInv, Vs
<1>2. last' \in [Scopes -> Vs] /\ ver' \in [Scopes -> Vs]
  BY <1>1 DEF Build, TypeInv, TypeOK, Vs
<1>3. /\ last'[s] = last[s] + 1 /\ ver'[s] = last[s] + 1
      /\ \A t \in Scopes : t # s => last'[t] = last[t] /\ ver'[t] = ver[t]
  BY DEF Build, TypeInv, TypeOK
<1>4. /\ built' \in [Scopes -> [1 .. MaxVersion -> Perms]]
      /\ built'[s][last[s] + 1] = perms
      /\ \A t \in Scopes : t # s => built'[t] = built[t]
      /\ \A v \in 1 .. MaxVersion : v # last[s] + 1 => built'[s][v] = built[s][v]
  BY <1>1 DEF Build, TypeInv, Perms
<1>5. builds' = builds \cup {[scope |-> s, version |-> last[s] + 1, by |-> by]}
  BY DEF Build
<1>6. builds' \subseteq [scope : Scopes, version : 1 .. MaxVersion, by : Requests \cup {"service"}]
  BY <1>1, <1>5 DEF TypeInv
<1>7. \A b \in builds' : b.version \in 1 .. last'[b.scope]
  <2>1. \A t \in Scopes : last[t] \in Int /\ last'[t] \in Int /\ last[t] <= last'[t]
    <3>1. ASSUME NEW t \in Scopes PROVE last[t] \in Int /\ last'[t] \in Int /\ last[t] <= last'[t]
      <4>1. last[t] \in Vs /\ last'[t] \in Vs
        BY <1>2 DEF TypeInv
      <4>2. QED
        BY <4>1, <1>3 DEF Vs
    <3>2. QED
      BY <3>1
  <2>2. \A b \in builds : b.scope \in Scopes /\ b.version \in 1 .. last[b.scope]
    BY DEF TypeInv, TypeOK
  <2>3. \A b \in builds : b.version \in 1 .. last'[b.scope]
    BY <2>1, <2>2
  <2>4. last[s] + 1 \in 1 .. last'[s]
    BY <1>1, <1>3
  <2>5. QED
    BY <1>5, <2>3, <2>4
<1>8. QED
  BY <1>1, <1>2, <1>3, <1>4, <1>6, <1>7

(* The version it takes, and whether it found it free. *)
LEMMA BuildNumber ==
    ASSUME TypeInv, NEW s \in Scopes, NEW perms \in GrantSets,
           NEW by \in Requests \cup {"service"}, Build(s, perms, by)
    PROVE  /\ number' \in [Scopes -> [1 .. MaxVersion -> 0 .. Versions]]
           /\ reused' \in [Scopes -> SUBSET (1 .. MaxVersion)]
           /\ \A t \in Scopes : t # s => number'[t] = number[t] /\ reused'[t] = reused[t]
           /\ \A v \in 1 .. MaxVersion : v # last[s] + 1 =>
                 number'[s][v] = number[s][v] /\ (v \in reused'[s] <=> v \in reused[s])
           /\ number'[s][last[s] + 1] \in 1 .. Versions
           /\ last[s] + 1 \in reused'[s] \/ ~InUse(s, number'[s][last[s] + 1])
<1>1. last[s] + 1 \in 1 .. MaxVersion
  BY BuildStep
<1>2. PICK n \in Numbers[last[s] + 1] :
          /\ number' = [number EXCEPT ![s][last[s] + 1] = n]
          /\ reused' = [reused EXCEPT ![s] = IF InUse(s, n) THEN @ \cup {last[s] + 1} ELSE @]
  BY DEF Build
<1>3. n \in 1 .. Versions
  BY <1>1, NumbersAssumption
<1>4. n \in 0 .. Versions
  BY <1>3, LimitsAssumption
<1>5. /\ number \in [Scopes -> [1 .. MaxVersion -> 0 .. Versions]]
      /\ reused \in [Scopes -> SUBSET (1 .. MaxVersion)]
  BY DEF TypeInv, TypeOK
<1>6. /\ number' \in [Scopes -> [1 .. MaxVersion -> 0 .. Versions]]
      /\ \A t \in Scopes : t # s => number'[t] = number[t]
      /\ \A v \in 1 .. MaxVersion : v # last[s] + 1 => number'[s][v] = number[s][v]
      /\ number'[s][last[s] + 1] = n
  BY <1>1, <1>2, <1>4, <1>5
<1>7. CASE InUse(s, n)
  <2>1. reused' = [reused EXCEPT ![s] = reused[s] \cup {last[s] + 1}]
    BY <1>2, <1>7
  <2>2. QED
    BY <1>1, <1>3, <1>5, <1>6, <2>1
<1>8. CASE ~InUse(s, n)
  <2>1. reused' = [reused EXCEPT ![s] = reused[s]]
    BY <1>2, <1>8
  <2>2. QED
    BY <1>3, <1>5, <1>6, <1>8, <2>1
<1>9. QED
  BY <1>7, <1>8

(* The coverage decision of the coverage middleware: an organization is     *)
(* served from the coverage's entry for it, if that has its path key.       *)
LEMMA WithCoverageStep ==
    ASSUME TypeInv, NEW r \in Requests, NEW ids \in SUBSET OrgIds, WithCoverage(r, ids)
    PROVE  /\ pc' \in [Requests -> Steps] /\ DOMAIN filter' = Requests
           /\ \A q \in Requests : q # r => pc'[q] = pc[q] /\ filter'[q] = filter[q]
           /\ pc'[r] \in {"rootVer", "403", "500", "served"}
           /\ pc'[r] = "rootVer" => header[r] = NoOrg
           /\ pc'[r] \in {"403", "500"} =>
                 header[r] # NoOrg /\ (header[r] \notin ids \/ OrgData[header[r]] \notin listed)
           /\ pc'[r] = "served" =>
                 /\ header[r] # NoOrg
                 /\ \/ filter'[r] = Filter("org", <<>>, <<>>, {header[r]})
                    \/ filter'[r] = RangeFilter(RequestContext(header[r], OrgData[header[r]], {}, {}))
<1> DEFINE access == {e \in listed : e.id \in ids}
           found == FindOrgInCoverage(header[r], access)
<1>1. pc[r] \in Steps /\ header[r] \in Headers \cup {NoOrg} /\ pc \in [Requests -> Steps] /\ DOMAIN filter = Requests
  BY DEF TypeInv, TypeOK
<1>2. \A step \in Steps : pc' = [pc EXCEPT ![r] = step] =>
          /\ pc' \in [Requests -> Steps] /\ pc'[r] = step
          /\ \A q \in Requests : q # r => pc'[q] = pc[q]
  BY <1>1
<1>3. CASE header[r] = NoOrg
  <2>1. Goto(r, "rootVer") /\ UNCHANGED filter
    BY <1>3 DEF WithCoverage
  <2>2. QED
    BY <1>1, <1>2, <1>3, <2>1 DEF Goto, Steps
<1>4. header[r] # NoOrg => header[r] \in OrgIds \ BadIds
  BY <1>1, HeadersAssumption, OrgDataAssumption
<1>5. ASSUME header[r] # NoOrg, header[r] \in ids, OrgData[header[r]] \in listed
      PROVE  found = OrgData[header[r]]
  <2>1. OrgData[header[r]].id = header[r]
    BY <1>4, <1>5, OrgDataAssumption
  <2>2. OrgData[header[r]] \in access
    BY <1>5, <2>1
  <2>3. \A e \in access : e.id = header[r] => e = OrgData[header[r]]
    BY <1>5, <2>1 DEF TypeInv, ListedOK
  <2> HIDE DEF access
  <2>4. QED
    BY <2>1, <2>2, <2>3 DEF FindOrgInCoverage
<1>6. CASE header[r] # NoOrg /\ (~ValidateOrgContext(header[r], ids) \/ found = NoOrgData)
  <2>1. Goto(r, "403") /\ UNCHANGED filter
    BY <1>6 DEF WithCoverage
  <2>2. header[r] \in ids => OrgData[header[r]] \notin listed
    <3>1. SUFFICES ASSUME header[r] \in ids, OrgData[header[r]] \in listed PROVE FALSE
      OBVIOUS
    <3>2. found = NoOrgData /\ found = OrgData[header[r]]
      BY <1>5, <1>6, <3>1 DEF ValidateOrgContext
    <3>3. OrgData[header[r]].id = header[r] /\ NoOrgData.id = NoOrg
      BY <1>4, <1>6, OrgDataAssumption DEF NoOrgData, CoverageOrg
    <3>4. QED
      BY <1>6, <3>2, <3>3
  <2>3. QED
    BY <1>1, <1>2, <1>6, <2>1, <2>2 DEF Goto, Steps, Answers
<1>7. CASE header[r] # NoOrg /\ ValidateOrgContext(header[r], ids) /\ found # NoOrgData
  <2> DEFINE ctx == RequestContext(header[r], found, ids, access)
  <2>1. Serve(r, ctx) /\ header[r] \in ids
    BY <1>7 DEF WithCoverage, ValidateOrgContext
  <2>2. found \in access /\ found.id = header[r]
    BY <1>7 DEF FindOrgInCoverage
  <2>3. found = OrgData[header[r]] \/ found.pathKey = <<>>
    BY <2>2 DEF TypeInv, ListedOK
  <2>4. PICK includeChildren \in BOOLEAN :
            /\ filter' = [filter EXCEPT ![r] = BuildOrgFilter(ctx, includeChildren)]
            /\ Goto(r, IF BuildOrgFilter(ctx, includeChildren).kind = "error" THEN "500" ELSE "served")
    BY <2>1 DEF Serve
  <2> DEFINE query == BuildOrgFilter(ctx, includeChildren)
  <2>5. ctx.orgContext = header[r] /\ ctx.orgContextData = found
    BY DEF RequestContext
  <2>6. query = IF includeChildren THEN RangeFilter(ctx) ELSE Filter("org", <<>>, <<>>, {header[r]})
    <3> HIDE DEF ctx, found
    <3>1. CASE includeChildren
      BY <1>7, <2>5, <3>1 DEF BuildOrgFilter
    <3>2. CASE ~includeChildren
      BY <1>4, <1>7, <2>5, <3>2 DEF BuildOrgFilter
    <3>3. QED
      BY <3>1, <3>2
  <2>7. found.pathKey = <<>> => RangeFilter(ctx) = ErrorFilter
    BY <2>5 DEF RangeFilter
  <2>8. found = OrgData[header[r]] =>
            RangeFilter(ctx) = RangeFilter(RequestContext(header[r], OrgData[header[r]], {}, {}))
    BY DEF RangeFilter, RequestContext
  <2>9. query.kind # "error" =>
            \/ query = Filter("org", <<>>, <<>>, {header[r]})
            \/ query = RangeFilter(RequestContext(header[r], OrgData[header[r]], {}, {}))
    <3>1. ErrorFilter.kind = "error"
      BY DEF ErrorFilter, Filter
    <3> HIDE DEF ctx, found, query
    <3>2. QED
      BY <2>3, <2>6, <2>7, <2>8, <3>1
  <2>10. query.kind = "error" => OrgData[header[r]] \notin listed
    <3>1. SUFFICES ASSUME OrgData[header[r]] \in listed PROVE query.kind # "error"
      OBVIOUS
    <3>2. found = OrgData[header[r]]
      BY <1>5, <1>7, <2>1, <3>1
    <3>3. OrgData[header[r]].pathKey # <<>>
      BY <1>4, <1>7, OrgDataAssumption
    <3>4. RangeFilter(ctx).kind = "range"
      BY <1>7, <2>5, <3>2, <3>3 DEF RangeFilter, Filter
    <3>5. Filter("org", <<>>, <<>>, {header[r]}).kind = "org"
      BY DEF Filter
    <3> HIDE DEF ctx, found, query
    <3>6. QED
      BY <2>6, <3>4, <3>5
  <2> HIDE DEF ctx, query
  <2>11. /\ filter'[r] = query /\ DOMAIN filter' = Requests
         /\ \A q \in Requests : q # r => filter'[q] = filter[q]
    BY <1>1, <2>4 DEF query
  <2>12. pc' = [pc EXCEPT ![r] = IF query.kind = "error" THEN "500" ELSE "served"]
    BY <2>4 DEF Goto, query
  <2>13. QED
    BY <1>1, <1>2, <1>7, <2>9, <2>10, <2>11, <2>12 DEF Steps, Answers
<1>8. QED
  BY <1>3, <1>6, <1>7

-----------------------------------------------------------------------------
(* Types. *)

LEMMA InitType == Init => TypeInv
<1> SUFFICES ASSUME Init PROVE TypeInv
  OBVIOUS
<1> USE LimitsAssumption
<1>1. ver \in [Scopes -> Vs] /\ last = ver /\ saved = ver /\ \A s \in Scopes : ver[s] = 0
  BY DEF Init, Vs
<1>2. /\ number \in [Scopes -> [1 .. MaxVersion -> 0 .. Versions]]
      /\ data \in [Scopes -> [1 .. Versions -> 0 .. MaxVersion]]
      /\ built \in [Scopes -> [1 .. MaxVersion -> Perms]]
      /\ reused \in [Scopes -> SUBSET (1 .. MaxVersion)]
  BY DEF Init, Perms, NotFound
<1>3. grant \in [Scopes -> GrantSets] /\ ListedOK
  BY SituationsAssumption DEF Init, ListedOK
<1>4. member \subseteq OrgIds /\ cov = NoCoverage /\ builds = {}
  BY DEF Init
<1>5. /\ pc \in [Requests -> Steps] /\ header \in [Requests -> Headers \cup {NoOrg}]
      /\ phase \in [Requests -> {"admin", "required"}] /\ calm \in [Requests -> BOOLEAN]
      /\ vread \in [Requests -> Vs] /\ attempt \in [Requests -> 0 .. MaxRetries - 1]
      /\ floor \in [Requests -> Vs]
      /\ DOMAIN filter = Requests /\ used \in [Requests -> [required : Vs, root : Vs]]
  BY DEF Init, Steps, Vs
<1>6. \A s \in Scopes : ver[s] \in {0, last[s]} /\ saved[s] <= last[s]
  BY <1>1
<1>7. TypeOK
  BY <1>1, <1>2, <1>3, <1>4, <1>5, <1>6 DEF TypeOK, Vs
<1>8. QED
  BY <1>1, <1>2, <1>3, <1>4, <1>5, <1>7 DEF TypeInv

(* A step of a request that leaves the cache and the identity service alone. *)
LEMMA RequestType ==
    ASSUME TypeInv, UNCHANGED <<cacheVars, truthVars>>,
           pc' \in [Requests -> Steps], header' \in [Requests -> Headers \cup {NoOrg}],
           attempt' \in [Requests -> 0 .. MaxRetries - 1], vread' \in [Requests -> Vs],
           phase' \in [Requests -> {"admin", "required"}], floor' \in [Requests -> Vs],
           used' \in [Requests -> [required : Vs, root : Vs]], calm' \in [Requests -> BOOLEAN],
           DOMAIN filter' = Requests
    PROVE  TypeInv'
BY DEF TypeInv, TypeOK, ListedOK, cacheVars, buildVars, truthVars, Vs

(* A step of the service that leaves the requests alone but for calm. *)
LEMMA CacheType ==
    ASSUME TypeInv, UNCHANGED <<listed, pc, header, phase, vread, attempt, filter, floor, used>>,
           calm' \in [Requests -> BOOLEAN],
           grant' \in [Scopes -> GrantSets], member' \subseteq OrgIds,
           ver' \in [Scopes -> Vs], last' \in [Scopes -> Vs], saved' \in [Scopes -> Vs],
           number' \in [Scopes -> [1 .. MaxVersion -> 0 .. Versions]],
           data' \in [Scopes -> [1 .. Versions -> 0 .. MaxVersion]],
           built' \in [Scopes -> [1 .. MaxVersion -> Perms]],
           reused' \in [Scopes -> SUBSET (1 .. MaxVersion)],
           cov' \in {NoCoverage} \cup SUBSET OrgIds,
           builds' \subseteq [scope : Scopes, version : 1 .. MaxVersion, by : Requests \cup {"service"}],
           \A b \in builds' : b.version \in 1 .. last'[b.scope],
           \A s \in Scopes : ver'[s] \in {0, last'[s]} /\ saved'[s] <= last'[s]
    PROVE  TypeInv'
<1>1. \A b \in builds' : b.scope \in Scopes
  OBVIOUS
<1>2. TypeOK'
  BY <1>1 DEF TypeInv, TypeOK, Vs
<1>3. QED
  BY <1>2 DEF TypeInv, ListedOK

(* What a request may find under a version it may look under. *)
LEMMA FoundUsable ==
    ASSUME SafeInv, NEW r \in Requests, NEW b, Recent(r, b)
    PROVE  /\ Found(ScopeOf(r), b) \in Vs
           /\ Found(ScopeOf(r), b) # NotFound => Usable(r, Found(ScopeOf(r), b))
<1> DEFINE s == ScopeOf(r)
           n == number[s][b]
           found == data[s][n]
<1>1. s \in Scopes /\ TypeInv
  BY ScopeIsScope DEF SafeInv
<1>2. last[s] \in Vs /\ floor[r] \in Vs
  BY <1>1 DEF TypeInv
<1>3. b \in 1 .. MaxVersion /\ b <= last[s] /\ b >= floor[r]
  BY <1>2, LimitsAssumption DEF Recent, Vs
<1>4. n \in 1 .. Versions
  BY <1>1, <1>3 DEF SafeInv, VersionInv
<1>5. found \in Vs
  <2>1. data \in [Scopes -> [1 .. Versions -> Vs]]
    BY <1>1 DEF TypeInv, TypeOK, Vs
  <2>2. QED
    BY <1>1, <1>4, <2>1
<1>6. ASSUME found # NotFound PROVE Usable(r, found)
  <2>1. found <= last[s] /\ number[s][found] = n
    BY <1>1, <1>4, <1>6 DEF SafeInv, VersionInv
  <2>2. found \in 1 .. last[s]
    BY <1>2, <1>5, <1>6, <2>1, LimitsAssumption DEF Vs, NotFound
  <2>3. CASE b \in reused[s]
    BY <1>3, <1>6, <2>1, <2>2, <2>3 DEF Usable, Current
  <2>4. CASE b \notin reused[s]
    <3>1. Found(s, b) >= b
      BY <1>1, <1>3, <1>6, <2>4 DEF SafeInv, ReuseInv, NothingOlder, Found
    <3>2. found >= floor[r]
      BY <1>2, <1>3, <1>5, <3>1, LimitsAssumption DEF Vs, Found
    <3>3. QED
      BY <1>6, <2>2, <3>2 DEF Usable, Current
  <2>5. QED
    BY <2>3, <2>4
<1>7. QED
  BY <1>5, <1>6 DEF Found

LEMMA FoundType ==
    ASSUME SafeInv, NEW r \in Requests, pc[r] \in {"data", "rootData"}
    PROVE  /\ Recent(r, vread[r]) /\ Found(ScopeOf(r), vread[r]) \in Vs
           /\ pc[r] = "rootData" => ScopeOf(r) = Global
<1>1. ReadOK(r)
  BY DEF SafeInv, RequestInv
<1>2. Recent(r, vread[r]) /\ (pc[r] = "rootData" => ScopeOf(r) = Global)
  BY <1>1 DEF ReadOK, ScopeOf, ScopeOfOrg
<1>3. QED
  BY <1>2, FoundUsable

LEMMA NextType == SafeInv /\ [Next]_vars => TypeInv'
<1> SUFFICES ASSUME SafeInv, [Next]_vars PROVE TypeInv'
  OBVIOUS
<1>s. TypeInv
  BY DEF SafeInv
<1> USE LimitsAssumption
<1>t. /\ TypeInv /\ pc \in [Requests -> Steps] /\ header \in [Requests -> Headers \cup {NoOrg}]
      /\ attempt \in [Requests -> 0 .. MaxRetries - 1] /\ vread \in [Requests -> Vs]
      /\ phase \in [Requests -> {"admin", "required"}] /\ floor \in [Requests -> Vs]
      /\ used \in [Requests -> [required : Vs, root : Vs]] /\ calm \in [Requests -> BOOLEAN]
      /\ DOMAIN filter = Requests
  BY <1>s DEF TypeInv, TypeOK, Vs
<1>c. /\ grant \in [Scopes -> GrantSets] /\ member \subseteq OrgIds
      /\ ver \in [Scopes -> Vs] /\ last \in [Scopes -> Vs] /\ saved \in [Scopes -> Vs]
      /\ number \in [Scopes -> [1 .. MaxVersion -> 0 .. Versions]]
      /\ data \in [Scopes -> [1 .. Versions -> 0 .. MaxVersion]]
      /\ built \in [Scopes -> [1 .. MaxVersion -> Perms]]
      /\ reused \in [Scopes -> SUBSET (1 .. MaxVersion)]
      /\ cov \in {NoCoverage} \cup SUBSET OrgIds
      /\ builds \subseteq [scope : Scopes, version : 1 .. MaxVersion, by : Requests \cup {"service"}]
      /\ \A b \in builds : b.version \in 1 .. last[b.scope]
      /\ \A s \in Scopes : ver[s] \in {0, last[s]} /\ saved[s] <= last[s]
  BY <1>s DEF TypeInv, TypeOK, Vs
<1>1. ASSUME NEW r \in Requests, NEW org \in Headers, Arrive(r, org) PROVE TypeInv'
  <2>1. pc' \in [Requests -> Steps] /\ header' \in [Requests -> Headers \cup {NoOrg}]
        /\ floor' \in [Requests -> Vs]
    BY <1>1, <1>t, <1>c, OrgIsScope DEF Arrive, Goto, Steps
  <2>2. calm' \in [Requests -> BOOLEAN]
    BY <1>1, <1>t DEF Arrive
  <2>3. UNCHANGED <<cacheVars, truthVars, phase, vread, attempt, filter, used>>
    BY <1>1 DEF Arrive
  <2>4. QED
    BY <1>t, <2>1, <2>2, <2>3, RequestType
<1>2. ASSUME NEW r \in Requests, Authenticate(r) PROVE TypeInv'
  <2>1. pc' \in [Requests -> Steps] /\ phase' \in [Requests -> {"admin", "required"}]
    BY <1>2, <1>t DEF Authenticate, Goto, Steps, Answers
  <2>2. UNCHANGED <<cacheVars, truthVars, header, vread, attempt, filter, floor, used, calm>>
    BY <1>2 DEF Authenticate
  <2>3. QED
    BY <1>t, <2>1, <2>2, RequestType
<1>3. ASSUME NEW r \in Requests, ReadVersion(r) PROVE TypeInv'
  <2>1. UNCHANGED <<cacheVars, truthVars, header, filter, floor>>
    BY <1>3 DEF ReadVersion
  <2>2. CASE PermissionsFailed(r)
    BY <1>t, <2>1, <2>2, PermissionsFailedStep, RequestType
  <2>3. CASE /\ vread' = [vread EXCEPT ![r] = ver[ScopeOf(r)]]
             /\ Goto(r, "data") /\ UNCHANGED <<attempt, phase, used, calm>>
    <3>1. ver[ScopeOf(r)] \in Vs
      BY <1>c, <1>s, ScopeIsScope
    <3>2. pc' \in [Requests -> Steps] /\ vread' \in [Requests -> Vs]
      BY <1>t, <2>3, <3>1 DEF Goto, Steps
    <3>3. QED
      BY <1>t, <2>1, <2>3, <3>2, RequestType
  <2>4. CASE Goto(r, "build") /\ UNCHANGED <<vread, attempt, phase, used, calm>>
    <3>1. pc' \in [Requests -> Steps]
      BY <1>t, <2>4 DEF Goto, Steps
    <3>2. QED
      BY <1>t, <2>1, <2>4, <3>1, RequestType
  <2>5. QED
    BY <1>3, <2>2, <2>3, <2>4 DEF ReadVersion
<1>4. ASSUME NEW r \in Requests, ReadPermissions(r) PROVE TypeInv'
  <2> DEFINE found == Found(ScopeOf(r), vread[r])
  <2>1. UNCHANGED <<cacheVars, truthVars, header, filter, floor>>
    BY <1>4 DEF ReadPermissions
  <2>2. CASE PermissionsFailed(r)
    BY <1>t, <2>1, <2>2, PermissionsFailedStep, RequestType
  <2>3. CASE WithPermissions(r, built[ScopeOf(r)][found], found) /\ UNCHANGED calm
    <3>1. found \in Vs
      BY <1>4, FoundType DEF ReadPermissions
    <3> HIDE DEF found
    <3>2. QED
      BY <1>t, <2>1, <2>3, <3>1, WithPermissionsStep, RequestType
  <2>4. CASE /\ attempt[r] < MaxRetries - 1 /\ attempt' = [attempt EXCEPT ![r] = @ + 1]
             /\ UNCHANGED <<pc, phase, vread, used, calm>>
    <3>1. attempt' \in [Requests -> 0 .. MaxRetries - 1]
      BY <1>t, <2>4
    <3>2. QED
      BY <1>t, <2>1, <2>4, <3>1, RequestType
  <2>5. CASE Forget(r) /\ Goto(r, "build") /\ UNCHANGED <<phase, used, calm>>
    <3>1. pc' \in [Requests -> Steps]
      BY <1>t, <2>5 DEF Goto, Steps
    <3>2. QED
      BY <1>t, <2>1, <2>5, <3>1, ForgetStep, RequestType
  <2>6. QED
    BY <1>4, <2>2, <2>3, <2>4, <2>5 DEF ReadPermissions
<1>5. ASSUME NEW r \in Requests, AwaitBuild(r) PROVE TypeInv'
  <2>1. UNCHANGED <<cacheVars, truthVars, header, filter, floor>>
    BY <1>5 DEF AwaitBuild
  <2>2. CASE PermissionsFailed(r)
    BY <1>t, <2>1, <2>2, PermissionsFailedStep, RequestType
  <2>3. CASE WithPermissions(r, built[ScopeOf(r)][vread[r]], vread[r]) /\ UNCHANGED calm
    <3>1. vread[r] \in Vs
      BY <1>t
    <3>2. QED
      BY <1>t, <2>1, <2>3, <3>1, WithPermissionsStep, RequestType
  <2>4. QED
    BY <1>5, <2>2, <2>3 DEF AwaitBuild
<1>6. ASSUME NEW r \in Requests, CallBuild(r) PROVE TypeInv'
  <2>1. UNCHANGED <<data, cov, saved, truthVars, header, filter, floor>> /\ ScopeOf(r) \in Scopes
    BY <1>6, <1>s, ScopeIsScope DEF CallBuild
  <2>2. CASE PermissionsFailed(r) /\ UNCHANGED buildVars
    BY <1>t, <2>1, <2>2, PermissionsFailedStep, RequestType DEF cacheVars, buildVars
  <2>3. CASE /\ Build(ScopeOf(r), grant[ScopeOf(r)], r)
             /\ vread' = [vread EXCEPT ![r] = last[ScopeOf(r)] + 1]
             /\ Goto(r, "await") /\ calm' = [q \in Requests |-> calm[q] /\ q = r]
             /\ UNCHANGED <<attempt, phase, used>>
    <3> DEFINE s == ScopeOf(r)
    <3>1. s \in Scopes /\ grant[s] \in GrantSets
      BY <1>c, <2>1
    <3> HIDE DEF s
    <3>2. /\ last[s] + 1 \in 1 .. MaxVersion
          /\ last' \in [Scopes -> Vs] /\ ver' \in [Scopes -> Vs]
          /\ built' \in [Scopes -> [1 .. MaxVersion -> Perms]]
          /\ builds' \subseteq [scope : Scopes, version : 1 .. MaxVersion,
                                by : Requests \cup {"service"}]
          /\ \A b \in builds' : b.version \in 1 .. last'[b.scope]
          /\ last'[s] = last[s] + 1 /\ ver'[s] = last[s] + 1
          /\ \A t \in Scopes : t # s => last'[t] = last[t] /\ ver'[t] = ver[t]
      BY <1>s, <2>3, <3>1, BuildStep DEF s
    <3>n. /\ number' \in [Scopes -> [1 .. MaxVersion -> 0 .. Versions]]
          /\ reused' \in [Scopes -> SUBSET (1 .. MaxVersion)]
      BY <1>s, <2>3, <3>1, BuildNumber DEF s
    <3>3. /\ pc' \in [Requests -> Steps] /\ vread' \in [Requests -> Vs]
          /\ calm' \in [Requests -> BOOLEAN]
      BY <1>t, <2>3, <3>2 DEF Goto, Steps, Vs, s
    <3>4. \A t \in Scopes : ver'[t] \in {0, last'[t]} /\ saved'[t] <= last'[t]
      <4>1. ASSUME NEW t \in Scopes PROVE ver'[t] \in {0, last'[t]} /\ saved'[t] <= last'[t]
        <5>1. ver[t] \in {0, last[t]} /\ saved[t] <= last[t] /\ saved'[t] = saved[t]
          BY <1>c, <2>1
        <5>2. saved[t] \in Int /\ last[t] \in Int
          BY <1>c DEF Vs
        <5>3. QED
          BY <3>2, <5>1, <5>2
      <4>2. QED
        BY <4>1
    <3>5. \A b \in builds' : b.scope \in Scopes
      BY <3>2
    <3>6. TypeOK'
      BY <1>t, <1>c, <2>1, <2>3, <3>2, <3>n, <3>3, <3>4, <3>5 DEF TypeOK, truthVars, Vs
    <3>7. ListedOK'
      BY <1>s, <2>1 DEF TypeInv, ListedOK, truthVars
    <3>8. QED
      BY <1>t, <1>c, <2>1, <2>3, <3>2, <3>n, <3>3, <3>6, <3>7 DEF TypeInv
  <2>4. QED
    BY <1>6, <2>2, <2>3 DEF CallBuild
<1>7. ASSUME NEW r \in Requests, ReadCoverage(r) PROVE TypeInv'
  <2>1. UNCHANGED <<cacheVars, truthVars, header, phase, vread, attempt, floor, used>>
    BY <1>7 DEF ReadCoverage
  <2>2. CASE cov # NoCoverage /\ WithCoverage(r, cov) /\ UNCHANGED calm
    <3>1. cov \in SUBSET OrgIds
      BY <1>c, <2>2
    <3>2. QED
      BY <1>t, <2>1, <2>2, <3>1, WithCoverageStep, RequestType
  <2>3. CASE /\ UNCHANGED filter
             /\ \/ Goto(r, "covBuild") /\ UNCHANGED calm
                \/ Goto(r, "500") /\ Disturbed(r)
    <3>1. pc' \in [Requests -> Steps] /\ calm' \in [Requests -> BOOLEAN]
      BY <1>t, <2>3 DEF Goto, Disturbed, Steps, Answers
    <3>2. QED
      BY <1>t, <2>1, <2>3, <3>1, RequestType
  <2>4. QED
    BY <1>7, <2>2, <2>3 DEF ReadCoverage
<1>8. ASSUME NEW r \in Requests, BuildCoverage(r) PROVE TypeInv'
  <2>1. UNCHANGED <<buildVars, data, saved, truthVars, header, phase, vread, attempt, floor, used>>
    BY <1>8 DEF BuildCoverage
  <2>2. cov' \in {NoCoverage} \cup SUBSET OrgIds
    BY <1>8, <1>c DEF BuildCoverage
  <2>3. pc' \in [Requests -> Steps] /\ DOMAIN filter' = Requests /\ calm' \in [Requests -> BOOLEAN]
    <3>1. CASE WithCoverage(r, member) /\ UNCHANGED calm
      BY <1>t, <1>c, <3>1, WithCoverageStep
    <3>2. CASE Goto(r, "500") /\ Disturbed(r) /\ UNCHANGED <<cov, filter>>
      BY <1>t, <3>2 DEF Goto, Disturbed, Steps, Answers
    <3>3. QED
      BY <1>8, <3>1, <3>2 DEF BuildCoverage
  <2>4. TypeOK'
    BY <1>t, <1>c, <2>1, <2>2, <2>3 DEF TypeOK, TypeInv, truthVars, buildVars, Vs
  <2>5. QED
    BY <1>t, <1>c, <2>1, <2>3, <2>4 DEF TypeInv, ListedOK, truthVars, buildVars
<1>9. ASSUME NEW r \in Requests, ReadRootVersion(r) PROVE TypeInv'
  <2>1. UNCHANGED <<cacheVars, truthVars, header, phase, attempt, filter, floor, used>>
    BY <1>9 DEF ReadRootVersion
  <2>2. ver[Global] \in Vs
    BY <1>c, GlobalIsScope
  <2>3. /\ pc' \in [Requests -> Steps] /\ calm' \in [Requests -> BOOLEAN]
        /\ vread' \in [Requests -> Vs]
    <3>1. \/ vread' = [vread EXCEPT ![r] = ver[Global]]
          \/ UNCHANGED vread
      BY <1>9 DEF ReadRootVersion
    <3>2. /\ Goto(r, "rootData") \/ Goto(r, "403")
          /\ Disturbed(r) \/ UNCHANGED calm
      BY <1>9 DEF ReadRootVersion
    <3>3. pc' \in [Requests -> Steps] /\ calm' \in [Requests -> BOOLEAN]
      BY <1>t, <3>2 DEF Goto, Disturbed, Steps, Answers
    <3>4. vread' \in [Requests -> Vs]
      BY <1>t, <2>2, <3>1
    <3>5. QED
      BY <3>3, <3>4
  <2>4. QED
    BY <1>t, <2>1, <2>3, RequestType
<1>10. ASSUME NEW r \in Requests, ReadRootPermissions(r) PROVE TypeInv'
  <2> DEFINE found == Found(Global, vread[r])
  <2>1. UNCHANGED <<cacheVars, truthVars, header, phase, floor>>
    BY <1>10 DEF ReadRootPermissions
  <2>2. pc' \in [Requests -> Steps] /\ calm' \in [Requests -> BOOLEAN]
    <3>1. \/ pc' = pc
          \/ \E step \in Answers : pc' = [pc EXCEPT ![r] = step]
      BY <1>10 DEF ReadRootPermissions, Goto, Serve, Answers
    <3>2. Disturbed(r) \/ UNCHANGED calm
      BY <1>10 DEF ReadRootPermissions
    <3>3. QED
      BY <1>t, <3>1, <3>2 DEF Disturbed, Steps
  <2>3. attempt' \in [Requests -> 0 .. MaxRetries - 1] /\ vread' \in [Requests -> Vs]
    <3>1. \/ Forget(r)
          \/ /\ attempt[r] < MaxRetries - 1 /\ attempt' = [attempt EXCEPT ![r] = attempt[r] + 1]
             /\ vread' = vread
      BY <1>10 DEF ReadRootPermissions
    <3>2. attempt \in [Requests -> 0 .. MaxRetries - 1] /\ MaxRetries \in Nat
      BY <1>t, LimitsAssumption
    <3>3. QED
      BY <1>t, <3>1, <3>2, ForgetStep
  <2>4. used' \in [Requests -> [required : Vs, root : Vs]]
    <3>1. used' = used \/ used' = [used EXCEPT ![r].root = found]
      BY <1>10 DEF ReadRootPermissions
    <3>2. found \in Vs
      BY <1>10, FoundType DEF ReadRootPermissions
    <3>3. used \in [Requests -> [required : Vs, root : Vs]]
      BY <1>t
    <3> HIDE DEF found
    <3>4. QED
      BY <3>1, <3>2, <3>3
  <2>5. DOMAIN filter' = Requests
    BY <1>10, <1>t DEF ReadRootPermissions, Serve
  <2>6. QED
    BY <1>t, <2>1, <2>2, <2>3, <2>4, <2>5, RequestType
<1>11. ASSUME NEW b \in builds, Save(b) PROVE TypeInv'
  <2>1. b.scope \in Scopes /\ b.version \in 1 .. MaxVersion /\ b.version <= last[b.scope]
    BY <1>c
  <2>2. UNCHANGED <<ver, number, built, cov, last, reused, truthVars, reqVars>> /\ builds' = builds \ {b}
    BY <1>11 DEF Save
  <2>n. number[b.scope][b.version] \in 1 .. Versions
    BY <2>1 DEF SafeInv, VersionInv
  <2>3. data' \in [Scopes -> [1 .. Versions -> 0 .. MaxVersion]]
    <3>1. data' = [data EXCEPT ![b.scope][number[b.scope][b.version]] = b.version]
      BY <1>11 DEF Save
    <3>2. b.version \in 0 .. MaxVersion
      BY <2>1
    <3>3. QED
      BY <1>c, <2>1, <2>n, <3>1, <3>2
  <2>4. saved' \in [Scopes -> Vs] /\ \A s \in Scopes : saved'[s] <= last[s]
    BY <1>11, <1>c, <2>1 DEF Save, Vs
  <2>5. QED
    BY <1>s, <1>c, <1>t, <2>2, <2>3, <2>4, CacheType DEF truthVars, reqVars
<1>12. ASSUME NEW s \in Scopes, NEW perms \in GrantSets, ChangeGrant(s, perms) PROVE TypeInv'
  <2>1. /\ UNCHANGED <<member, listed, data, cov, saved, pc, header, phase, vread, attempt, filter, floor, used>>
        /\ grant' \in [Scopes -> GrantSets] /\ calm' \in [Requests -> BOOLEAN]
        /\ Build(s, perms, "service")
    BY <1>12, <1>c DEF ChangeGrant, AllDisturbed
  <2>2. /\ last[s] + 1 \in 1 .. MaxVersion
        /\ last' \in [Scopes -> Vs] /\ ver' \in [Scopes -> Vs]
        /\ built' \in [Scopes -> [1 .. MaxVersion -> Perms]]
        /\ builds' \subseteq [scope : Scopes, version : 1 .. MaxVersion,
                              by : Requests \cup {"service"}]
        /\ \A b \in builds' : b.version \in 1 .. last'[b.scope]
        /\ last'[s] = last[s] + 1 /\ ver'[s] = last[s] + 1
        /\ \A t \in Scopes : t # s => last'[t] = last[t] /\ ver'[t] = ver[t]
    BY <1>s, <2>1, BuildStep
  <2>n. /\ number' \in [Scopes -> [1 .. MaxVersion -> 0 .. Versions]]
        /\ reused' \in [Scopes -> SUBSET (1 .. MaxVersion)]
    BY <1>s, <2>1, BuildNumber
  <2>3. ASSUME NEW t \in Scopes PROVE ver'[t] \in {0, last'[t]} /\ saved'[t] <= last'[t]
    <3>1. ver[t] \in {0, last[t]} /\ saved[t] <= last[t] /\ saved'[t] = saved[t]
      BY <1>c, <2>1
    <3>2. saved[t] \in Int /\ last[t] \in Int
      BY <1>c DEF Vs
    <3>3. QED
      BY <2>2, <3>1, <3>2
  <2>4. QED
    BY <1>s, <1>c, <2>1, <2>2, <2>n, <2>3, CacheType
<1>13. ASSUME NEW org \in OrgIds, ChangeMember(org) PROVE TypeInv'
  <2>1. /\ UNCHANGED <<grant, listed, buildVars, data, saved,
                       pc, header, phase, vread, attempt, filter, floor, used>>
        /\ member' \subseteq OrgIds /\ cov' = NoCoverage /\ calm' \in [Requests -> BOOLEAN]
    BY <1>13, <1>c DEF ChangeMember, AllDisturbed
  <2>2. QED
    BY <1>s, <1>c, <2>1, CacheType DEF buildVars
<1>14. CASE Evict
  <2>1. /\ UNCHANGED <<grant, member, listed, number, built, builds, last, reused, saved,
                       pc, header, phase, vread, attempt, filter, floor, used>>
        /\ calm' \in [Requests -> BOOLEAN]
    BY <1>14 DEF Evict, AllDisturbed
  <2>2. /\ ver' \in [Scopes -> Vs] /\ cov' \in {NoCoverage} \cup SUBSET OrgIds
        /\ \A s \in Scopes : ver'[s] \in {0, last[s]}
    <3>1. /\ cov' \in {cov, NoCoverage}
          /\ UNCHANGED ver \/ \E s \in Scopes : ver' = [ver EXCEPT ![s] = 0]
      BY <1>14 DEF Evict
    <3>2. 0 \in Vs
      BY DEF Vs
    <3>3. QED
      BY <1>c, <3>1, <3>2
  <2>3. data' \in [Scopes -> [1 .. Versions -> 0 .. MaxVersion]]
    <3>1. \/ UNCHANGED data
          \/ \E s \in Scopes, n \in 1 .. Versions : data' = [data EXCEPT ![s][n] = NotFound]
      BY <1>14 DEF Evict
    <3>2. NotFound \in 0 .. MaxVersion
      BY DEF NotFound
    <3>3. QED
      <4>1. ASSUME NEW s \in Scopes, NEW n \in 1 .. Versions, data' = [data EXCEPT ![s][n] = NotFound]
            PROVE data' \in [Scopes -> [1 .. Versions -> 0 .. MaxVersion]]
        BY <1>c, <3>2, <4>1
      <4>2. QED
        BY <1>c, <3>1, <4>1
  <2>4. QED
    BY <1>s, <1>c, <2>1, <2>2, <2>3, CacheType
<1>15. CASE UNCHANGED vars
  BY <1>t, <1>15, RequestType DEF vars, reqVars
<1>16. QED
  BY <1>1, <1>2, <1>3, <1>4, <1>5, <1>6, <1>7, <1>8, <1>9, <1>10, <1>11, <1>12, <1>13, <1>14, <1>15
  DEF Next, Step

-----------------------------------------------------------------------------
(* Versions. *)

(* The builds so far stay as they are. *)
Same(s, b) == /\ built'[s][b] = built[s][b] /\ number'[s][b] = number[s][b]
              /\ b \in reused'[s] <=> b \in reused[s]

Grows == \A s \in Scopes : last[s] <= last'[s] /\ \A b \in 1 .. last[s] : Same(s, b)

(* A build leaves the builds before it as they are. *)
LEMMA BuildGrows ==
    ASSUME TypeInv, NEW t \in Scopes, NEW perms \in GrantSets, NEW by \in Requests \cup {"service"},
           Build(t, perms, by)
    PROVE  Grows
<1> SUFFICES ASSUME NEW s \in Scopes
             PROVE  last[s] <= last'[s] /\ \A b \in 1 .. last[s] : Same(s, b)
  BY DEF Grows
<1>1. last[s] \in Vs /\ last[t] \in Vs
  BY DEF TypeInv
<1>2. /\ last[t] + 1 \in 1 .. MaxVersion /\ last'[t] = last[t] + 1
      /\ \A u \in Scopes : u # t => last'[u] = last[u] /\ built'[u] = built[u]
      /\ \A v \in 1 .. MaxVersion : v # last[t] + 1 => built'[t][v] = built[t][v]
  BY BuildStep
<1>3. /\ \A u \in Scopes : u # t => number'[u] = number[u] /\ reused'[u] = reused[u]
      /\ \A v \in 1 .. MaxVersion : v # last[t] + 1 =>
            number'[t][v] = number[t][v] /\ (v \in reused'[t] <=> v \in reused[t])
  BY BuildNumber
<1>4. last[s] <= last'[s]
  BY <1>1, <1>2, LimitsAssumption DEF Vs
<1>5. ASSUME NEW b \in 1 .. last[s] PROVE Same(s, b)
  <2>1. b \in 1 .. MaxVersion /\ (s = t => b # last[t] + 1)
    BY <1>1, LimitsAssumption DEF Vs
  <2>2. QED
    BY <1>2, <1>3, <2>1 DEF Same
<1>6. QED
  BY <1>4, <1>5

(* Whatever happens between two steps, there are only more builds.          *)
LEMMA NextGrows == TypeInv /\ [Next]_vars => Grows
<1> SUFFICES ASSUME TypeInv, [Next]_vars PROVE Grows
  OBVIOUS
<1>2. CASE UNCHANGED <<last, built, number, reused>>
  <2>1. \A s \in Scopes : last[s] <= last[s]
    BY LimitsAssumption DEF TypeInv, Vs
  <2>2. QED
    BY <1>2, <2>1 DEF Grows, Same
<1>4. ASSUME NEW r \in Requests, CallBuild(r) PROVE Grows
  <2>1. ScopeOf(r) \in Scopes /\ grant[ScopeOf(r)] \in GrantSets
    BY ScopeIsScope DEF TypeInv, TypeOK
  <2>2. Build(ScopeOf(r), grant[ScopeOf(r)], r) \/ UNCHANGED buildVars
    BY <1>4 DEF CallBuild
  <2>3. QED
    BY <1>2, <2>1, <2>2, BuildGrows DEF buildVars
<1>5. ASSUME NEW t \in Scopes, NEW perms \in GrantSets, ChangeGrant(t, perms) PROVE Grows
  BY <1>5, BuildGrows DEF ChangeGrant
<1>6. ASSUME NEW r \in Requests, Step(r), ~CallBuild(r) PROVE UNCHANGED <<last, built, number, reused>>
  BY <1>6 DEF Step, Authenticate, ReadVersion, ReadPermissions, AwaitBuild, ReadCoverage,
              BuildCoverage, ReadRootVersion, ReadRootPermissions, cacheVars, buildVars
<1>7. ASSUME \/ \E r \in Requests, org \in Headers : Arrive(r, org)
             \/ \E b \in builds : Save(b)
             \/ \E org \in OrgIds : ChangeMember(org)
             \/ Evict \/ UNCHANGED vars
      PROVE UNCHANGED <<last, built, number, reused>>
  BY <1>7 DEF Arrive, Save, ChangeMember, Evict, vars, cacheVars, buildVars
<1>8. QED
  BY <1>2, <1>4, <1>5, <1>6, <1>7 DEF Next

(* What a step does to the versions: it builds in a scope, saves a build,   *)
(* drops what is cached under a version, or none of these.                  *)
LEMMA VersionSteps ==
    ASSUME SafeInv, [Next]_vars
    PROVE  \/ /\ UNCHANGED <<data, saved>>
              /\ \E s \in Scopes, perms \in GrantSets, by \in Requests \cup {"service"} : Build(s, perms, by)
           \/ \E b \in builds : Save(b)
           \/ /\ \E s \in Scopes, n \in 1 .. Versions : data' = [data EXCEPT ![s][n] = NotFound]
              /\ UNCHANGED <<number, builds, last, reused, saved>>
           \/ UNCHANGED <<data, number, builds, last, reused, saved>>
<1>t. TypeInv
  BY DEF SafeInv
<1>1. ASSUME NEW r \in Requests, CallBuild(r)
      PROVE  /\ UNCHANGED <<data, saved>>
             /\ \/ \E s \in Scopes, perms \in GrantSets, by \in Requests \cup {"service"} : Build(s, perms, by)
                \/ UNCHANGED <<number, builds, last, reused>>
  <2>1. ScopeOf(r) \in Scopes /\ grant[ScopeOf(r)] \in GrantSets
    BY <1>t, ScopeIsScope DEF TypeInv, TypeOK
  <2>2. Build(ScopeOf(r), grant[ScopeOf(r)], r) \/ UNCHANGED buildVars
    BY <1>1 DEF CallBuild
  <2>3. UNCHANGED <<data, saved>>
    BY <1>1 DEF CallBuild
  <2>4. QED
    BY <2>1, <2>2, <2>3 DEF buildVars
<1>2. ASSUME NEW s \in Scopes, NEW perms \in GrantSets, ChangeGrant(s, perms)
      PROVE  UNCHANGED <<data, saved>> /\ Build(s, perms, "service")
  BY <1>2 DEF ChangeGrant
<1>3. CASE Evict
  BY <1>3 DEF Evict
<1>4. ASSUME NEW r \in Requests, Step(r), ~CallBuild(r)
      PROVE  UNCHANGED <<data, number, builds, last, reused, saved>>
  BY <1>4 DEF Step, Authenticate, ReadVersion, ReadPermissions, AwaitBuild, ReadCoverage,
              BuildCoverage, ReadRootVersion, ReadRootPermissions, cacheVars, buildVars
<1>5. ASSUME \/ \E r \in Requests, org \in Headers : Arrive(r, org)
             \/ \E org \in OrgIds : ChangeMember(org)
             \/ UNCHANGED vars
      PROVE UNCHANGED <<data, number, builds, last, reused, saved>>
  BY <1>5 DEF Arrive, ChangeMember, vars, cacheVars, buildVars
<1>6. QED
  BY <1>1, <1>2, <1>3, <1>4, <1>5 DEF Next

(* What Save leaves under each version. *)
LEMMA SaveStep ==
    ASSUME SafeInv, NEW b \in builds, Save(b)
    PROVE  /\ b.scope \in Scopes /\ b.version \in 1 .. MaxVersion /\ b.version <= last[b.scope]
           /\ number[b.scope][b.version] \in 1 .. Versions
           /\ UNCHANGED <<number, last, reused>> /\ builds' = builds \ {b}
           /\ \A s \in Scopes : saved[s] <= saved'[s]
           /\ \A s \in Scopes, n \in 1 .. Versions :
                 data'[s][n] = IF s = b.scope /\ n = number[s][b.version] THEN b.version ELSE data[s][n]
<1>1. /\ b.scope \in Scopes /\ b.version \in 1 .. MaxVersion /\ b.version <= last[b.scope]
      /\ saved \in [Scopes -> Vs] /\ data \in [Scopes -> [1 .. Versions -> 0 .. MaxVersion]]
  BY DEF SafeInv, TypeInv, TypeOK
<1>2. number[b.scope][b.version] \in 1 .. Versions
  BY <1>1 DEF SafeInv, VersionInv
<1>3. /\ UNCHANGED <<number, last, reused>> /\ builds' = builds \ {b}
      /\ data' = [data EXCEPT ![b.scope][number[b.scope][b.version]] = b.version]
      /\ saved' = [saved EXCEPT ![b.scope] = IF b.version > @ THEN b.version ELSE @]
  BY DEF Save
<1>4. \A s \in Scopes : saved[s] <= saved'[s]
  BY <1>1, <1>3, LimitsAssumption DEF Vs
<1>5. \A s \in Scopes, n \in 1 .. Versions :
          data'[s][n] = IF s = b.scope /\ n = number[s][b.version] THEN b.version ELSE data[s][n]
  BY <1>1, <1>2, <1>3
<1>6. QED
  BY <1>1, <1>2, <1>3, <1>4, <1>5

(* The floor of a request was saved. *)
LEMMA NextFloor ==
    ASSUME SafeInv, TypeInv', [Next]_vars, NEW r \in Requests
    PROVE  floor'[r] <= saved'[ScopeOf(r)']
<1>t. /\ TypeInv /\ saved \in [Scopes -> Vs] /\ saved' \in [Scopes -> Vs] /\ floor \in [Requests -> Vs]
      /\ header \in [Requests -> Headers \cup {NoOrg}]
  BY DEF SafeInv, TypeInv, TypeOK
<1>1. floor[r] <= saved[ScopeOf(r)] /\ ScopeOf(r) \in Scopes
  BY <1>t, ScopeIsScope DEF SafeInv, VersionInv
<1>2. ASSUME NEW q \in Requests, NEW org \in Headers, Arrive(q, org)
      PROVE  floor'[r] <= saved'[ScopeOf(r)']
  <2>1. /\ floor' = [floor EXCEPT ![q] = saved[ScopeOfOrg(org)]] /\ saved' = saved
        /\ header' = [header EXCEPT ![q] = org] /\ ScopeOfOrg(org) \in Scopes
    BY <1>2, OrgIsScope DEF Arrive, cacheVars
  <2>2. CASE q = r
    <3>1. floor'[r] = saved[ScopeOfOrg(org)] /\ ScopeOf(r)' = ScopeOfOrg(org)
      BY <1>t, <2>1, <2>2 DEF ScopeOf
    <3>2. QED
      BY <1>t, <2>1, <3>1, LimitsAssumption DEF Vs
  <2>3. CASE q # r
    BY <1>1, <2>1, <2>3 DEF ScopeOf
  <2>4. QED
    BY <2>2, <2>3
<1>3. ASSUME UNCHANGED <<floor, header>>, \A s \in Scopes : saved[s] <= saved'[s]
      PROVE  floor'[r] <= saved'[ScopeOf(r)']
  <2>1. floor[r] \in Vs /\ saved[ScopeOf(r)] \in Vs /\ saved'[ScopeOf(r)] \in Vs /\ ScopeOf(r)' = ScopeOf(r)
    BY <1>t, <1>1, <1>3 DEF ScopeOf
  <2>2. QED
    BY <1>1, <1>3, <2>1, LimitsAssumption DEF Vs
<1>4. ASSUME NEW b \in builds, Save(b) PROVE floor'[r] <= saved'[ScopeOf(r)']
  BY <1>3, <1>4, SaveStep DEF Save, reqVars
<1>5. \A s \in Scopes : saved[s] <= saved[s]
  BY <1>t, LimitsAssumption DEF Vs
<1>6. ASSUME NEW q \in Requests, Step(q) PROVE UNCHANGED <<floor, header, saved>>
  BY <1>6 DEF Step, Authenticate, ReadVersion, ReadPermissions, CallBuild, AwaitBuild, ReadCoverage,
              BuildCoverage, ReadRootVersion, ReadRootPermissions, cacheVars
<1>7. ASSUME \/ \E s \in Scopes, perms \in GrantSets : ChangeGrant(s, perms)
             \/ \E org \in OrgIds : ChangeMember(org)
             \/ Evict \/ UNCHANGED vars
      PROVE UNCHANGED <<floor, header, saved>>
  BY <1>7 DEF ChangeGrant, ChangeMember, Evict, vars, cacheVars, reqVars
<1>8. QED
  BY <1>2, <1>3, <1>4, <1>5, <1>6, <1>7 DEF Next

(* What is cached under a version is from a build that took it.             *)
LEMMA NextVersion == SafeInv /\ TypeInv' /\ [Next]_vars => VersionInv'
<1> SUFFICES ASSUME SafeInv, TypeInv', [Next]_vars PROVE VersionInv'
  OBVIOUS
<1> USE LimitsAssumption
<1>t. /\ TypeInv /\ VersionInv /\ last \in [Scopes -> Vs] /\ last' \in [Scopes -> Vs]
      /\ data \in [Scopes -> [1 .. Versions -> Vs]]
  BY DEF SafeInv, TypeInv, TypeOK, Vs
<1>g. Grows
  BY <1>t, NextGrows
<1>f. \A r \in Requests : floor'[r] <= saved'[ScopeOf(r)']
  BY NextFloor
<1>n. ASSUME NEW s \in Scopes, NEW b \in 1 .. MaxVersion
      PROVE  /\ b <= last'[s] => number'[s][b] \in 1 .. Versions
             /\ b \in reused'[s] => b <= last'[s]
  <2>1. CASE UNCHANGED <<number, last, reused>>
    BY <1>t, <2>1 DEF VersionInv
  <2>2. ASSUME NEW t \in Scopes, NEW perms \in GrantSets, NEW by \in Requests \cup {"service"},
               Build(t, perms, by)
        PROVE  /\ b <= last'[s] => number'[s][b] \in 1 .. Versions
               /\ b \in reused'[s] => b <= last'[s]
    <3>1. /\ last[t] + 1 \in 1 .. MaxVersion /\ last'[t] = last[t] + 1
          /\ \A u \in Scopes : u # t => last'[u] = last[u]
      BY <1>t, <2>2, BuildStep
    <3>2. /\ \A u \in Scopes : u # t => number'[u] = number[u] /\ reused'[u] = reused[u]
          /\ \A v \in 1 .. MaxVersion : v # last[t] + 1 =>
                number'[t][v] = number[t][v] /\ (v \in reused'[t] <=> v \in reused[t])
          /\ number'[t][last[t] + 1] \in 1 .. Versions
      BY <1>t, <2>2, BuildNumber
    <3>3. /\ b <= last[s] => number[s][b] \in 1 .. Versions
          /\ b \in reused[s] => b <= last[s]
      BY <1>t DEF VersionInv
    <3>4. CASE s # t
      BY <3>1, <3>2, <3>3, <3>4
    <3>5. CASE s = t /\ b = last[t] + 1
      BY <3>1, <3>2, <3>5
    <3>6. CASE s = t /\ b # last[t] + 1
      <4>1. last[t] \in Nat /\ b \in Nat
        BY <1>t DEF Vs
      <4>2. QED
        BY <3>1, <3>2, <3>3, <3>6, <4>1
    <3>7. QED
      BY <3>4, <3>5, <3>6
  <2>3. ASSUME NEW c \in builds, Save(c) PROVE UNCHANGED <<number, last, reused>>
    BY <2>3, SaveStep
  <2>4. QED
    BY <2>1, <2>2, <2>3, VersionSteps
<1>d. ASSUME NEW s \in Scopes, NEW n \in 1 .. Versions, data'[s][n] # NotFound
      PROVE  data'[s][n] <= last'[s] /\ number'[s][data'[s][n]] = n
  <2>1. ASSUME data'[s][n] = data[s][n] PROVE data'[s][n] <= last'[s] /\ number'[s][data'[s][n]] = n
    <3>1. data[s][n] \in Vs /\ data[s][n] # 0 /\ last[s] \in Vs /\ last'[s] \in Vs
      BY <1>t, <1>d, <2>1 DEF NotFound
    <3>2. data[s][n] <= last[s] /\ number[s][data[s][n]] = n
      BY <1>t, <1>d, <2>1 DEF VersionInv
    <3>3. data[s][n] \in 1 .. last[s] /\ last[s] <= last'[s]
      BY <1>g, <3>1, <3>2 DEF Grows, Vs
    <3>4. number'[s][data[s][n]] = number[s][data[s][n]]
      BY <1>g, <3>3 DEF Grows, Same
    <3>5. QED
      BY <2>1, <3>1, <3>2, <3>3, <3>4 DEF Vs
  <2>2. ASSUME NEW b \in builds, Save(b) PROVE data'[s][n] <= last'[s] /\ number'[s][data'[s][n]] = n
    <3>1. CASE s = b.scope /\ n = number[s][b.version]
      BY <2>2, <3>1, SaveStep
    <3>2. CASE ~(s = b.scope /\ n = number[s][b.version])
      BY <2>1, <2>2, <3>2, SaveStep
    <3>3. QED
      BY <3>1, <3>2
  <2>3. ASSUME NEW t \in Scopes, NEW m \in 1 .. Versions, data' = [data EXCEPT ![t][m] = NotFound]
        PROVE  data'[s][n] = data[s][n]
    BY <1>t, <1>d, <2>3
  <2>4. QED
    BY <2>1, <2>2, <2>3, VersionSteps
<1>q. QED
  BY <1>f, <1>n, <1>d DEF VersionInv

(* A version taken while free never leads to older permissions.             *)
LEMMA NextReuse == SafeInv /\ TypeInv' /\ VersionInv' /\ [Next]_vars => ReuseInv'
<1> SUFFICES ASSUME SafeInv, TypeInv', VersionInv', [Next]_vars,
                    NEW s \in Scopes, NEW g \in 1 .. MaxVersion, g <= last'[s], g \notin reused'[s]
             PROVE  NothingOlder(s, g)'
  BY DEF ReuseInv
<1> USE LimitsAssumption
<1>t. /\ TypeInv /\ VersionInv /\ last \in [Scopes -> Vs] /\ last' \in [Scopes -> Vs]
      /\ data \in [Scopes -> [1 .. Versions -> Vs]]
  BY DEF SafeInv, TypeInv, TypeOK, Vs
<1>b. \A b \in builds : b.scope \in Scopes /\ b.version \in 1 .. last[b.scope]
  BY <1>t DEF TypeInv, TypeOK
<1>g. Grows
  BY <1>t, NextGrows
<1>n. number'[s][g] \in 1 .. Versions
  BY DEF VersionInv
<1>o. ASSUME g <= last[s] PROVE /\ NothingOlder(s, g) /\ number'[s][g] = number[s][g]
                                /\ number[s][g] \in 1 .. Versions
  <2>1. g \in 1 .. last[s]
    BY <1>t, <1>o DEF Vs
  <2>2. Same(s, g)
    BY <1>g, <2>1 DEF Grows
  <2>3. QED
    BY <1>o, <1>n, <2>2 DEF Same, SafeInv, ReuseInv
<1>p. \A b \in builds : number'[b.scope][b.version] = number[b.scope][b.version]
  <2>1. ASSUME NEW b \in builds PROVE number'[b.scope][b.version] = number[b.scope][b.version]
    BY <1>b, <1>g, <2>1 DEF Grows, Same
  <2>2. QED
    BY <2>1
<1>1. CASE UNCHANGED <<data, number, builds, last, reused, saved>>
  BY <1>o, <1>1 DEF NothingOlder, Found
<1>2. ASSUME NEW b \in builds, Save(b) PROVE NothingOlder(s, g)'
  <2>1. /\ g <= last[s] /\ builds' \subseteq builds /\ number' = number
        /\ \A n \in 1 .. Versions :
              data'[s][n] = IF s = b.scope /\ n = number[s][b.version] THEN b.version ELSE data[s][n]
    BY <1>2, SaveStep
  <2>2. NothingOlder(s, g) /\ number[s][g] \in 1 .. Versions
    BY <1>o, <2>1
  <2>3. QED
    BY <2>1, <2>2 DEF NothingOlder, Found
<1>3. ASSUME NEW t \in Scopes, NEW m \in 1 .. Versions, data' = [data EXCEPT ![t][m] = NotFound],
             UNCHANGED <<number, builds, last, reused, saved>>
      PROVE  NothingOlder(s, g)'
  <2>1. NothingOlder(s, g) /\ number[s][g] \in 1 .. Versions
    BY <1>o, <1>3
  <2>2. data'[s][number[s][g]] \in {data[s][number[s][g]], NotFound}
    BY <1>t, <1>3, <2>1
  <2>3. QED
    BY <1>3, <2>1, <2>2 DEF NothingOlder, Found
<1>4. ASSUME NEW t \in Scopes, NEW perms \in GrantSets, NEW by \in Requests \cup {"service"},
             Build(t, perms, by), UNCHANGED <<data, saved>>
      PROVE  NothingOlder(s, g)'
  <2>1. /\ last[t] + 1 \in 1 .. MaxVersion /\ last'[t] = last[t] + 1
        /\ \A u \in Scopes : u # t => last'[u] = last[u]
    BY <1>t, <1>4, BuildStep
  <2>2. /\ \A u \in Scopes : u # t => number'[u] = number[u] /\ reused'[u] = reused[u]
        /\ last[t] + 1 \in reused'[t] \/ ~InUse(t, number'[t][last[t] + 1])
    BY <1>t, <1>4, BuildNumber
  <2>3. builds' = builds \cup {[scope |-> t, version |-> last[t] + 1, by |-> by]}
    BY <1>4 DEF Build
  <2>4. last[s] \in Nat /\ last[t] \in Nat /\ g \in Nat
    BY <1>t DEF Vs
  <2>5. CASE s = t /\ g = last[t] + 1
    <3>1. ~InUse(s, number'[s][g])
      BY <2>2, <2>5
    <3>2. data'[s][number'[s][g]] = NotFound
      BY <1>4, <3>1 DEF InUse
    <3>3. \A b \in builds : ~(b.scope = s /\ number'[s][b.version] = number'[s][g])
      BY <1>p, <3>1 DEF InUse
    <3>4. \A b \in builds' : b.scope = s /\ number'[s][b.version] = number'[s][g] => b.version = g
      BY <2>3, <2>5, <3>3
    <3>5. QED
      BY <2>4, <3>2, <3>4 DEF NothingOlder, Found
  <2>6. CASE ~(s = t /\ g = last[t] + 1)
    <3>1. g <= last[s]
      BY <2>1, <2>4, <2>6
    <3>2. NothingOlder(s, g) /\ number'[s][g] = number[s][g]
      BY <1>o, <3>1
    <3>3. Found(s, g)' # NotFound => Found(s, g)' >= g
      BY <1>4, <3>2 DEF NothingOlder, Found
    <3>4. \A b \in builds : b.scope = s /\ number'[s][b.version] = number'[s][g] => b.version >= g
      BY <1>p, <3>2 DEF NothingOlder
    <3>5. s = t => last[t] + 1 >= g
      BY <2>4, <3>1
    <3>6. \A b \in builds' : b.scope = s /\ number'[s][b.version] = number'[s][g] => b.version >= g
      BY <2>3, <3>4, <3>5
    <3>7. QED
      BY <3>3, <3>6 DEF NothingOlder
  <2>7. QED
    BY <2>5, <2>6
<1>5. QED
  BY <1>1, <1>2, <1>3, <1>4, VersionSteps

-----------------------------------------------------------------------------
(* What a request has read and was let through on. *)

(* A build whose permissions request r may still rely on after a step. *)
StaysUsable(r, b) ==
    LET s == ScopeOf(r)
    IN  /\ b \in 1 .. last'[s] /\ b # NotFound
        /\ \/ b >= floor'[r]
           \/ \E g \in reused'[s] : g >= floor'[r] /\ number'[s][g] = number'[s][b]

(* A version a request may look under stays one. *)
LEMMA RecentStays ==
    ASSUME TypeInv, TypeInv', Grows, NEW r \in Requests, NEW b, floor'[r] = floor[r], Recent(r, b)
    PROVE  b \in 1 .. last'[ScopeOf(r)] /\ b >= floor'[r]
<1> DEFINE s == ScopeOf(r)
<1>1. s \in Scopes
  BY ScopeIsScope
<1>2. last[s] \in Vs /\ last'[s] \in Vs /\ last[s] <= last'[s]
  BY <1>1 DEF TypeInv, Grows
<1>3. QED
  BY <1>2, LimitsAssumption DEF Recent, Vs

(* A build a request may rely on stays one, with the same permissions. *)
LEMMA UsableStays ==
    ASSUME TypeInv, TypeInv', VersionInv, Grows, NEW r \in Requests, NEW b,
           floor'[r] = floor[r], Usable(r, b)
    PROVE  StaysUsable(r, b) /\ built'[ScopeOf(r)][b] = built[ScopeOf(r)][b]
<1> DEFINE s == ScopeOf(r)
<1>1. s \in Scopes
  BY ScopeIsScope
<1>2. last[s] \in Vs /\ last'[s] \in Vs /\ last[s] <= last'[s] /\ reused[s] \subseteq 1 .. MaxVersion
  BY <1>1 DEF TypeInv, Grows
<1>3. b \in 1 .. last[s] /\ b # NotFound
  BY DEF Usable, Current
<1>4. b \in 1 .. last'[s]
  BY <1>2, <1>3, LimitsAssumption DEF Vs
<1>5. Same(s, b)
  BY <1>1, <1>3 DEF Grows
<1>6. ASSUME NEW g \in reused[s] PROVE g \in reused'[s] /\ number'[s][g] = number[s][g]
  <2>1. g \in 1 .. MaxVersion /\ g <= last[s]
    BY <1>1, <1>2 DEF VersionInv
  <2>2. g \in 1 .. last[s]
    BY <1>2, <2>1, LimitsAssumption DEF Vs
  <2>3. QED
    BY <1>1, <2>2 DEF Grows, Same
<1>7. b >= floor[r] \/ \E g \in reused[s] : g >= floor[r] /\ number[s][g] = number[s][b]
  BY DEF Usable, Current
<1>8. b >= floor'[r] \/ \E g \in reused'[s] : g >= floor'[r] /\ number'[s][g] = number'[s][b]
  BY <1>5, <1>6, <1>7 DEF Same
<1>9. QED
  BY <1>3, <1>4, <1>5, <1>8 DEF StaysUsable, Same

(* Nothing that leaves a request's own state alone takes away what it read. *)
LEMMA RequestFrame ==
    ASSUME SafeInv, TypeInv', Grows, NEW q \in Requests,
           pc'[q] = pc[q], header'[q] = header[q], vread'[q] = vread[q],
           used'[q] = used[q], floor'[q] = floor[q], filter'[q] = filter[q]
    PROVE  ReadOK(q)' /\ UsedOK(q)'
<1>1. ReadOK(q) /\ UsedOK(q) /\ TypeInv /\ VersionInv
  BY DEF SafeInv, RequestInv
<1>2. ScopeOf(q)' = ScopeOf(q) /\ (header[q] = NoOrg => ScopeOf(q) = Global)
  BY DEF ScopeOf, ScopeOfOrg
<1>3. ASSUME NEW b, Usable(q, b)
      PROVE  StaysUsable(q, b) /\ built'[ScopeOf(q)][b] = built[ScopeOf(q)][b]
  BY <1>1, <1>3, UsableStays
<1>4. ReadOK(q)'
  <2>1. pc[q] \in {"data", "await", "rootData"} =>
            vread[q] \in 1 .. last'[ScopeOf(q)] /\ vread[q] >= floor'[q]
    BY <1>1, RecentStays DEF ReadOK
  <2>2. QED
    BY <1>1, <1>2, <2>1 DEF ReadOK, Recent
<1>5. UsedOK(q)'
  <2>1. pc[q] \in Passed => /\ StaysUsable(q, used[q].required)
                            /\ HasAnyPermission(built'[ScopeOf(q)][used[q].required], Required)
    BY <1>1, <1>3 DEF UsedOK
  <2>2. pc[q] = "served" /\ header[q] = NoOrg =>
          StaysUsable(q, used[q].root) /\ RootPermission \in built'[Global][used[q].root]
    BY <1>1, <1>2, <1>3 DEF UsedOK
  <2>3. pc[q] = "served" /\ header[q] # NoOrg =>
          \/ filter[q] = Filter("org", <<>>, <<>>, {header[q]})
          \/ filter[q] = RangeFilter(RequestContext(header[q], OrgData[header[q]], {}, {}))
    BY <1>1 DEF UsedOK
  <2>4. ASSUME NEW b, StaysUsable(q, b)
        PROVE /\ b \in 1 .. last'[ScopeOf(q)] /\ b # NotFound
              /\ \/ b >= floor'[q]
                 \/ \E g \in reused'[ScopeOf(q)] : g >= floor'[q] /\ number'[ScopeOf(q)][g] = number'[ScopeOf(q)][b]
    BY <2>4 DEF StaysUsable
  <2>5. pc'[q] \in Passed => Usable(q, used[q].required)'
    BY <1>2, <2>1, <2>4 DEF Usable, Current
  <2>6. pc'[q] = "served" /\ header'[q] = NoOrg => Usable(q, used[q].root)'
    BY <1>2, <2>2, <2>4 DEF Usable, Current
  <2>7. QED
    BY <1>2, <2>1, <2>2, <2>3, <2>5, <2>6 DEF UsedOK
<1>6. QED
  BY <1>4, <1>5

(* The pointer leads to a version a request may look under. *)
LEMMA PointerRecent ==
    ASSUME SafeInv, NEW r \in Requests, ver[ScopeOf(r)] # 0
    PROVE  Recent(r, ver[ScopeOf(r)])
<1> DEFINE s == ScopeOf(r)
<1>1. s \in Scopes
  BY ScopeIsScope DEF SafeInv
<1>2. /\ ver[s] = last[s] /\ ver[s] \in Vs /\ saved[s] <= last[s] /\ saved[s] \in Vs
      /\ floor[r] \in Vs
  BY <1>1 DEF SafeInv, TypeInv, TypeOK, Vs
<1>3. floor[r] <= saved[s]
  BY DEF SafeInv, VersionInv
<1>4. QED
  BY <1>2, <1>3, LimitsAssumption DEF Recent, Vs

(* A build a request waited for is one it may rely on. *)
LEMMA RecentUsable ==
    ASSUME NEW r \in Requests, NEW b, Recent(r, b) PROVE Usable(r, b)
BY DEF Recent, Usable, Current, NotFound

(* What a request may rely on, when it goes on with the list of build b.    *)
LEMMA RequestWithPermissions ==
    ASSUME SafeInv, TypeInv', NEW r \in Requests, NEW b \in Vs,
           WithPermissions(r, built[ScopeOf(r)][b], b),
           UNCHANGED <<cacheVars, header, filter, floor>>, Usable(r, b)
    PROVE  ReadOK(r)' /\ UsedOK(r)'
<1>1. TypeInv /\ phase[r] \in {"admin", "required"} /\ ScopeOf(r)' = ScopeOf(r)
  BY DEF SafeInv, TypeInv, ScopeOf
<1>2. CASE phase[r] = "admin"
  <2>1. pc'[r] \in {"ver", "403"}
    BY <1>1, <1>2, WithPermissionsStep
  <2>2. QED
    BY <2>1 DEF ReadOK, UsedOK, Passed
<1>3. CASE phase[r] = "required"
  <2>1. /\ pc'[r] = IF HasAnyPermission(built[ScopeOf(r)][b], Required) THEN "coverage" ELSE "403"
        /\ used'[r].required = b
    BY <1>1, <1>3, WithPermissionsStep
  <2>2. Usable(r, used[r].required)'
    BY <1>1, <2>1 DEF Usable, Current, cacheVars, buildVars
  <2>3. pc'[r] \in Passed => HasAnyPermission(built'[ScopeOf(r)][used'[r].required], Required)
    BY <2>1 DEF cacheVars, buildVars, Passed
  <2>4. pc'[r] \in {"coverage", "403"}
    BY <2>1
  <2>5. QED
    BY <1>1, <2>2, <2>3, <2>4 DEF ReadOK, UsedOK
<1>4. QED
  BY <1>1, <1>2, <1>3

(* A request that has not been let through, or is refused, relies on nothing. *)
LEMMA NothingRelied ==
    ASSUME NEW r \in Requests, pc'[r] \in {"auth", "ver", "build", "401", "403", "500"}
    PROVE  ReadOK(r)' /\ UsedOK(r)'
BY DEF ReadOK, UsedOK, Passed

(* What a request was let through on stays while it goes on. *)
LEMMA PassedStays ==
    ASSUME SafeInv, TypeInv', Grows, NEW r \in Requests, pc[r] \in Passed,
           header'[r] = header[r], floor'[r] = floor[r], used'[r].required = used[r].required
    PROVE  /\ Usable(r, used[r].required)'
           /\ HasAnyPermission(built[ScopeOf(r)][used[r].required], Required)'
<1>1. TypeInv /\ VersionInv /\ UsedOK(r) /\ ScopeOf(r)' = ScopeOf(r)
  BY DEF SafeInv, RequestInv, ScopeOf
<1>2. /\ Usable(r, used[r].required)
      /\ HasAnyPermission(built[ScopeOf(r)][used[r].required], Required)
  BY <1>1 DEF UsedOK
<1>3. /\ StaysUsable(r, used[r].required)
      /\ built'[ScopeOf(r)][used[r].required] = built[ScopeOf(r)][used[r].required]
  BY <1>1, <1>2, UsableStays
<1>4. QED
  BY <1>1, <1>2, <1>3 DEF StaysUsable, Usable, Current

(* The coverage decision keeps what a request was let through on. *)
LEMMA RequestWithCoverage ==
    ASSUME SafeInv, TypeInv', Grows, NEW r \in Requests, NEW ids \in SUBSET OrgIds,
           WithCoverage(r, ids), pc[r] \in Passed, UNCHANGED <<header, floor, used>>
    PROVE  ReadOK(r)' /\ UsedOK(r)'
<1>1. TypeInv
  BY DEF SafeInv
<1>2. /\ Usable(r, used[r].required)'
      /\ HasAnyPermission(built[ScopeOf(r)][used[r].required], Required)'
  BY PassedStays
<1>3. pc'[r] \in {"rootVer", "403", "500", "served"}
  BY <1>1, WithCoverageStep
<1>4. CASE pc'[r] = "rootVer"
  <2>1. header'[r] = NoOrg
    BY <1>1, <1>4, WithCoverageStep
  <2>2. QED
    BY <1>2, <1>4, <2>1 DEF ReadOK, UsedOK
<1>5. CASE pc'[r] \in {"403", "500"}
  BY <1>5, NothingRelied
<1>6. CASE pc'[r] = "served"
  <2>1. /\ header'[r] # NoOrg
        /\ \/ filter'[r] = Filter("org", <<>>, <<>>, {header'[r]})
           \/ filter'[r] = RangeFilter(RequestContext(header'[r], OrgData[header'[r]], {}, {}))
    BY <1>1, <1>6, WithCoverageStep
  <2>2. QED
    BY <1>2, <1>6, <2>1 DEF ReadOK, UsedOK
<1>7. QED
  BY <1>3, <1>4, <1>5, <1>6

(* Every step keeps what each request relies on. *)
LEMMA NextRequest == SafeInv /\ TypeInv' /\ [Next]_vars => RequestInv'
<1> SUFFICES ASSUME SafeInv, TypeInv', [Next]_vars PROVE RequestInv'
  OBVIOUS
<1>t. TypeInv /\ TypeOK /\ VersionInv
  BY DEF SafeInv, TypeInv
<1>g. Grows
  BY <1>t, NextGrows
<1>r. \A q \in Requests : ReadOK(q) /\ UsedOK(q)
  BY DEF SafeInv, RequestInv
<1>v. /\ pc \in [Requests -> Steps] /\ vread \in [Requests -> Vs] /\ DOMAIN filter = Requests
      /\ used \in [Requests -> [required : Vs, root : Vs]]
  BY <1>t DEF TypeInv, TypeOK, Vs
<1>o. ASSUME NEW r \in Requests, ReadOK(r)' /\ UsedOK(r)',
             \A q \in Requests : q # r =>
                 /\ pc'[q] = pc[q] /\ header'[q] = header[q] /\ vread'[q] = vread[q]
                 /\ used'[q] = used[q] /\ floor'[q] = floor[q] /\ filter'[q] = filter[q]
      PROVE RequestInv'
  <2>1. ASSUME NEW q \in Requests, q # r PROVE ReadOK(q)' /\ UsedOK(q)'
    BY <1>g, <1>o, <2>1, RequestFrame
  <2>2. QED
    BY <1>o, <2>1 DEF RequestInv
<1>1. ASSUME UNCHANGED <<pc, header, vread, used, floor, filter>> PROVE RequestInv'
  <2>1. ASSUME NEW q \in Requests PROVE ReadOK(q)' /\ UsedOK(q)'
    BY <1>g, <1>1, RequestFrame
  <2>2. QED
    BY <2>1 DEF RequestInv
<1>2. ASSUME NEW r \in Requests, NEW org \in Headers, Arrive(r, org) PROVE RequestInv'
  <2>1. /\ pc' = [pc EXCEPT ![r] = "auth"] /\ header' = [header EXCEPT ![r] = org]
        /\ floor' = [floor EXCEPT ![r] = saved[ScopeOfOrg(org)]] /\ UNCHANGED <<vread, filter, used>>
    BY <1>2 DEF Arrive, Goto
  <2>2. pc'[r] = "auth"
    BY <1>v, <2>1
  <2>3. ReadOK(r)' /\ UsedOK(r)'
    BY <2>2, NothingRelied
  <2>4. QED
    BY <1>o, <2>1, <2>3
<1>3. ASSUME NEW r \in Requests, Authenticate(r) PROVE RequestInv'
  <2>1. /\ pc' = [pc EXCEPT ![r] = "ver"] \/ pc' = [pc EXCEPT ![r] = "401"]
        /\ UNCHANGED <<header, vread, filter, floor, used>>
    BY <1>3 DEF Authenticate, Goto
  <2>2. pc'[r] \in {"ver", "401"}
    BY <1>v, <2>1
  <2>3. ReadOK(r)' /\ UsedOK(r)'
    BY <2>2, NothingRelied
  <2>4. \A q \in Requests : q # r => pc'[q] = pc[q]
    BY <1>v, <2>1
  <2>5. QED
    BY <1>o, <2>1, <2>3, <2>4
<1>4. ASSUME NEW r \in Requests, ReadVersion(r) PROVE RequestInv'
  <2>1. UNCHANGED <<cacheVars, header, filter, floor>> /\ ScopeOf(r) \in Scopes /\ ScopeOf(r)' = ScopeOf(r)
    BY <1>4, <1>t, ScopeIsScope DEF ReadVersion, ScopeOf
  <2>2. CASE /\ ver[ScopeOf(r)] # 0 /\ vread' = [vread EXCEPT ![r] = ver[ScopeOf(r)]]
             /\ Goto(r, "data") /\ UNCHANGED used
    <3>1. Recent(r, ver[ScopeOf(r)])
      BY <2>2, PointerRecent
    <3>2. pc' = [pc EXCEPT ![r] = "data"] /\ pc'[r] = "data" /\ vread'[r] = ver[ScopeOf(r)]
      BY <1>v, <2>2 DEF Goto
    <3>3. ReadOK(r)' /\ UsedOK(r)'
      BY <2>1, <3>1, <3>2 DEF ReadOK, UsedOK, Passed, Recent, cacheVars, buildVars
    <3>4. QED
      BY <1>o, <2>1, <2>2, <3>2, <3>3
  <2>3. CASE Goto(r, "build") /\ UNCHANGED <<vread, used>>
    <3>1. pc' = [pc EXCEPT ![r] = "build"] /\ pc'[r] = "build"
      BY <1>v, <2>3 DEF Goto
    <3>2. QED
      BY <1>o, <2>1, <2>3, <3>1, NothingRelied
  <2>4. CASE PermissionsFailed(r)
    BY <1>o, <1>t, <2>1, <2>4, PermissionsFailedStep, NothingRelied
  <2>5. QED
    BY <1>4, <2>2, <2>3, <2>4 DEF ReadVersion
<1>5. ASSUME NEW r \in Requests, ReadPermissions(r) PROVE RequestInv'
  <2> DEFINE found == Found(ScopeOf(r), vread[r])
  <2>1. UNCHANGED <<cacheVars, header, filter, floor>> /\ pc[r] = "data"
    BY <1>5 DEF ReadPermissions
  <2>2. Recent(r, vread[r]) /\ found \in Vs
    BY <2>1, FoundType
  <2>3. CASE found # NotFound /\ WithPermissions(r, built[ScopeOf(r)][found], found)
    <3>1. Usable(r, found)
      BY <2>2, <2>3, FoundUsable
    <3> HIDE DEF found
    <3>2. ReadOK(r)' /\ UsedOK(r)'
      BY <2>1, <2>2, <2>3, <3>1, RequestWithPermissions
    <3>3. \A q \in Requests : q # r => pc'[q] = pc[q] /\ used'[q] = used[q] /\ vread'[q] = vread[q]
      BY <1>t, <2>2, <2>3, WithPermissionsStep
    <3>4. QED
      BY <1>o, <2>1, <3>2, <3>3
  <2>4. CASE UNCHANGED <<pc, vread, used>>
    BY <1>1, <2>1, <2>4
  <2>5. CASE Forget(r) /\ Goto(r, "build") /\ UNCHANGED used
    <3>1. pc' = [pc EXCEPT ![r] = "build"] /\ pc'[r] = "build"
      BY <1>v, <2>5 DEF Goto
    <3>2. \A q \in Requests : q # r => vread'[q] = vread[q]
      BY <1>t, <2>5, ForgetStep
    <3>3. QED
      BY <1>o, <2>1, <2>5, <3>1, <3>2, NothingRelied
  <2>6. CASE PermissionsFailed(r)
    BY <1>o, <1>t, <2>1, <2>6, PermissionsFailedStep, NothingRelied
  <2> HIDE DEF found
  <2>7. QED
    BY <1>5, <2>3, <2>4, <2>5, <2>6 DEF ReadPermissions, found
<1>6. ASSUME NEW r \in Requests, CallBuild(r) PROVE RequestInv'
  <2>1. UNCHANGED <<header, filter, floor>> /\ ScopeOf(r) \in Scopes /\ ScopeOf(r)' = ScopeOf(r)
    BY <1>6, <1>t, ScopeIsScope DEF CallBuild, ScopeOf
  <2>2. CASE /\ Build(ScopeOf(r), grant[ScopeOf(r)], r)
             /\ vread' = [vread EXCEPT ![r] = last[ScopeOf(r)] + 1]
             /\ Goto(r, "await") /\ UNCHANGED used
    <3>1. pc' = [pc EXCEPT ![r] = "await"] /\ pc'[r] = "await" /\ vread'[r] = last[ScopeOf(r)] + 1
      BY <1>v, <2>2 DEF Goto
    <3>2. last'[ScopeOf(r)] = last[ScopeOf(r)] + 1
      BY <1>t, <2>1, <2>2 DEF Build, TypeInv
    <3>3. /\ last[ScopeOf(r)] \in Vs /\ saved[ScopeOf(r)] \in Vs /\ floor[r] \in Vs
          /\ floor[r] <= saved[ScopeOf(r)] /\ saved[ScopeOf(r)] <= last[ScopeOf(r)]
      BY <1>t, <2>1 DEF TypeInv, TypeOK, VersionInv
    <3>4. Recent(r, vread[r])'
      BY <2>1, <3>1, <3>2, <3>3, LimitsAssumption DEF Recent, Vs
    <3>5. ReadOK(r)' /\ UsedOK(r)'
      BY <3>1, <3>4 DEF ReadOK, UsedOK, Passed
    <3>6. QED
      BY <1>o, <2>1, <2>2, <3>1, <3>5
  <2>3. CASE PermissionsFailed(r)
    BY <1>o, <1>t, <2>1, <2>3, PermissionsFailedStep, NothingRelied
  <2>4. QED
    BY <1>6, <2>2, <2>3 DEF CallBuild
<1>7. ASSUME NEW r \in Requests, AwaitBuild(r) PROVE RequestInv'
  <2>1. UNCHANGED <<cacheVars, header, filter, floor>> /\ pc[r] = "await" /\ vread[r] \in Vs
    BY <1>7, <1>v DEF AwaitBuild
  <2>2. CASE WithPermissions(r, built[ScopeOf(r)][vread[r]], vread[r])
    <3>1. Usable(r, vread[r])
      BY <1>r, <2>1, RecentUsable DEF ReadOK
    <3>2. ReadOK(r)' /\ UsedOK(r)'
      BY <2>1, <2>2, <3>1, RequestWithPermissions
    <3>3. \A q \in Requests : q # r => pc'[q] = pc[q] /\ used'[q] = used[q] /\ vread'[q] = vread[q]
      BY <1>t, <2>1, <2>2, WithPermissionsStep
    <3>4. QED
      BY <1>o, <2>1, <3>2, <3>3
  <2>3. CASE PermissionsFailed(r)
    BY <1>o, <1>t, <2>1, <2>3, PermissionsFailedStep, NothingRelied
  <2>4. QED
    BY <1>7, <2>2, <2>3 DEF AwaitBuild
<1>8. ASSUME NEW r \in Requests, ReadCoverage(r) PROVE RequestInv'
  <2>1. UNCHANGED <<header, vread, floor, used>> /\ pc[r] = "coverage" /\ pc[r] \in Passed
    BY <1>8 DEF ReadCoverage, Passed
  <2>2. CASE cov # NoCoverage /\ WithCoverage(r, cov)
    <3>1. cov \in SUBSET OrgIds
      BY <1>t, <2>2 DEF TypeOK
    <3>2. QED
      BY <1>g, <1>o, <1>t, <2>1, <2>2, <3>1, RequestWithCoverage, WithCoverageStep
  <2>3. CASE Goto(r, "covBuild") /\ UNCHANGED filter
    <3>1. pc' = [pc EXCEPT ![r] = "covBuild"] /\ pc'[r] = "covBuild"
      BY <1>v, <2>3 DEF Goto
    <3>2. ReadOK(r)' /\ UsedOK(r)'
      BY <1>g, <2>1, <3>1, PassedStays DEF ReadOK, UsedOK
    <3>3. QED
      BY <1>o, <2>1, <2>3, <3>1, <3>2
  <2>4. CASE Goto(r, "500") /\ UNCHANGED filter
    <3>1. pc' = [pc EXCEPT ![r] = "500"] /\ pc'[r] = "500"
      BY <1>v, <2>4 DEF Goto
    <3>2. QED
      BY <1>o, <2>1, <2>4, <3>1, NothingRelied
  <2>5. QED
    BY <1>8, <2>2, <2>3, <2>4 DEF ReadCoverage
<1>9. ASSUME NEW r \in Requests, BuildCoverage(r) PROVE RequestInv'
  <2>1. UNCHANGED <<header, vread, floor, used>> /\ pc[r] = "covBuild" /\ pc[r] \in Passed
    BY <1>9 DEF BuildCoverage, Passed
  <2>2. CASE WithCoverage(r, member)
    <3>1. member \in SUBSET OrgIds
      BY <1>t DEF TypeOK
    <3>2. QED
      BY <1>g, <1>o, <1>t, <2>1, <2>2, <3>1, RequestWithCoverage, WithCoverageStep
  <2>3. CASE Goto(r, "500") /\ UNCHANGED filter
    <3>1. pc' = [pc EXCEPT ![r] = "500"] /\ pc'[r] = "500"
      BY <1>v, <2>3 DEF Goto
    <3>2. QED
      BY <1>o, <2>1, <2>3, <3>1, NothingRelied
  <2>4. QED
    BY <1>9, <2>2, <2>3 DEF BuildCoverage
<1>10. ASSUME NEW r \in Requests, ReadRootVersion(r) PROVE RequestInv'
  <2>1. /\ UNCHANGED <<cacheVars, header, filter, floor, used>> /\ pc[r] = "rootVer" /\ pc[r] \in Passed
        /\ header[r] = NoOrg /\ ScopeOf(r) = Global /\ ScopeOf(r)' = Global
    BY <1>10, <1>r DEF ReadRootVersion, Passed, ReadOK, ScopeOf, ScopeOfOrg
  <2>2. CASE ver[Global] # 0 /\ vread' = [vread EXCEPT ![r] = ver[Global]] /\ Goto(r, "rootData")
    <3>1. pc' = [pc EXCEPT ![r] = "rootData"] /\ pc'[r] = "rootData" /\ vread'[r] = ver[Global]
      BY <1>v, <2>2 DEF Goto
    <3>2. Recent(r, ver[Global])
      BY <2>1, <2>2, PointerRecent
    <3>3. ReadOK(r)'
      BY <2>1, <3>1, <3>2 DEF ReadOK, Recent, cacheVars, buildVars
    <3>4. UsedOK(r)'
      BY <1>g, <2>1, <3>1, PassedStays DEF UsedOK
    <3>5. QED
      BY <1>o, <2>1, <2>2, <3>1, <3>3, <3>4
  <2>3. CASE Goto(r, "403") /\ UNCHANGED vread
    <3>1. pc' = [pc EXCEPT ![r] = "403"] /\ pc'[r] = "403"
      BY <1>v, <2>3 DEF Goto
    <3>2. QED
      BY <1>o, <2>1, <2>3, <3>1, NothingRelied
  <2>4. QED
    BY <1>10, <2>2, <2>3 DEF ReadRootVersion
<1>11. ASSUME NEW r \in Requests, ReadRootPermissions(r) PROVE RequestInv'
  <2> DEFINE found == Found(Global, vread[r])
             query(include) == BuildOrgFilter(RequestContext(NoOrg, NoOrgData, {}, {}), include)
  <2>1. /\ UNCHANGED <<cacheVars, header, floor>> /\ pc[r] = "rootData" /\ pc[r] \in Passed
        /\ header[r] = NoOrg
    BY <1>11, <1>r DEF ReadRootPermissions, Passed, ReadOK
  <2>2. ScopeOf(r) = Global /\ ScopeOf(r)' = Global /\ Recent(r, vread[r]) /\ found \in Vs
    BY <2>1, FoundType DEF ScopeOf
  <2>3. CASE /\ found # NotFound /\ IsRoot(built[Global][found]) /\ Forget(r)
             /\ Serve(r, RequestContext(NoOrg, NoOrgData, {}, {}))
             /\ used' = [used EXCEPT ![r].root = found]
    <3>1. \A include \in BOOLEAN : query(include).kind = "all"
      BY DEF BuildOrgFilter, RequestContext, NoFilter, Filter
    <3>2. PICK include \in BOOLEAN :
              /\ filter' = [filter EXCEPT ![r] = query(include)]
              /\ pc' = [pc EXCEPT ![r] = IF query(include).kind = "error" THEN "500" ELSE "served"]
      BY <2>3 DEF Serve, Goto
    <3>3. Usable(r, found)
      BY <2>2, <2>3, FoundUsable
    <3>4. RootPermission \in built[Global][found]
      BY <2>3 DEF IsRoot
    <3>5. \A q \in Requests : q # r => vread'[q] = vread[q]
      BY <1>t, <2>3, ForgetStep
    <3> HIDE DEF found, query
    <3>6. pc' = [pc EXCEPT ![r] = "served"] /\ pc'[r] = "served"
      BY <1>v, <3>1, <3>2
    <3>7. used'[r].root = found /\ used'[r].required = used[r].required
      BY <1>v, <2>2, <2>3
    <3>8. Usable(r, used[r].root)' /\ RootPermission \in built'[Global][used'[r].root]
      BY <2>1, <2>2, <3>3, <3>4, <3>7 DEF Usable, Current, cacheVars, buildVars
    <3>9. ReadOK(r)' /\ UsedOK(r)'
      BY <1>g, <2>1, <3>6, <3>7, <3>8, PassedStays DEF ReadOK, UsedOK
    <3>10. \A q \in Requests : q # r => filter'[q] = filter[q] /\ used'[q] = used[q] /\ pc'[q] = pc[q]
      BY <1>v, <2>3, <3>2, <3>6
    <3>11. QED
      BY <1>o, <2>1, <3>5, <3>9, <3>10
  <2>4. CASE Forget(r) /\ Goto(r, "403") /\ UNCHANGED <<filter, used>>
    <3>1. pc' = [pc EXCEPT ![r] = "403"] /\ pc'[r] = "403"
      BY <1>v, <2>4 DEF Goto
    <3>2. \A q \in Requests : q # r => vread'[q] = vread[q]
      BY <1>t, <2>4, ForgetStep
    <3>3. QED
      BY <1>o, <2>1, <2>4, <3>1, <3>2, NothingRelied
  <2>5. CASE UNCHANGED <<pc, vread, filter, used>>
    BY <1>1, <2>1, <2>5
  <2> HIDE DEF found
  <2>6. QED
    BY <1>11, <2>3, <2>4, <2>5 DEF ReadRootPermissions, found
<1>12. ASSUME \/ \E b \in builds : Save(b)
              \/ \E s \in Scopes, perms \in GrantSets : ChangeGrant(s, perms)
              \/ \E org \in OrgIds : ChangeMember(org)
              \/ Evict \/ UNCHANGED vars
       PROVE UNCHANGED <<pc, header, vread, used, floor, filter>>
  BY <1>12 DEF Save, ChangeGrant, ChangeMember, Evict, vars, reqVars
<1>13. QED
  BY <1>1, <1>2, <1>3, <1>4, <1>5, <1>6, <1>7, <1>8, <1>9, <1>10, <1>11, <1>12 DEF Next, Step

(* Together they are inductive. *)
LEMMA SafeInductive == Spec => []SafeInv
<1>1. Init => SafeInv
  <2> SUFFICES ASSUME Init PROVE SafeInv
    OBVIOUS
  <2>1. TypeInv
    BY InitType
  <2>v. /\ \A q \in Requests : floor[q] = 0
        /\ \A s \in Scopes : last[s] = 0 /\ saved[s] = 0 /\ reused[s] = {}
        /\ \A s \in Scopes, n \in 1 .. Versions : data[s][n] = NotFound
    BY DEF Init
  <2>2. VersionInv
    BY <2>1, <2>v, ScopeIsScope, LimitsAssumption DEF VersionInv
  <2>r. ReuseInv
    BY <2>v, LimitsAssumption DEF ReuseInv
  <2>3. RequestInv
    <3>1. \A r \in Requests : pc[r] = "idle"
      BY DEF Init
    <3>2. QED
      BY <3>1 DEF RequestInv, ReadOK, UsedOK, Passed
  <2>4. QED
    BY <2>1, <2>2, <2>r, <2>3 DEF SafeInv
<1>2. SafeInv /\ [Next]_vars => SafeInv'
  BY NextType, NextVersion, NextReuse, NextRequest DEF SafeInv
<1>3. QED
  BY <1>1, <1>2, PTL DEF Spec

(* The types of the cache, the identity service and the requests hold. *)
THEOREM TypeCorrect == Spec => []TypeOK
<1>1. SafeInv => TypeOK
  BY DEF SafeInv, TypeInv
<1>2. QED
  BY <1>1, SafeInductive, PTL

(* No request is let through on permissions older than the newest saved     *)
(* when it arrived, whatever the other requests, the rebuilds, the          *)
(* evictions and the retries of the permission middleware do meanwhile,     *)
(* unless a version was taken again while older permissions were cached or  *)
(* being saved under it.                                                    *)
THEOREM FreshGrants == Spec => []ServedOnFreshGrant
<1>1. SafeInv => ServedOnFreshGrant
  <2> SUFFICES ASSUME SafeInv, NEW r \in Requests, pc[r] = "served"
               PROVE /\ Current(r, used[r].required)
                     /\ HasAnyPermission(built[ScopeOf(r)][used[r].required], Required)
    BY DEF ServedOnFreshGrant
  <2>1. UsedOK(r)
    BY DEF SafeInv, RequestInv
  <2>2. QED
    BY <2>1 DEF UsedOK, Usable, Passed
<1>2. QED
  BY <1>1, SafeInductive, PTL

(* The path key ranges of these organizations select their subtrees.        *)
RangesExact ==
    \A o, p \in OrgIds :
        Selects(RangeFilter(RequestContext(o, OrgData[o], {}, {})), OrgData[p]) <=>
            IsDescendantOrSelf(OrgData[p].pathKey, OrgData[o].pathKey)

LEMMA ScopeIfRangesExact == ASSUME RangesExact PROVE Spec => []ScopeOfServed
<1>1. SafeInv => ScopeOfServed
  <2> SUFFICES ASSUME SafeInv, NEW r \in Requests, pc[r] = "served"
               PROVE  \/ /\ header[r] = NoOrg
                         /\ Current(r, used[r].root)
                         /\ RootPermission \in built[Global][used[r].root]
                      \/ /\ header[r] # NoOrg /\ filter[r].kind \in {"org", "range"}
                         /\ \A o \in OrgIds : Selects(filter[r], OrgData[o]) <=>
                               IF filter[r].kind = "range"
                               THEN IsDescendantOrSelf(OrgData[o].pathKey, OrgData[header[r]].pathKey)
                               ELSE o = header[r]
    BY DEF ScopeOfServed
  <2>1. UsedOK(r) /\ TypeInv /\ header[r] \in Headers \cup {NoOrg}
    BY DEF SafeInv, RequestInv, TypeInv, TypeOK
  <2>2. CASE header[r] = NoOrg
    BY <2>1, <2>2 DEF UsedOK, Usable
  <2>3. CASE header[r] # NoOrg
    <3>1. header[r] \in OrgIds
      BY <2>1, <2>3, HeadersAssumption
    <3>2. CASE filter[r] = Filter("org", <<>>, <<>>, {header[r]})
      <4>1. filter[r].kind = "org" /\ filter[r].ids = {header[r]}
        BY <3>2 DEF Filter
      <4>2. \A o \in OrgIds : Selects(filter[r], OrgData[o]) <=> o = header[r]
        BY <4>1, OrgDataAssumption DEF Selects
      <4>3. QED
        BY <2>3, <4>1, <4>2
    <3>3. CASE filter[r] = RangeFilter(RequestContext(header[r], OrgData[header[r]], {}, {}))
      <4>1. OrgData[header[r]].id # NoOrgData.id /\ OrgData[header[r]].pathKey # <<>>
        BY <2>3, <3>1, OrgDataAssumption DEF NoOrgData, CoverageOrg
      <4>2. OrgData[header[r]] # NoOrgData
        BY <4>1
      <4>3. filter[r].kind = "range"
        BY <3>3, <4>1, <4>2 DEF RangeFilter, RequestContext, Filter
      <4>4. \A o \in OrgIds : Selects(filter[r], OrgData[o]) <=>
                IsDescendantOrSelf(OrgData[o].pathKey, OrgData[header[r]].pathKey)
        BY <3>1, <3>3 DEF RangesExact
      <4>5. QED
        BY <2>3, <4>3, <4>4
    <3>4. QED
      BY <2>1, <2>3, <3>2, <3>3 DEF UsedOK
  <2>4. QED
    BY <2>2, <2>3
<1>2. QED
  BY <1>1, SafeInductive, PTL

(* The organizations of the requests are organizations of the tree, as they *)
(* are stored there.                                                        *)
FromTree == \A o \in OrgIds : o \in DOMAIN orgs /\ OrgData[o] = orgs[o]

(* Ranges select subtrees in a tree that the hierarchy middleware let grow. *)
LEMMA RangesOfTree ==
    ASSUME TreeInv, FromTree, \A o \in OrgIds : ~AtTop(OrgData[o].pathKey)
    PROVE  RangesExact
<1> SUFFICES ASSUME NEW o \in OrgIds, NEW p \in OrgIds
             PROVE  Selects(RangeFilter(RequestContext(o, OrgData[o], {}, {})), OrgData[p]) <=>
                        IsDescendantOrSelf(OrgData[p].pathKey, OrgData[o].pathKey)
  BY DEF RangesExact
<1>1. /\ o \in DOMAIN orgs /\ p \in DOMAIN orgs
      /\ OrgData[o] = orgs[o] /\ OrgData[p] = orgs[p] /\ ~AtTop(PathKeyOf(o))
  BY DEF FromTree, PathKeyOf
<1>2. IsPathKey(PathKeyOf(o)) /\ IsPathKey(PathKeyOf(p))
  BY <1>1 DEF TreeInv, StoredInv
<1>3. RangeFilter(RequestContext(o, OrgData[o], {}, {})) = RangeFilter(ContextOf(o))
  BY <1>1 DEF RangeFilter, RequestContext, ContextOf
<1>4. Selects(RangeFilter(ContextOf(o)), orgs[p]) <=> Below(PathKeyOf(p), PathKeyOf(o))
  BY <1>1, RangeOfOrg
<1>5. IsDescendantOrSelf(PathKeyOf(p), PathKeyOf(o)) <=> Below(PathKeyOf(p), PathKeyOf(o))
  BY <1>2, DescendantIsBelow
<1>6. QED
  BY <1>1, <1>3, <1>4, <1>5 DEF PathKeyOf

(* Over the organizations of a tree that creations built, none with the     *)
(* highest segment of its width, a query is left unfiltered only for a root *)
(* user, judged by permissions as fresh as FreshGrants says; any other query *)
(* returns exactly the named organization, or exactly what was created in   *)
(* its subtree.                                                             *)
THEOREM ServedScope ==
    ASSUME \A o \in OrgIds : ~AtTop(OrgData[o].pathKey)
    PROVE  TreeSpec /\ <>FromTree /\ Spec => []ScopeOfServed
<1>1. TreeInv /\ FromTree => RangesExact
  BY RangesOfTree
<1>2. ~RangesExact => (~RangesExact)'
  BY DEF RangesExact
<1>3. TreeSpec /\ <>FromTree => RangesExact
  BY <1>1, <1>2, TreeInductive, PTL
<1>4. RangesExact => (Spec => []ScopeOfServed)
  BY ScopeIfRangesExact
<1>5. QED
  BY <1>3, <1>4

-----------------------------------------------------------------------------
(* Refusals. *)

(* What the pointer leads to is what is granted, and the coverage is the    *)
(* membership, whichever of the requests and the service rebuilt them.      *)
LEMMA NextGrant == TypeInv /\ TypeInv' /\ GrantInv /\ [Next]_vars => GrantInv'
<1> SUFFICES ASSUME TypeInv, TypeInv', GrantInv, [Next]_vars PROVE GrantInv'
  OBVIOUS
<1>t. /\ ver \in [Scopes -> Vs] /\ last \in [Scopes -> Vs] /\ grant \in [Scopes -> GrantSets]
      /\ \A s \in Scopes : ver[s] \in {0, last[s]}
  BY DEF TypeInv, TypeOK, Vs
<1>g. Grows
  BY NextGrows
<1>1. ASSUME NEW s \in Scopes, ver'[s] # 0, ver'[s] = ver[s], grant'[s] = grant[s]
      PROVE  built'[s][ver'[s]] = grant'[s]
  <2>1. ver[s] \in 1 .. last[s]
    BY <1>t, <1>1, LimitsAssumption DEF Vs
  <2>2. QED
    BY <1>g, <1>1, <2>1 DEF Grows, Same, GrantInv
<1>2. ASSUME NEW s \in Scopes, NEW perms \in GrantSets, NEW by \in Requests \cup {"service"},
             Build(s, perms, by), grant' = [grant EXCEPT ![s] = perms]
      PROVE  \A t \in Scopes : ver'[t] # 0 => built'[t][ver'[t]] = grant'[t]
  <2>1. /\ ver'[s] = last[s] + 1 /\ built'[s][last[s] + 1] = perms
        /\ \A t \in Scopes : t # s => ver'[t] = ver[t]
    BY <1>2, BuildStep
  <2>2. ASSUME NEW t \in Scopes, t # s, ver'[t] # 0 PROVE built'[t][ver'[t]] = grant'[t]
    <3>1. ver'[t] = ver[t] /\ grant'[t] = grant[t]
      BY <1>t, <1>2, <2>1, <2>2
    <3>2. QED
      BY <1>1, <2>2, <3>1
  <2>3. grant'[s] = perms
    BY <1>t, <1>2
  <2>4. QED
    BY <2>1, <2>2, <2>3
<1>3. ASSUME UNCHANGED <<ver, grant>>, cov' \in {NoCoverage, member'} PROVE GrantInv'
  BY <1>1, <1>3 DEF GrantInv
<1>4. ASSUME UNCHANGED <<ver, grant, cov, member>> PROVE GrantInv'
  BY <1>3, <1>4 DEF GrantInv
<1>5. ASSUME NEW r \in Requests, CallBuild(r) PROVE GrantInv'
  <2>1. UNCHANGED <<cov, member, grant>> /\ ScopeOf(r) \in Scopes
    BY <1>5, ScopeIsScope DEF CallBuild, truthVars
  <2>2. CASE Build(ScopeOf(r), grant[ScopeOf(r)], r)
    <3>1. grant' = [grant EXCEPT ![ScopeOf(r)] = grant[ScopeOf(r)]] /\ grant[ScopeOf(r)] \in GrantSets
      BY <1>t, <2>1
    <3>2. QED
      BY <1>2, <2>1, <2>2, <3>1 DEF GrantInv
  <2>3. CASE UNCHANGED ver
    BY <1>4, <2>1, <2>3
  <2>4. QED
    BY <1>5, <2>2, <2>3 DEF CallBuild, buildVars
<1>6. ASSUME NEW r \in Requests, BuildCoverage(r) PROVE GrantInv'
  <2>1. UNCHANGED <<ver, grant, member>> /\ (cov' = member \/ cov' = cov)
    BY <1>6 DEF BuildCoverage, buildVars, truthVars
  <2>2. QED
    BY <1>3, <2>1 DEF GrantInv
<1>7. ASSUME NEW s \in Scopes, NEW perms \in GrantSets, ChangeGrant(s, perms) PROVE GrantInv'
  <2>1. Build(s, perms, "service") /\ grant' = [grant EXCEPT ![s] = perms] /\ UNCHANGED <<member, cov>>
    BY <1>7 DEF ChangeGrant
  <2>2. QED
    BY <1>2, <2>1 DEF GrantInv
<1>8. ASSUME NEW org \in OrgIds, ChangeMember(org) PROVE GrantInv'
  BY <1>3, <1>8 DEF ChangeMember, buildVars
<1>9. CASE Evict
  <2>1. /\ UNCHANGED <<grant, member>> /\ cov' \in {cov, NoCoverage}
        /\ UNCHANGED ver \/ \E s \in Scopes : ver' = [ver EXCEPT ![s] = 0]
    BY <1>9 DEF Evict
  <2>2. \A s \in Scopes : ver'[s] \in {ver[s], 0}
    BY <1>t, <2>1
  <2>3. \A s \in Scopes : ver'[s] # 0 => built'[s][ver'[s]] = grant'[s]
    BY <1>1, <2>1, <2>2
  <2>4. QED
    BY <2>1, <2>3 DEF GrantInv
<1>10. ASSUME NEW r \in Requests, Step(r), ~CallBuild(r), ~BuildCoverage(r) PROVE GrantInv'
  <2>1. UNCHANGED <<ver, grant, cov, member>>
    BY <1>10 DEF Step, Authenticate, ReadVersion, ReadPermissions, AwaitBuild, ReadCoverage,
                 ReadRootVersion, ReadRootPermissions, cacheVars, buildVars, truthVars
  <2>2. QED
    BY <1>4, <2>1
<1>11. ASSUME \/ \E r \in Requests, org \in Headers : Arrive(r, org)
              \/ \E b \in builds : Save(b)
              \/ UNCHANGED vars
       PROVE GrantInv'
  <2>1. UNCHANGED <<ver, grant, cov, member>>
    BY <1>11 DEF Arrive, Save, vars, cacheVars, buildVars, truthVars
  <2>2. QED
    BY <1>4, <2>1
<1>12. QED
  BY <1>5, <1>6, <1>7, <1>8, <1>9, <1>10, <1>11 DEF Next

(* What the others do to a request they do not disturb. *)
LEMMA CalmFrame ==
    ASSUME NEW q \in Requests, CalmOK(q), UNCHANGED <<ver, number, data, builds, grant, member, listed>>,
           pc'[q] = pc[q], header'[q] = header[q], vread'[q] = vread[q], phase'[q] = phase[q],
           calm'[q] => calm[q]
    PROVE  CalmOK(q)'
<1>1. ScopeOf(q)' = ScopeOf(q)
  BY DEF ScopeOf
<1>2. PhaseOK(q)'
  BY DEF CalmOK, PhaseOK
<1>3. ASSUME pc[q] # "idle", calm[q] PROVE Quiet(q)' /\ Sees(q)'
  <2>1. Quiet(q) /\ Sees(q)
    BY <1>3 DEF CalmOK
  <2>2. Quiet(q)'
    BY <2>1 DEF Quiet, Found
  <2>3. Cause(q)' = Cause(q)
    BY <1>1 DEF Cause
  <2>4. QED
    BY <1>1, <2>1, <2>2, <2>3 DEF Sees
<1>4. QED
  BY <1>2, <1>3 DEF CalmOK

(* A request goes on with the permissions granted now. *)
LEMMA CalmWithPermissions ==
    ASSUME SafeInv, NEW r \in Requests, CalmOK(r), NEW perms, NEW b \in Vs, WithPermissions(r, perms, b),
           UNCHANGED <<ver, number, data, builds, grant, member, listed, header>>,
           pc[r] # "idle", calm[r] => builds = {} /\ perms = grant[ScopeOf(r)] /\ ver[ScopeOf(r)] # 0,
           calm'[r] = calm[r]
    PROVE  CalmOK(r)'
<1>1. /\ TypeInv /\ phase[r] \in {"admin", "required"} /\ ScopeOf(r)' = ScopeOf(r)
  BY DEF SafeInv, TypeInv, ScopeOf
<1>2. CASE phase[r] = "admin"
  <2>1. /\ pc'[r] = IF HasAnyPermission(perms, AdminLevel) THEN "ver" ELSE "403"
        /\ phase'[r] = "required"
    BY <1>1, <1>2, WithPermissionsStep
  <2>2. header[r] = NoOrg /\ ScopeOf(r) = Global
    BY <1>2 DEF CalmOK, PhaseOK, ScopeOf, ScopeOfOrg
  <2>3. ASSUME calm[r] PROVE Quiet(r)' /\ Sees(r)'
    <3>1. Quiet(r) /\ builds' = {} /\ perms = grant[Global]
      BY <2>2, <2>3 DEF CalmOK
    <3>2. Quiet(r)'
      BY <3>1 DEF Quiet, Found
    <3>3. pc'[r] = "403" => Cause(r)'
      BY <2>1, <2>2, <3>1, RootIsAdmin DEF Cause
    <3>4. QED
      BY <2>1, <3>2, <3>3 DEF Sees, Passed
  <2>4. QED
    BY <2>1, <2>3 DEF CalmOK, PhaseOK
<1>3. CASE phase[r] = "required"
  <2>1. /\ pc'[r] = IF HasAnyPermission(perms, Required) THEN "coverage" ELSE "403"
        /\ phase'[r] = "required"
    BY <1>1, <1>3, WithPermissionsStep
  <2>2. ASSUME calm[r] PROVE Quiet(r)' /\ Sees(r)'
    <3>1. Quiet(r) /\ builds' = {} /\ perms = grant[ScopeOf(r)]
      BY <2>2 DEF CalmOK
    <3>2. Quiet(r)'
      BY <3>1 DEF Quiet, Found
    <3>3. pc'[r] = "403" => Cause(r)'
      BY <1>1, <2>1, <3>1 DEF Cause
    <3>4. QED
      BY <1>1, <2>1, <2>2, <3>2, <3>3 DEF Sees
  <2>3. QED
    BY <2>1, <2>2 DEF CalmOK, PhaseOK
<1>4. QED
  BY <1>1, <1>2, <1>3

(* A request goes on with the membership now. *)
LEMMA CalmWithCoverage ==
    ASSUME SafeInv, NEW r \in Requests, CalmOK(r), WithCoverage(r, member), pc[r] \in Passed,
           UNCHANGED <<ver, number, data, builds, grant, member, listed, header, phase>>, calm'[r] = calm[r]
    PROVE  CalmOK(r)'
<1>1. TypeInv /\ ScopeOf(r)' = ScopeOf(r) /\ member \in SUBSET OrgIds
  BY DEF SafeInv, TypeInv, TypeOK, ScopeOf
<1>2. /\ pc'[r] \in {"rootVer", "403", "500", "served"}
      /\ pc'[r] \in {"403", "500"} =>
            header[r] # NoOrg /\ (header[r] \notin member \/ OrgData[header[r]] \notin listed)
  BY <1>1, WithCoverageStep
<1>3. ASSUME calm[r] PROVE Quiet(r)' /\ Sees(r)'
  <2>1. Quiet(r) /\ Sees(r) /\ pc[r] # "await" /\ pc[r] # "idle"
    BY <1>3 DEF CalmOK, Passed
  <2>2. Quiet(r)'
    BY <2>1 DEF Quiet, Found
  <2>3. pc'[r] \in {"403", "500"} => Cause(r)'
    BY <1>2 DEF Cause
  <2>4. QED
    BY <1>1, <1>2, <2>1, <2>2, <2>3 DEF Sees
<1>4. PhaseOK(r)'
  BY <1>2 DEF CalmOK, PhaseOK, Passed
<1>5. QED
  BY <1>3, <1>4 DEF CalmOK

(* A request that is refused after a failure claims nothing. *)
LEMMA CalmFailed ==
    ASSUME NEW r \in Requests, CalmOK(r), ~calm'[r], pc[r] # "idle", pc'[r] # "idle", header'[r] = header[r],
           phase'[r] \in {phase[r], "required"}
    PROVE  CalmOK(r)'
BY DEF CalmOK, PhaseOK

(* A request that stays calm goes on seeing the permissions granted now. *)
LEMMA NextCalm == SafeInv /\ TypeInv' /\ GrantInv /\ CalmInv /\ [Next]_vars => CalmInv'
<1> SUFFICES ASSUME SafeInv, TypeInv', GrantInv, CalmInv, [Next]_vars PROVE CalmInv'
  OBVIOUS
<1>t. TypeInv /\ TypeOK /\ VersionInv
  BY DEF SafeInv, TypeInv
<1>v. /\ pc \in [Requests -> Steps] /\ vread \in [Requests -> Vs] /\ calm \in [Requests -> BOOLEAN]
      /\ phase \in [Requests -> {"admin", "required"}] /\ header \in [Requests -> Headers \cup {NoOrg}]
  BY <1>t DEF TypeInv, TypeOK, Vs
<1>c. \A q \in Requests : CalmOK(q) /\ ReadOK(q)
  BY DEF CalmInv, SafeInv, RequestInv
<1>o. ASSUME NEW r \in Requests, CalmOK(r)', UNCHANGED <<ver, number, data, builds, grant, member, listed>>,
             \A q \in Requests : q # r =>
                 /\ pc'[q] = pc[q] /\ header'[q] = header[q] /\ vread'[q] = vread[q]
                 /\ phase'[q] = phase[q] /\ (calm'[q] => calm[q])
      PROVE CalmInv'
  <2>1. ASSUME NEW q \in Requests, q # r PROVE CalmOK(q)'
    BY <1>c, <1>o, <2>1, CalmFrame
  <2>2. QED
    BY <1>o, <2>1 DEF CalmInv
<1>1. ASSUME UNCHANGED <<ver, number, data, builds, grant, member, listed, pc, header, vread, phase, calm>> PROVE CalmInv'
  <2>1. ASSUME NEW q \in Requests PROVE CalmOK(q)'
    BY <1>c, <1>1, CalmFrame
  <2>2. QED
    BY <2>1 DEF CalmInv
<1>2. ASSUME UNCHANGED <<pc, header, phase>>, \A q \in Requests : ~calm'[q] PROVE CalmInv'
  BY <1>c, <1>2 DEF CalmInv, CalmOK, PhaseOK
<1>f. ASSUME NEW r \in Requests, UNCHANGED <<header, ver, number, data, builds, grant, member, listed>>,
             pc[r] # "idle", PermissionsFailed(r)
      PROVE  CalmInv'
  <2>1. /\ ~calm'[r] /\ pc'[r] = "403" /\ phase'[r] = "required"
        /\ \A q \in Requests : q # r => /\ pc'[q] = pc[q] /\ phase'[q] = phase[q]
                                        /\ vread'[q] = vread[q] /\ calm'[q] = calm[q]
    BY <1>t, <1>f, PermissionsFailedStep
  <2>2. CalmOK(r)'
    BY <1>c, <1>f, <2>1, CalmFailed
  <2>3. QED
    BY <1>o, <1>f, <2>1, <2>2
<1>3. ASSUME NEW r \in Requests, NEW org \in Headers, Arrive(r, org) PROVE CalmInv'
  <2>1. /\ pc[r] = "idle" /\ pc' = [pc EXCEPT ![r] = "auth"] /\ header' = [header EXCEPT ![r] = org]
        /\ calm' = [calm EXCEPT ![r] = builds = {} /\ \A s \in Scopes : ver[s] # 0 => Found(s, ver[s]) = ver[s]]
        /\ UNCHANGED <<vread, phase, ver, number, data, builds, grant, member, listed>>
    BY <1>3 DEF Arrive, Goto, cacheVars, buildVars, truthVars
  <2>2. pc'[r] = "auth"
    BY <1>v, <2>1
  <2>3. calm'[r] => builds = {} /\ \A s \in Scopes : ver[s] # 0 => Found(s, ver[s]) = ver[s]
    BY <1>v, <2>1
  <2>4. PhaseOK(r)'
    BY <1>c, <2>1 DEF CalmOK, PhaseOK
  <2>5. calm'[r] => Quiet(r)' /\ Sees(r)'
    BY <2>1, <2>2, <2>3 DEF Quiet, Sees, Passed, Found
  <2>6. CalmOK(r)'
    BY <2>4, <2>5 DEF CalmOK
  <2>7. \A q \in Requests : q # r => pc'[q] = pc[q] /\ header'[q] = header[q] /\ calm'[q] = calm[q]
    BY <2>1
  <2>8. QED
    BY <1>o, <2>1, <2>6, <2>7
<1>4. ASSUME NEW r \in Requests, Authenticate(r) PROVE CalmInv'
  <2>1. /\ pc[r] = "auth" /\ UNCHANGED <<header, vread, calm, ver, number, data, builds, grant, member, listed>>
        /\ \/ /\ pc' = [pc EXCEPT ![r] = "ver"]
              /\ phase' = [phase EXCEPT ![r] = IF header[r] = NoOrg THEN "admin" ELSE "required"]
           \/ pc' = [pc EXCEPT ![r] = "401"] /\ phase' = phase
    BY <1>4 DEF Authenticate, Goto, cacheVars, buildVars, truthVars
  <2>2. pc'[r] \in {"ver", "401"} /\ (phase'[r] = "admin" => header[r] = NoOrg)
    BY <1>c, <1>v, <2>1 DEF CalmOK, PhaseOK
  <2>3. PhaseOK(r)'
    BY <2>1, <2>2 DEF PhaseOK
  <2>4. calm'[r] => Quiet(r)' /\ Sees(r)'
    BY <1>c, <2>1, <2>2 DEF CalmOK, Quiet, Sees, Passed, Found
  <2>5. CalmOK(r)'
    BY <2>3, <2>4 DEF CalmOK
  <2>6. \A q \in Requests : q # r => pc'[q] = pc[q] /\ phase'[q] = phase[q]
    BY <1>v, <2>1
  <2>7. QED
    BY <1>o, <2>1, <2>5, <2>6
<1>5. ASSUME NEW r \in Requests, ReadVersion(r) PROVE CalmInv'
  <2>1. pc[r] = "ver" /\ UNCHANGED <<header, ver, number, data, builds, grant, member, listed>> /\ ScopeOf(r)' = ScopeOf(r)
    BY <1>5 DEF ReadVersion, cacheVars, buildVars, truthVars, ScopeOf
  <2>2. CASE /\ vread' = [vread EXCEPT ![r] = ver[ScopeOf(r)]]
             /\ Goto(r, "data") /\ UNCHANGED <<phase, calm>>
    <3>1. pc' = [pc EXCEPT ![r] = "data"] /\ pc'[r] = "data" /\ vread'[r] = ver[ScopeOf(r)]
      BY <1>v, <2>2 DEF Goto
    <3>2. PhaseOK(r)'
      BY <1>c, <2>1, <2>2, <3>1 DEF CalmOK, PhaseOK
    <3>3. calm'[r] => Quiet(r)' /\ Sees(r)'
      BY <1>c, <2>1, <2>2, <3>1 DEF CalmOK, Quiet, Sees, Passed, Found
    <3>4. CalmOK(r)'
      BY <3>2, <3>3 DEF CalmOK
    <3>5. QED
      BY <1>o, <2>1, <2>2, <3>1, <3>4
  <2>3. CASE Goto(r, "build") /\ UNCHANGED <<vread, phase, calm>>
    <3>1. pc' = [pc EXCEPT ![r] = "build"] /\ pc'[r] = "build"
      BY <1>v, <2>3 DEF Goto
    <3>2. CalmOK(r)'
      BY <1>c, <2>1, <2>3, <3>1 DEF CalmOK, PhaseOK, Found, Quiet, Sees, Passed
    <3>3. QED
      BY <1>o, <2>1, <2>3, <3>1, <3>2
  <2>4. CASE PermissionsFailed(r)
    BY <1>f, <2>1, <2>4
  <2>5. QED
    BY <1>5, <2>2, <2>3, <2>4 DEF ReadVersion
<1>6. ASSUME NEW r \in Requests, pc[r] \in {"data", "rootData"}
      PROVE  /\ Found(ScopeOf(r), vread[r]) \in Vs
             /\ calm[r] => /\ builds = {} /\ ver[ScopeOf(r)] # 0 /\ vread[r] = ver[ScopeOf(r)]
                           /\ Found(ScopeOf(r), vread[r]) = ver[ScopeOf(r)]
                           /\ built[ScopeOf(r)][ver[ScopeOf(r)]] = grant[ScopeOf(r)]
  <2> DEFINE s == ScopeOf(r)
  <2>1. /\ Recent(r, vread[r]) /\ Found(s, vread[r]) \in Vs
        /\ pc[r] = "rootData" => s = Global
    BY <1>6, FoundType
  <2>2. s \in Scopes
    BY <1>t, ScopeIsScope
  <2>3. vread[r] # 0
    BY <2>1 DEF Recent
  <2> HIDE DEF s
  <2>4. ASSUME calm[r]
        PROVE  /\ builds = {} /\ ver[s] # 0 /\ vread[r] = ver[s]
               /\ Found(s, vread[r]) = ver[s] /\ built[s][ver[s]] = grant[s]
    <3>1. Quiet(r) /\ Sees(r) /\ pc[r] # "await"
      BY <1>c, <1>6, <2>4 DEF CalmOK
    <3>2. vread[r] = ver[s]
      BY <1>6, <2>1, <3>1 DEF Sees, s
    <3>3. builds = {}
      BY <3>1 DEF Quiet
    <3>4. Found(s, ver[s]) = ver[s]
      BY <2>2, <2>3, <3>1, <3>2, <3>3 DEF Quiet
    <3>5. QED
      BY <2>2, <2>3, <3>2, <3>3, <3>4 DEF GrantInv
  <2>5. QED
    BY <2>1, <2>4 DEF s
<1>7. ASSUME NEW r \in Requests, ReadPermissions(r) PROVE CalmInv'
  <2> DEFINE s == ScopeOf(r)
             found == Found(s, vread[r])
  <2>1. /\ pc[r] = "data"
        /\ UNCHANGED <<header, ver, number, data, builds, grant, member, listed>>
    BY <1>7 DEF ReadPermissions, cacheVars, buildVars, truthVars
  <2>2. /\ found \in Vs
        /\ calm[r] => /\ builds = {} /\ ver[s] # 0 /\ found = ver[s] /\ built[s][ver[s]] = grant[s]
    BY <1>6, <2>1
  <2>3. calm[r] => found # NotFound /\ built[s][found] = grant[s]
    BY <2>2 DEF NotFound
  <2>4. CASE WithPermissions(r, built[s][found], found) /\ UNCHANGED calm
    <3> HIDE DEF s, found
    <3>1. calm[r] => builds = {} /\ built[s][found] = grant[ScopeOf(r)] /\ ver[ScopeOf(r)] # 0
      BY <2>2, <2>3 DEF s
    <3>2. CalmOK(r)'
      BY <1>c, <2>1, <2>2, <2>4, <3>1, CalmWithPermissions
    <3>3. \A q \in Requests : q # r => pc'[q] = pc[q] /\ phase'[q] = phase[q] /\ vread'[q] = vread[q]
      BY <1>t, <2>2, <2>4, WithPermissionsStep
    <3>4. QED
      BY <1>o, <2>1, <2>4, <3>2, <3>3
  <2>5. CASE UNCHANGED <<pc, vread, phase, calm>>
    BY <1>1, <2>1, <2>5
  <2>6. CASE found = NotFound /\ Forget(r) /\ Goto(r, "build") /\ UNCHANGED <<phase, calm>>
    <3> HIDE DEF s, found
    <3>1. pc' = [pc EXCEPT ![r] = "build"] /\ pc'[r] = "build" /\ ~calm'[r]
      BY <1>v, <2>3, <2>6 DEF Goto
    <3>2. CalmOK(r)'
      BY <1>c, <2>1, <2>6, <3>1, CalmFailed
    <3>3. \A q \in Requests : q # r => vread'[q] = vread[q]
      BY <1>t, <2>6, ForgetStep
    <3>4. QED
      BY <1>o, <2>1, <2>6, <3>1, <3>2, <3>3
  <2>7. CASE PermissionsFailed(r)
    BY <1>f, <2>1, <2>7
  <2> HIDE DEF found
  <2>8. QED
    BY <1>7, <2>4, <2>5, <2>6, <2>7 DEF ReadPermissions, found
<1>8. ASSUME NEW r \in Requests, CallBuild(r) PROVE CalmInv'
  <2>1. /\ pc[r] = "build" /\ UNCHANGED <<header, data, grant, member, listed>>
        /\ ScopeOf(r) \in Scopes /\ ScopeOf(r)' = ScopeOf(r)
    BY <1>8, <1>t, ScopeIsScope DEF CallBuild, truthVars, ScopeOf
  <2>2. CASE /\ Build(ScopeOf(r), grant[ScopeOf(r)], r)
             /\ vread' = [vread EXCEPT ![r] = last[ScopeOf(r)] + 1]
             /\ Goto(r, "await") /\ calm' = [q \in Requests |-> calm[q] /\ q = r]
             /\ UNCHANGED phase
    <3> DEFINE s == ScopeOf(r)
    <3>1. pc' = [pc EXCEPT ![r] = "await"] /\ pc'[r] = "await" /\ vread'[r] = last[s] + 1
      BY <1>v, <2>2 DEF Goto
    <3>2. /\ ver'[s] = last[s] + 1
          /\ \A t \in Scopes : t # s => ver'[t] = ver[t] /\ number'[t] = number[t]
          /\ builds' = builds \cup {[scope |-> s, version |-> last[s] + 1, by |-> r]}
      <4>1. grant[s] \in GrantSets
        BY <1>t, <2>1 DEF TypeOK
      <4>2. ver'[s] = last[s] + 1 /\ \A t \in Scopes : t # s => ver'[t] = ver[t]
        BY <1>t, <2>1, <2>2, <4>1, BuildStep
      <4>n. \A t \in Scopes : t # s => number'[t] = number[t]
        BY <1>t, <2>1, <2>2, <4>1, BuildNumber
      <4>3. builds' = builds \cup {[scope |-> s, version |-> last[s] + 1, by |-> r]}
        BY <2>2 DEF Build
      <4>4. QED
        BY <4>2, <4>n, <4>3
    <3>3. ASSUME NEW q \in Requests, q # r PROVE CalmOK(q)'
      <4>1. ~calm'[q] /\ pc'[q] = pc[q] /\ header'[q] = header[q] /\ phase'[q] = phase[q]
        BY <1>v, <2>1, <2>2, <3>1, <3>3
      <4>2. QED
        BY <1>c, <4>1 DEF CalmOK, PhaseOK
    <3>4. PhaseOK(r)'
      BY <1>c, <2>1, <2>2, <3>1 DEF CalmOK, PhaseOK
    <3>5. ASSUME calm[r] PROVE Quiet(r)' /\ Sees(r)'
      <4>1. Quiet(r) /\ builds = {}
        BY <1>c, <2>1, <3>5 DEF CalmOK, Quiet
      <4>2. \A b \in builds' : b.scope = s /\ b.version = ver'[s] /\ b.by = r
        BY <3>2, <4>1
      <4>3. \E b \in builds' : b.scope = s /\ b.version = ver'[s]
        <5> DEFINE new == [scope |-> s, version |-> last[s] + 1, by |-> r]
        <5>1. new \in builds' /\ new.scope = s /\ new.version = ver'[s]
          BY <3>2
        <5>2. QED
          BY <5>1
      <4> HIDE DEF s
      <4>4. \A t \in Scopes : ver'[t] # 0 /\ data'[t][number'[t][ver'[t]]] # ver'[t] =>
                \E b \in builds' : b.scope = t /\ b.version = ver'[t]
        <5>1. ASSUME NEW t \in Scopes, ver'[t] # 0, data'[t][number'[t][ver'[t]]] # ver'[t] PROVE t = s
          BY <2>1, <3>2, <4>1, <5>1 DEF Quiet, Found
        <5>2. QED
          BY <4>3, <5>1
      <4>5. Quiet(r)'
        BY <3>1, <4>2, <4>4 DEF Quiet, Found
      <4>6. Sees(r)'
        BY <2>1, <3>1, <3>2 DEF Sees, Passed, s
      <4>7. QED
        BY <4>5, <4>6
    <3>6. calm'[r] => calm[r]
      BY <2>2
    <3>7. QED
      BY <3>3, <3>4, <3>5, <3>6 DEF CalmInv, CalmOK
  <2>3. CASE PermissionsFailed(r) /\ UNCHANGED buildVars
    BY <1>f, <2>1, <2>3 DEF buildVars
  <2>4. QED
    BY <1>8, <2>2, <2>3 DEF CallBuild
<1>9. ASSUME NEW r \in Requests, AwaitBuild(r) PROVE CalmInv'
  <2> DEFINE s == ScopeOf(r)
  <2>1. /\ pc[r] = "await" /\ UNCHANGED <<header, ver, number, data, builds, grant, member, listed>>
        /\ s \in Scopes /\ vread[r] \in Vs
    BY <1>9, <1>t, <1>v, ScopeIsScope DEF AwaitBuild, cacheVars, buildVars, truthVars
  <2>2. CASE /\ ~ \E b \in builds : b.by = r
             /\ WithPermissions(r, built[s][vread[r]], vread[r]) /\ UNCHANGED calm
    <3>1. vread[r] # 0
      BY <1>c, <2>1 DEF ReadOK, Recent
    <3>2. calm[r] => builds = {} /\ vread[r] = ver[s]
      BY <1>c, <2>1, <2>2 DEF CalmOK, Quiet, Sees
    <3>3. calm[r] => built[s][vread[r]] = grant[s] /\ ver[s] # 0
      <4> HIDE DEF s
      <4>1. QED
        BY <2>1, <3>1, <3>2 DEF GrantInv
    <3>4. CalmOK(r)'
      BY <1>c, <2>1, <2>2, <3>2, <3>3, CalmWithPermissions
    <3>5. \A q \in Requests : q # r => pc'[q] = pc[q] /\ phase'[q] = phase[q] /\ vread'[q] = vread[q]
      BY <1>t, <2>1, <2>2, WithPermissionsStep
    <3>6. QED
      BY <1>o, <2>1, <2>2, <3>4, <3>5
  <2>3. CASE PermissionsFailed(r)
    BY <1>f, <2>1, <2>3
  <2>4. QED
    BY <1>9, <2>2, <2>3 DEF AwaitBuild
<1>10. ASSUME NEW r \in Requests, pc[r] # "idle", UNCHANGED <<header, phase, ver, number, data, builds, grant, member, listed>>,
              \A q \in Requests : q # r => vread'[q] = vread[q],
              NEW step \in {"403", "500"}, Goto(r, step), Disturbed(r)
       PROVE  CalmInv'
  <2>1. pc' = [pc EXCEPT ![r] = step] /\ pc'[r] = step /\ ~calm'[r] /\ calm' = [calm EXCEPT ![r] = FALSE]
    BY <1>v, <1>10 DEF Goto, Disturbed
  <2>2. CalmOK(r)'
    BY <1>c, <1>10, <2>1, CalmFailed
  <2>3. QED
    BY <1>o, <1>10, <2>1, <2>2
<1>11. ASSUME NEW r \in Requests, ReadCoverage(r) PROVE CalmInv'
  <2>1. /\ pc[r] = "coverage" /\ UNCHANGED <<header, vread, phase, ver, number, data, builds, grant, member, listed>>
        /\ ScopeOf(r)' = ScopeOf(r)
    BY <1>11 DEF ReadCoverage, cacheVars, buildVars, truthVars, ScopeOf
  <2>2. CASE cov # NoCoverage /\ WithCoverage(r, cov) /\ UNCHANGED calm
    <3>1. cov = member /\ member \in SUBSET OrgIds
      BY <1>t, <2>2 DEF GrantInv, TypeOK
    <3>2. CalmOK(r)'
      BY <1>c, <2>1, <2>2, <3>1, CalmWithCoverage DEF Passed
    <3>3. QED
      BY <1>o, <1>t, <2>1, <2>2, <3>1, <3>2, WithCoverageStep
  <2>3. CASE Goto(r, "covBuild") /\ UNCHANGED calm
    <3>1. pc' = [pc EXCEPT ![r] = "covBuild"] /\ pc'[r] = "covBuild"
      BY <1>v, <2>3 DEF Goto
    <3>2. CalmOK(r)'
      BY <1>c, <2>1, <2>3, <3>1 DEF CalmOK, PhaseOK, Found, Quiet, Sees, Passed
    <3>3. QED
      BY <1>o, <2>1, <2>3, <3>1, <3>2
  <2>4. CASE Goto(r, "500") /\ Disturbed(r)
    BY <1>10, <2>1, <2>4
  <2>5. QED
    BY <1>11, <2>2, <2>3, <2>4 DEF ReadCoverage
<1>12. ASSUME NEW r \in Requests, BuildCoverage(r) PROVE CalmInv'
  <2>1. pc[r] = "covBuild" /\ UNCHANGED <<header, vread, phase, ver, number, data, builds, grant, member, listed>>
    BY <1>12 DEF BuildCoverage, buildVars, truthVars
  <2>2. CASE WithCoverage(r, member) /\ UNCHANGED calm
    <3>1. member \in SUBSET OrgIds
      BY <1>t DEF TypeOK
    <3>2. CalmOK(r)'
      BY <1>c, <2>1, <2>2, CalmWithCoverage DEF Passed
    <3>3. QED
      BY <1>o, <1>t, <2>1, <2>2, <3>1, <3>2, WithCoverageStep
  <2>3. CASE Goto(r, "500") /\ Disturbed(r)
    BY <1>10, <2>1, <2>3
  <2>4. QED
    BY <1>12, <2>2, <2>3 DEF BuildCoverage
<1>13. ASSUME NEW r \in Requests, ReadRootVersion(r) PROVE CalmInv'
  <2>1. /\ pc[r] = "rootVer" /\ UNCHANGED <<header, phase, ver, number, data, builds, grant, member, listed>>
        /\ header[r] = NoOrg /\ ScopeOf(r) = Global /\ ScopeOf(r)' = Global
    BY <1>c, <1>13 DEF ReadRootVersion, ReadOK, cacheVars, buildVars, truthVars, ScopeOf, ScopeOfOrg
  <2>2. calm[r] => Quiet(r) /\ ver[Global] # 0
    BY <1>c, <2>1 DEF CalmOK, Sees, Passed
  <2>3. CASE ver[Global] # 0 /\ vread' = [vread EXCEPT ![r] = ver[Global]] /\ Goto(r, "rootData") /\ UNCHANGED calm
    <3>1. pc' = [pc EXCEPT ![r] = "rootData"] /\ pc'[r] = "rootData" /\ vread'[r] = ver[Global]
      BY <1>v, <2>3 DEF Goto
    <3>2. CalmOK(r)'
      BY <1>c, <2>1, <2>2, <2>3, <3>1 DEF CalmOK, PhaseOK, Found, Quiet, Sees
    <3>3. QED
      BY <1>o, <2>1, <2>3, <3>1, <3>2
  <2>4. CASE ver[Global] = 0 /\ Goto(r, "403") /\ UNCHANGED <<vread, calm>>
    <3>1. pc' = [pc EXCEPT ![r] = "403"] /\ pc'[r] = "403" /\ ~calm'[r]
      BY <1>v, <2>2, <2>4 DEF Goto
    <3>2. CalmOK(r)'
      BY <1>c, <2>1, <3>1, CalmFailed
    <3>3. QED
      BY <1>o, <2>1, <2>4, <3>1, <3>2
  <2>5. CASE Goto(r, "403") /\ Disturbed(r) /\ UNCHANGED vread
    BY <1>10, <2>1, <2>5
  <2>6. QED
    BY <1>13, <2>3, <2>4, <2>5 DEF ReadRootVersion
<1>14. ASSUME NEW r \in Requests, ReadRootPermissions(r) PROVE CalmInv'
  <2> DEFINE found == Found(Global, vread[r])
             query(include) == BuildOrgFilter(RequestContext(NoOrg, NoOrgData, {}, {}), include)
  <2>1. /\ pc[r] = "rootData" /\ header[r] = NoOrg
        /\ UNCHANGED <<header, phase, ver, number, data, builds, grant, member, listed>>
    BY <1>c, <1>14 DEF ReadRootPermissions, ReadOK, cacheVars, buildVars, truthVars
  <2>2. ScopeOf(r) = Global /\ ScopeOf(r)' = Global
    BY <2>1, FoundType DEF ScopeOf
  <2>3. calm[r] => /\ builds = {} /\ Quiet(r) /\ ver[Global] # 0
                   /\ found = ver[Global] /\ built[Global][ver[Global]] = grant[Global]
    BY <1>c, <1>6, <2>1, <2>2 DEF CalmOK
  <2>f. Forget(r) => \A q \in Requests : q # r => vread'[q] = vread[q]
    BY <1>t, ForgetStep
  <2>4. CASE Forget(r) /\ Serve(r, RequestContext(NoOrg, NoOrgData, {}, {})) /\ UNCHANGED calm
    <3>1. \A include \in BOOLEAN : query(include).kind = "all"
      BY DEF BuildOrgFilter, RequestContext, NoFilter, Filter
    <3>2. PICK include \in BOOLEAN :
              pc' = [pc EXCEPT ![r] = IF query(include).kind = "error" THEN "500" ELSE "served"]
      BY <2>4 DEF Serve, Goto
    <3> HIDE DEF query
    <3>3. pc' = [pc EXCEPT ![r] = "served"] /\ pc'[r] = "served"
      BY <1>v, <3>1, <3>2
    <3>4. CalmOK(r)'
      BY <1>c, <2>1, <2>2, <2>3, <2>4, <3>3 DEF CalmOK, PhaseOK, Found, Quiet, Sees
    <3>5. QED
      BY <1>o, <2>1, <2>4, <2>f, <3>3, <3>4
  <2>5. CASE /\ found # NotFound /\ ~IsRoot(built[Global][found])
             /\ Forget(r) /\ Goto(r, "403") /\ UNCHANGED calm
    <3>1. pc' = [pc EXCEPT ![r] = "403"] /\ pc'[r] = "403"
      BY <1>v, <2>5 DEF Goto
    <3>2. calm[r] => RootPermission \notin grant[Global]
      BY <2>3, <2>5 DEF IsRoot
    <3> HIDE DEF found
    <3>3. calm'[r] => Quiet(r)' /\ Sees(r)'
      BY <2>1, <2>3, <2>5, <3>1, <3>2 DEF Found, Quiet, Sees, Cause, Passed
    <3>4. CalmOK(r)'
      BY <1>c, <2>1, <3>1, <3>3 DEF CalmOK, PhaseOK
    <3>5. QED
      BY <1>o, <2>1, <2>5, <2>f, <3>1, <3>4
  <2>6. CASE Disturbed(r) /\ UNCHANGED <<pc, vread>>
    <3>1. ~calm'[r] /\ calm' = [calm EXCEPT ![r] = FALSE]
      BY <1>v, <2>6 DEF Disturbed
    <3>2. CalmOK(r)'
      BY <1>c, <2>1, <2>6, <3>1, CalmFailed
    <3>3. QED
      BY <1>o, <2>1, <2>6, <3>1, <3>2
  <2>7. CASE Forget(r) /\ Goto(r, "403") /\ Disturbed(r)
    BY <1>10, <2>1, <2>7, <2>f
  <2> HIDE DEF found
  <2>8. QED
    BY <1>14, <2>4, <2>5, <2>6, <2>7 DEF ReadRootPermissions, found
<1>15. ASSUME NEW b \in builds, Save(b) PROVE CalmInv'
  <2>1. UNCHANGED <<ver, number, grant, member, listed, pc, header, vread, phase, calm>>
    BY <1>15 DEF Save, truthVars, reqVars
  <2>2. /\ b.scope \in Scopes /\ number[b.scope][b.version] \in 1 .. Versions /\ builds' = builds \ {b}
        /\ \A s \in Scopes, n \in 1 .. Versions :
              data'[s][n] = IF s = b.scope /\ n = number[s][b.version] THEN b.version ELSE data[s][n]
    BY <1>15, SaveStep
  <2>3. ASSUME NEW s \in Scopes, s # b.scope, ver[s] # 0
        PROVE  data'[s][number[s][ver[s]]] = data[s][number[s][ver[s]]]
    <3>1. /\ ver[s] \in 1 .. MaxVersion /\ ver[s] <= last[s]
      <4>1. ver[s] \in Vs /\ last[s] \in Vs /\ ver[s] \in {0, last[s]}
        BY <1>t DEF TypeInv, TypeOK, Vs
      <4>2. QED
        BY <2>3, <4>1, LimitsAssumption DEF Vs
    <3>2. number[s][ver[s]] \in 1 .. Versions
      BY <1>t, <3>1 DEF VersionInv
    <3>3. QED
      BY <2>2, <2>3, <3>2
  <2>4. ASSUME NEW q \in Requests PROVE CalmOK(q)'
    <3>1. ScopeOf(q)' = ScopeOf(q) /\ Cause(q)' = Cause(q)
      BY <2>1 DEF ScopeOf, Cause
    <3>2. PhaseOK(q)' /\ (Sees(q) => Sees(q)')
      BY <1>c, <2>1, <3>1 DEF CalmOK, PhaseOK, Sees
    <3>3. ASSUME Quiet(q) PROVE Quiet(q)'
      <4>1. b.version = ver[b.scope]
        BY <3>3 DEF Quiet
      <4>2. data'[b.scope][number[b.scope][ver[b.scope]]] = ver[b.scope]
        BY <2>2, <4>1
      <4>3. ASSUME NEW s \in Scopes, ver[s] # 0, data'[s][number[s][ver[s]]] # ver[s]
            PROVE  \E c \in builds' : c.scope = s /\ c.version = ver[s]
        <5>1. s # b.scope
          BY <4>2, <4>3
        <5>2. data[s][number[s][ver[s]]] # ver[s]
          BY <2>3, <4>3, <5>1
        <5>3. PICK c \in builds : c.scope = s /\ c.version = ver[s]
          BY <3>3, <4>3, <5>2 DEF Quiet, Found
        <5>4. QED
          BY <2>2, <5>1, <5>3
      <4>4. QED
        BY <2>1, <2>2, <3>3, <4>3 DEF Quiet, Found
    <3>4. QED
      BY <1>c, <2>1, <3>2, <3>3 DEF CalmOK
  <2>5. QED
    BY <2>4 DEF CalmInv
<1>16. ASSUME \/ \E s \in Scopes, perms \in GrantSets : ChangeGrant(s, perms)
              \/ \E org \in OrgIds : ChangeMember(org)
              \/ Evict
       PROVE CalmInv'
  <2>1. UNCHANGED <<pc, header, phase>> /\ calm' = [r \in Requests |-> FALSE]
    BY <1>16 DEF ChangeGrant, ChangeMember, Evict, AllDisturbed
  <2>2. QED
    BY <1>2, <2>1
<1>17. CASE UNCHANGED vars
  BY <1>1, <1>17 DEF vars, cacheVars, buildVars, truthVars, reqVars
<1>18. QED
  BY <1>3, <1>4, <1>5, <1>7, <1>8, <1>9, <1>11, <1>12, <1>13, <1>14, <1>15, <1>16, <1>17 DEF Next, Step

(* With nothing failing and nothing changing meanwhile, only a request the  *)
(* identity service would refuse, or for an organization it does not list   *)
(* with its path key, is refused, though the cache was cold.                *)
THEOREM RefusalHasCause == Spec => []RefusedForCause
<1>1. Init => GrantInv /\ CalmInv
  <2> SUFFICES ASSUME Init PROVE GrantInv /\ CalmInv
    OBVIOUS
  <2>1. GrantInv
    BY DEF Init, GrantInv
  <2>2. \A r \in Requests : pc[r] = "idle" /\ phase[r] = "required"
    BY DEF Init
  <2>3. CalmInv
    BY <2>2 DEF CalmInv, CalmOK, PhaseOK
  <2>4. QED
    BY <2>1, <2>3
<1>2. SafeInv /\ SafeInv' /\ GrantInv /\ CalmInv /\ [Next]_vars => GrantInv' /\ CalmInv'
  BY NextGrant, NextCalm DEF SafeInv
<1>3. CalmInv => RefusedForCause
  BY DEF CalmInv, CalmOK, Sees, Cause, RefusedForCause
<1>4. QED
  BY <1>1, <1>2, <1>3, SafeInductive, PTL DEF Spec
=============================================================================
