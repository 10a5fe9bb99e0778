------------------------------ MODULE OrgFilter ------------------------------
(***************************************************************************)
(* Path keys and organization filters: utils/pathkey and utils/orgfilter.  *)
(*                                                                         *)
(* A path key is the sequence of its segments, a segment the sequence of   *)
(* its digits, a digit a number below Radix (36 in the code).  The "/"     *)
(* between segments sorts before every digit, so that the order MongoDB    *)
(* and ClickHouse give path keys as strings is the lexicographic order of  *)
(* the segments, a segment compared as a string of digits.                 *)
(***************************************************************************)
EXTENDS Integers, Sequences, SequencesExt

CONSTANTS
    Radix,     \* strconv base of a segment
    OrgIds,    \* the organizations' ids, ObjectIDs as hex strings
    BadIds     \* ids in a coverage that are not valid ObjectIDs

ASSUME RadixAssumption == Radix \in Nat \ {0, 1}

NoOrg == "no org"

-----------------------------------------------------------------------------
(* strconv.ParseInt of a segment: the value of its first digits, one more   *)
(* at a time.  Twelve digits of base 36 fit 64 bits; a longer segment could *)
(* be out of their range, an error that is not modelled.                    *)
ParseInt(seg) ==
    LET value[i \in 0 .. Len(seg)] == IF i = 0 THEN 0 ELSE value[i - 1] * Radix + seg[i]
    IN  value[Len(seg)]

(* strconv.FormatInt: the remainders of the quotients by the base, until a  *)
(* quotient is 0.                                                           *)
FormatInt(n) ==
    LET quotient[k \in 0 .. n + 1] == IF k = 0 THEN n ELSE quotient[k - 1] \div Radix
        w == CHOOSE k \in 1 .. n + 1 : quotient[k] = 0 /\ \A j \in 1 .. k - 1 : quotient[j] # 0
    IN  [i \in 1 .. w |-> quotient[w - i] % Radix]

PadTo(seg, width) == [i \in 1 .. width - Len(seg) |-> 0] \o seg

(* The segment one above, not padded. *)
NextSegment_NoPad(seg) == FormatInt(ParseInt(seg) + 1)

(* The segment one above, zero-padded to the width it had; past the highest *)
(* value of its width the segment grows by a digit.                         *)
NextSegment(seg) == PadTo(FormatInt(ParseInt(seg) + 1), Len(seg))

CalculateNextSiblingPathKey(pk) ==
    IF pk = <<>> THEN pk
    ELSE IF \E i \in DOMAIN Last(pk) : Last(pk)[i] \notin 0 .. Radix - 1 THEN pk
    ELSE Append(Front(pk), NextSegment(Last(pk)))

(* strings.HasPrefix of two path keys: the prefix may end inside a segment. *)
HasPrefix(pk, prefix) ==
    LET n == Len(prefix)
    IN  /\ n <= Len(pk)
        /\ SubSeq(pk, 1, n - 1) = SubSeq(prefix, 1, n - 1)
        /\ IsPrefix(prefix[n], pk[n])

IsDescendant(child, parent) ==
    \/ parent = <<>>
    \/ HasPrefix(child, parent) /\ child # parent

IsDescendantOrSelf(child, parent) == child = parent \/ IsDescendant(child, parent)

GetAncestorPaths(pk) == [i \in 1 .. Len(pk) - 1 |-> SubSeq(pk, 1, i)]

GetAncestorPathKeysIncludingSelf(pk) == [i \in 1 .. Len(pk) |-> SubSeq(pk, 1, i)]

(* The order of the stores on segments and on path keys. *)
SegmentLess(s, t) ==
    \E i \in 1 .. Len(t) :
        /\ i <= Len(s) + 1
        /\ SubSeq(s, 1, i - 1) = SubSeq(t, 1, i - 1)
        /\ i <= Len(s) => s[i] < t[i]

PathKeyLess(p, q) ==
    \E i \in 1 .. Len(q) :
        /\ i <= Len(p) + 1
        /\ SubSeq(p, 1, i - 1) = SubSeq(q, 1, i - 1)
        /\ i <= Len(p) => SegmentLess(p[i], q[i])

-----------------------------------------------------------------------------
(* The organization type a path key's depth stands for. *)
GetOrgTypeFromPathKey(pk) ==
    CASE Len(pk) = 0 -> "unknown"
      [] Len(pk) = 1 -> "vendor"
      [] Len(pk) = 2 -> "customer"
      [] Len(pk) = 3 -> "site"
      [] OTHER -> "other"

CanCreateTemplate(orgType) == orgType \in {"vendor", "customer"}

ValidateTemplateCreation(pk) == CanCreateTemplate(GetOrgTypeFromPathKey(pk))

-----------------------------------------------------------------------------
(* A request context, as the coverage middleware injects it: the org the    *)
(* request names, its coverage entry, the ids in scope.                     *)
CoverageOrg(id, type, pk) == [id |-> id, type |-> type, pathKey |-> pk]
NoOrgData == CoverageOrg(NoOrg, "unknown", <<>>)

RequestContext(orgContext, data, scoped, orgs) ==
    [orgContext |-> orgContext, orgContextData |-> data,
     scopedOrgIds |-> scoped, coverageOrgs |-> orgs]

(* What a filter is: an error, a path key range, one org, a list of orgs or *)
(* the empty filter.                                                        *)
Filter(kind, low, high, ids) == [kind |-> kind, gte |-> low, lt |-> high, ids |-> ids]
ErrorFilter == Filter("error", <<>>, <<>>, {})
NoFilter    == Filter("all", <<>>, <<>>, {})

(* Case 1 of both builders. *)
RangeFilter(ctx) ==
    IF ctx.orgContextData = NoOrgData \/ ctx.orgContextData.pathKey = <<>> THEN ErrorFilter
    ELSE Filter("range", ctx.orgContextData.pathKey,
                CalculateNextSiblingPathKey(ctx.orgContextData.pathKey), {})

(* The MongoDB builder converts ids to ObjectIDs: an invalid one is an      *)
(* error when it is the context and is skipped in the scope.                *)
BuildOrgFilter(ctx, includeChildren) ==
    LET valid == ctx.scopedOrgIds \ BadIds
    IN  CASE ctx.orgContext # NoOrg /\ includeChildren -> RangeFilter(ctx)
          [] ctx.orgContext # NoOrg /\ ~includeChildren ->
                IF ctx.orgContext \in BadIds THEN ErrorFilter
                ELSE Filter("org", <<>>, <<>>, {ctx.orgContext})
          [] ctx.orgContext = NoOrg /\ ctx.scopedOrgIds # {} ->
                IF valid = {} THEN ErrorFilter ELSE Filter("in", <<>>, <<>>, valid)
          [] OTHER -> NoFilter

(* The ClickHouse builder keeps ids as strings. *)
BuildOrgFilterClickHouse(ctx, includeChildren) ==
    CASE ctx.orgContext # NoOrg /\ includeChildren -> RangeFilter(ctx)
      [] ctx.orgContext # NoOrg /\ ~includeChildren -> Filter("org", <<>>, <<>>, {ctx.orgContext})
      [] ctx.orgContext = NoOrg /\ ctx.scopedOrgIds # {} -> Filter("in", <<>>, <<>>, ctx.scopedOrgIds)
      [] OTHER -> NoFilter

(* Whether a store returns the documents of an organization under a filter. *)
Selects(f, org) ==
    CASE f.kind = "all" -> TRUE
      [] f.kind \in {"org", "in"} -> org.id \in f.ids
      [] f.kind = "range" -> /\ f.gte = org.pathKey \/ PathKeyLess(f.gte, org.pathKey)
                             /\ PathKeyLess(org.pathKey, f.lt)
      [] OTHER -> FALSE

ValidateOrgContext(orgContext, scoped) == orgContext = NoOrg \/ orgContext \in scoped

FindOrgInCoverage(id, coverageOrgs) ==
    IF \E o \in coverageOrgs : o.id = id THEN CHOOSE o \in coverageOrgs : o.id = id ELSE NoOrgData

ValidateOrgContextForNonSystem(ctx) ==
    ctx.orgContext # NoOrg /\ ctx.orgContextData # NoOrgData /\ ctx.orgContextData.pathKey # <<>>

(* Templates of every level above, sites included. *)
BuildTemplateAncestorFilter_AllLevels(ctx) ==
    ToSet(GetAncestorPathKeysIncludingSelf(ctx.orgContextData.pathKey))

(* The path keys whose templates an organization sees; {} is an error. *)
BuildTemplateAncestorFilter(ctx) ==
    LET pk == ctx.orgContextData.pathKey
        ancestors == ToSet(GetAncestorPathKeysIncludingSelf(pk))
    IN  CASE GetOrgTypeFromPathKey(pk) = "unknown" -> {}
          [] GetOrgTypeFromPathKey(pk) = "vendor" -> {pk}
          [] GetOrgTypeFromPathKey(pk) = "customer" -> ancestors
          [] OTHER -> {a \in ancestors : GetOrgTypeFromPathKey(a) \in {"vendor", "customer"}}
=============================================================================
