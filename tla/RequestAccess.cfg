SPECIFICATION Spec
CONSTANTS
    Radix = 2
    OrgIds <- MCOrgIds
    BadIds = {}
    Requests = {r1, r2}
    Headers <- MCHeaders
    OrgData <- MCOrgData
    Required <- MCRequired
    GrantSets <- MCGrantSets
    Situations <- MCSituations
    Numbers <- MCNumbers
    Versions = 2
    MaxRetries = 2
    MaxVersion = 2
    MaxChanges = 1
INVARIANTS TypeOK ServedOnFreshGrant ScopeOfServed RefusedForCause
PROPERTY Answered
CHECK_DEADLOCK FALSE
