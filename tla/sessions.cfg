SPECIFICATION MCSpec
CONSTANTS
    s1 = s1
    p1 = p1
    p2 = p2
    c1 = c1
    c2 = c2
    Sessions = {s1}
    Processes = {p1, p2}
    AdminChanges = {"reset", "deactivate"}
    PerSecond = 2
    MaxTicks = 2
    MaxVersion = 3
    MaxAuthFaults = 1
    RoleIds = {"sys", "r1", "r2", "r3"}
    System = "sys"
    Members = {"clerk", "other"}
    Managers = {"clerk"}
    Grants = {"manage", "review", "tenants"}
    Calls = {c1, c2}
    PermissionSets = {{"manage"}}
    ParentSets = {{"sys"}, {"r2"}, {"r3"}}
    FirstRoles = {"sys", "r1", "r2"}
    FirstPermissions <- MCFirstPermissions
    FirstHolds <- MCFirstHolds
    FirstInherits <- MCFirstInherits
    MaxCalls = 3
INVARIANTS
    NoFalseReject
    SignedOutOnlyWhenRevoked
    PasswordChangeEndsSessions
    Confined
    NoInheritanceCycle
PROPERTIES
    RevocationTakesEffect
    RevocationCovers
CHECK_DEADLOCK FALSE
