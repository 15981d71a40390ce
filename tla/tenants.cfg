SPECIFICATION MCSpec
CONSTANTS
    w1 = w1
    w2 = w2
    cli = cli
    o1 = o1
    v1 = v1
    c1 = c1
    c2 = c2
    Workers = {w1, w2}
    Deployers = {cli}
    Operators = {o1}
    Visitors = {v1}
    Credentials = {TRUE}
    ProvisionJobs = {1, 2}
    MigrationCount = 2
    ProvisionAttempts = 2
    MaxOperations = 1
    MaxTenantFaults = 2
    Tenants = {"A", "B"}
    People = {"a1", "a2", "a3", "b1"}
    Consoles = {c1, c2}
    HomeOf <- MCHomeOf
    FirstAdmins = {"a1", "a2", "b1"}
    MaxRequests = 3
    Clients = {"A"}
    HoursPerMonth = 2
    MaxHour = 3
    MaxUses = 1
    MaxUsers = 2
    MaxMetricFaults = 1
    e1 = e1
    e2 = e2
    Designers = {e1, e2}
    Designs = {"d1", "d2"}
    MaxClicks = 5
    FirstDesigns <- MCFirstDesigns
INVARIANTS
    ServiceableIsBuilt
    NoDuplicateMigration
    AdminBeforeService
    NoSilentOrphan
    AdminKept
    DashboardTruthful
    OneDefault
    UrlHasObject
PROPERTIES
    SuspensionEnforced
    UntouchedKept
CHECK_DEADLOCK FALSE
