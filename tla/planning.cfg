SPECIFICATION MCSpec
CONSTANTS
    a = a
    b = b
    c1 = c1
    c2 = c2
    t1 = t1
    t2 = t2
    s1 = s1
    s2 = s2
    k = k
    n1 = n1
    n2 = n2
    p1 = p1
    p2 = p2
    w1 = w1
    w2 = w2
    g1 = g1
    g2 = g2
    Coordinators = {c1, c2}
    MatrixTemplates = {t1, t2}
    MatrixWeeks = {1}
    MatrixRows = {a}
    ActiveWeeks = {1}
    WeekLimit = 2
    CellLimit = 2
    MaxInFlight = 2
    MaxEdits = 3
    MaxLost = 1
    Planners = {p1, p2}
    Cycles = {c1, c2}
    Templates = {t1, t2}
    Syllabi = {s1, s2}
    Courses = {k}
    Names = {n1, n2}
    MaxWeeks = 2
    Starts = {1, 2}
    MaxPlans = 4
    CatalogTopics = {"t1", "t2"}
    FirstTopics = {"t1"}
    BankTopics = {"t1"}
    MaxCatalogCalls = 3
    MaxCatalogFaults = 1
    MaxCatalogClock = 2
    TemplateCourses = {"k1", "k2"}
    Spread <- MCSpread
    Bank <- MCBank
    LevelOf <- MCLevelOf
    Weeks = {w1, w2}
    Attempts = {g1, g2}
    FirstTemplates <- MCFirstTemplates
    MaxQty = 3
    MaxTemplateEdits = 1
INVARIANTS
    OvershootBounded
    MatrixShowsStored
    TemplatesOfOwnCycle
    WeeksMatchCycle
    OrphansAreLate
    ServedSinceBump
    PlanAsConfigured
    
CHECK_DEADLOCK FALSE
