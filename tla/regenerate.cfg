SPECIFICATION Spec
CONSTANTS
    Requests = {r1, r2}
    Courses = {c1}
    Admins = {}
    Slots = {s1, s2}
    Outcomes = {"COMPLETED", "FAILED"}
    Attempts = 1
    MaxEdits = 0
    MaxRounds = 0
    MaxFaults = 0
INVARIANT UsagesCleanedUp
CHECK_DEADLOCK FALSE
