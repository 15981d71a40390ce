SPECIFICATION FairSpec
CONSTANTS
    Requests = {r1}
    Courses = {c1, c2}
    Admins = {}
    Slots = {s1, s2}
    Outcomes = {"COMPLETED_WITH_WARNINGS", "FAILED"}
    Attempts = 1
    MaxEdits = 0
    MaxRounds = 0
    MaxFaults = 1
INVARIANTS
    NoOrphanProcessing
PROPERTIES
    EveryCourseFinishes
CHECK_DEADLOCK FALSE
