SPECIFICATION Spec
CONSTANTS
    Requests = {r1}
    Courses = {c1}
    Admins = {a1, a2}
    Slots = {s1}
    Outcomes = {"COMPLETED", "COMPLETED_WITH_WARNINGS", "FAILED"}
    Attempts = 2
    MaxEdits = 1
    MaxRounds = 1
    MaxFaults = 1
SYMMETRY Symmetry
INVARIANTS
    TypeOK
    ReviewGate
CHECK_DEADLOCK FALSE
