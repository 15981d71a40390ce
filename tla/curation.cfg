SPECIFICATION Spec
CONSTANTS
    Requests = {r1}
    Courses = {c1}
    Admins = {a1, a2}
    Slots = {s1}
    Outcomes = {"COMPLETED"}
    Attempts = 1
    MaxEdits = 2
    MaxRounds = 0
    MaxFaults = 0
PROPERTY NoLostCuration
CHECK_DEADLOCK FALSE
