SPECIFICATION MCSpec
CONSTANTS
    Looked = {"lists", "review", "board", "mark"}
    Years = {"y1", "y2", "y3"}
    FirstYears <- MCFirstYears
    Matching = {"y1"}
    PageSize = 1
    MaxMoves = 5
    MaxChanges = 1
    Reviews = {"m1", "m2"}
    SlotsOf <- MCSlotsOf
    FirstSlots <- MCFirstSlots
    BankQuestions = {"q1", "q2", "q3"}
    HiddenQuestions = {"q3"}
    MaxReviewMoves = 4
    MaxOtherDrafts = 1
    BoardCycles = {"y1", "y2"}
    FirstCycle = "y1"
    FirstRunning = {"y1"}
    MaxBoardClicks = 2
    MaxBoardFaults = 1
    MaxPolls = 1
    TaughtCourses = {"k1", "k2"}
    CourseSyllabi = {"a", "b", "c"}
    CourseOf <- MCCourseOf
    FirstSyllabi = {"a", "b"}
    SweepBatchLimit = 1
    MaxMarkAttempts = 2
    MaxShelfMoves = 2
    MaxMarkFaults = 1
INVARIANTS
    ApprovedAsShown
    SyllabiOfSelection
PROPERTIES
    ScreensCatchUp
    EveryWeekMarked
    ScrollSettles
CHECK_DEADLOCK FALSE
