---------------------------- MODULE MaterialBoard ----------------------------
(***************************************************************************)
(* The page of the materials: the board, which polls the history with the  *)
(* filters of the moment, and over it the matrix of one cycle, which polls *)
(* while it shows something PROCESSING, selects a week and generates it.   *)
(* One week and one template stand for the materials of a cycle. Every     *)
(* answer may be late; none carries the question it answers.               *)
(***************************************************************************)
EXTENDS Naturals, FiniteSets

CONSTANTS BoardCycles,   \* the cycles, each with one template and one week
          FirstCycle,    \* the active one
          FirstRunning,  \* the cycles whose material is being generated at the start
          MaxBoardClicks, MaxBoardFaults,
          MaxPolls       \* a poll is sent while the screen has fewer requests in flight

ASSUME BoardAssumption ==
  /\ FirstCycle \in BoardCycles /\ FirstRunning \subseteq BoardCycles
  /\ MaxBoardClicks \in Nat /\ MaxBoardFaults \in Nat /\ MaxPolls \in Nat \ {0}

VARIABLES material,   \* the database: the status of each cycle's Material
          board,      \* the page: filters and rows
          saved,      \* the filters in localStorage
          matrix,     \* MaterialMatrixGenerator
          asked,      \* requests in flight
          boardClicks, boardFaults

boardVars == <<material, board, saved, matrix, asked, boardClicks, boardFaults>>

NoRows == [c \in {} |-> "none"]
NoFilters == [cycles |-> {}, templates |-> {}]

\* getHistory: the rows of the cycles a query selects.
GetHistory(query) == [c \in query |-> material[c]]

\* fetchHistory: no cycle means all of them, templates narrow it further.
Query(f) ==
  LET some == IF f.cycles = {} THEN BoardCycles ELSE f.cycles
  IN IF f.templates = {} THEN some ELSE some \cap f.templates

Ask(for, query) == [for |-> for, query |-> query, week |-> FALSE, pc |-> "sent", rows |-> NoRows]

\* The first visit: the active cycle is selected and its history asked for.
BoardInit ==
  /\ material = [c \in BoardCycles |-> IF c \in FirstRunning THEN "PROCESSING" ELSE "none"]
  /\ board = [filters |-> [NoFilters EXCEPT !.cycles = {FirstCycle}], rows |-> NoRows]
  /\ saved = board.filters
  /\ matrix = [open |-> FALSE, cycle |-> "none", week |-> "none", programmatic |-> FALSE,
               rows |-> NoRows, timer |-> "none"]
  /\ asked = {} /\ boardClicks = 0 /\ boardFaults = 0

Click == boardClicks < MaxBoardClicks /\ boardClicks' = boardClicks + 1

-----------------------------------------------------------------------------
(* The board.                                                              *)

\* A change of the filters is saved and asked for; the template of a cycle that is
\* no longer selected is dropped.
SetFilters(cycles, templates) ==
  LET f == [cycles |-> cycles, templates |-> templates \cap cycles]
  IN /\ Click
     /\ board' = [board EXCEPT !.filters = f]
     /\ saved' = f
     /\ asked' = asked \cup {Ask("board", Query(f))}
     /\ UNCHANGED <<material, matrix, boardFaults>>

ToggleCycle(c) ==
  LET cycles == board.filters.cycles
  IN SetFilters(IF c \in cycles THEN cycles \ {c} ELSE cycles \cup {c}, board.filters.templates)

ToggleTemplate(c) ==
  LET templates == board.filters.templates
  IN /\ c \in board.filters.cycles
     /\ SetFilters(board.filters.cycles,
                   IF c \in templates THEN templates \ {c} ELSE templates \cup {c})

\* onMounted after a reload: saved filters, else the active cycle.
ReloadBoard ==
  LET f == IF saved.cycles = {} THEN [saved EXCEPT !.cycles = {FirstCycle}] ELSE saved
  IN /\ Click
     /\ board' = [filters |-> f, rows |-> NoRows]
     /\ matrix' = [open |-> FALSE, cycle |-> "none", week |-> "none", programmatic |-> FALSE,
                   rows |-> NoRows, timer |-> "none"]
     /\ asked' = {Ask("board", Query(f))}
     /\ UNCHANGED <<material, saved, boardFaults>>

MayPoll(for) == Cardinality({a \in asked : a.for = for}) < MaxPolls

\* Every eight seconds.
PollBoard ==
  /\ MayPoll("board")
  /\ asked' = asked \cup {Ask("board", Query(board.filters))}
  /\ UNCHANGED <<material, board, saved, matrix, boardClicks, boardFaults>>

-----------------------------------------------------------------------------
(* The matrix.                                                             *)

\* watch(selectedCycleId): the templates first, then the history.
CycleWatcher(c) == IF c = matrix.cycle THEN {} ELSE {Ask("templates", {c})}

\* watch(isOpen)
OpenWatcher(c) == IF matrix.open THEN {} ELSE {Ask("matrix", {c})}

\* openWithContext, from the button or a card: it and both watchers ask at once.
OpenWithContext(c, week) ==
  /\ Click
  /\ matrix' = [matrix EXCEPT !.open = TRUE, !.cycle = c, !.programmatic = TRUE]
  /\ asked' = asked \cup CycleWatcher(c) \cup OpenWatcher(c)
                   \cup {[Ask("context", {c}) EXCEPT !.week = week]}
  /\ UNCHANGED <<material, board, saved, boardFaults>>

OpenMatrix(c) == ~matrix.open /\ c \in board.filters.cycles /\ OpenWithContext(c, FALSE)

ClickCard(c) ==
  /\ ~matrix.open /\ c \in DOMAIN board.rows /\ board.rows[c] # "none"
  /\ OpenWithContext(c, TRUE)

\* No cycle among the filters: the matrix opens on its own, on the active cycle.
OpenPlain ==
  LET c == IF matrix.cycle = "none" THEN FirstCycle ELSE matrix.cycle
  IN /\ Click /\ ~matrix.open /\ board.filters.cycles = {}
     /\ matrix' = [matrix EXCEPT !.open = TRUE, !.cycle = c]
     /\ asked' = asked \cup CycleWatcher(c)
                      \cup (IF matrix.cycle = "none" THEN {} ELSE {Ask("matrix", {c})})
     /\ UNCHANGED <<material, board, saved, boardFaults>>

CloseMatrix ==
  /\ Click /\ matrix.open
  /\ matrix' = [matrix EXCEPT !.open = FALSE, !.timer = "none"]
  /\ UNCHANGED <<material, board, saved, asked, boardFaults>>

\* The menu of cycles.
PickCycle(c) ==
  /\ Click /\ matrix.open /\ c # matrix.cycle
  /\ matrix' = [matrix EXCEPT !.cycle = c]
  /\ asked' = asked \cup CycleWatcher(c)
  /\ UNCHANGED <<material, board, saved, boardFaults>>

SelectIntersection ==
  /\ Click /\ matrix.open /\ matrix.week # matrix.cycle
  /\ matrix' = [matrix EXCEPT !.week = matrix.cycle]
  /\ UNCHANGED <<material, board, saved, asked, boardFaults>>

\* weekStatusMap
WeekStatus ==
  IF matrix.cycle \in DOMAIN matrix.rows THEN matrix.rows[matrix.cycle] ELSE "none"

\* handleGenerate: the button is off while the matrix shows PROCESSING.
ClickGenerate ==
  /\ Click /\ matrix.open /\ matrix.week = matrix.cycle /\ WeekStatus # "PROCESSING"
  /\ asked' = asked \cup {Ask("generate", {matrix.cycle})}
  /\ UNCHANGED <<material, board, saved, matrix, boardFaults>>

\* The interval of startPolling keeps the cycle it was started with.
PollMatrix ==
  /\ matrix.timer # "none"
  /\ IF matrix.open
     THEN MayPoll("matrix") /\ asked' = asked \cup {Ask("matrix", {matrix.timer})} /\ UNCHANGED matrix
     ELSE matrix' = [matrix EXCEPT !.timer = "none"] /\ UNCHANGED asked
  /\ UNCHANGED <<material, board, saved, boardClicks, boardFaults>>

-----------------------------------------------------------------------------
(* The server and its answers.                                             *)

ServeRequest(a) ==
  /\ a.pc = "sent"
  /\ IF a.for = "generate"
     THEN material' = [c \in BoardCycles |-> IF c \in a.query THEN "PROCESSING" ELSE material[c]]
     ELSE UNCHANGED material
  /\ asked' = (asked \ {a}) \cup {[a EXCEPT !.pc = "ok", !.rows = GetHistory(a.query)]}
  /\ UNCHANGED <<board, saved, matrix, boardClicks, boardFaults>>

FailRequest(a) ==
  /\ boardFaults < MaxBoardFaults /\ boardFaults' = boardFaults + 1
  /\ a.pc \in {"sent", "ok"}
  /\ asked' = (asked \ {a}) \cup {[a EXCEPT !.pc = "failed", !.rows = NoRows]}
  /\ UNCHANGED <<material, board, saved, matrix, boardClicks>>

\* The worker and the roll-up.
FinishMaterial(c) ==
  /\ material[c] = "PROCESSING"
  /\ material' = [material EXCEPT ![c] = "COMPLETED"]
  /\ UNCHANGED <<board, saved, matrix, asked, boardClicks, boardFaults>>

HearBoard(a) ==
  /\ a.for = "board"
  /\ board' = IF a.pc = "ok" THEN [board EXCEPT !.rows = a.rows] ELSE board
  /\ asked' = asked \ {a}
  /\ UNCHANGED matrix

NeverProcessing(history) == FALSE

HasProcessing(history) == \E c \in DOMAIN history : history[c] = "PROCESSING"

\* fetchCycleHistory: the rows of whichever cycle answered; an error shows none.
\* A timer that runs is not started again.
AnsweredHistory(a) ==
  LET start == IF matrix.timer = "none" THEN CHOOSE c \in a.query : TRUE ELSE matrix.timer
  IN [matrix EXCEPT !.rows = a.rows, !.timer = IF HasProcessing(a.rows) THEN start ELSE "none"]

HearMatrix(a) ==
  /\ a.for = "matrix"
  /\ matrix' = AnsweredHistory(a)
  /\ asked' = asked \ {a}
  /\ UNCHANGED board

\* The selection is cleared unless openWithContext is still at work, and the history asked
\* for. fetchTemplates rethrows a failure, and the watcher goes no further.
HearTemplates(a) ==
  /\ a.for = "templates"
  /\ matrix' = IF matrix.programmatic \/ a.pc = "failed" THEN matrix ELSE [matrix EXCEPT !.week = "none"]
  /\ asked' = (asked \ {a}) \cup (IF a.pc = "failed" THEN {} ELSE {Ask("matrix", a.query)})
  /\ UNCHANGED board

\* The rest of openWithContext: its own templates and history. When the templates fail it
\* ends there, and isProgrammaticChange stays set.
HearContext(a) ==
  /\ a.for = "context"
  /\ \/ matrix' = [AnsweredHistory(a) EXCEPT !.programmatic = FALSE,
                       !.week = IF a.week THEN CHOOSE c \in a.query : TRUE ELSE @]
     \/ a.pc = "failed" /\ UNCHANGED matrix
  /\ asked' = asked \ {a}
  /\ UNCHANGED board

\* After a generation the matrix and the board ask again; an error is only shown.
HearGenerate(a) ==
  /\ a.for = "generate"
  /\ asked' = (asked \ {a}) \cup
       (IF a.pc = "ok" THEN {Ask("matrix", {matrix.cycle}), Ask("board", Query(board.filters))} ELSE {})
  /\ UNCHANGED <<board, matrix>>

HearAnswer(a) ==
  /\ a.pc \in {"ok", "failed"}
  /\ \/ HearBoard(a) \/ HearMatrix(a) \/ HearTemplates(a) \/ HearContext(a) \/ HearGenerate(a)
  /\ UNCHANGED <<material, saved, boardClicks, boardFaults>>

BoardNext ==
  \/ \E c \in BoardCycles : ToggleCycle(c) \/ ToggleTemplate(c) \/ OpenMatrix(c) \/ ClickCard(c)
                            \/ PickCycle(c) \/ FinishMaterial(c)
  \/ ReloadBoard \/ PollBoard \/ OpenPlain \/ CloseMatrix \/ SelectIntersection
  \/ ClickGenerate \/ PollMatrix
  \/ \E a \in asked : ServeRequest(a) \/ FailRequest(a) \/ HearAnswer(a)

\* The two intervals fire, and a request is answered. The page is on screen from its
\* first question on.
BoardFairness ==
  /\ WF_boardVars(PollBoard /\ boardClicks > 0)
  /\ WF_boardVars(PollMatrix)
  /\ \A for \in {"board", "matrix", "templates", "context", "generate"} :
       /\ WF_boardVars(\E a \in asked : a.for = for /\ ServeRequest(a))
       /\ WF_boardVars(\E a \in asked : a.for = for /\ HearAnswer(a))

BoardSpec == BoardInit /\ [][BoardNext]_boardVars /\ BoardFairness

-----------------------------------------------------------------------------

\* The matrix shows the selected cycle's material as PROCESSING though it has finished.
StaleMatrix ==
  matrix.open /\ WeekStatus = "PROCESSING" /\ material[matrix.cycle] # "PROCESSING"

\* Once the user and the worker have come to rest, late answers and a poll that fails
\* notwithstanding, the board shows what its filters select as it is, and the matrix
\* does not go on showing a finished generation as running.
ScreensCatchUp ==
  <>[](boardClicks > 0 => board.rows = GetHistory(Query(board.filters)) /\ ~StaleMatrix)
=============================================================================
