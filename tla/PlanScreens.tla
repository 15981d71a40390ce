----------------------------- MODULE PlanScreens -----------------------------
(***************************************************************************)
(* The screens of the plan in one coordinator's browser: the store         *)
(* academicTime behind the list of cycles, which loads page after page     *)
(* while its end is in sight, and the page of the syllabi of a cycle with  *)
(* the modal that clones a cycle. Others change the cycles and the syllabi *)
(* meanwhile. What the server does is AcademicPlan's; here it answers with *)
(* what is stored when the request reaches it.                             *)
(***************************************************************************)
EXTENDS Naturals, Sequences, FiniteSets, SequencesExt

CONSTANTS
    Years,          \* the ids of the cycles
    FirstYears,     \* the cycles there are at the start, latest first
    Matching,       \* the cycles the search finds
    PageSize,       \* limit of a page
    MaxMoves,       \* bound on what the coordinator does
    MaxChanges      \* bound on what others do

ASSUME ScreenAssumption ==
    /\ PageSize \in Nat \ {0} /\ MaxMoves \in Nat /\ MaxChanges \in Nat
    /\ FirstYears \in Seq(Years) /\ Matching \subseteq Years

VARIABLES
    server,     \* the live cycles, latest start first
    planned,    \* the cycles that have syllabi
    cycleList,       \* the store: rows, total, offset, search, error, the request in flight
    inSight,    \* the end of the list is on the screen
    shifted,    \* a cycle came or went, or a search was dropped, since the first page
    page,       \* the page of the syllabi: selected cycle, guard, rows, clone modal
    moves, changes

screenVars == <<server, planned, cycleList, inSight, shifted, page, moves, changes>>

NoRequest == [more |-> FALSE, offset |-> 0, search |-> FALSE, rows |-> <<>>, total |-> 0, pc |-> "none"]
NoYear == "none"
Closed == [open |-> FALSE, target |-> NoYear, confirmed |-> FALSE]

ScreensInit ==
    /\ server = FirstYears /\ planned = {} /\ moves = 0 /\ changes = 0
    /\ cycleList = [rows |-> <<>>, total |-> 0, offset |-> 0, search |-> FALSE, error |-> FALSE,
               request |-> NoRequest]
    /\ inSight = FALSE /\ shifted = FALSE
    /\ page = [cycle |-> NoYear, busy |-> FALSE, templates |-> FALSE, of |-> NoYear, rows |-> FALSE,
               failed |-> FALSE, asked |-> {}, overlap |-> FALSE, modal |-> Closed]

-----------------------------------------------------------------------------
(* The store academicTime and the list of cycles                           *)

HasMore == Len(cycleList.rows) < cycleList.total
IsLoading == cycleList.request.pc # "none"
Move == moves < MaxMoves /\ moves' = moves + 1
pageVars == <<planned, page>>

\* fetchCycles: a call while another is in flight is dropped. A search that differs
\* from the one in effect starts afresh, the empty one of a later page too.
FetchCycles(more, search) ==
    /\ ~IsLoading
    /\ LET next == more /\ search = cycleList.search
       IN  cycleList' = [cycleList EXCEPT
                !.search = search, !.error = FALSE,
                !.offset = IF next THEN @ ELSE 0,
                !.rows = IF next THEN @ ELSE <<>>,
                !.request = [more |-> next, offset |-> IF next THEN cycleList.offset ELSE 0,
                             search |-> search, rows |-> <<>>, total |-> 0, pc |-> "sent"]]

\* The search field, after its debounce. What is typed while a page loads is dropped.
SearchCycles(search) ==
    /\ Move /\ FetchCycles(FALSE, search) /\ shifted' = (inSight /\ search)
    /\ UNCHANGED <<server, inSight, changes>> /\ UNCHANGED pageVars

\* The page is opened, or a cycle was saved or deleted: the list is read again.
OpenCycles ==
    /\ Move /\ FetchCycles(FALSE, FALSE) /\ shifted' = FALSE
    /\ UNCHANGED <<server, inSight, changes>> /\ UNCHANGED pageVars

\* The end of the list comes in sight or leaves it.
Scroll ==
    /\ Move /\ inSight' = ~inSight
    /\ IF inSight' /\ HasMore /\ ~IsLoading /\ ~cycleList.error
       THEN FetchCycles(TRUE, FALSE) ELSE UNCHANGED cycleList
    /\ shifted' = (shifted \/ cycleList.search)
    /\ UNCHANGED <<server, changes>> /\ UNCHANGED pageVars

\* getCycles
ServePage ==
    /\ cycleList.request.pc = "sent"
    /\ LET found == SelectSeq(server, LAMBDA c : ~cycleList.request.search \/ c \in Matching)
           from == cycleList.request.offset
           to == IF from + PageSize < Len(found) THEN from + PageSize ELSE Len(found)
       IN  cycleList' = [cycleList EXCEPT !.request.rows = SubSeq(found, from + 1, to),
                                !.request.total = Len(found), !.request.pc = "answered"]
    /\ UNCHANGED <<server, inSight, shifted, moves, changes>> /\ UNCHANGED pageVars

\* "Prevent duplicate keys in Vue v-for by filtering existing IDs"
AppendNew(rows, new) == rows \o SelectSeq(new, LAMBDA c : c \notin ToSet(rows))

\* Mutant: the next page starts where this one did.
SameOffset(offset, rows) == offset
NextOffset(offset, rows) == offset + Len(rows)

\* The watcher of isLoading asks for the next page while the end stays in sight.
PageAnswered ==
    /\ cycleList.request.pc = "answered"
    /\ LET got == cycleList.request
           stored == [cycleList EXCEPT
                !.rows = IF got.more THEN AppendNew(@, got.rows) ELSE got.rows,
                !.total = got.total, !.offset = NextOffset(@, got.rows), !.request = NoRequest]
           again == inSight /\ Len(stored.rows) < stored.total
           dropped == again /\ stored.search
       IN  /\ cycleList' = IF ~again THEN stored
                      ELSE [stored EXCEPT
                            !.search = FALSE,
                            !.offset = IF dropped THEN 0 ELSE @,
                            !.rows = IF dropped THEN <<>> ELSE @,
                            !.request = [NoRequest EXCEPT !.more = ~dropped, !.pc = "sent",
                                         !.offset = IF dropped THEN 0 ELSE stored.offset]]
           /\ shifted' = (shifted \/ dropped)
    /\ UNCHANGED <<server, inSight, moves, changes>> /\ UNCHANGED pageVars

\* A page fails: what is shown stays, and the watcher stops at the error.
PageFails ==
    /\ IsLoading /\ moves < MaxMoves /\ moves' = moves + 1
    /\ cycleList' = [cycleList EXCEPT !.error = TRUE, !.request = NoRequest]
    /\ UNCHANGED <<server, inSight, shifted, changes>> /\ UNCHANGED pageVars

\* Somebody creates a cycle, which is listed by its start date, or deletes one.
OthersChangeCycles ==
    /\ changes < MaxChanges /\ changes' = changes + 1 /\ shifted' = TRUE
    /\ \/ \E c \in Years \ ToSet(server), i \in 1 .. Len(server) + 1 :
            server' = SubSeq(server, 1, i - 1) \o <<c>> \o SubSeq(server, i, Len(server))
       \/ \E c \in ToSet(server) : server' = SelectSeq(server, LAMBDA d : d # c)
    /\ UNCHANGED <<cycleList, inSight, moves>> /\ UNCHANGED pageVars

-----------------------------------------------------------------------------
(* The page of the syllabi of a cycle                                      *)

listVars == <<server, cycleList, inSight, shifted>>

\* A fetch of the syllabi of a cycle. One that starts alone will be the last to answer.
AskPage(record, c, watched) ==
    [record EXCEPT !.asked = @ \cup {[cycle |-> c, watched |-> watched, pc |-> "sent", rows |-> FALSE]},
                   !.overlap = record.asked # {}]

\* The watcher of selectedCycleId asks for the syllabi and the templates of the cycle. A
\* selection made while it waits for those of another cycle is not followed by a fetch.
\* The menu is never disabled.
SelectCycle(c) ==
    /\ Move /\ c \in ToSet(cycleList.rows) /\ c # page.cycle /\ ~page.modal.open
    /\ page' = IF page.busy
               THEN [page EXCEPT !.cycle = c, !.overlap = @ \/ page.templates \/ page.asked # {}]
               ELSE AskPage([page EXCEPT !.cycle = c, !.busy = TRUE, !.templates = TRUE], c, TRUE)
    /\ UNCHANGED <<planned, changes>> /\ UNCHANGED listVars

\* backToList fetches the syllabi of the selected cycle whatever is in flight.
BackToList ==
    /\ Move /\ page.cycle # NoYear /\ Cardinality(page.asked) < 2
    /\ page' = AskPage(page, page.cycle, FALSE)
    /\ UNCHANGED <<planned, changes>> /\ UNCHANGED listVars

ServeSyllabi ==
    /\ \E q \in page.asked :
        /\ q.pc = "sent"
        /\ page' = [page EXCEPT !.asked = (@ \ {q}) \cup
                {[q EXCEPT !.pc = "answered", !.rows = q.cycle \in planned]}]
    /\ UNCHANGED <<planned, moves, changes>> /\ UNCHANGED listVars

\* Mutant: the watcher never takes its guard back.
StaysBusy(q) == page.busy
\* The watcher waits for its own fetch and for the templates; any other fetch leaves its
\* guard alone.
BusyAfter(q) == page.busy /\ (page.templates \/ ~q.watched)

\* Answers are stored in the order in which they arrive.
FetchSyllabiByCycle ==
    /\ \E q \in page.asked :
        /\ q.pc = "answered"
        /\ page' = [page EXCEPT !.asked = @ \ {q}, !.of = q.cycle, !.rows = q.rows,
                                !.failed = FALSE, !.busy = BusyAfter(q)]
    /\ UNCHANGED <<planned, moves, changes>> /\ UNCHANGED listVars

\* A fetch that fails is caught in the store: the list of the cycle before stays.
FetchSyllabiFails ==
    /\ Move
    /\ \E q \in page.asked :
        page' = [page EXCEPT !.asked = @ \ {q}, !.failed = TRUE, !.busy = BusyAfter(q)]
    /\ UNCHANGED <<planned, changes>> /\ UNCHANGED listVars

\* fetchTemplates, for the watcher.
TemplatesAnswered ==
    /\ page.templates
    /\ page' = [page EXCEPT !.templates = FALSE, !.busy = \E q \in page.asked : q.watched]
    /\ UNCHANGED <<planned, moves, changes>> /\ UNCHANGED listVars

\* It rethrows, and the watcher no longer waits for the syllabi.
TemplatesFail ==
    /\ page.templates /\ Move
    /\ page' = [page EXCEPT !.templates = FALSE, !.busy = FALSE,
                            !.asked = {[q EXCEPT !.watched = FALSE] : q \in @}]
    /\ UNCHANGED <<planned, changes>> /\ UNCHANGED listVars

\* The first syllabus of a cycle, by another coordinator.
SyllabusCreated(c) ==
    /\ changes < MaxChanges /\ changes' = changes + 1 /\ c \in ToSet(server) /\ c \notin planned
    /\ planned' = planned \cup {c}
    /\ UNCHANGED <<page, moves>> /\ UNCHANGED listVars

OpenCycleCloneModal ==
    /\ Move /\ page.cycle # NoYear /\ ~page.modal.open
    /\ page' = [page EXCEPT !.modal = [open |-> TRUE, target |-> page.cycle, confirmed |-> FALSE]]
    /\ UNCHANGED <<planned, changes>> /\ UNCHANGED listVars

ConfirmOverwrite ==
    /\ page.modal.open /\ page.rows /\ ~page.modal.confirmed
    /\ page' = [page EXCEPT !.modal.confirmed = TRUE]
    /\ UNCHANGED <<planned, moves, changes>> /\ UNCHANGED listVars

\* isConfirmDisabled: the list on the page, of whatever cycle, asks for a confirmation.
IsConfirmEnabled(target) ==
    /\ \E c \in ToSet(cycleList.rows) : c # target
    /\ page.rows => page.modal.confirmed

\* confirmClone; the syllabi of the target are read again afterwards.
ConfirmClone ==
    /\ page.modal.open /\ IsConfirmEnabled(page.modal.target) /\ Cardinality(page.asked) < 2
    /\ planned' = planned \cup {page.modal.target}
    /\ page' = AskPage([page EXCEPT !.modal = Closed], page.modal.target, FALSE)
    /\ UNCHANGED <<moves, changes>> /\ UNCHANGED listVars

DismissModal ==
    /\ page.modal.open /\ page' = [page EXCEPT !.modal = Closed]
    /\ UNCHANGED <<planned, moves, changes>> /\ UNCHANGED listVars

-----------------------------------------------------------------------------
ScreensNext ==
    \/ \E search \in BOOLEAN : SearchCycles(search)
    \/ OpenCycles \/ Scroll \/ ServePage \/ PageAnswered \/ PageFails \/ OthersChangeCycles
    \/ \E c \in Years : SelectCycle(c) \/ SyllabusCreated(c)
    \/ BackToList \/ ServeSyllabi \/ FetchSyllabiByCycle \/ FetchSyllabiFails
    \/ TemplatesAnswered \/ TemplatesFail
    \/ OpenCycleCloneModal \/ ConfirmOverwrite \/ ConfirmClone \/ DismissModal

\* Every request is answered, and its answer is handled.
ScreensFairness == WF_screenVars(ServePage) /\ WF_screenVars(PageAnswered)
ScreensSpec == ScreensInit /\ [][ScreensNext]_screenVars /\ ScreensFairness

-----------------------------------------------------------------------------
\* The watcher asks for page after page while the end of the list is in sight
\* (WeeksMatrix.vue:300). It comes to an end: every cycle is shown, or a page failed, or
\* the end left the screen, unless the pages were shifted by others meanwhile.
ScrollSettles == inSight /\ ~shifted ~> (shifted \/ cycleList.error \/ ~inSight \/ ~IsLoading)

\* The syllabi on the page are those of the selected cycle (pages/syllabus/index.vue:52)
\* once every fetch is answered: whatever fetches failed before and whether the watcher's
\* templates came, failed or are still awaited. Not when the last fetch failed, whose error
\* leaves the list as it was, nor when a selection was made while the guard was held or a
\* fetch while another was in flight, in which case the last answer decides.
SyllabiOfSelection ==
    page.cycle # NoYear /\ page.asked = {} /\ ~page.overlap /\ ~page.failed => page.of = page.cycle
=============================================================================
