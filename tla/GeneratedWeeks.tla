--------------------------- MODULE GeneratedWeeks ---------------------------
(***************************************************************************)
(* The mark that tells a coordinator that a week of a syllabus already has *)
(* its materials. The completion callback commits the course, and then, in *)
(* memory, emits an event; the listener marks the rows of the week, with   *)
(* three attempts; a sweep every 15 minutes marks those whose event was    *)
(* lost. One cycle, one week, and one row of it for each syllabus.         *)
(*                                                                         *)
(* A syllabus that was archived leaves its rows, and a new one of the same *)
(* course takes its place: only the active ones are unique.                *)
(***************************************************************************)
EXTENDS Naturals, FiniteSets, FiniteSetsExt

CONSTANTS TaughtCourses,
          CourseSyllabi,   \* the syllabi of the cycle that ever exist
          CourseOf,        \* the course of each
          FirstSyllabi,    \* those that are active, with a row of the week, to begin with
          SweepBatchLimit, MaxMarkAttempts,
          MaxShelfMoves, MaxMarkFaults

ASSUME MarkAssumption ==
  /\ CourseOf \in [CourseSyllabi -> TaughtCourses]
  /\ FirstSyllabi \subseteq CourseSyllabi
  /\ \A s, t \in FirstSyllabi : CourseOf[s] = CourseOf[t] => s = t
  /\ SweepBatchLimit \in Nat \ {0} /\ MaxMarkAttempts \in Nat \ {0}
  /\ MaxShelfMoves \in Nat /\ MaxMarkFaults \in Nat

VARIABLES shelf,      \* syllabus.is_active, or no row
          row,        \* syllabus_distribution.is_generated, or no row
          finished,   \* the course of the material: its status, and whether it completed
                      \* more than STALE_THRESHOLD_MINUTES ago
          unsent,     \* courses committed whose event has not been emitted
          listener,   \* the attempts of each event's handler
          sweep,      \* the sweep of the tenant
          shelfMoves, markFaults

markVars == <<shelf, row, finished, unsent, listener, sweep, shelfMoves, markFaults>>
shelfVars == <<shelf, row, shelfMoves>>

Generating == [status |-> "PROCESSING", stale |-> FALSE]
NoMarking == [attempt |-> 0, pc |-> "idle", found |-> "none"]
NoSweep == [todo |-> {}, course |-> "none", pc |-> "idle", found |-> "none"]

MarkInit ==
  /\ shelf = [s \in CourseSyllabi |-> IF s \in FirstSyllabi THEN "active" ELSE "none"]
  /\ row = [s \in CourseSyllabi |-> IF s \in FirstSyllabi THEN "unmarked" ELSE "none"]
  /\ finished = [k \in TaughtCourses |-> Generating]
  /\ unsent = {} /\ listener = [k \in TaughtCourses |-> NoMarking] /\ sweep = NoSweep
  /\ shelfMoves = 0 /\ markFaults = 0

SyllabiOf(k) == {s \in CourseSyllabi : CourseOf[s] = k /\ shelf[s] # "none"}
MarkFault == markFaults < MaxMarkFaults /\ markFaults' = markFaults + 1

-----------------------------------------------------------------------------
(* The coordinators.                                                       *)

ShelfMove ==
  /\ shelfMoves < MaxShelfMoves /\ shelfMoves' = shelfMoves + 1
  /\ UNCHANGED <<finished, unsent, listener, sweep, markFaults>>

\* create, and updateVisibility of an archived syllabus: the partial unique index admits
\* one active syllabus of a course.
Activate(s) ==
  /\ ShelfMove
  /\ \A t \in SyllabiOf(CourseOf[s]) : shelf[t] # "active"
  /\ shelf' = [shelf EXCEPT ![s] = "active"]
  /\ UNCHANGED row

Archive(s) ==
  /\ ShelfMove /\ shelf[s] = "active"
  /\ shelf' = [shelf EXCEPT ![s] = "archived"]
  /\ UNCHANGED row

AddRow(s) ==
  /\ ShelfMove /\ shelf[s] # "none" /\ row[s] = "none"
  /\ row' = [row EXCEPT ![s] = "unmarked"]
  /\ UNCHANGED shelf

DeleteRow(s) ==
  /\ ShelfMove /\ row[s] # "none"
  /\ row' = [row EXCEPT ![s] = "none"]
  /\ UNCHANGED shelf

\* cloneSyllabus: the rows are replaced by copies, which carry no mark.
CloneRows(s, source) ==
  /\ ShelfMove /\ s # source /\ shelf[s] # "none" /\ shelf[source] # "none"
  /\ row' = [row EXCEPT ![s] = IF row[source] = "none" THEN "none" ELSE "unmarked"]
  /\ UNCHANGED shelf

-----------------------------------------------------------------------------
(* The mark.                                                               *)

MarkingRest == <<shelf, shelfMoves, finished, unsent>>

\* The completion callback commits, and emits outside the transaction.
CommitCourse(k) ==
  /\ finished[k].status = "PROCESSING"
  /\ \E outcome \in {"COMPLETED", "COMPLETED_WITH_WARNINGS"} :
       finished' = [finished EXCEPT ![k].status = outcome]
  /\ unsent' = unsent \cup {k}
  /\ UNCHANGED <<shelfVars, listener, sweep, markFaults>>

EmitEvent(k) ==
  /\ k \in unsent
  /\ unsent' = unsent \ {k}
  /\ listener' = [listener EXCEPT ![k] = [NoMarking EXCEPT !.attempt = 1, !.pc = "find"]]
  /\ UNCHANGED <<shelfVars, finished, sweep, markFaults>>

\* Five minutes pass.
CourseAges(k) ==
  /\ finished[k].status # "PROCESSING" /\ ~finished[k].stale
  /\ finished' = [finished EXCEPT ![k].stale = TRUE]
  /\ UNCHANGED <<shelfVars, unsent, listener, sweep, markFaults>>

\* markWeekGenerated finds a syllabus of the cycle and the course: any of them.
Found(k) == IF SyllabiOf(k) = {} THEN {"none"} ELSE SyllabiOf(k)

Marked(s) == [row EXCEPT ![s] = IF @ = "none" THEN @ ELSE "marked"]

ListenerFinds(k) ==
  /\ listener[k].pc = "find"
  /\ \E s \in Found(k) :
       listener' = [listener EXCEPT ![k] =
                      IF s = "none" THEN NoMarking ELSE [@ EXCEPT !.pc = "mark", !.found = s]]
  /\ UNCHANGED <<row, MarkingRest, sweep, markFaults>>

ListenerMarks(k) ==
  /\ listener[k].pc = "mark"
  /\ row' = Marked(listener[k].found)
  /\ listener' = [listener EXCEPT ![k] = NoMarking]
  /\ UNCHANGED <<MarkingRest, sweep, markFaults>>

\* A failed attempt is repeated; the last one gives up.
ListenerFails(k) ==
  /\ listener[k].pc # "idle" /\ MarkFault
  /\ listener' = [listener EXCEPT ![k] =
       IF @.attempt = MaxMarkAttempts THEN NoMarking
       ELSE [NoMarking EXCEPT !.attempt = listener[k].attempt + 1, !.pc = "find"]]
  /\ UNCHANGED <<row, MarkingRest, sweep>>

\* Mutant: the sweep knows only one of the two ways to complete.
FinishedCleanly(k) == finished[k].status = "COMPLETED"
FinishedCourse(k) == finished[k].status \in {"COMPLETED", "COMPLETED_WITH_WARNINGS"}

\* The query of the sweep: rows without the mark, whoever their syllabus is.
StuckWeeks ==
  {k \in TaughtCourses :
     /\ FinishedCourse(k) /\ finished[k].stale
     /\ \E s \in SyllabiOf(k) : row[s] = "unmarked"}

\* The rows are not ordered: a full batch is any of the right size.
StartSweep ==
  /\ sweep = NoSweep /\ StuckWeeks # {}
  /\ \E batch \in SUBSET StuckWeeks :
       /\ Cardinality(batch) = Min({SweepBatchLimit, Cardinality(StuckWeeks)})
       /\ sweep' = [NoSweep EXCEPT !.todo = batch, !.pc = "next"]
  /\ UNCHANGED <<row, MarkingRest, listener, markFaults>>

\* markWeekGenerated for the next of them; nothing found is a warning.
SweepFinds ==
  /\ sweep.pc = "next" /\ sweep.todo # {}
  /\ \E k \in sweep.todo : \E s \in Found(k) :
       sweep' = [todo |-> sweep.todo \ {k}, course |-> k, found |-> s,
                 pc |-> IF s = "none" THEN "next" ELSE "mark"]
  /\ UNCHANGED <<row, MarkingRest, listener, markFaults>>

SweepMarks ==
  /\ sweep.pc = "mark"
  /\ row' = Marked(sweep.found)
  /\ sweep' = [sweep EXCEPT !.pc = "next"]
  /\ UNCHANGED <<MarkingRest, listener, markFaults>>

SweepFails ==
  /\ sweep.pc = "mark" /\ MarkFault
  /\ sweep' = [sweep EXCEPT !.pc = "next"]
  /\ UNCHANGED <<row, MarkingRest, listener>>

EndSweep ==
  /\ sweep.pc = "next" /\ sweep.todo = {}
  /\ sweep' = NoSweep
  /\ UNCHANGED <<row, MarkingRest, listener, markFaults>>

\* The process dies: what it had not emitted, its handlers and its sweep are gone.
CrashMarking ==
  /\ MarkFault
  /\ unsent' = {} /\ listener' = [k \in TaughtCourses |-> NoMarking] /\ sweep' = NoSweep
  /\ UNCHANGED <<shelfVars, finished>>

SweepStep == StartSweep \/ SweepFinds \/ SweepMarks \/ EndSweep

MarkNext ==
  \/ \E s \in CourseSyllabi :
       \/ Activate(s) \/ Archive(s) \/ AddRow(s) \/ DeleteRow(s)
       \/ \E source \in CourseSyllabi : CloneRows(s, source)
  \/ \E k \in TaughtCourses :
       \/ CommitCourse(k) \/ EmitEvent(k) \/ CourseAges(k)
       \/ ListenerFinds(k) \/ ListenerMarks(k) \/ ListenerFails(k)
  \/ SweepStep \/ SweepFails \/ CrashMarking

\* Time passes, the cron fires every 15 minutes and its lock expires after ten.
MarkFairness ==
  /\ \A k \in TaughtCourses : WF_markVars(CourseAges(k))
  /\ WF_markVars(SweepStep)

MarkSpec == MarkInit /\ [][MarkNext]_markVars /\ MarkFairness

-----------------------------------------------------------------------------
Twins == \E k \in TaughtCourses : Cardinality(SyllabiOf(k)) > 1

UnmarkedWeek(k) ==
  /\ finished[k].status # "PROCESSING"
  /\ \E s \in SyllabiOf(k) : row[s] = "unmarked"

\* Time and again the rows of every completed course are marked, whatever became of its
\* event, of the attempts of the listener and of the sweeps, and in whichever batches the
\* sweep takes them (materials.cron.ts:161). Where two syllabi of a course exist, one
\* archived, markWeekGenerated may always choose the other one.
EveryWeekMarked == []<>(\A k \in TaughtCourses : ~UnmarkedWeek(k) \/ Twins)
=============================================================================
