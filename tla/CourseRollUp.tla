---------------------------- MODULE CourseRollUp ----------------------------
(***************************************************************************)
(* What the completion callbacks of one MaterialRequest promise to the     *)
(* rest of the system, with no transaction, lock or process in sight: a    *)
(* report about a course takes effect at one instant; at that instant the  *)
(* request gets the roll-up of all its courses if every course has         *)
(* finished, and a merge-pdf job is sent exactly when the request enters a *)
(* rolled-up state from another one.                                       *)
(***************************************************************************)
EXTENDS MaterialStatus

CONSTANT Courses          \* the course rows of the request

VARIABLES course,         \* course -> status
          request,        \* status of the MaterialRequest
          merges          \* merge-pdf jobs sent since the request last became
                          \* rolled up; 0 while it is not

vars == <<course, request, merges>>

Init ==
    /\ course  = [c \in Courses |-> "PROCESSING"]
    /\ request = "PROCESSING"
    /\ merges  = 0

\* The effect of one accepted report.
Report(c, s) ==
    /\ course' = [course EXCEPT ![c] = s]
    /\ \/ /\ ~AllFinished(course')
          /\ UNCHANGED <<request, merges>>
       \/ /\ AllFinished(course')
          /\ request' = FinalStatus(course')
          /\ merges' = IF request' \notin RolledUp \/ Cardinality(Courses) < 2
                       THEN 0
                       ELSE IF request \in RolledUp THEN merges ELSE 1

Next == \E c \in Courses, s \in Reported : Report(c, s)

Spec == Init /\ [][Next]_vars
=============================================================================
