----------------------------- MODULE MCPlanning -----------------------------
(***************************************************************************)
(* What a tenant plans, in one run: the catalog of the courses, the cycles *)
(* with their weeks, templates and syllabi, the matrix of a syllabus, and  *)
(* the questions of a material. Each module holds the state its screen and *)
(* repositories work on, and none reads another's, so a behaviour picks    *)
(* one at the start and the others stand still, in one state.              *)
(***************************************************************************)
EXTENDS SyllabusMatrix, AcademicPlan, Catalogs, QuestionPlan

CONSTANTS a, b, c1, c2, t1, t2, s1, s2, k, n1, n2, p1, p2, w1, w2, g1, g2

MCSpread == [c \in TemplateCourses |-> IF c = "k1" THEN <<"u1", "u2">> ELSE <<"u3">>]
MCBank == [u \in {"u1", "u2", "u3"} |->
             CASE u = "u1" -> {"q1", "q2"} [] u = "u2" -> {"q2", "q3"} [] OTHER -> {"q5"}]
MCLevelOf == [q \in {"q1", "q2", "q3", "q5"} |->
                CASE q \in {"q1", "q3"} -> "EASY" [] q = "q2" -> "MEDIUM" [] OTHER -> "HARD"]
MCFirstTemplates ==
  {[k1 |-> AutoDistribute(2), k2 |-> AutoDistribute(1)],
   [k1 |-> AutoDistribute(3), k2 |-> NoCounts],
   [k1 |-> [qty |-> 3, EASY |-> 0, MEDIUM |-> 3, HARD |-> 0, auto |-> FALSE], k2 |-> NoCounts],
   [k1 |-> [qty |-> 3, EASY |-> 0, MEDIUM |-> 2, HARD |-> 1, auto |-> FALSE], k2 |-> NoCounts]}

VARIABLE focus

MCInit ==
  /\ focus \in {"matrix", "plan", "catalogs", "questions"}
  /\ MatrixInit /\ PlanInit /\ CatalogInit /\ QuestionInit
  /\ savedTemplate = [c \in Coordinators |-> t1] /\ chosen[c1] = t1
  /\ focus = "matrix" \/ chosen[c2] = t1
  /\ focus = "plan" \/ \A c \in Cycles : cycle[c].state = "none"
  /\ focus = "questions" \/ stored.k1 = AutoDistribute(2)

MCNext ==
  /\ UNCHANGED focus
  /\ \/ focus = "matrix" /\ MatrixNext /\ UNCHANGED <<planVars, catalogVars, questionVars>>
     \/ focus = "plan" /\ PlanNext /\ UNCHANGED <<matrixVars, catalogVars, questionVars>>
     \/ focus = "catalogs" /\ CatalogNext /\ UNCHANGED <<matrixVars, planVars, questionVars>>
     \/ focus = "questions" /\ QuestionNext /\ UNCHANGED <<matrixVars, planVars, catalogVars>>

MCSpec == MCInit /\ [][MCNext]_<<focus, matrixVars, planVars, catalogVars, questionVars>>
=============================================================================
