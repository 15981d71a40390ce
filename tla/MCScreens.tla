----------------------------- MODULE MCScreens -----------------------------
(***************************************************************************)
(* What one person sees, in one run: the lists of cycles and syllabi, the  *)
(* review of a material, the board that follows its generation, and the    *)
(* mark of the week it was made for. None of the modules reads the state   *)
(* of another (of the generation, the last one knows only that a course    *)
(* completed), so a behaviour picks one of those the run looks at and the  *)
(* others stand still. No fair action is enabled in an initial state.      *)
(***************************************************************************)
EXTENDS PlanScreens, ReviewScreen, MaterialBoard, GeneratedWeeks

CONSTANT Looked     \* what the run looks at

MCFirstYears == <<"y1", "y2">>

MCSlotsOf == [m \in {"m1", "m2"} |-> IF m = "m1" THEN {"s1", "s2"} ELSE {"s3"}]
MCFirstSlots == [s \in {"s1", "s2", "s3"} |-> IF s = "s2" THEN "EMPTY" ELSE "q1"]

MCCourseOf == [s \in CourseSyllabi |-> IF s = "a" THEN "k1" ELSE "k2"]

VARIABLE focus

MCInit ==
  /\ focus \in Looked
  /\ ScreensInit /\ ReviewInit /\ BoardInit /\ MarkInit

MCNext ==
  /\ UNCHANGED focus
  /\ \/ focus = "lists" /\ ScreensNext /\ UNCHANGED <<reviewVars, boardVars, markVars>>
     \/ focus = "review" /\ ReviewNext /\ UNCHANGED <<screenVars, boardVars, markVars>>
     \/ focus = "board" /\ BoardNext /\ UNCHANGED <<screenVars, reviewVars, markVars>>
     \/ focus = "mark" /\ MarkNext /\ UNCHANGED <<screenVars, reviewVars, boardVars>>

MCSpec ==
  MCInit /\ [][MCNext]_<<focus, screenVars, reviewVars, boardVars, markVars>>
         /\ ScreensFairness /\ BoardFairness /\ MarkFairness
=============================================================================
