---------------------------- MODULE QuestionPlan ----------------------------
(***************************************************************************)
(* From a material template to the questions of its PDFs: the page that    *)
(* edits how many questions of each difficulty a course has, the reads of  *)
(* a generation, the choice of a question for every slot, what the worker  *)
(* prints and the ledger of the questions used in a cycle.                 *)
(*                                                                         *)
(* A generation reads the template and the ledger in one transaction,      *)
(* selects from the question bank outside any, writes its slots in a       *)
(* second one, and its questions reach the ledger only when the worker     *)
(* reports; generations interleave between these steps. These are the      *)
(* direct generations: the jobs of an approved review are in               *)
(* MaterialLifecycle.                                                      *)
(***************************************************************************)
EXTENDS Naturals, Integers, Sequences, FiniteSets, FiniteSetsExt, Functions

CONSTANTS TemplateCourses,  \* courses of the catalog
          Spread,           \* course -> the subtopics its week covers, a sequence
          Bank,             \* subtopic -> its questions
          LevelOf,          \* question -> difficulty
          Weeks,            \* weeks a material is generated for
          Attempts,         \* generation requests
          FirstTemplates,   \* what may be stored at the start
          MaxQty,           \* bound on the numbers typed
          MaxTemplateEdits  \* bound on the edits of the page and the catalog

VARIABLES grid,      \* the page: the counts of each course
          stored,    \* the template in the database; qty 0: course not in it
          visible,   \* courses of the catalog the page is given
          moved,     \* courses whose topics the catalog has moved away
          attempt,   \* the generations
          usage,     \* the ledger: <<attempt, course, question>>
          redrawn,   \* history: <<one, other>>: the other was printed again, with other
                     \* questions, after the one had found it in the ledger
          templateEdits

questionVars == <<grid, stored, visible, moved, attempt, usage, redrawn, templateEdits>>

Difficulties == {"EASY", "MEDIUM", "HARD"}

CourseCounts == [qty : Nat, EASY : Int, MEDIUM : Int, HARD : Int, auto : BOOLEAN]

NoCounts == [qty |-> 0, EASY |-> 0, MEDIUM |-> 0, HARD |-> 0, auto |-> FALSE]

ASSUME QuestionAssumption ==
  /\ FirstTemplates \subseteq [TemplateCourses -> CourseCounts]
  /\ MaxQty \in Nat /\ MaxTemplateEdits \in Nat

Active(counts) == {c \in TemplateCourses : counts[c].qty > 0}

SumDifficulty(k) == k.EASY + k.MEDIUM + k.HARD

-----------------------------------------------------------------------------
(* The page of a template.                                                 *)

\* autoDistributeDifficulties
AutoDistribute(n) ==
  [qty |-> n, auto |-> TRUE,
   EASY |-> n \div 3 + (IF n % 3 >= 1 THEN 1 ELSE 0),
   MEDIUM |-> n \div 3 + (IF n % 3 >= 2 THEN 1 ELSE 0),
   HARD |-> n \div 3]

\* What is stored has passed validateAndMapCourses: the counts of a course add up.
ASSUME StoredAssumption ==
  /\ \A t \in FirstTemplates : \A c \in Active(t) : SumDifficulty(t[c]) = t[c].qty
  /\ \A t \in FirstTemplates : \A c \in TemplateCourses : t[c].auto => t[c] = AutoDistribute(t[c].qty)
  /\ Spread \in [TemplateCourses -> Seq(DOMAIN Bank)]

\* clampDifficulty: the count just typed gives way.
ClampDifficulty(k, level, n) ==
  LET typed == [k EXCEPT ![level] = n, !.auto = FALSE]
      over == SumDifficulty(typed) - typed.qty
  IN IF over <= 0 THEN typed
     ELSE [typed EXCEPT ![level] = IF n > over THEN n - over ELSE 0]

EditGrid(g) ==
  /\ templateEdits < MaxTemplateEdits
  /\ templateEdits' = templateEdits + 1
  /\ grid' = g
  /\ UNCHANGED <<stored, visible, moved, attempt, usage, redrawn>>

\* onMounted: the stored courses that are still in the catalog.
OpenTemplate ==
  EditGrid([c \in TemplateCourses |-> IF c \in visible THEN stored[c] ELSE NoCounts])

\* addCourse starts with five questions.
AddCourse(c) ==
  /\ c \in visible /\ grid[c].qty = 0
  /\ EditGrid([grid EXCEPT ![c] = AutoDistribute(5)])

RemoveCourse(c) == grid[c].qty > 0 /\ EditGrid([grid EXCEPT ![c] = NoCounts])

Increment(c) == grid[c].qty > 0 /\ EditGrid([grid EXCEPT ![c] = AutoDistribute(@.qty + 1)])

\* decrementCourse: at one it removes the course.
Decrement(c) == grid[c].qty > 1 /\ EditGrid([grid EXCEPT ![c] = AutoDistribute(@.qty - 1)])

TypeQuantity(c) ==
  /\ grid[c].qty > 0
  /\ \E n \in 1 .. MaxQty : EditGrid([grid EXCEPT ![c] = AutoDistribute(n)])

TypeDifficulty(c) ==
  /\ grid[c].qty > 0
  /\ \E level \in Difficulties, n \in 0 .. MaxQty :
        EditGrid([grid EXCEPT ![c] = ClampDifficulty(@, level, n)])

IsFormValid ==
  /\ Active(grid) # {}
  /\ \A c \in Active(grid) : SumDifficulty(grid[c]) = grid[c].qty

\* saveTemplate, and validateAndMapCourses behind it: the course rows are
\* deleted and inserted anew, also those the page could not show.
SaveTemplate ==
  /\ IsFormValid
  /\ stored' = grid
  /\ UNCHANGED <<grid, visible, moved, attempt, usage, redrawn, templateEdits>>

\* The page opens without a course when its fetch has failed or the course is past the
\* 500 of getCourses; the sync moves topics to another course.
CatalogChanges(c) ==
  /\ templateEdits < MaxTemplateEdits
  /\ templateEdits' = templateEdits + 1
  /\ \/ visible' = visible \ {c} /\ UNCHANGED moved
     \/ moved' = moved \cup {c} /\ UNCHANGED visible
  /\ UNCHANGED <<grid, stored, attempt, usage, redrawn>>

-----------------------------------------------------------------------------
(* The generation.                                                         *)

\* JavaScript's a || b on a count.
Or(a, b) == IF a # 0 THEN a ELSE b

\* The level counts of a course: zeros become the default shares, and HARD
\* absorbs the difference, below zero if need be.
LevelCounts(k) ==
  LET target == Or(k.qty, 35)
      easy   == Or(k.EASY, (target * 2) \div 5)
      medium == Or(k.MEDIUM, (target * 2) \div 5)
      hard   == Or(k.HARD, target \div 5)
  IN [EASY |-> easy, MEDIUM |-> medium,
      HARD |-> hard + (target - (easy + medium + hard))]

EvenShare(n, parts, i) == n \div parts

\* The questions of the i-th subtopic: an even share, the first ones one more.
Quantity(n, parts, i) == n \div parts + (IF i <= n % parts THEN 1 ELSE 0)

NewAttempt == [stage |-> "new", week |-> CHOOSE w \in Weeks : TRUE,
               asked |-> [c \in TemplateCourses |-> NoCounts],
               excluded |-> [c \in TemplateCourses |-> {}],
               seen |-> {},
               paper |-> [c \in TemplateCourses |-> {}],
               slots |-> [c \in TemplateCourses |-> [EASY |-> 0, MEDIUM |-> 0, HARD |-> 0]]]

QuestionInit ==
  /\ stored \in FirstTemplates
  /\ grid = stored
  /\ visible = TemplateCourses
  /\ moved = {}
  /\ attempt = [r \in Attempts |-> NewAttempt]
  /\ usage = {} /\ redrawn = {}
  /\ templateEdits = 0

UsedInWeek(w, c) ==
  {u[3] : u \in {v \in usage : v[2] = c /\ attempt[v[1]].week = w}}

\* getUsedQuestionsInCycle
UsedInCycle(w, c) == {u[3] : u \in {v \in usage : v[2] = c}}

\* The generations whose questions stand in the ledger as they were reported.
InLedger == {o \in Attempts : attempt[o].stage = "reported" /\ \E u \in usage : u[1] = o}

\* tx#1.  An empty choice of courses, and a course whose HARD count is below
\* zero, end the generation (Array(n) throws).
ReadInputs(r) ==
  /\ attempt[r].stage = "new"
  /\ \E w \in Weeks, chosen \in SUBSET Active(stored) :
       IF chosen = {} \/ \E c \in chosen : LevelCounts(stored[c]).HARD < 0
       THEN attempt' = [attempt EXCEPT ![r].stage = "refused"]
       ELSE attempt' = [attempt EXCEPT
              ![r].stage = "read", ![r].week = w,
              ![r].asked = [c \in TemplateCourses |->
                              IF c \in chosen THEN stored[c] ELSE NoCounts],
              ![r].excluded = [c \in TemplateCourses |-> UsedInCycle(w, c)],
              ![r].seen = InLedger]
  /\ UNCHANGED <<grid, stored, visible, moved, usage, redrawn, templateEdits>>

\* selectBestQuestions for one subtopic: each request in turn takes a question
\* of its level, else any that is left, else none.  The pool is shuffled, so
\* every outcome of this order is possible.
Selections(pool, levels) ==
  {p \in [DOMAIN levels -> pool \cup {"none"}] :
     \A i \in DOMAIN levels :
        LET left == pool \ {p[j] : j \in 1 .. (i - 1)}
            fits == {q \in left : LevelOf[q] = levels[i]}
        IN IF fits # {} THEN p[i] \in fits
           ELSE IF left # {} THEN p[i] \in left ELSE p[i] = "none"}

\* The shuffled pool of levels: any order with the right counts.
LevelOrders(need) ==
  LET n == need.EASY + need.MEDIUM + need.HARD IN
  {s \in [1 .. n -> Difficulties] :
     \A d \in Difficulties : Cardinality({i \in 1 .. n : s[i] = d}) = need[d]}

\* The part of the pool that goes to the i-th subtopic: levelsPool.splice.
ShareOf(c, order, i) ==
  LET n == Len(order)
      parts == Len(Spread[c])
      start[j \in 1 .. parts] == IF j = 1 THEN 0 ELSE start[j - 1] + Quantity(n, parts, j - 1)
  IN SubSeq(order, start[i] + 1, start[i] + Quantity(n, parts, i))

\* One element of each set of a family.
OneOfEach(family) ==
  {f \in [DOMAIN family -> UNION Range(family)] : \A i \in DOMAIN family : f[i] \in family[i]}

\* The sets of questions buildReviewPlan may end with for a course.
PlannedSets(c, order, excluded) ==
  LET picks == [i \in DOMAIN Spread[c] |->
                  {Range(p) \ {"none"} :
                     p \in Selections(Bank[Spread[c][i]] \ excluded, ShareOf(c, order, i))}]
  IN {UNION Range(f) : f \in OneOfEach(picks)}

\* The slots a course gets, by level.
PlannedSlots(c, order) ==
  LET shares == [i \in DOMAIN Spread[c] |-> ShareOf(c, order, i)]
      slots == UNION {{i} \X DOMAIN shares[i] : i \in DOMAIN Spread[c]}
  IN [d \in Difficulties |-> Cardinality({s \in slots : shares[s[1]][s[2]] = d})]

\* buildReviewPlan, one course at a time.
PlanCourse(r, c) ==
  /\ attempt[r].stage = "read"
  /\ attempt[r].asked[c].qty > 0
  /\ attempt[r].slots[c] = NewAttempt.slots[c]
  /\ \E order \in LevelOrders(LevelCounts(attempt[r].asked[c])) :
     \E qs \in PlannedSets(c, order, attempt[r].excluded[c]) :
        attempt' = [attempt EXCEPT ![r].paper[c] = qs,
                                   ![r].slots[c] = PlannedSlots(c, order)]
  /\ UNCHANGED <<grid, stored, visible, moved, usage, redrawn, templateEdits>>

\* tx#2: the slots are saved, and the ledger rows of the earlier requests for
\* the same week are deleted.
WriteAttempt(r) ==
  /\ attempt[r].stage = "read"
  /\ \A c \in Active(attempt[r].asked) : attempt[r].slots[c] # NewAttempt.slots[c]
  /\ attempt' = [attempt EXCEPT ![r].stage = "written"]
  /\ usage' = {u \in usage : attempt[u[1]].week # attempt[r].week}
  /\ UNCHANGED <<grid, stored, visible, moved, redrawn, templateEdits>>

\* findBoundedCandidatePool: the unused questions of the subtopic and the used ones are
\* sampled apart; a sample of either is larger than what is asked for.
CandidatePool(s, excluded) == [unused |-> Bank[s] \ excluded, used |-> Bank[s] \cap excluded]

\* getRandomQuestions of no difficulty: used questions only where the unused run out.
RandomQuestions(s, n, excluded) ==
  LET pool == CandidatePool(s, excluded)
      all == pool.unused \cup pool.used
  IN {q \in SUBSET all :
        /\ Cardinality(q) = Min({n, Cardinality(all)})
        /\ q \subseteq pool.unused \/ pool.unused \subseteq q}

\* fetchQuestions drops the used ones again.
FetchQuestions(s, n, excluded) == {q \ excluded : q \in RandomQuestions(s, n, excluded)}

\* What the worker draws for a course, subtopic by subtopic.
FetchedSets(c, excluded, n) ==
  {UNION Range(f) :
     f \in OneOfEach([i \in DOMAIN Spread[c] |->
             FetchQuestions(Spread[c][i], Quantity(n, Len(Spread[c]), i), excluded)])}

\* loadCourseQuestions: the saved slots, joined to the topics of the course;
\* where the catalog has moved those topics away there are none, and the
\* worker draws from the bank.
Papers(r, c) ==
  IF c \in moved /\ attempt[r].asked[c].qty > 0
  THEN FetchedSets(c, attempt[r].excluded[c], attempt[r].asked[c].qty)
  ELSE {attempt[r].paper[c]}

\* A retry of the batch, after a crash or because another course failed, does it again.
LoadCourseQuestions(r) ==
  /\ attempt[r].stage \in {"written", "printed", "reported"}
  /\ \E papers \in OneOfEach([c \in TemplateCourses |-> Papers(r, c)]) :
       /\ attempt' = [attempt EXCEPT ![r].stage = "printed", ![r].paper = papers]
       /\ redrawn' = redrawn \cup
            {x \in Attempts \X {r} : papers # attempt[r].paper /\ r \in attempt[x[1]].seen}
  /\ UNCHANGED <<grid, stored, visible, moved, usage, templateEdits>>

\* The completion callback writes the ledger rows of the printed questions, in place of
\* those of an earlier report; a course without questions has none to write.
RecordUsage(r) ==
  /\ attempt[r].stage = "printed"
  /\ attempt' = [attempt EXCEPT ![r].stage = "reported"]
  /\ usage' = {u \in usage : u[1] = r => attempt[r].paper[u[2]] = {}}
                \cup UNION {{r} \X {c} \X attempt[r].paper[c] : c \in TemplateCourses}
  /\ UNCHANGED <<grid, stored, visible, moved, redrawn, templateEdits>>

QuestionNext ==
  \/ \E c \in TemplateCourses :
        \/ AddCourse(c) \/ RemoveCourse(c) \/ Increment(c) \/ Decrement(c)
        \/ TypeQuantity(c) \/ TypeDifficulty(c) \/ CatalogChanges(c)
  \/ OpenTemplate \/ SaveTemplate
  \/ \E r \in Attempts :
        \/ ReadInputs(r) \/ WriteAttempt(r) \/ LoadCourseQuestions(r) \/ RecordUsage(r)
        \/ \E c \in TemplateCourses : PlanCourse(r, c)

QuestionSpec == QuestionInit /\ [][QuestionNext]_questionVars

-----------------------------------------------------------------------------
\* A planned course has as many slots as its template asked for, and, when its
\* counts were distributed by the page itself or are all positive, exactly that
\* many of each difficulty: the defaults that generate-material puts in place
\* of a zero, and the split over the subtopics, change nothing.
PlanAsConfigured ==
  \A r \in Attempts, c \in TemplateCourses :
    LET asked == attempt[r].asked[c]
        slots == attempt[r].slots[c]
    IN slots # NewAttempt.slots[c] =>
         /\ SumDifficulty(slots) = asked.qty
         /\ (asked.auto \/ \A d \in Difficulties : asked[d] > 0)
              => \A d \in Difficulties : slots[d] = asked[d]

\* A generation that read the ledger after another one of the cycle was in it prints none
\* of that one's questions of the same course, from its slots or drawn by the worker,
\* however long it then took and however often it was retried. Not when a retry of the
\* other has since drawn other questions, for topics the catalog moved: what it leaves out
\* was read before this generation printed its own.
NoRepetition ==
  \A r \in Attempts : \A o \in attempt[r].seen, c \in TemplateCourses :
    (/\ <<r, o>> \notin redrawn
     /\ attempt[r].stage \in {"printed", "reported"}
     /\ attempt[r].asked[c].qty > 0)
       => attempt[r].paper[c] \cap attempt[o].paper[c] = {}
=============================================================================
