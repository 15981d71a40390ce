---------------------------- MODULE ScreenProofs ----------------------------
(***************************************************************************)
(* Proofs about three screens that are open in several browsers at once:   *)
(* the page of PlanScreens that shows the syllabi of a cycle; ReviewScreen,*)
(* for any reviews, calls and decisions; and SyllabusMatrix, for any       *)
(* coordinators, weeks and limits.                                         *)
(***************************************************************************)
EXTENDS PlanScreens, ReviewScreen, SyllabusMatrix, NumberFacts, FiniteSetTheorems, TLAPS

-----------------------------------------------------------------------------
(* The page of the syllabi of a cycle.                                     *)

YearOrNone == Years \cup {NoYear}
SyllabiFetches ==
    [cycle : YearOrNone, watched : BOOLEAN, pc : {"sent", "answered"}, rows : BOOLEAN]
CloneModals == [open : BOOLEAN, target : YearOrNone, confirmed : BOOLEAN]

SyllabiPages ==
    [cycle : YearOrNone, busy : BOOLEAN, templates : BOOLEAN, of : YearOrNone, rows : BOOLEAN,
     failed : BOOLEAN, asked : SUBSET SyllabiFetches, overlap : BOOLEAN, modal : CloneModals]

\* The guard of the watcher is held for something that is in flight.
GuardIsHeld == page.busy => page.templates \/ \E q \in page.asked : q.watched

\* A fetch that is alone is for the cycle that is selected, and so is the list it left,
\* unless it failed.
FetchOfSelection ==
    ~page.overlap =>
        \/ page.asked = {} /\ (page.cycle # NoYear /\ ~page.failed => page.of = page.cycle)
        \/ \E q \in page.asked : page.asked = {q} /\ q.cycle = page.cycle

\* No cycle is selected behind the modal.
ModalOfSelection == page.modal.open => page.modal.target = page.cycle

SyllabiIInv == page \in SyllabiPages /\ GuardIsHeld /\ FetchOfSelection /\ ModalOfSelection

LEMMA PageFields ==
    ASSUME SyllabiIInv
    PROVE  /\ page \in SyllabiPages /\ page.cycle \in YearOrNone /\ page.asked \subseteq SyllabiFetches
           /\ page.busy \in BOOLEAN /\ page.templates \in BOOLEAN /\ page.overlap \in BOOLEAN
           /\ page.modal \in CloneModals
           /\ GuardIsHeld /\ FetchOfSelection /\ ModalOfSelection
<1> QED
  BY DEF SyllabiIInv, SyllabiPages

LEMMA ClosedTyped == Closed \in CloneModals /\ ~Closed.open
<1> QED
  BY DEF Closed, CloneModals, YearOrNone

\* A fetch of the cycle that is selected, from a page that may have had another.
LEMMA AskKeeps ==
    ASSUME SyllabiIInv, NEW record \in SyllabiPages, NEW c \in YearOrNone, NEW watched \in BOOLEAN,
           record.asked = page.asked, record.cycle = c,
           record.modal.open => record.modal.target = c,
           record.busy => watched \/ page.busy, page.templates => record.templates,
           page' = AskPage(record, c, watched)
    PROVE  SyllabiIInv'
<1> DEFINE new == [cycle |-> c, watched |-> watched, pc |-> "sent", rows |-> FALSE]
           asked == record.asked \cup {new}
           overlaps == record.asked # {}
<1>1. new \in SyllabiFetches /\ new.watched = watched /\ new.cycle = c
  BY DEF SyllabiFetches
<1>2. page' = [record EXCEPT !.asked = asked, !.overlap = overlaps]
  BY DEF AskPage, SyllabiPages
<1> HIDE DEF new
<1>3. asked \in SUBSET SyllabiFetches /\ overlaps \in BOOLEAN /\ new \in asked /\ page.asked \subseteq asked
  BY <1>1 DEF SyllabiPages
<1>4. record.asked = {} => asked = {new}
  OBVIOUS
<1> HIDE DEF asked
<1>5. /\ page' \in SyllabiPages /\ page'.asked = asked /\ page'.cycle = c
      /\ page'.busy = record.busy /\ page'.modal = record.modal /\ page'.templates = record.templates
  <2> HIDE DEF overlaps
  <2> QED
    BY <1>2, <1>3 DEF SyllabiPages
<1>6. page'.overlap <=> overlaps
  <2> HIDE DEF overlaps
  <2> QED
    BY <1>2, <1>3 DEF SyllabiPages
<1>7. GuardIsHeld'
  BY <1>1, <1>3, <1>5, PageFields DEF GuardIsHeld
<1>8. FetchOfSelection'
  BY <1>1, <1>3, <1>4, <1>5, <1>6 DEF FetchOfSelection
<1>9. ModalOfSelection'
  BY <1>5 DEF ModalOfSelection
<1> QED
  BY <1>5, <1>7, <1>8, <1>9 DEF SyllabiIInv

LEMMA SelectInv ==
    ASSUME SyllabiIInv, NEW c \in Years, SelectCycle(c)
    PROVE  SyllabiIInv'
<1>0. /\ page \in SyllabiPages /\ page.busy \in BOOLEAN /\ page.templates \in BOOLEAN /\ c \in YearOrNone
      /\ ~page.modal.open /\ GuardIsHeld
  BY PageFields DEF SelectCycle, YearOrNone
<1>1. CASE page.busy
  <2> DEFINE overlaps == page.overlap \/ page.templates \/ page.asked # {}
  <2>1. page' = [page EXCEPT !.cycle = c, !.overlap = overlaps]
    BY <1>0, <1>1 DEF SelectCycle, SyllabiPages
  <2>2. overlaps \in BOOLEAN /\ overlaps
    BY <1>0, <1>1 DEF GuardIsHeld
  <2> HIDE DEF overlaps
  <2>3. /\ page' \in SyllabiPages /\ page'.asked = page.asked /\ page'.overlap
        /\ page'.busy = page.busy /\ page'.modal = page.modal /\ page'.templates = page.templates
    BY <1>0, <2>1, <2>2 DEF SyllabiPages
  <2> QED
    BY <1>0, <2>3 DEF SyllabiIInv, GuardIsHeld, FetchOfSelection, ModalOfSelection
<1>2. CASE ~page.busy
  <2> DEFINE record == [page EXCEPT !.cycle = c, !.busy = TRUE, !.templates = TRUE]
  <2>1. /\ record \in SyllabiPages /\ record.asked = page.asked /\ record.cycle = c
        /\ record.modal = page.modal /\ record.templates
    BY <1>0 DEF SyllabiPages
  <2>2. page' = AskPage(record, c, TRUE)
    BY <1>2 DEF SelectCycle
  <2> HIDE DEF record
  <2>3. TRUE \in BOOLEAN
    OBVIOUS
  <2> QED
    BY <1>0, <2>1, <2>2, <2>3, AskKeeps
<1> QED
  BY <1>1, <1>2

LEMMA BackInv ==
    ASSUME SyllabiIInv, BackToList
    PROVE  SyllabiIInv'
<1> DEFINE record == page
           c == page.cycle
<1>1. /\ record \in SyllabiPages /\ c \in YearOrNone /\ record.asked = page.asked /\ record.cycle = c
      /\ record.modal.open => record.modal.target = c
      /\ (record.busy => page.busy) /\ (page.templates => record.templates)
      /\ FALSE \in BOOLEAN
  BY PageFields DEF ModalOfSelection
<1>2. page' = AskPage(record, c, FALSE)
  BY DEF BackToList
<1> HIDE DEF record, c
<1> QED
  BY <1>1, <1>2, AskKeeps

LEMMA CloneInv ==
    ASSUME SyllabiIInv, ConfirmClone
    PROVE  SyllabiIInv'
<1> DEFINE record == [page EXCEPT !.modal = Closed]
           c == page.modal.target
<1>0. page \in SyllabiPages /\ c = page.cycle /\ c \in YearOrNone
  BY PageFields DEF ConfirmClone, ModalOfSelection
<1>1. /\ record \in SyllabiPages /\ record.asked = page.asked /\ record.cycle = page.cycle
      /\ record.busy = page.busy /\ record.modal = Closed /\ record.templates = page.templates
  <2> HIDE DEF Closed
  <2> QED
    BY <1>0, ClosedTyped DEF SyllabiPages
<1>2. page' = AskPage(record, c, FALSE) /\ FALSE \in BOOLEAN
  BY DEF ConfirmClone
<1> HIDE DEF record, c
<1> QED
  BY <1>0, <1>1, <1>2, ClosedTyped, AskKeeps

LEMMA ServeSyllabiInv ==
    ASSUME SyllabiIInv, ServeSyllabi
    PROVE  SyllabiIInv'
<1>1. PICK q \in page.asked :
        page' = [page EXCEPT !.asked = (@ \ {q}) \cup
                   {[q EXCEPT !.pc = "answered", !.rows = q.cycle \in planned]}]
  BY DEF ServeSyllabi
<1> DEFINE found == q.cycle \in planned
           served == [q EXCEPT !.pc = "answered", !.rows = found]
           asked == (page.asked \ {q}) \cup {served}
<1>2. found \in BOOLEAN /\ q \in SyllabiFetches /\ page \in SyllabiPages
  BY PageFields
<1>3. served \in SyllabiFetches /\ served.watched = q.watched /\ served.cycle = q.cycle
  <2> HIDE DEF found
  <2> QED
    BY <1>2 DEF SyllabiFetches
<1> HIDE DEF served
<1>4. asked \in SUBSET SyllabiFetches
  BY <1>2, <1>3, PageFields
<1>5. page' = [page EXCEPT !.asked = asked]
  BY <1>1, <1>2 DEF SyllabiPages, served
<1>6. /\ page' \in SyllabiPages /\ page'.asked = asked /\ page'.cycle = page.cycle
      /\ page'.busy = page.busy /\ page'.modal = page.modal /\ page'.overlap = page.overlap
      /\ page'.templates = page.templates /\ page'.failed = page.failed
  <2> HIDE DEF asked
  <2> QED
    BY <1>2, <1>4, <1>5 DEF SyllabiPages
<1>7. GuardIsHeld'
  BY <1>3, <1>6, PageFields DEF GuardIsHeld
<1>8. FetchOfSelection'
  BY <1>3, <1>6, PageFields DEF FetchOfSelection
<1> QED
  BY <1>6, <1>7, <1>8, PageFields DEF SyllabiIInv, ModalOfSelection

\* A fetch is over: answered, with the syllabi of its cycle, or failed.
LEMMA FetchOver ==
    ASSUME SyllabiIInv, NEW q \in page.asked, NEW of \in YearOrNone, NEW found \in BOOLEAN,
           NEW failed \in BOOLEAN, failed \/ of = q.cycle,
           page' = [page EXCEPT !.asked = @ \ {q}, !.of = of, !.rows = found,
                                !.failed = failed, !.busy = BusyAfter(q)]
    PROVE  SyllabiIInv'
<1> DEFINE asked == page.asked \ {q}
           busy == BusyAfter(q)
<1>1. q \in SyllabiFetches /\ page \in SyllabiPages /\ asked \in SUBSET SyllabiFetches
  BY PageFields DEF SyllabiFetches
<1>2. busy \in BOOLEAN /\ (busy => page.busy /\ (page.templates \/ ~q.watched))
  BY DEF BusyAfter
<1>3. page' = [page EXCEPT !.asked = asked, !.of = of, !.rows = found, !.failed = failed, !.busy = busy]
  BY <1>1 DEF SyllabiPages
<1>4. /\ page' \in SyllabiPages /\ page'.asked = asked /\ page'.cycle = page.cycle
      /\ page'.of = of /\ page'.failed = failed /\ page'.templates = page.templates
      /\ page'.modal = page.modal /\ page'.overlap = page.overlap
  <2> HIDE DEF asked, busy
  <2> QED
    BY <1>1, <1>2, <1>3 DEF SyllabiPages
<1>5. page'.busy <=> busy
  <2> HIDE DEF asked, busy
  <2> QED
    BY <1>1, <1>2, <1>3 DEF SyllabiPages
<1>6. GuardIsHeld'
  BY <1>2, <1>4, <1>5, PageFields DEF GuardIsHeld
<1>7. FetchOfSelection'
  BY <1>4, PageFields DEF FetchOfSelection
<1> QED
  BY <1>4, <1>6, <1>7, PageFields DEF SyllabiIInv, ModalOfSelection

LEMMA SyllabiHeardInv ==
    ASSUME SyllabiIInv, FetchSyllabiByCycle
    PROVE  SyllabiIInv'
<1>1. PICK q \in page.asked :
        page' = [page EXCEPT !.asked = @ \ {q}, !.of = q.cycle, !.rows = q.rows,
                             !.failed = FALSE, !.busy = BusyAfter(q)]
  BY DEF FetchSyllabiByCycle
<1>2. q.cycle \in YearOrNone /\ q.rows \in BOOLEAN /\ FALSE \in BOOLEAN
  BY PageFields DEF SyllabiFetches
<1> QED
  BY <1>1, <1>2, FetchOver

LEMMA SyllabiFailInv ==
    ASSUME SyllabiIInv, FetchSyllabiFails
    PROVE  SyllabiIInv'
<1>1. PICK q \in page.asked :
        page' = [page EXCEPT !.asked = @ \ {q}, !.failed = TRUE, !.busy = BusyAfter(q)]
  BY DEF FetchSyllabiFails
<1>2. page \in SyllabiPages /\ page.of \in YearOrNone /\ page.rows \in BOOLEAN /\ TRUE \in BOOLEAN
  BY PageFields DEF SyllabiPages
<1>3. page' = [page EXCEPT !.asked = @ \ {q}, !.of = page.of, !.rows = page.rows,
                           !.failed = TRUE, !.busy = BusyAfter(q)]
  BY <1>1, <1>2 DEF SyllabiPages
<1> QED
  BY <1>2, <1>3, FetchOver

LEMMA TemplatesInv ==
    ASSUME SyllabiIInv, TemplatesAnswered \/ TemplatesFail
    PROVE  SyllabiIInv'
<1>0. page \in SyllabiPages /\ page.asked \subseteq SyllabiFetches
  BY PageFields
<1>1. CASE TemplatesAnswered
  <2> DEFINE busy == \E q \in page.asked : q.watched
  <2>1. page' = [page EXCEPT !.templates = FALSE, !.busy = busy] /\ busy \in BOOLEAN
    BY <1>0, <1>1 DEF TemplatesAnswered, SyllabiPages
  <2> HIDE DEF busy
  <2>2. /\ page' \in SyllabiPages /\ page'.asked = page.asked /\ page'.cycle = page.cycle
        /\ page'.of = page.of /\ page'.failed = page.failed /\ page'.busy = busy
        /\ page'.modal = page.modal /\ page'.overlap = page.overlap
    BY <1>0, <2>1 DEF SyllabiPages
  <2>3. GuardIsHeld'
    BY <2>2 DEF GuardIsHeld, busy
  <2> QED
    BY <2>2, <2>3, PageFields DEF SyllabiIInv, FetchOfSelection, ModalOfSelection
<1>2. CASE TemplatesFail
  <2> DEFINE asked == {[q EXCEPT !.watched = FALSE] : q \in page.asked}
  <2>1. page' = [page EXCEPT !.templates = FALSE, !.busy = FALSE, !.asked = asked]
    BY <1>0, <1>2 DEF TemplatesFail, SyllabiPages
  <2>2. \A q \in page.asked : /\ [q EXCEPT !.watched = FALSE] \in SyllabiFetches
                               /\ [q EXCEPT !.watched = FALSE].cycle = q.cycle
    BY <1>0 DEF SyllabiFetches
  <2>3. asked \in SUBSET SyllabiFetches
    BY <2>2
  <2>4. \A q \in page.asked : page.asked = {q} => asked = {[q EXCEPT !.watched = FALSE]}
    OBVIOUS
  <2>5. page.asked = {} => asked = {}
    OBVIOUS
  <2>6. ASSUME NEW q \in page.asked, page.asked = {q}, q.cycle = page.cycle
        PROVE  \E p \in asked : asked = {p} /\ p.cycle = page.cycle
    <3>1. [q EXCEPT !.watched = FALSE] \in asked
      OBVIOUS
    <3> QED
      BY <2>2, <2>4, <2>6, <3>1
  <2> HIDE DEF asked
  <2>7. /\ page' \in SyllabiPages /\ page'.asked = asked /\ page'.cycle = page.cycle
        /\ page'.of = page.of /\ page'.failed = page.failed /\ ~page'.busy
        /\ page'.modal = page.modal /\ page'.overlap = page.overlap
    BY <1>0, <2>1, <2>3 DEF SyllabiPages
  <2>8. FetchOfSelection'
    BY <2>5, <2>6, <2>7, PageFields DEF FetchOfSelection
  <2> QED
    BY <2>7, <2>8, PageFields DEF SyllabiIInv, GuardIsHeld, ModalOfSelection
<1> QED
  BY <1>1, <1>2

LEMMA ModalInv ==
    ASSUME SyllabiIInv, OpenCycleCloneModal \/ ConfirmOverwrite \/ DismissModal
    PROVE  SyllabiIInv'
<1>0. page \in SyllabiPages /\ page.modal \in CloneModals /\ page.cycle \in YearOrNone
  BY PageFields
<1>1. ASSUME NEW modal \in CloneModals, page' = [page EXCEPT !.modal = modal],
             modal.open => modal.target = page.cycle
      PROVE  SyllabiIInv'
  <2>1. /\ page' \in SyllabiPages /\ page'.asked = page.asked /\ page'.cycle = page.cycle
        /\ page'.of = page.of /\ page'.busy = page.busy /\ page'.modal = modal
        /\ page'.overlap = page.overlap /\ page'.templates = page.templates
        /\ page'.failed = page.failed
    BY <1>0, <1>1 DEF SyllabiPages
  <2> QED
    BY <1>1, <2>1, PageFields DEF SyllabiIInv, GuardIsHeld, FetchOfSelection, ModalOfSelection
<1>2. CASE OpenCycleCloneModal
  <2> DEFINE modal == [open |-> TRUE, target |-> page.cycle, confirmed |-> FALSE]
  <2>1. modal \in CloneModals /\ modal.target = page.cycle
    BY <1>0 DEF CloneModals
  <2>2. page' = [page EXCEPT !.modal = modal]
    BY <1>2 DEF OpenCycleCloneModal
  <2> HIDE DEF modal
  <2> QED
    BY <1>1, <2>1, <2>2
<1>3. CASE ConfirmOverwrite
  <2> DEFINE modal == [page.modal EXCEPT !.confirmed = TRUE]
  <2>1. modal \in CloneModals /\ modal.target = page.modal.target /\ page.modal.open
    BY <1>0, <1>3 DEF CloneModals, ConfirmOverwrite
  <2>2. page' = [page EXCEPT !.modal = modal]
    BY <1>0, <1>3 DEF ConfirmOverwrite, SyllabiPages
  <2> HIDE DEF modal
  <2> QED
    BY <1>1, <2>1, <2>2, PageFields DEF ModalOfSelection
<1>4. CASE DismissModal
  <2>1. page' = [page EXCEPT !.modal = Closed]
    BY <1>4 DEF DismissModal
  <2> QED
    BY <1>1, <2>1, ClosedTyped
<1> QED
  BY <1>2, <1>3, <1>4

LEMMA ListKeeps ==
    ASSUME SyllabiIInv, page' = page
    PROVE  SyllabiIInv'
<1> QED
  BY DEF SyllabiIInv, GuardIsHeld, FetchOfSelection, ModalOfSelection

LEMMA SyllabiInitially == ScreensInit => SyllabiIInv
<1> SUFFICES ASSUME ScreensInit PROVE SyllabiIInv
  OBVIOUS
<1>1. page = [cycle |-> NoYear, busy |-> FALSE, templates |-> FALSE, of |-> NoYear, rows |-> FALSE,
              failed |-> FALSE, asked |-> {}, overlap |-> FALSE, modal |-> Closed]
  BY DEF ScreensInit
<1>2. page \in SyllabiPages
  <2> HIDE DEF Closed, NoYear
  <2>1. NoYear \in YearOrNone
    BY DEF YearOrNone
  <2> QED
    BY <1>1, <2>1, ClosedTyped DEF SyllabiPages
<1>3. GuardIsHeld /\ FetchOfSelection /\ ModalOfSelection
  <2> HIDE DEF Closed, NoYear
  <2> QED
    BY <1>1, ClosedTyped DEF GuardIsHeld, FetchOfSelection, ModalOfSelection
<1> QED
  BY <1>2, <1>3 DEF SyllabiIInv

LEMMA SyllabiStep == SyllabiIInv /\ [ScreensNext]_screenVars => SyllabiIInv'
<1>1. ASSUME SyllabiIInv, ScreensNext PROVE SyllabiIInv'
  <2>1. CASE \/ \E search \in BOOLEAN : SearchCycles(search)
             \/ OpenCycles \/ Scroll \/ ServePage \/ PageAnswered \/ PageFails \/ OthersChangeCycles
             \/ \E c \in Years : SyllabusCreated(c)
    <3>1. page' = page
      BY <2>1 DEF SearchCycles, OpenCycles, Scroll, ServePage, PageAnswered, PageFails,
         OthersChangeCycles, SyllabusCreated, pageVars
    <3> QED
      BY <1>1, <3>1, ListKeeps
  <2>2. CASE \E c \in Years : SelectCycle(c)
    BY <1>1, <2>2, SelectInv
  <2>3. CASE \/ BackToList \/ ServeSyllabi \/ FetchSyllabiByCycle \/ FetchSyllabiFails
             \/ TemplatesAnswered \/ TemplatesFail
    BY <1>1, <2>3, BackInv, ServeSyllabiInv, SyllabiHeardInv, SyllabiFailInv, TemplatesInv
  <2>4. CASE OpenCycleCloneModal \/ ConfirmOverwrite \/ ConfirmClone \/ DismissModal
    BY <1>1, <2>4, ModalInv, CloneInv
  <2> QED
    BY <1>1, <2>1, <2>2, <2>3, <2>4 DEF ScreensNext
<1>2. ASSUME SyllabiIInv, UNCHANGED screenVars PROVE SyllabiIInv'
  BY <1>2, ListKeeps DEF screenVars
<1> QED
  BY <1>1, <1>2

\* Every reachable state satisfies the invariant, for any cycles and moves.
THEOREM SyllabiInvariant == ScreensSpec => []SyllabiIInv
<1> QED
  BY SyllabiInitially, SyllabiStep, PTL DEF ScreensSpec

\* Once every fetch is answered the page shows the syllabi of the selected cycle, unless
\* the last one failed, or a selection was made while the guard was held or a fetch while
\* another was in flight (pages/syllabus/index.vue:52).
THEOREM SelectionIsShown == ScreensSpec => []SyllabiOfSelection
<1>1. SyllabiIInv => SyllabiOfSelection
  BY DEF SyllabiIInv, FetchOfSelection, SyllabiOfSelection
<1> QED
  BY <1>1, SyllabiInvariant, PTL

-----------------------------------------------------------------------------
(* The review of generated questions in one browser.                       *)

\* What a call carries, whatever its kind.
CallShape(c) ==
    /\ c = [kind |-> c.kind, of |-> c.of, version |-> c.version, decisions |-> c.decisions,
            warnings |-> c.warnings, shownOf |-> c.shownOf, shown |-> c.shown,
            pc |-> c.pc, heard |-> c.heard, answer |-> c.answer]
    /\ c.kind \in {"review", "draft", "approve"} /\ c.version \in Nat
    /\ c.kind # "draft" => c.of \in Reviews

\* Slots that were read with a version are those of the row as long as it has it.
ReadAt(m, version, slots) ==
    /\ m \in Reviews /\ version \in Nat
    /\ version <= rows[m].version
    /\ version = rows[m].version => slots = rows[m].slots

\* The review in the store, and one that is on its way to it.
ReviewFits(r) == r # NoReview => ReadAt(r.of, r.version, r.slots)

\* The decisions of an approval turn the row it read into what the screen showed.
ApprovalFits(c) ==
    c.kind = "approve" /\ c.shownOf = c.of =>
        /\ c.version <= rows[c.of].version
        /\ c.version = rows[c.of].version => c.shown = Decide(rows[c.of].slots, c.decisions)

CallFits(c) == CallShape(c) /\ ApprovalFits(c) /\ ReviewFits(c.answer)

ReviewIInv ==
    /\ rows = [m \in Reviews |-> [version |-> rows[m].version, slots |-> rows[m].slots]]
    /\ \A m \in Reviews : rows[m].version \in Nat
    /\ list.of \in Reviews \cup {"none"}
    /\ ReviewFits(review) /\ review.version \in Nat
    /\ \A c \in calls : CallFits(c)
    /\ ApprovedAsShown

-----------------------------------------------------------------------------
\* A row changes only together with its version, which grows.
RowsGrow ==
    /\ rows' = [m \in Reviews |-> [version |-> rows'[m].version, slots |-> rows'[m].slots]]
    /\ \A m \in Reviews :
         \/ rows'[m] = rows[m]
         \/ rows'[m].version \in Nat /\ rows'[m].version > rows[m].version

LEMMA FitsStill ==
    ASSUME ReviewIInv, RowsGrow
    PROVE  /\ \A m \in Reviews : rows'[m].version \in Nat
           /\ \A r : ReviewFits(r) => ReviewFits(r)'
           /\ \A c : CallFits(c) => CallFits(c)'
<1>0. \A m \in Reviews : rows[m].version \in Nat
  BY DEF ReviewIInv
<1>1. \A m \in Reviews : rows'[m].version \in Nat
  BY <1>0 DEF RowsGrow
<1>2. ASSUME NEW m, NEW version, NEW slots, ReadAt(m, version, slots)
      PROVE  ReadAt(m, version, slots)'
  BY <1>0, <1>2 DEF ReadAt, RowsGrow
<1>3. ASSUME NEW r, ReviewFits(r) PROVE ReviewFits(r)'
  BY <1>2, <1>3 DEF ReviewFits
<1>4. ASSUME NEW c, CallFits(c) PROVE CallFits(c)'
  <2>1. ReviewFits(c.answer)'
    <3> DEFINE r == c.answer
    <3>1. ReviewFits(r)
      BY <1>4 DEF CallFits
    <3> HIDE DEF r
    <3>2. ReviewFits(r)'
      BY <1>3, <3>1
    <3> QED
      BY <3>2 DEF r
  <2>2. ApprovalFits(c)'
    <3>1. ApprovalFits(c) /\ (c.kind = "approve" => c.of \in Reviews /\ c.version \in Nat)
      BY <1>4 DEF CallFits, CallShape
    <3> QED
      BY <1>0, <3>1 DEF ApprovalFits, RowsGrow
  <2>3. CallShape(c)'
    BY <1>4 DEF CallFits, CallShape
  <2> QED
    BY <2>1, <2>2, <2>3 DEF CallFits
<1> QED
  BY <1>1, <1>3, <1>4

\* What a step has to show: how it treats the rows, its new calls, the review.
LEMMA ReviewMoves ==
    ASSUME ReviewIInv, RowsGrow, list'.of \in Reviews \cup {"none"},
           review' = review \/ (ReviewFits(review)' /\ review'.version \in Nat),
           \A c \in calls' : c \in calls \/ CallFits(c)',
           ApprovedAsShown'
    PROVE  ReviewIInv'
<1>1. \A m \in Reviews : rows'[m].version \in Nat
  BY FitsStill
<1>2. ReviewFits(review)' /\ review'.version \in Nat
  <2>1. CASE review' = review
    BY <2>1, FitsStill DEF ReviewIInv, ReviewFits, ReadAt
  <2>2. CASE review' # review
    BY <2>2
  <2> QED
    BY <2>1, <2>2
<1>3. \A c \in calls' : CallFits(c)'
  <2> SUFFICES ASSUME NEW c \in calls' PROVE CallFits(c)'
    OBVIOUS
  <2>1. c \in calls => CallFits(c)
    BY DEF ReviewIInv
  <2> QED
    BY <2>1, FitsStill
<1>4. rows' = [m \in Reviews |-> [version |-> rows'[m].version, slots |-> rows'[m].slots]]
  BY DEF RowsGrow
<1> QED
  BY <1>1, <1>2, <1>3, <1>4 DEF ReviewIInv

LEMMA SameRows ==
    ASSUME ReviewIInv, rows' = rows
    PROVE  RowsGrow /\ \A c : CallFits(c) => CallFits(c)'
<1>1. RowsGrow
  BY DEF RowsGrow, ReviewIInv
<1> QED
  BY <1>1, FitsStill

\* A step of the screen.
LEMMA ScreenKeeps ==
    ASSUME ReviewIInv, UNCHANGED <<rows, approval>>, list'.of \in Reviews \cup {"none"},
           review' = review \/ (ReviewFits(review)' /\ review'.version \in Nat),
           \A c \in calls' : c \in calls \/ CallFits(c)
    PROVE  ReviewIInv'
<1>1. \A c \in calls' : c \in calls \/ CallFits(c)'
  BY SameRows
<1>2. ApprovedAsShown'
  BY DEF ReviewIInv, ApprovedAsShown
<1> QED
  BY <1>1, <1>2, SameRows, ReviewMoves

\* A call that is sent; what it shows matters when it approves.
LEMMA CallSent ==
    ASSUME NEW kind \in {"review", "draft"}, NEW m, NEW version \in Nat, NEW decisions,
           kind = "review" => m \in Reviews
    PROVE  CallFits(Call(kind, m, version, decisions))
<1> DEFINE c == Call(kind, m, version, decisions)
<1>1. /\ c.kind = kind /\ c.of = m /\ c.version = version /\ c.answer = NoReview
      /\ CallShape(c)
  <2> HIDE DEF NoReview
  <2> QED
    BY DEF Call, CallShape
<1> HIDE DEF c
<1>2. ApprovalFits(c) /\ ReviewFits(c.answer)
  BY <1>1 DEF ApprovalFits, ReviewFits
<1>3. CallFits(c)
  BY <1>1, <1>2 DEF CallFits
<1> QED
  BY <1>3 DEF c

\* A call that is answered, refused, or whose page was loaded again.
LEMMA CallGoesOn ==
    ASSUME ReviewIInv, NEW c \in calls, NEW pc, NEW heard, NEW answer, ReviewFits(answer)
    PROVE  /\ CallFits([c EXCEPT !.pc = pc, !.answer = answer])
           /\ CallFits([c EXCEPT !.pc = pc])
           /\ CallFits([c EXCEPT !.heard = heard])
<1>0. CallFits(c)
  BY DEF ReviewIInv
<1>1. ASSUME NEW d, CallShape(d), d.kind = c.kind, d.of = c.of, d.version = c.version,
             d.decisions = c.decisions, d.shownOf = c.shownOf, d.shown = c.shown,
             ReviewFits(d.answer)
      PROVE  CallFits(d)
  BY <1>0, <1>1 DEF CallFits, ApprovalFits
<1>2. CallFits([c EXCEPT !.pc = pc, !.answer = answer])
  <2> DEFINE d == [c EXCEPT !.pc = pc, !.answer = answer]
  <2>1. /\ CallShape(d) /\ d.kind = c.kind /\ d.of = c.of /\ d.version = c.version
        /\ d.decisions = c.decisions /\ d.shownOf = c.shownOf /\ d.shown = c.shown
        /\ d.answer = answer
    <3> DEFINE e == [c EXCEPT !.pc = pc]
    <3>1. d = [e EXCEPT !.answer = answer]
      OBVIOUS
    <3>2. /\ CallShape(e) /\ e.kind = c.kind /\ e.of = c.of /\ e.version = c.version
          /\ e.decisions = c.decisions /\ e.shownOf = c.shownOf /\ e.shown = c.shown
      BY <1>0 DEF CallFits, CallShape
    <3> HIDE DEF d, e
    <3> QED
      BY <3>1, <3>2 DEF CallShape
  <2> HIDE DEF d
  <2>2. CallFits(d)
    BY <1>1, <2>1
  <2> QED
    BY <2>2 DEF d
<1>3. CallFits([c EXCEPT !.pc = pc])
  <2> DEFINE d == [c EXCEPT !.pc = pc]
  <2>1. /\ CallShape(d) /\ d.kind = c.kind /\ d.of = c.of /\ d.version = c.version
        /\ d.decisions = c.decisions /\ d.shownOf = c.shownOf /\ d.shown = c.shown
        /\ d.answer = c.answer
    BY <1>0 DEF CallFits, CallShape
  <2> HIDE DEF d
  <2>2. CallFits(d)
    BY <1>0, <1>1, <2>1 DEF CallFits
  <2> QED
    BY <2>2 DEF d
<1>4. CallFits([c EXCEPT !.heard = heard])
  <2> DEFINE d == [c EXCEPT !.heard = heard]
  <2>1. /\ CallShape(d) /\ d.kind = c.kind /\ d.of = c.of /\ d.version = c.version
        /\ d.decisions = c.decisions /\ d.shownOf = c.shownOf /\ d.shown = c.shown
        /\ d.answer = c.answer
    BY <1>0 DEF CallFits, CallShape
  <2> HIDE DEF d
  <2>2. CallFits(d)
    BY <1>0, <1>1, <2>1 DEF CallFits
  <2> QED
    BY <2>2 DEF d
<1> QED
  BY <1>2, <1>3, <1>4

-----------------------------------------------------------------------------
LEMMA OpenListInv ==
    ASSUME ReviewIInv, NEW m \in Reviews, OpenList(m)
    PROVE  ReviewIInv'
<1>1. CallFits(Call("review", m, 0, NoDecisions))
  BY CallSent
<1>2. \A c \in calls' : c \in calls \/ CallFits(c)
  BY <1>1 DEF OpenList, FetchReviewData
<1>3. list'.of = m
  BY DEF OpenList, ClosedList
<1> QED
  BY <1>2, <1>3, ScreenKeeps DEF OpenList

\* A decision on a slot: a draft is sent.
LEMMA RecordKeeps ==
    ASSUME ReviewIInv, NEW s, NEW decision, Record(s, decision), list'.of = list.of
    PROVE  ReviewIInv'
<1> DEFINE decisions == [NoDecisions EXCEPT ![s] = decision]
           version == review.version
           of == list.of
           sent == Call("draft", of, version, decisions)
<1>1. calls' = calls \cup {sent} /\ UNCHANGED <<rows, review, approval>>
  BY DEF Record
<1>2. version \in Nat /\ of \in Reviews \cup {"none"}
  BY DEF ReviewIInv
<1>3. CallFits(sent)
  <2> HIDE DEF decisions, version, of
  <2> QED
    BY <1>2, CallSent
<1> HIDE DEF sent
<1>4. \A c \in calls' : c \in calls \/ CallFits(c)
  BY <1>1, <1>3
<1> QED
  BY <1>1, <1>2, <1>4, ScreenKeeps

LEMMA DecisionInv ==
    ASSUME ReviewIInv,
           (\E s \in AllSlots : RemoveSlot(s)) \/ (\E q \in BankQuestions : SelectQuestion(q))
    PROVE  ReviewIInv'
<1>1. ASSUME NEW s \in AllSlots, RemoveSlot(s) PROVE ReviewIInv'
  BY <1>1, RecordKeeps DEF RemoveSlot
<1>2. ASSUME NEW q \in BankQuestions, SelectQuestion(q) PROVE ReviewIInv'
  <2> DEFINE s == list.slot
  <2>1. Record(s, q)
    BY <1>2 DEF SelectQuestion
  <2>2. list'.of = list.of
    BY <1>2 DEF SelectQuestion
  <2> HIDE DEF s
  <2> QED
    BY <2>1, <2>2, RecordKeeps
<1> QED
  BY <1>1, <1>2

\* What is approved is what the screen shows of the review the store holds.
LEMMA ClickInv ==
    ASSUME ReviewIInv, ClickApprove
    PROVE  ReviewIInv'
<1> DEFINE sent == [Call("approve", list.of, review.version, pending) EXCEPT
                      !.warnings = list.warnings, !.shownOf = review.of, !.shown = Shown]
           displayed == Shown
<1>0. /\ list.of \in Reviews /\ review.version \in Nat
      /\ ReadAt(review.of, review.version, review.slots)
  BY DEF ClickApprove, Listing, ReviewIInv, ReviewFits
<1>1. /\ sent.kind = "approve" /\ sent.of = list.of /\ sent.version = review.version
      /\ sent.decisions = pending /\ sent.shownOf = review.of /\ sent.shown = displayed
      /\ sent.answer = NoReview
      /\ CallShape(sent)
  <2> DEFINE first == Call("approve", list.of, review.version, pending)
             warnings == list.warnings
             of == review.of
  <2>1. /\ CallShape(first) /\ first.kind = "approve" /\ first.of = list.of
        /\ first.version = review.version /\ first.decisions = pending /\ first.answer = NoReview
    <3> HIDE DEF NoReview
    <3> QED
      BY <1>0 DEF Call, CallShape
  <2>2. sent = [first EXCEPT !.warnings = warnings, !.shownOf = of, !.shown = displayed]
    OBVIOUS
  <2> HIDE DEF sent, first, warnings, of, displayed, NoReview
  <2>3. /\ CallShape(sent) /\ sent.kind = first.kind /\ sent.of = first.of
        /\ sent.version = first.version /\ sent.decisions = first.decisions
        /\ sent.shownOf = of /\ sent.shown = displayed /\ sent.answer = first.answer
    <3> DEFINE d == [first EXCEPT !.warnings = warnings]
               e == [d EXCEPT !.shownOf = of]
    <3>1. sent = [e EXCEPT !.shown = displayed]
      BY <2>2
    <3>2. /\ CallShape(d) /\ d.kind = first.kind /\ d.of = first.of /\ d.version = first.version
          /\ d.decisions = first.decisions /\ d.answer = first.answer
      BY <2>1 DEF CallShape
    <3> HIDE DEF d
    <3>3. /\ CallShape(e) /\ e.kind = first.kind /\ e.of = first.of /\ e.version = first.version
          /\ e.decisions = first.decisions /\ e.shownOf = of /\ e.answer = first.answer
      BY <3>2 DEF CallShape
    <3> HIDE DEF e
    <3> QED
      BY <3>1, <3>3 DEF CallShape
  <2> QED
    BY <2>1, <2>3 DEF of
<1> HIDE DEF sent
<1>3. CallShape(sent) /\ ReviewFits(sent.answer)
  BY <1>1 DEF ReviewFits
<1>4. ApprovalFits(sent)
  <2>1. displayed = Decide(review.slots, pending)
    BY DEF Shown
  <2> HIDE DEF displayed
  <2> QED
    BY <1>1, <1>0, <2>1 DEF ApprovalFits, ReadAt
<1>5. calls' = calls \cup {sent}
  BY DEF ClickApprove, sent
<1>6. \A c \in calls' : c \in calls \/ CallFits(c)
  BY <1>3, <1>4, <1>5 DEF CallFits
<1>7. list'.of \in Reviews \cup {"none"}
  BY <1>0 DEF ClickApprove
<1> QED
  BY <1>6, <1>7, ScreenKeeps DEF ClickApprove

LEMMA QuietInv ==
    ASSUME ReviewIInv,
           \/ CloseList \/ OtherStoreCall \/ CloseSubView \/ ContinueWithWarnings
           \/ \E s \in AllSlots : OpenSearch(s) \/ RestoreSlot(s)
    PROVE  ReviewIInv'
<1>1. UNCHANGED <<rows, review, calls, approval>>
  BY DEF CloseList, OtherStoreCall, CloseSubView, ContinueWithWarnings, OpenSearch, RestoreSlot
<1>2. list'.of \in {list.of, "none"}
  <2>1. ASSUME NEW s, OpenSearch(s) PROVE list'.of = list.of
    <3> DEFINE found == Alternatives({Shown[t] : t \in DOMAIN Shown} \ {Shown[s]})
    <3>1. list' = [list EXCEPT !.slot = s, !.found = found]
      BY <2>1 DEF OpenSearch
    <3> HIDE DEF found
    <3> QED
      BY <3>1
  <2>2. ASSUME NEW s, RestoreSlot(s) PROVE list'.of = list.of
    BY <2>2 DEF RestoreSlot
  <2>3. ASSUME CloseList \/ OtherStoreCall \/ CloseSubView PROVE list'.of \in {list.of, "none"}
    <3>1. CloseList => list'.of = "none"
      BY DEF CloseList, ClosedList
    <3>2. CloseSubView => list'.of = list.of
      BY DEF CloseSubView
    <3> QED
      BY <2>3, <3>1, <3>2 DEF OtherStoreCall
  <2>4. ASSUME ContinueWithWarnings PROVE list'.of = list.of
    <3> DEFINE warnings == ~list.warnings
    <3>1. list' = [list EXCEPT !.warnings = ~@]
      BY <2>4 DEF ContinueWithWarnings
    <3> QED
      BY <3>1
  <2> QED
    BY <2>1, <2>2, <2>3, <2>4
<1>3. list'.of \in Reviews \cup {"none"}
  BY <1>2 DEF ReviewIInv
<1> QED
  BY <1>1, <1>3, ScreenKeeps

LEMMA ReloadInv ==
    ASSUME ReviewIInv, ReloadPage
    PROVE  ReviewIInv'
<1>1. \A c \in calls' : c \in calls \/ CallFits(c)
  <2> SUFFICES ASSUME NEW d \in calls, d.pc = "sent" PROVE CallFits([d EXCEPT !.heard = FALSE])
    BY DEF ReloadPage
  <2>1. ReviewFits(NoReview)
    BY DEF ReviewFits
  <2> QED
    BY <2>1, CallGoesOn
<1>2. review' = NoReview /\ NoReview.version \in Nat
  BY DEF ReloadPage, NoReview
<1>3. ReviewFits(review)' /\ review'.version \in Nat
  BY <1>2 DEF ReviewFits
<1>4. list'.of \in Reviews \cup {"none"}
  BY DEF ReloadPage, ClosedList
<1> QED
  BY <1>1, <1>3, <1>4, ScreenKeeps DEF ReloadPage

-----------------------------------------------------------------------------
\* What the server makes of a call, before the rows.
LEMMA AnsweredFits ==
    ASSUME ReviewIInv, NEW c \in calls, NEW answer, ReviewFits(answer), Answered(c, answer)
    PROVE  \A d \in calls' : CallFits(d)
<1>1. CallFits([c EXCEPT !.pc = "ok", !.answer = answer])
  BY CallGoesOn
<1> QED
  BY <1>1 DEF Answered, ReviewIInv

LEMMA RefusedFits ==
    ASSUME ReviewIInv, NEW c \in calls, Refused(c)
    PROVE  \A d \in calls' : CallFits(d)
<1>1. ReviewFits(NoReview)
  BY DEF ReviewFits
<1>2. CallFits([c EXCEPT !.pc = "failed"])
  BY <1>1, CallGoesOn
<1> QED
  BY <1>2 DEF Refused, ReviewIInv

\* A step of the server, or of the other administrator.
LEMMA ServerKeeps ==
    ASSUME ReviewIInv, RowsGrow, UNCHANGED <<review, list>>, \A d \in calls' : CallFits(d),
           ApprovedAsShown'
    PROVE  ReviewIInv'
<1>1. \A d \in calls' : CallFits(d)'
  BY FitsStill
<1>2. list'.of \in Reviews \cup {"none"}
  BY DEF ReviewIInv
<1> QED
  BY <1>1, <1>2, ReviewMoves

LEMMA WriteGrows ==
    ASSUME ReviewIInv, NEW m, NEW n \in Nat \ {0}, NEW slots,
           rows' = [rows EXCEPT ![m] = [version |-> rows[m].version + n, slots |-> slots]]
    PROVE  RowsGrow
<1>1. /\ rows = [k \in Reviews |-> [version |-> rows[k].version, slots |-> rows[k].slots]]
      /\ \A k \in Reviews : rows[k].version \in Nat
  BY DEF ReviewIInv
<1>2. \A k \in Reviews :
        rows'[k] = IF k = m THEN [version |-> rows[m].version + n, slots |-> slots] ELSE rows[k]
  BY <1>1
<1>3. rows' = [k \in Reviews |-> rows'[k]]
  BY <1>1
<1>4. \A k \in Reviews : rows'[k] = [version |-> rows'[k].version, slots |-> rows'[k].slots]
  BY <1>1, <1>2
<1>5. \A k \in Reviews : rows'[k] = rows[k] \/ (rows'[k].version \in Nat /\ rows'[k].version > rows[k].version)
  BY <1>1, <1>2
<1> QED
  BY <1>3, <1>4, <1>5 DEF RowsGrow

LEMMA ServeInv ==
    ASSUME ReviewIInv, NEW c \in calls, ServeCall(c)
    PROVE  ReviewIInv'
<1>0. /\ CallFits(c) /\ UNCHANGED <<review, list>>
      /\ \A m \in Reviews : rows[m].version \in Nat
  BY DEF ServeCall, ReviewIInv
<1>1. CASE ServeReview(c)
  <2> DEFINE answer == [of |-> c.of, version |-> rows[c.of].version, slots |-> rows[c.of].slots]
  <2>1. c.of \in Reviews
    BY <1>0, <1>1 DEF ServeReview, CallFits, CallShape
  <2>2. ReviewFits(answer)
    BY <2>1, <1>0 DEF ReviewFits, ReadAt
  <2>3. Answered(c, answer) /\ UNCHANGED <<rows, approval>>
    BY <1>1 DEF ServeReview
  <2> HIDE DEF answer
  <2>4. \A d \in calls' : CallFits(d)
    BY <2>2, <2>3, AnsweredFits
  <2>5. ApprovedAsShown'
    BY <2>3 DEF ReviewIInv, ApprovedAsShown
  <2> QED
    BY <1>0, <2>3, <2>4, <2>5, SameRows, ServerKeeps
<1>2. CASE ServeDraft(c)
  <2> DEFINE m == c.of
             slots == Decide(rows[c.of].slots, c.decisions)
  <2>1. rows' = rows \/ rows' = [rows EXCEPT ![m] = [version |-> rows[m].version + 1, slots |-> slots]]
    <3>1. m \in Reviews => rows[m] = [version |-> rows[m].version, slots |-> rows[m].slots]
      BY DEF ReviewIInv
    <3>2. CASE m \in Reviews
      BY <1>2, <3>1, <3>2 DEF ServeDraft, ReviewIInv
    <3>3. CASE m \notin Reviews
      BY <1>2, <3>3 DEF ServeDraft, ReviewIInv
    <3> QED
      BY <3>2, <3>3
  <2>2. RowsGrow
    <3> HIDE DEF m, slots
    <3>1. 1 \in Nat \ {0}
      OBVIOUS
    <3> QED
      BY <2>1, <3>1, WriteGrows, SameRows
  <2>3. \A d \in calls' : CallFits(d)
    BY <1>2 DEF ServeDraft, ReviewIInv
  <2>4. ApprovedAsShown'
    BY <1>2 DEF ServeDraft, ReviewIInv, ApprovedAsShown
  <2> QED
    BY <1>0, <2>2, <2>3, <2>4, ServerKeeps
<1>3. CASE ServeApprove(c)
  <2> DEFINE m == c.of
             result == Decide(rows[c.of].slots, c.decisions)
  <2>0. c.kind = "approve" /\ m \in Reviews
    BY <1>0, <1>3 DEF ServeApprove, CallFits, CallShape
  <2>1. CASE /\ GuardVersion(c) /\ Answered(c, NoReview)
             /\ rows' = [rows EXCEPT ![c.of] = [version |-> @.version + 2, slots |-> result]]
             /\ approval' = [of |-> c.of, shownOf |-> c.shownOf, shown |-> c.shown, result |-> result]
    <3>1. rows' = [rows EXCEPT ![m] = [version |-> rows[m].version + 2, slots |-> result]]
      BY <2>0, <2>1 DEF ReviewIInv
    <3>2. RowsGrow
      <4> HIDE DEF m, result
      <4>1. 2 \in Nat \ {0}
        OBVIOUS
      <4> QED
        BY <3>1, <4>1, WriteGrows
    <3>3. \A d \in calls' : CallFits(d)
      <4>1. ReviewFits(NoReview)
        BY DEF ReviewFits
      <4> QED
        BY <4>1, <2>1, AnsweredFits
    <3>4. c.shownOf = c.of => result = c.shown
      BY <1>0, <2>0, <2>1 DEF CallFits, ApprovalFits, GuardVersion
    <3>5. ApprovedAsShown'
      <4> HIDE DEF result
      <4> QED
        BY <2>1, <3>4 DEF ApprovedAsShown
    <3> QED
      BY <1>0, <3>2, <3>3, <3>5, ServerKeeps
  <2>2. CASE Refused(c) /\ UNCHANGED <<rows, approval>>
    <3>1. ApprovedAsShown'
      BY <2>2 DEF ReviewIInv, ApprovedAsShown
    <3>2. \A d \in calls' : CallFits(d)
      BY <2>2, RefusedFits
    <3> QED
      BY <1>0, <2>2, <3>1, <3>2, SameRows, ServerKeeps
  <2> QED
    BY <1>3, <2>1, <2>2 DEF ServeApprove
<1> QED
  BY <1>1, <1>2, <1>3 DEF ServeCall

LEMMA LoseInv ==
    ASSUME ReviewIInv, NEW c \in calls, LoseCall(c)
    PROVE  ReviewIInv'
<1>1. UNCHANGED <<rows, review, list, approval>> /\ Refused(c)
  BY DEF LoseCall
<1>2. ApprovedAsShown'
  BY <1>1 DEF ReviewIInv, ApprovedAsShown
<1> QED
  BY <1>1, <1>2, RefusedFits, SameRows, ServerKeeps

LEMMA OtherDraftInv ==
    ASSUME ReviewIInv, NEW m \in Reviews, NEW s, NEW decision, OtherDraft(m, s, decision)
    PROVE  ReviewIInv'
<1> DEFINE slots == [rows[m].slots EXCEPT ![s] = decision]
<1>1. rows' = [rows EXCEPT ![m] = [version |-> rows[m].version + 1, slots |-> slots]]
  BY DEF OtherDraft, ReviewIInv
<1>2. RowsGrow
  <2> HIDE DEF slots
  <2>1. 1 \in Nat \ {0}
    OBVIOUS
  <2> QED
    BY <1>1, <2>1, WriteGrows
<1>3. UNCHANGED <<review, list, calls, approval>>
  BY DEF OtherDraft
<1>4. ApprovedAsShown' /\ \A d \in calls' : CallFits(d)
  BY <1>3 DEF ReviewIInv, ApprovedAsShown
<1> QED
  BY <1>2, <1>3, <1>4, ServerKeeps

LEMMA HearInv ==
    ASSUME ReviewIInv, NEW c \in calls, HearCall(c)
    PROVE  ReviewIInv'
<1>0. CallFits(c) /\ UNCHANGED <<rows, approval>>
  BY DEF HearCall, ReviewIInv
<1>1. \A d \in calls' : d \in calls
  BY DEF HearCall
<1>2. list'.of \in Reviews \cup {"none"}
  BY DEF HearCall, HearReview, HearApprove, ClosedList, ReviewIInv
<1>3. review' \in {review, c.answer}
  BY DEF HearCall, HearReview, HearApprove
<1>4. review' = review \/ (ReviewFits(review)' /\ review'.version \in Nat)
  <2> SUFFICES ASSUME review' = c.answer PROVE ReviewFits(review)' /\ review'.version \in Nat
    BY <1>3
  <2>1. ReviewFits(c.answer)
    BY <1>0 DEF CallFits
  <2>2. NoReview.version \in Nat
    BY DEF NoReview
  <2> QED
    BY <1>0, <2>1, <2>2 DEF ReviewFits, ReadAt
<1> QED
  BY <1>0, <1>1, <1>2, <1>4, ScreenKeeps

-----------------------------------------------------------------------------
LEMMA ReviewInitially == ReviewInit => ReviewIInv
<1> SUFFICES ASSUME ReviewInit PROVE ReviewIInv
  OBVIOUS
<1>1. /\ rows = [m \in Reviews |-> [version |-> rows[m].version, slots |-> rows[m].slots]]
      /\ \A m \in Reviews : rows[m].version \in Nat
  BY DEF ReviewInit
<1>2. list.of \in Reviews \cup {"none"}
  BY DEF ReviewInit, ClosedList
<1>3. ReviewFits(review) /\ review.version \in Nat
  BY DEF ReviewInit, ReviewFits, NoReview
<1>4. calls = {} /\ ApprovedAsShown
  BY DEF ReviewInit, ApprovedAsShown, NoApproval
<1> QED
  BY <1>1, <1>2, <1>3, <1>4 DEF ReviewIInv

LEMMA ReviewStep == ReviewIInv /\ [ReviewNext]_reviewVars => ReviewIInv'
<1>1. ASSUME ReviewIInv, ReviewNext PROVE ReviewIInv'
  <2>1. CASE \/ CloseList \/ OtherStoreCall \/ CloseSubView \/ ContinueWithWarnings
             \/ \E s \in AllSlots : OpenSearch(s) \/ RestoreSlot(s)
    BY <1>1, <2>1, QuietInv
  <2>2. CASE (\E s \in AllSlots : RemoveSlot(s)) \/ (\E q \in BankQuestions : SelectQuestion(q))
    BY <1>1, <2>2, DecisionInv
  <2>3. CASE (\E m \in Reviews : OpenList(m)) \/ ReloadPage \/ ClickApprove
    BY <1>1, <2>3, OpenListInv, ReloadInv, ClickInv
  <2>4. CASE \E c \in calls : ServeCall(c) \/ LoseCall(c) \/ HearCall(c)
    BY <1>1, <2>4, ServeInv, LoseInv, HearInv
  <2>5. CASE \E m \in Reviews : \E s \in SlotsOf[m],
                d \in (BankQuestions \ HiddenQuestions) \cup {"REMOVED"} : OtherDraft(m, s, d)
    BY <1>1, <2>5, OtherDraftInv
  <2> QED
    BY <1>1, <2>1, <2>2, <2>3, <2>4, <2>5 DEF ReviewNext
<1>2. ASSUME ReviewIInv, UNCHANGED reviewVars PROVE ReviewIInv'
  <2>1. UNCHANGED <<rows, review, list, calls, approval>>
    BY <1>2 DEF reviewVars
  <2>2. list'.of \in Reviews \cup {"none"}
    BY <1>2, <2>1 DEF ReviewIInv
  <2> QED
    BY <1>2, <2>1, <2>2, ScreenKeeps
<1> QED
  BY <1>1, <1>2

\* Every reachable state satisfies the invariant, for any requests, slots and calls.
THEOREM ReviewInvariant == ReviewSpec => []ReviewIInv
<1> QED
  BY ReviewInitially, ReviewStep, PTL DEF ReviewSpec

\* What the server approves of the request on the screen is slot by slot what the
\* screen showed (MaterialReviewList.vue: handleApprove).
THEOREM ApprovalsAsShown == ReviewSpec => []ApprovedAsShown
<1>1. ReviewIInv => ApprovedAsShown
  BY DEF ReviewIInv
<1> QED
  BY <1>1, ReviewInvariant, PTL

-----------------------------------------------------------------------------
(* What a week of a syllabus holds when two coordinators write it at once. *)

Distributions == [id : Int, cell : Cells, count : Nat]
CellRequests ==
    [kind : {"add", "update", "delete", "load"}, id : Int,
     cell : Cells \cup (MatrixTemplates \X {0} \X {0}), value : Nat, prev : Nat,
     pc : {"asked", "sent", "checked", "refused", "done"}, rows : SUBSET Distributions,
     bound : BOOLEAN]

MatrixTypeOK ==
    /\ storedMatrix \in SUBSET Distributions /\ IsFiniteSet(storedMatrix)
    /\ shown \in [Coordinators -> SUBSET Distributions]
    /\ chosen \in [Coordinators -> MatrixTemplates]
    /\ flight \in [Coordinators -> SUBSET CellRequests]
    /\ \A k \in Coordinators : IsFiniteSet(flight[k])
    /\ edits \in Nat /\ lost \in Nat /\ peak \in [MatrixWeeks -> Nat]

\* A temporary id is the negative of the id the row will have.
Magnitude(n) == IF n < 0 THEN 0 - n ELSE n

SentRequests == UNION {flight[k] : k \in Coordinators}
CellCalls == {q \in SentRequests : q.kind # "load"}
KnownRows ==
    storedMatrix \cup (UNION {shown[k] : k \in Coordinators}) \cup (UNION {q.rows : q \in SentRequests})

\* Which cell each id was ever given to, as far as anyone still holds it.
Mentions == {<<Magnitude(x.id), x.cell>> : x \in KnownRows \cup CellCalls}
\* The ids that stand for rows that were stored.
SettledIds ==
    {x.id : x \in KnownRows \cup {q \in CellCalls : q.kind # "add"}}
        \cup {0 - q.id : q \in {q \in CellCalls : q.kind = "add" /\ q.pc = "done"}}

Pending(q) == q.pc \in {"sent", "checked"}

\* An id belongs to one cell and one row, and that of a pending row is nowhere yet.
IdsStand ==
    /\ \A k \in Coordinators : \A q \in flight[k] : q.kind # "load" => q.cell \in Cells
    /\ \A k \in Coordinators : \A q \in flight[k] : q.kind = "add" => q.id < 0
    /\ \A m \in Mentions : m[1] \in 1 .. edits
    /\ \A m, n \in Mentions : m[1] = n[1] => m[2] = n[2]
    /\ \A d \in storedMatrix : d.id > 0
    /\ \A d, e \in storedMatrix : d.id = e.id => d = e
    /\ \A k \in Coordinators : \A q \in flight[k] :
          q.kind = "add" /\ Pending(q) => 0 - q.id \notin SettledIds
    /\ \A k, l \in Coordinators : \A q \in flight[k], r \in flight[l] :
          q.kind = "add" /\ r.kind = "add" /\ q.id = r.id => k = l /\ q = r

\* The row a request writes, and what the requests past the check of a week will write.
TargetId(q) == IF q.kind = "add" THEN 0 - q.id ELSE q.id
Writes(w) ==
    {<<TargetId(q), q.value>> : q \in {q \in Writing(w) :
                                         q.kind = "add" \/ RowWith(storedMatrix, q.id) # {}}}

CountOf == [d \in Distributions |-> d.count]
SizeOf == [x \in Int \X Nat |-> x[2]]
\* What the week holds besides the rows that some of these writes are for.
RestOf(w, V) == {d \in storedMatrix : WeekOf(d.cell) = w /\ \A x \in V : x[1] # d.id}

\* Whatever part of the writes is still to come, the rest of the week and they fit.
WeeksBounded ==
    \A w \in MatrixWeeks :
        /\ \A x \in Writes(w) : x[2] <= WeekLimit
        /\ \A V \in SUBSET Writes(w) :
              Total(CountOf, RestOf(w, V)) + Total(SizeOf, V) <= peak[w] * WeekLimit

MatrixIInv == MatrixTypeOK /\ IdsStand /\ WeeksBounded

\* The image of a finite set is finite and no larger.
LEMMA ImageFinite ==
    ASSUME NEW S, IsFiniteSet(S), NEW f
    PROVE  IsFiniteSet({f[x] : x \in S}) /\ Cardinality({f[x] : x \in S}) <= Cardinality(S)
<1> DEFINE T == {f[x] : x \in S}
           g == [x \in S |-> f[x]]
<1>1. g \in Surjection(S, T)
  BY DEF Surjection
<1> QED
  BY <1>1, FS_Surjection

-----------------------------------------------------------------------------
(* The ids. A step of the server changes one request.                      *)

LEMMA MovedType ==
    ASSUME MatrixTypeOK, NEW k \in Coordinators, NEW q \in flight[k], NEW q1 \in CellRequests,
           flight' = [flight EXCEPT ![k] = (@ \ {q}) \cup {q1}]
    PROVE  /\ flight' \in [Coordinators -> SUBSET CellRequests]
           /\ \A l \in Coordinators : IsFiniteSet(flight'[l])
           /\ \A l \in Coordinators : \A r \in flight'[l] : (r \in flight[l] /\ (l = k => r # q)) \/ (l = k /\ r = q1)
<1>1. flight'[k] = (flight[k] \ {q}) \cup {q1} /\ \A l \in Coordinators \ {k} : flight'[l] = flight[l]
  BY DEF MatrixTypeOK
<1>2. IsFiniteSet((flight[k] \ {q}) \cup {q1})
  <2>1. IsFiniteSet(flight[k] \ {q})
    BY FS_RemoveElement DEF MatrixTypeOK
  <2> QED
    BY <2>1, FS_AddElement
<1> QED
  BY <1>1, <1>2 DEF MatrixTypeOK

LEMMA SentMembers ==
    ASSUME NEW l \in Coordinators, NEW r \in flight[l]
    PROVE  /\ r \in SentRequests /\ (r.kind # "load" => r \in CellCalls)
           /\ \A d \in r.rows : d \in KnownRows
<1> QED
  BY DEF SentRequests, CellCalls, KnownRows

LEMMA RowsMentioned ==
    ASSUME NEW d \in KnownRows
    PROVE  <<Magnitude(d.id), d.cell>> \in Mentions /\ d.id \in SettledIds
<1> QED
  BY DEF Mentions, SettledIds

LEMMA CallsMentioned ==
    ASSUME NEW q \in CellCalls
    PROVE  <<Magnitude(q.id), q.cell>> \in Mentions /\ (q.kind # "add" => q.id \in SettledIds)
<1> QED
  BY DEF Mentions, SettledIds

LEMMA StoredShownKnown ==
    /\ \A d \in storedMatrix : d \in KnownRows
    /\ \A k \in Coordinators : \A d \in shown[k] : d \in KnownRows
<1> QED
  BY DEF KnownRows

\* The call is the same one after a step; only a load's selection may change,
\* and a call that is done has been executed just now.
SameCall(q, q1) ==
    /\ q1.kind = q.kind /\ q1.id = q.id
    /\ q.kind # "load" => q1.cell = q.cell
    /\ q1.rows \subseteq q.rows \cup storedMatrix
    /\ Pending(q1) => Pending(q) \/ q.kind = "load"
    /\ q.kind = "add" /\ q1.pc = "done" => Pending(q)

\* The rows after a step were there before it, or the call created one.
RowsOf(q, q1) ==
    /\ \A d \in storedMatrix' :
          \/ \E e \in storedMatrix : e.id = d.id /\ e.cell = d.cell
          \/ q.kind = "add" /\ q1.pc = "done" /\ d.id = 0 - q.id /\ d.cell = q.cell
    /\ \A d, e \in storedMatrix' : d.id = e.id => d = e

LEMMA ServerIds ==
    ASSUME MatrixTypeOK, IdsStand, NEW k \in Coordinators, NEW q \in flight[k], NEW q1 \in CellRequests,
           flight' = [flight EXCEPT ![k] = (@ \ {q}) \cup {q1}],
           shown' = shown, edits' = edits, SameCall(q, q1), RowsOf(q, q1)
    PROVE  IdsStand'
<1> DEFINE made == q.kind = "add" /\ q1.pc = "done"
<1>0. /\ q1.kind = q.kind /\ q1.id = q.id /\ (q.kind # "load" => q1.cell = q.cell)
      /\ q1.rows \subseteq q.rows \cup storedMatrix
      /\ Pending(q1) => Pending(q) \/ q.kind = "load"
      /\ q.kind = "add" /\ q1.pc = "done" => Pending(q)
  BY DEF SameCall
<1> USE <1>0 DEF RowsOf
<1>1. \A l \in Coordinators : \A r \in flight'[l] : (r \in flight[l] /\ (l = k => r # q)) \/ (l = k /\ r = q1)
  BY MovedType
<1>2. q \in CellRequests /\ q.id \in Int
  BY DEF MatrixTypeOK, CellRequests
<1>3. Magnitude(0 - q.id) = Magnitude(q.id)
  BY <1>2 DEF Magnitude
<1>4. ASSUME NEW d \in KnownRows'
      PROVE  \/ \E e \in KnownRows : e.id = d.id /\ e.cell = d.cell
             \/ made /\ d.id = 0 - q.id /\ d.cell = q.cell
  <2>1. CASE d \in storedMatrix'
    BY <2>1, StoredShownKnown
  <2>2. CASE d \in UNION {shown[l] : l \in Coordinators}
    BY <2>2, StoredShownKnown
  <2>3. CASE \E l \in Coordinators : \E r \in flight'[l] : d \in r.rows
    <3>1. PICK l \in Coordinators : \E r \in flight'[l] : d \in r.rows
      BY <2>3
    <3>2. PICK r \in flight'[l] : d \in r.rows
      BY <3>1
    <3>3. CASE r \in flight[l]
      BY <3>2, <3>3, SentMembers
    <3>4. CASE r = q1
      <4>1. d \in q.rows \/ d \in storedMatrix
        BY <3>2, <3>4
      <4> QED
        BY <4>1, SentMembers, StoredShownKnown
    <3> QED
      BY <1>1, <3>3, <3>4
  <2> QED
    BY <2>1, <2>2, <2>3 DEF KnownRows, SentRequests
<1>5. ASSUME NEW r \in CellCalls'
      PROVE  \E s \in CellCalls : s.kind = r.kind /\ s.id = r.id /\ s.cell = r.cell
  <2>1. PICK l \in Coordinators : r \in flight'[l]
    BY DEF CellCalls, SentRequests
  <2>2. r.kind # "load"
    BY DEF CellCalls
  <2>3. CASE r \in flight[l]
    BY <2>2, <2>3, SentMembers
  <2>4. CASE r = q1
    BY <2>2, <2>4, SentMembers
  <2> QED
    BY <1>1, <2>1, <2>3, <2>4
<1>6. made => q \in CellCalls
  BY SentMembers
<1>7. Mentions' \subseteq Mentions
  <2> SUFFICES ASSUME NEW x \in KnownRows' \cup CellCalls'
               PROVE  <<Magnitude(x.id), x.cell>> \in Mentions
    BY DEF Mentions, Magnitude
  <2>1. CASE x \in KnownRows'
    BY <1>3, <1>4, <1>6, <2>1, RowsMentioned, CallsMentioned
  <2>2. CASE x \in CellCalls'
    BY <1>5, <2>2, CallsMentioned
  <2> QED
    BY <2>1, <2>2
<1>8. \A n \in SettledIds' : n \in SettledIds \/ (made /\ n = 0 - q.id)
  <2> SUFFICES ASSUME NEW n \in SettledIds' PROVE n \in SettledIds \/ (made /\ n = 0 - q.id)
    OBVIOUS
  <2>1. CASE \E d \in KnownRows' : n = d.id
    <3>1. PICK d \in KnownRows' : n = d.id
      BY <2>1
    <3> QED
      BY <1>4, <3>1, RowsMentioned
  <2>2. CASE \E r \in CellCalls' : r.kind # "add" /\ n = r.id
    <3>1. PICK r \in CellCalls' : r.kind # "add" /\ n = r.id
      BY <2>2
    <3> QED
      BY <1>5, <3>1, CallsMentioned
  <2>3. CASE \E r \in CellCalls' : r.kind = "add" /\ r.pc = "done" /\ n = 0 - r.id
    <3>1. PICK r \in CellCalls' : r.kind = "add" /\ r.pc = "done" /\ n = 0 - r.id
      BY <2>3
    <3>2. PICK l \in Coordinators : r \in flight'[l]
      BY DEF CellCalls, SentRequests
    <3>3. CASE r \in flight[l]
      <4>1. r \in CellCalls
        BY <3>1, <3>3, SentMembers
      <4> QED
        BY <3>1, <4>1 DEF SettledIds
    <3>4. CASE r = q1
      BY <3>1, <3>4
    <3> QED
      BY <1>1, <3>2, <3>3, <3>4
  <2> QED
    BY <2>1, <2>2, <2>3 DEF SettledIds
<1>9. /\ \A l \in Coordinators : \A r \in flight'[l] : r.kind # "load" => r.cell \in Cells
      /\ \A l \in Coordinators : \A r \in flight'[l] : r.kind = "add" => r.id < 0
  BY <1>1 DEF IdsStand
<1>10. \A d \in storedMatrix' : d.id > 0
  BY <1>2 DEF IdsStand
<1>11. ASSUME NEW l \in Coordinators, NEW r \in flight'[l], r.kind = "add", Pending(r)
       PROVE  0 - r.id \notin SettledIds'
  <2>1. CASE r \in flight[l] /\ (l = k => r # q)
    <3>1. 0 - r.id \notin SettledIds
      BY <1>11, <2>1 DEF IdsStand
    <3>2. made => r.id # q.id
      BY <1>11, <2>1 DEF IdsStand
    <3>3. r.id \in Int
      BY <2>1 DEF MatrixTypeOK, CellRequests
    <3> QED
      BY <1>2, <1>8, <3>1, <3>2, <3>3
  <2>2. CASE l = k /\ r = q1
    <3>1. Pending(q) /\ ~made /\ q.kind = "add"
      BY <1>11, <2>2 DEF Pending
    <3>2. 0 - q.id \notin SettledIds
      BY <3>1 DEF IdsStand
    <3> QED
      BY <1>8, <2>2, <3>1, <3>2
  <2> QED
    BY <1>1, <2>1, <2>2
<1>12. ASSUME NEW l \in Coordinators, NEW m \in Coordinators, NEW r \in flight'[l], NEW s \in flight'[m],
              r.kind = "add", s.kind = "add", r.id = s.id
       PROVE  l = m /\ r = s
  <2> DEFINE Was(x) == IF x = q1 THEN q ELSE x
  <2>1. PICK a \in flight[l] : IF l = k /\ r = q1 THEN a = q ELSE a = r /\ (l = k => a # q)
    BY <1>1
  <2>2. PICK b \in flight[m] : IF m = k /\ s = q1 THEN b = q ELSE b = s /\ (m = k => b # q)
    BY <1>1
  <2>3. a.kind = "add" /\ b.kind = "add" /\ a.id = b.id
    BY <1>12, <2>1, <2>2
  <2>4. l = m /\ a = b
    BY <2>3 DEF IdsStand
  <2> QED
    BY <2>1, <2>2, <2>4
<1> HIDE DEF made
<1>13. /\ \A m \in Mentions' : m[1] \in 1 .. edits'
       /\ \A m, n \in Mentions' : m[1] = n[1] => m[2] = n[2]
  BY <1>7 DEF IdsStand
<1> QED
  BY <1>9, <1>10, <1>11, <1>12, <1>13 DEF IdsStand, Pending

-----------------------------------------------------------------------------
(* A step of the page sends a request, or only changes what is shown.      *)

LEMMA SentType ==
    ASSUME MatrixTypeOK, NEW k \in Coordinators, NEW q1 \in CellRequests,
           flight' = [flight EXCEPT ![k] = @ \cup {q1}]
    PROVE  /\ flight' \in [Coordinators -> SUBSET CellRequests]
           /\ \A l \in Coordinators : IsFiniteSet(flight'[l])
           /\ \A l \in Coordinators : \A r \in flight'[l] : r \in flight[l] \/ (l = k /\ r = q1)
<1>1. flight'[k] = flight[k] \cup {q1} /\ \A l \in Coordinators \ {k} : flight'[l] = flight[l]
  BY DEF MatrixTypeOK
<1>2. IsFiniteSet(flight[k] \cup {q1})
  BY FS_AddElement DEF MatrixTypeOK
<1> QED
  BY <1>1, <1>2 DEF MatrixTypeOK

LEMMA IdsInRange ==
    ASSUME IdsStand, edits \in Nat
    PROVE  /\ \A d \in KnownRows : Magnitude(d.id) \in 1 .. edits
           /\ \A q \in CellCalls : Magnitude(q.id) \in 1 .. edits
<1> QED
  BY RowsMentioned, CallsMentioned DEF IdsStand

LEMMA PageIds ==
    ASSUME MatrixTypeOK, IdsStand, NEW k \in Coordinators, NEW q1 \in CellRequests,
           flight' = [flight EXCEPT ![k] = @ \cup {q1}],
           q1.rows = {}, q1.pc \in {"sent", "asked"}, storedMatrix' = storedMatrix,
           edits' = edits + 1,
           shown' \in [Coordinators -> SUBSET Distributions],
           \A l \in Coordinators \ {k} : shown'[l] = shown[l],
           \A d \in shown'[k] :
              \/ \E e \in shown[k] : e.id = d.id /\ e.cell = d.cell
              \/ q1.kind = "add" /\ d.id = q1.id /\ d.cell = q1.cell,
           \/ q1.kind = "load"
           \/ q1.kind = "add" /\ q1.id = 0 - edits - 1 /\ q1.cell \in Cells
           \/ /\ q1.kind \in {"update", "delete"}
              /\ \E e \in shown[k] : e.id = q1.id /\ e.cell = q1.cell
    PROVE  IdsStand'
<1> DEFINE fresh == q1.kind = "add"
           new == <<edits + 1, q1.cell>>
<1>1. \A l \in Coordinators : \A r \in flight'[l] : r \in flight[l] \/ (l = k /\ r = q1)
  BY SentType
<1>2. edits \in Nat /\ q1.id \in Int
  BY DEF MatrixTypeOK, CellRequests
<1>3. fresh => /\ q1.id = 0 - edits - 1 /\ Magnitude(q1.id) = edits + 1 /\ q1.id < 0
               /\ 0 - q1.id = edits + 1 /\ q1.cell \in Cells
  BY <1>2 DEF Magnitude
<1>4. ASSUME NEW d \in KnownRows'
      PROVE  \/ \E e \in KnownRows : e.id = d.id /\ e.cell = d.cell
             \/ fresh /\ d.id = q1.id /\ d.cell = q1.cell
  <2>1. CASE d \in storedMatrix'
    BY <2>1, StoredShownKnown
  <2>2. CASE \E l \in Coordinators : d \in shown'[l]
    <3>1. PICK l \in Coordinators : d \in shown'[l]
      BY <2>2
    <3>2. CASE l = k
      BY <3>1, <3>2, StoredShownKnown
    <3>3. CASE l # k
      BY <3>1, <3>3, StoredShownKnown
    <3> QED
      BY <3>2, <3>3
  <2>3. CASE \E l \in Coordinators : \E r \in flight'[l] : d \in r.rows
    <3>1. PICK l \in Coordinators : \E r \in flight'[l] : d \in r.rows
      BY <2>3
    <3>2. PICK r \in flight'[l] : d \in r.rows
      BY <3>1
    <3>3. r \in flight[l]
      BY <1>1, <3>2
    <3> QED
      BY <3>2, <3>3, SentMembers
  <2> QED
    BY <2>1, <2>2, <2>3 DEF KnownRows, SentRequests
<1>5. ASSUME NEW r \in CellCalls'
      PROVE  \/ r \in CellCalls
             \/ r = q1 /\ fresh
             \/ r = q1 /\ r.kind # "add" /\ \E e \in KnownRows : e.id = r.id /\ e.cell = r.cell
  <2>1. PICK l \in Coordinators : r \in flight'[l]
    BY DEF CellCalls, SentRequests
  <2>2. r.kind # "load"
    BY DEF CellCalls
  <2>3. CASE r \in flight[l]
    BY <2>2, <2>3, SentMembers
  <2>4. CASE r = q1
    BY <2>2, <2>4, StoredShownKnown
  <2> QED
    BY <1>1, <2>1, <2>3, <2>4
<1>6. \A m \in Mentions' : m \in Mentions \/ (fresh /\ m = new)
  <2> SUFFICES ASSUME NEW x \in KnownRows' \cup CellCalls'
               PROVE  \/ <<Magnitude(x.id), x.cell>> \in Mentions
                      \/ fresh /\ <<Magnitude(x.id), x.cell>> = new
    BY DEF Mentions, Magnitude
  <2>1. CASE x \in KnownRows'
    BY <1>3, <1>4, <2>1, RowsMentioned
  <2>2. CASE x \in CellCalls'
    BY <1>3, <1>5, <2>2, RowsMentioned, CallsMentioned
  <2> QED
    BY <2>1, <2>2
<1>7. \A n \in SettledIds' : n \in SettledIds \/ (fresh /\ n = q1.id)
  <2> SUFFICES ASSUME NEW n \in SettledIds' PROVE n \in SettledIds \/ (fresh /\ n = q1.id)
    OBVIOUS
  <2>1. CASE \E d \in KnownRows' : n = d.id
    <3>1. PICK d \in KnownRows' : n = d.id
      BY <2>1
    <3> QED
      BY <1>4, <3>1, RowsMentioned
  <2>2. CASE \E r \in CellCalls' : r.kind # "add" /\ n = r.id
    <3>1. PICK r \in CellCalls' : r.kind # "add" /\ n = r.id
      BY <2>2
    <3> QED
      BY <1>5, <3>1, CallsMentioned, RowsMentioned
  <2>3. CASE \E r \in CellCalls' : r.kind = "add" /\ r.pc = "done" /\ n = 0 - r.id
    <3>1. PICK r \in CellCalls' : r.kind = "add" /\ r.pc = "done" /\ n = 0 - r.id
      BY <2>3
    <3>2. r \in CellCalls
      BY <1>5, <3>1
    <3> QED
      BY <3>1, <3>2 DEF SettledIds
  <2> QED
    BY <2>1, <2>2, <2>3 DEF SettledIds
<1>8. \A n \in SettledIds : n \in Int => Magnitude(n) \in 1 .. edits
  <2> SUFFICES ASSUME NEW n \in SettledIds, n \in Int PROVE Magnitude(n) \in 1 .. edits
    OBVIOUS
  <2>1. CASE \E d \in KnownRows \cup CellCalls : n = d.id
    BY <1>2, <2>1, IdsInRange
  <2>2. CASE \E r \in CellCalls : n = 0 - r.id
    <3>1. PICK r \in CellCalls : n = 0 - r.id
      BY <2>2
    <3>2. r.id \in Int
      BY DEF CellCalls, SentRequests, MatrixTypeOK, CellRequests
    <3> QED
      BY <1>2, <3>1, <3>2, IdsInRange DEF Magnitude
  <2> QED
    BY <2>1, <2>2 DEF SettledIds
<1>9. \A m \in Mentions : m[1] \in 1 .. edits
  BY DEF IdsStand
<1>10. /\ \A m \in Mentions' : m[1] \in 1 .. edits'
       /\ \A m, n \in Mentions' : m[1] = n[1] => m[2] = n[2]
  <2>1. new[1] = edits + 1
    OBVIOUS
  <2> HIDE DEF new
  <2>2. \A m \in Mentions' : m[1] \in 1 .. edits'
    BY <1>2, <1>6, <1>9, <2>1
  <2>3. ASSUME NEW m \in Mentions', NEW n \in Mentions', m[1] = n[1] PROVE m[2] = n[2]
    <3>1. (m \in Mentions /\ n \in Mentions) \/ m = n
      BY <1>2, <1>6, <1>9, <2>1, <2>3
    <3> QED
      BY <2>3, <3>1 DEF IdsStand
  <2> QED
    BY <2>2, <2>3
<1>11. \A l \in Coordinators : \A r \in flight[l] : r.id \in Int /\ (r.kind = "add" => Magnitude(r.id) \in 1 .. edits)
  BY <1>2, SentMembers, IdsInRange DEF MatrixTypeOK, CellRequests
<1>12. ASSUME NEW l \in Coordinators, NEW r \in flight'[l], r.kind = "add", Pending(r)
       PROVE  0 - r.id \notin SettledIds'
  <2>1. CASE r \in flight[l]
    <3>1. 0 - r.id \notin SettledIds /\ r.id < 0 /\ r.id \in Int
      BY <1>11, <1>12, <2>1 DEF IdsStand
    <3> QED
      BY <1>2, <1>3, <1>7, <3>1
  <2>2. CASE r = q1
    <3>1. 0 - r.id = edits + 1 /\ 0 - r.id \in Int /\ Magnitude(0 - r.id) = edits + 1
      BY <1>2, <1>3, <1>12, <2>2 DEF Magnitude
    <3> QED
      BY <1>2, <1>3, <1>7, <1>8, <2>2, <3>1
  <2> QED
    BY <1>1, <2>1, <2>2
<1>13. ASSUME NEW l \in Coordinators, NEW m \in Coordinators, NEW r \in flight'[l], NEW s \in flight'[m],
              r.kind = "add", s.kind = "add", r.id = s.id
       PROVE  l = m /\ r = s
  <2>1. CASE r \in flight[l] /\ s \in flight[m]
    BY <1>13, <2>1 DEF IdsStand
  <2>2. CASE r = q1 /\ l = k /\ s = q1 /\ m = k
    BY <2>2
  <2>3. CASE r = q1 /\ s \in flight[m]
    BY <1>2, <1>3, <1>11, <1>13, <2>3
  <2>4. CASE s = q1 /\ r \in flight[l]
    BY <1>2, <1>3, <1>11, <1>13, <2>4
  <2> QED
    BY <1>1, <2>1, <2>2, <2>3, <2>4
<1>14. /\ \A l \in Coordinators : \A r \in flight'[l] : r.kind # "load" => r.cell \in Cells
       /\ \A l \in Coordinators : \A r \in flight'[l] : r.kind = "add" => r.id < 0
  <2>1. q1.kind # "load" => q1.cell \in Cells
    BY DEF MatrixTypeOK, Distributions
  <2> QED
    BY <1>1, <1>3, <2>1 DEF IdsStand
<1>15. \A d \in storedMatrix' : d.id > 0
  BY DEF IdsStand
<1>16. \A d, e \in storedMatrix' : d.id = e.id => d = e
  BY DEF IdsStand
<1> HIDE DEF fresh, new
<1> QED
  BY <1>10, <1>12, <1>13, <1>14, <1>15, <1>16 DEF IdsStand, Pending

-----------------------------------------------------------------------------
(* An answer ends a request; that of a summary unbinds the other requests. *)

LEMMA AnsweredType ==
    ASSUME MatrixTypeOK, NEW k \in Coordinators, NEW q \in flight[k], NEW F,
           F = flight[k] \ {q} \/ F = {[r EXCEPT !.bound = FALSE] : r \in flight[k] \ {q}},
           flight' = [flight EXCEPT ![k] = F]
    PROVE  /\ flight' \in [Coordinators -> SUBSET CellRequests]
           /\ \A l \in Coordinators : IsFiniteSet(flight'[l])
           /\ \A l \in Coordinators : \A r \in flight'[l] :
                 \E s \in flight[l] :
                    /\ r.kind = s.kind /\ r.id = s.id /\ r.cell = s.cell /\ r.value = s.value
                    /\ r.pc = s.pc /\ r.rows = s.rows
<1> DEFINE Unbound(r) == [r EXCEPT !.bound = FALSE]
<1>1. flight'[k] = F /\ \A l \in Coordinators \ {k} : flight'[l] = flight[l]
  BY DEF MatrixTypeOK
<1>2. IsFiniteSet(flight[k] \ {q})
  BY FS_RemoveElement DEF MatrixTypeOK
<1>3. IsFiniteSet({Unbound(r) : r \in flight[k] \ {q}})
  <2> DEFINE U == [r \in flight[k] |-> Unbound(r)]
  <2>1. IsFiniteSet({U[r] : r \in flight[k] \ {q}})
    <3> HIDE DEF U
    <3> QED
      BY <1>2, ImageFinite
  <2>2. {U[r] : r \in flight[k] \ {q}} = {Unbound(r) : r \in flight[k] \ {q}}
    <3>1. \A r \in flight[k] \ {q} : U[r] = Unbound(r)
      OBVIOUS
    <3> HIDE DEF U, Unbound
    <3> QED
      BY <3>1
  <2> QED
    BY <2>1, <2>2
<1>4. \A r \in CellRequests :
         /\ Unbound(r) \in CellRequests
         /\ Unbound(r).kind = r.kind /\ Unbound(r).id = r.id /\ Unbound(r).cell = r.cell
         /\ Unbound(r).value = r.value /\ Unbound(r).pc = r.pc /\ Unbound(r).rows = r.rows
  BY DEF CellRequests
<1>5. F = flight[k] \ {q} \/ F = {Unbound(r) : r \in flight[k] \ {q}}
  OBVIOUS
<1>6. flight[k] \in SUBSET CellRequests
  BY DEF MatrixTypeOK
<1> HIDE DEF Unbound
<1>7. F \in SUBSET CellRequests /\ IsFiniteSet(F)
  BY <1>2, <1>3, <1>4, <1>5, <1>6
<1>8. \A r \in F : \E s \in flight[k] :
         /\ r.kind = s.kind /\ r.id = s.id /\ r.cell = s.cell /\ r.value = s.value
         /\ r.pc = s.pc /\ r.rows = s.rows
  BY <1>4, <1>5, <1>6
<1> QED
  BY <1>1, <1>7, <1>8 DEF MatrixTypeOK

LEMMA AnswerIds ==
    ASSUME MatrixTypeOK, IdsStand, NEW k \in Coordinators, NEW q \in flight[k], NEW F,
           F = flight[k] \ {q} \/ F = {[r EXCEPT !.bound = FALSE] : r \in flight[k] \ {q}},
           flight' = [flight EXCEPT ![k] = F],
           storedMatrix' = storedMatrix, edits' = edits,
           shown' \in [Coordinators -> SUBSET Distributions],
           \A l \in Coordinators \ {k} : shown'[l] = shown[l],
           \A d \in shown'[k] : <<Magnitude(d.id), d.cell>> \in Mentions /\ d.id \in SettledIds
    PROVE  IdsStand'
<1>1. \A l \in Coordinators : \A r \in flight'[l] :
         \E s \in flight[l] :
            /\ r.kind = s.kind /\ r.id = s.id /\ r.cell = s.cell /\ r.value = s.value
            /\ r.pc = s.pc /\ r.rows = s.rows
  BY AnsweredType
<1>2. ASSUME NEW d \in KnownRows'
      PROVE  <<Magnitude(d.id), d.cell>> \in Mentions /\ d.id \in SettledIds
  <2>1. CASE d \in storedMatrix'
    BY <2>1, StoredShownKnown, RowsMentioned
  <2>2. CASE \E l \in Coordinators : d \in shown'[l]
    <3>1. PICK l \in Coordinators : d \in shown'[l]
      BY <2>2
    <3>2. CASE l = k
      BY <3>1, <3>2
    <3>3. CASE l # k
      BY <3>1, <3>3, StoredShownKnown, RowsMentioned
    <3> QED
      BY <3>2, <3>3
  <2>3. CASE \E l \in Coordinators : \E r \in flight'[l] : d \in r.rows
    BY <1>1, <2>3, SentMembers, RowsMentioned
  <2> QED
    BY <2>1, <2>2, <2>3 DEF KnownRows, SentRequests
<1>3. ASSUME NEW r \in CellCalls'
      PROVE  \E s \in CellCalls : r.kind = s.kind /\ r.id = s.id /\ r.cell = s.cell /\ r.pc = s.pc
  <2>1. PICK l \in Coordinators : r \in flight'[l]
    BY DEF CellCalls, SentRequests
  <2>2. r.kind # "load"
    BY DEF CellCalls
  <2> QED
    BY <1>1, <2>1, <2>2, SentMembers
<1>4. Mentions' \subseteq Mentions
  <2> SUFFICES ASSUME NEW x \in KnownRows' \cup CellCalls'
               PROVE  <<Magnitude(x.id), x.cell>> \in Mentions
    BY DEF Mentions, Magnitude
  <2> QED
    BY <1>2, <1>3, CallsMentioned
<1>5. SettledIds' \subseteq SettledIds
  <2> SUFFICES ASSUME NEW n \in SettledIds' PROVE n \in SettledIds
    OBVIOUS
  <2>1. CASE \E d \in KnownRows' : n = d.id
    BY <1>2, <2>1
  <2>2. CASE \E r \in CellCalls' : r.kind # "add" /\ n = r.id
    BY <1>3, <2>2, CallsMentioned
  <2>3. CASE \E r \in CellCalls' : r.kind = "add" /\ r.pc = "done" /\ n = 0 - r.id
    <3>1. PICK s \in CellCalls : s.kind = "add" /\ s.pc = "done" /\ n = 0 - s.id
      BY <1>3, <2>3
    <3> QED
      BY <3>1 DEF SettledIds
  <2> QED
    BY <2>1, <2>2, <2>3 DEF SettledIds
<1>6. /\ \A l \in Coordinators : \A r \in flight'[l] : r.kind # "load" => r.cell \in Cells
      /\ \A l \in Coordinators : \A r \in flight'[l] : r.kind = "add" => r.id < 0
  BY <1>1 DEF IdsStand
<1>7. ASSUME NEW l \in Coordinators, NEW r \in flight'[l], r.kind = "add", Pending(r)
      PROVE  0 - r.id \notin SettledIds'
  <2>1. PICK s \in flight[l] : s.kind = "add" /\ Pending(s) /\ s.id = r.id
    BY <1>1, <1>7 DEF Pending
  <2> QED
    BY <1>5, <2>1 DEF IdsStand
<1>8. ASSUME NEW l \in Coordinators, NEW m \in Coordinators, NEW r \in flight'[l], NEW s \in flight'[m],
             r.kind = "add", s.kind = "add", r.id = s.id
      PROVE  l = m /\ r = s
  <2> DEFINE Unbound(x) == [x EXCEPT !.bound = FALSE]
  <2>0. flight'[k] = F /\ \A j \in Coordinators \ {k} : flight'[j] = flight[j]
    BY DEF MatrixTypeOK
  <2>1. PICK a \in flight[l] : a.kind = r.kind /\ a.id = r.id
    BY <1>1
  <2>2. PICK b \in flight[m] : b.kind = s.kind /\ b.id = s.id
    BY <1>1
  <2>3. l = m
    BY <1>8, <2>1, <2>2 DEF IdsStand
  <2>4. CASE r \in flight[l] /\ s \in flight[l]
    BY <1>8, <2>3, <2>4 DEF IdsStand
  <2>5. CASE l = k /\ F = {Unbound(x) : x \in flight[k] \ {q}}
    <3>1. \A x \in flight[k] : Unbound(x).kind = x.kind /\ Unbound(x).id = x.id
      BY DEF MatrixTypeOK, CellRequests
    <3> HIDE DEF Unbound
    <3>2. PICK x \in flight[k] : r = Unbound(x)
      BY <2>0, <2>5
    <3>3. PICK y \in flight[k] : s = Unbound(y)
      BY <2>0, <2>3, <2>5
    <3>4. x = y
      BY <1>8, <3>1, <3>2, <3>3 DEF IdsStand
    <3> QED
      BY <2>3, <3>2, <3>3, <3>4
  <2>6. l # k \/ F = flight[k] \ {q} \/ F = {Unbound(x) : x \in flight[k] \ {q}}
    OBVIOUS
  <2> HIDE DEF Unbound
  <2> QED
    BY <2>0, <2>3, <2>4, <2>5, <2>6
<1>9. /\ \A m \in Mentions' : m[1] \in 1 .. edits'
      /\ \A m, n \in Mentions' : m[1] = n[1] => m[2] = n[2]
  BY <1>4 DEF IdsStand
<1>10. (\A d \in storedMatrix' : d.id > 0) /\ \A d, e \in storedMatrix' : d.id = e.id => d = e
  BY DEF IdsStand
<1> QED
  BY <1>6, <1>7, <1>8, <1>9, <1>10 DEF IdsStand, Pending

-----------------------------------------------------------------------------
(* The sums of a week.                                                     *)

LEMMA CountsTotal ==
    ASSUME NEW S \in SUBSET Distributions, IsFiniteSet(S)
    PROVE  MapThenSumSet(LAMBDA d : d.count, S) = Total(CountOf, S)
<1> DEFINE f == CountOf
           A(g) == g = [s \in SUBSET S |-> IF s = {} THEN 0 ELSE First(s).count + g[s \ {First(s)}]]
           x == CHOOSE g : A(g)
           y == CHOOSE g : Adds(g, f, S)
<1>1. MapThenSumSet(LAMBDA d : d.count, S) = x[S]
  BY DEF MapThenSumSet, MapThenFoldSet, First
<1>2. Total(f, S) = y[S]
  BY TotalIsAdded
<1>3. ASSUME NEW s \in SUBSET S, s # {} PROVE f[First(s)] = First(s).count
  BY <1>3, FirstIn DEF CountOf
<1>4. ASSUME NEW g PROVE Adds(g, f, S) <=> A(g)
  BY <1>3 DEF Adds
<1>5. Adds(y, f, S)
  BY AddsExists
<1> HIDE DEF f, y
<1>6. A(x)
  <2>1. A(y)
    BY <1>4, <1>5
  <2> HIDE DEF A
  <2> QED
    BY <2>1
<1>7. Adds(x, f, S)
  BY <1>4, <1>6
<1> HIDE DEF x
<1>8. x = y
  BY <1>5, <1>7, AddsUnique
<1> QED
  BY <1>1, <1>2, <1>8 DEF f

LEMMA RowsTotal ==
    ASSUME NEW S \in SUBSET Distributions, IsFiniteSet(S)
    PROVE  Total(CountOf, S) \in Nat /\ \A T \in SUBSET S : IsFiniteSet(T) /\ Total(CountOf, T) <= Total(CountOf, S)
<1>1. \A d \in S : CountOf[d] \in Nat
  BY DEF CountOf, Distributions
<1>2. \A d \in S : CountOf[d] <= CountOf[d]
  BY <1>1
<1>3. Total(CountOf, S) \in Nat
  BY <1>1, TotalType
<1>4. ASSUME NEW T \in SUBSET S PROVE IsFiniteSet(T) /\ Total(CountOf, T) <= Total(CountOf, S)
  BY <1>1, <1>2, FS_Subset, TotalMonotone
<1> QED
  BY <1>3, <1>4

LEMMA RestRows ==
    ASSUME MatrixTypeOK, NEW w, NEW V
    PROVE  RestOf(w, V) \in SUBSET Distributions /\ IsFiniteSet(RestOf(w, V))
<1> QED
  BY FS_Subset DEF MatrixTypeOK, RestOf

LEMMA WritesFinite ==
    ASSUME MatrixTypeOK, NEW w
    PROVE  /\ IsFiniteSet(Writing(w)) /\ IsFiniteSet(Writes(w))
           /\ Cardinality(Writes(w)) <= Cardinality(Writing(w))
           /\ Writes(w) \in SUBSET (Int \X Nat)
<1> DEFINE U == UNION {flight[k] : k \in Coordinators}
           E == {q \in Writing(w) : q.kind = "add" \/ RowWith(storedMatrix, q.id) # {}}
           f == [q \in CellRequests |-> <<TargetId(q), q.value>>]
<1>1. IsFiniteSet(U)
  <2>1. IsFiniteSet({flight[k] : k \in Coordinators})
    BY MatrixAssumption, ImageFinite
  <2> QED
    BY <2>1, FS_UNION DEF MatrixTypeOK
<1>2. Writing(w) \in SUBSET U /\ E \in SUBSET Writing(w)
  BY DEF Writing
<1>3. U \in SUBSET CellRequests
  BY DEF MatrixTypeOK
<1> HIDE DEF U
<1>4. IsFiniteSet(Writing(w)) /\ IsFiniteSet(E) /\ Cardinality(E) <= Cardinality(Writing(w))
  BY <1>1, <1>2, FS_Subset
<1>5. \A q \in E : f[q] = <<TargetId(q), q.value>> /\ f[q] \in Int \X Nat
  <2> SUFFICES ASSUME NEW q \in E PROVE f[q] = <<TargetId(q), q.value>> /\ f[q] \in Int \X Nat
    OBVIOUS
  <2>1. q \in CellRequests
    BY <1>2, <1>3
  <2>2. q.id \in Int /\ q.value \in Nat
    BY <2>1 DEF CellRequests
  <2> QED
    BY <2>1, <2>2 DEF TargetId
<1>6. Writes(w) = {f[q] : q \in E}
  <2>1. Writes(w) = {<<TargetId(q), q.value>> : q \in E}
    BY DEF Writes
  <2> HIDE DEF E, f
  <2> QED
    BY <1>5, <2>1
<1> HIDE DEF E, f
<1>7. IsFiniteSet({f[q] : q \in E}) /\ Cardinality({f[q] : q \in E}) <= Cardinality(E)
  BY <1>4, ImageFinite
<1>8. Cardinality(E) \in Nat /\ Cardinality(Writing(w)) \in Nat /\ Cardinality({f[q] : q \in E}) \in Nat
  BY <1>4, <1>7, FS_CardinalityType
<1> QED
  BY <1>4, <1>5, <1>6, <1>7, <1>8

LEMMA SizesTotal ==
    ASSUME NEW S \in SUBSET (Int \X Nat), IsFiniteSet(S)
    PROVE  /\ Total(SizeOf, S) \in Nat /\ \A x \in S : SizeOf[x] = x[2] /\ x[2] \in Nat
           /\ \A T \in SUBSET S : IsFiniteSet(T)
<1>1. \A x \in S : SizeOf[x] = x[2] /\ SizeOf[x] \in Nat
  BY DEF SizeOf
<1> QED
  BY <1>1, TotalType, FS_Subset

LEMMA WeeksBoundedNext ==
    ASSUME \A w \in MatrixWeeks : \A x \in Writes(w)' : x[2] <= WeekLimit,
           \A w \in MatrixWeeks : \A V \in SUBSET (Writes(w)') :
              Total(CountOf, RestOf(w, V)') + Total(SizeOf, V) <= peak'[w] * WeekLimit
    PROVE  WeeksBounded'
<1> QED
  BY DEF WeeksBounded, Total, MapThenSumSet, MapThenFoldSet, CountOf, SizeOf

-----------------------------------------------------------------------------
(* The bound of a week: steps that bring no new write.                     *)

\* The requests past the check are those that were, and their rows were there.
LEMMA WritesKept ==
    ASSUME \A l \in Coordinators : \A r \in flight'[l] :
              \/ r.pc # "checked" \/ r.kind \notin {"add", "update"}
              \/ \E s \in flight[l] :
                    /\ r.kind = s.kind /\ r.id = s.id /\ r.cell = s.cell /\ r.value = s.value
                    /\ r.pc = s.pc,
           \A l \in Coordinators : \A s \in flight[l] :
              s.kind = "update" /\ RowWith(storedMatrix', s.id) # {} => RowWith(storedMatrix, s.id) # {},
           NEW w
    PROVE  Writes(w)' \subseteq Writes(w)
<1> SUFFICES ASSUME NEW x \in Writes(w)' PROVE x \in Writes(w)
  OBVIOUS
<1>0. PICK l \in Coordinators : \E r \in flight'[l] :
         /\ x = <<TargetId(r), r.value>> /\ WeekOf(r.cell) = w
         /\ r.kind \in {"add", "update"} /\ r.pc = "checked"
         /\ r.kind = "add" \/ RowWith(storedMatrix', r.id) # {}
  BY DEF Writes, Writing, TargetId, RowWith, WeekOf
<1>1. PICK r \in flight'[l] :
         /\ x = <<TargetId(r), r.value>> /\ WeekOf(r.cell) = w
         /\ r.kind \in {"add", "update"} /\ r.pc = "checked"
         /\ r.kind = "add" \/ RowWith(storedMatrix', r.id) # {}
  BY <1>0
<1>2. PICK s \in flight[l] :
         r.kind = s.kind /\ r.id = s.id /\ r.cell = s.cell /\ r.value = s.value /\ r.pc = s.pc
  BY <1>1
<1>3. s \in Writing(w) /\ (s.kind = "add" \/ RowWith(storedMatrix, s.id) # {})
  BY <1>1, <1>2 DEF Writing
<1>4. x = <<TargetId(s), s.value>>
  BY <1>1, <1>2 DEF TargetId
<1> QED
  BY <1>3, <1>4 DEF Writes

LEMMA ProductGrows ==
    ASSUME NEW a \in Nat, NEW b \in Nat, a <= b, NEW n \in Nat
    PROVE  a * n \in Nat /\ b * n \in Nat /\ a * n <= b * n
<1>1. PICK c \in Nat : b = a + c
  <2>1. b - a \in Nat /\ b = a + (b - a)
    OBVIOUS
  <2> QED
    BY <2>1
<1>2. b * n = a * n + c * n
  BY <1>1
<1>3. a * n \in Nat /\ c * n \in Nat
  OBVIOUS
<1> DEFINE x == a * n
           y == b * n
           z == c * n
<1>4. y = x + z /\ x \in Nat /\ z \in Nat
  BY <1>2, <1>3
<1>5. x \in Nat /\ y \in Nat /\ x <= y
  <2> HIDE DEF x, y, z
  <2> QED
    BY <1>4
<1> QED
  BY <1>5

LEMMA BoundKept ==
    ASSUME MatrixTypeOK, WeeksBounded, storedMatrix' \subseteq storedMatrix,
           \A w \in MatrixWeeks : peak'[w] \in Nat /\ peak[w] <= peak'[w],
           \A w \in MatrixWeeks : Writes(w)' \subseteq Writes(w)
    PROVE  WeeksBounded'
<1>1. \A w \in MatrixWeeks : \A x \in Writes(w)' : x[2] <= WeekLimit
  BY DEF WeeksBounded
<1>2. ASSUME NEW w \in MatrixWeeks, NEW V \in SUBSET (Writes(w)')
      PROVE  Total(CountOf, RestOf(w, V)') + Total(SizeOf, V) <= peak'[w] * WeekLimit
  <2> DEFINE R == RestOf(w, V)
             R1 == RestOf(w, V)'
             a == Total(CountOf, R1)
             b == Total(CountOf, R)
             c == Total(SizeOf, V)
             p == peak[w] * WeekLimit
             p1 == peak'[w] * WeekLimit
  <2>1. V \in SUBSET Writes(w) /\ V \in SUBSET (Int \X Nat) /\ IsFiniteSet(V)
    BY WritesFinite, FS_Subset
  <2>2. b + c <= p
    BY <2>1 DEF WeeksBounded
  <2>3. R \in SUBSET Distributions /\ IsFiniteSet(R)
    BY RestRows
  <2>4. R1 \in SUBSET R
    BY DEF RestOf
  <2>5. p \in Nat /\ p1 \in Nat /\ p <= p1
    <3>1. peak[w] \in Nat /\ WeekLimit \in Nat
      BY MatrixAssumption DEF MatrixTypeOK
    <3> QED
      BY <3>1, ProductGrows
  <2> HIDE DEF R, R1
  <2>6. a \in Nat /\ b \in Nat /\ a <= b
    <3>1. R1 \in SUBSET Distributions /\ IsFiniteSet(R1)
      BY <2>3, <2>4, RowsTotal
    <3> QED
      BY <2>3, <2>4, <3>1, RowsTotal
  <2>7. c \in Nat
    BY <2>1, SizesTotal
  <2>8. a + c <= p1
    <3> HIDE DEF a, b, c, p, p1
    <3> QED
      BY <2>2, <2>5, <2>6, <2>7
  <2> QED
    BY <2>8 DEF R1
<1> QED
  BY <1>1, <1>2, WeeksBoundedNext

-----------------------------------------------------------------------------
(* The bound of a week: a row is written.                                  *)

LEMMA BoundWrite ==
    ASSUME MatrixTypeOK, WeeksBounded, NEW t \in Int, NEW v \in Nat, NEW u \in MatrixWeeks,
           <<t, v>> \in Writes(u), \A w \in MatrixWeeks : Writes(w)' \subseteq Writes(w),
           NEW row \in Distributions, row.id = t, row.count = v, WeekOf(row.cell) = u,
           storedMatrix' = (storedMatrix \ RowWith(storedMatrix, t)) \cup {row}, peak' = peak
    PROVE  WeeksBounded'
<1>1. \A w \in MatrixWeeks : \A x \in Writes(w)' : x[2] <= WeekLimit
  BY DEF WeeksBounded
<1>2. ASSUME NEW w \in MatrixWeeks, NEW V \in SUBSET (Writes(w)')
      PROVE  Total(CountOf, RestOf(w, V)') + Total(SizeOf, V) <= peak'[w] * WeekLimit
  <2> DEFINE R1 == RestOf(w, V)'
             a == Total(CountOf, R1)
             c == Total(SizeOf, V)
             p == peak[w] * WeekLimit
  <2>1. V \in SUBSET Writes(w) /\ V \in SUBSET (Int \X Nat) /\ IsFiniteSet(V)
    BY WritesFinite, FS_Subset
  <2>2. p \in Nat
    BY MatrixAssumption DEF MatrixTypeOK
  <2>3. c \in Nat
    BY <2>1, SizesTotal
  <2>4. CASE w # u \/ \E x \in V : x[1] = t
    <3> DEFINE R == RestOf(w, V)
               b == Total(CountOf, R)
    <3>1. b + c <= p
      BY <2>1 DEF WeeksBounded
    <3>2. R \in SUBSET Distributions /\ IsFiniteSet(R)
      BY RestRows
    <3>3. R1 \in SUBSET R
      BY <2>4 DEF RestOf
    <3> HIDE DEF R, R1
    <3>4. a \in Nat /\ b \in Nat /\ a <= b
      <4>1. R1 \in SUBSET Distributions /\ IsFiniteSet(R1)
        BY <3>2, <3>3, RowsTotal
      <4> QED
        BY <3>2, <3>3, <4>1, RowsTotal
    <3>5. a + c <= p
      <4> HIDE DEF a, b, c, p
      <4> QED
        BY <2>2, <2>3, <3>1, <3>4
    <3> QED
      BY <3>5 DEF R1
  <2>5. CASE w = u /\ \A x \in V : x[1] # t
    <3> DEFINE m == <<t, v>>
               U == V \cup {m}
               R == RestOf(w, U)
               b == Total(CountOf, R)
               e == Total(SizeOf, U)
    <3>1. U \in SUBSET Writes(w) /\ m \notin V /\ m \in Int \X Nat
      BY <2>1, <2>5
    <3>2. b + e <= p
      BY <3>1 DEF WeeksBounded
    <3>3. R \in SUBSET Distributions /\ IsFiniteSet(R)
      BY RestRows
    <3>4. R1 = R \cup {row} /\ row \notin R
      BY <2>5 DEF RestOf, RowWith
    <3>5. SizeOf[m] = v /\ \A x \in V : SizeOf[x] \in Nat
      BY <2>1, <3>1, SizesTotal DEF SizeOf
    <3>6. CountOf[row] = v /\ \A d \in R : CountOf[d] \in Nat
      BY <3>3 DEF CountOf, Distributions
    <3> HIDE DEF R, R1, m
    <3>7. e = v + c
      BY <2>1, <3>1, <3>5, TotalInsert
    <3>8. a = v + b
      BY <3>3, <3>4, <3>6, TotalInsert
    <3>9. b \in Nat
      BY <3>3, RowsTotal
    <3>10. a + c <= p
      <4> HIDE DEF a, b, c, e, p
      <4> QED
        BY <2>2, <2>3, <3>2, <3>7, <3>8, <3>9
    <3> QED
      BY <3>10 DEF R1
  <2> QED
    BY <2>4, <2>5
<1> QED
  BY <1>1, <1>2, WeeksBoundedNext

-----------------------------------------------------------------------------
(* The bound of a week: a request passes its check.                        *)

LEMMA MaxOfTwo ==
    ASSUME NEW a \in Nat, NEW b \in Nat
    PROVE  Max({a, b}) \in Nat /\ Max({a, b}) >= a /\ Max({a, b}) >= b
<1>1. \E x \in {a, b} : \A y \in {a, b} : x >= y
  BY DEF Max
<1>2. Max({a, b}) \in {a, b} /\ \A y \in {a, b} : Max({a, b}) >= y
  BY <1>1 DEF Max
<1> QED
  BY <1>2

\* The week without the written row is at least what it holds besides any writes that
\* include that one.
LEMMA OthersCover ==
    ASSUME MatrixTypeOK, NEW q \in CellRequests, q.kind \in {"add", "update"},
           NEW V, \E x \in V : x[1] = TargetId(q)
    PROVE  /\ SumOfOthers(q) \in Nat
           /\ Total(CountOf, RestOf(WeekOf(q.cell), V)) <= SumOfOthers(q)
<1> DEFINE u == WeekOf(q.cell)
           S == IF q.kind = "add" THEN storedMatrix ELSE storedMatrix \ RowWith(storedMatrix, q.id)
           W == {d \in S : WeekOf(d.cell) = u}
           R == RestOf(u, V)
<1>1. SumOfOthers(q) = MapThenSumSet(LAMBDA d : d.count, W)
  BY DEF SumOfOthers, SumWeek
<1>2. W \in SUBSET storedMatrix /\ storedMatrix \in SUBSET Distributions /\ IsFiniteSet(storedMatrix)
  BY DEF MatrixTypeOK
<1>3. R \in SUBSET W
  BY DEF RestOf, RowWith, TargetId
<1> HIDE DEF W, R
<1>4. W \in SUBSET Distributions /\ IsFiniteSet(W)
  BY <1>2, FS_Subset
<1>5. SumOfOthers(q) = Total(CountOf, W)
  BY <1>1, <1>4, CountsTotal
<1>6. Total(CountOf, W) \in Nat /\ Total(CountOf, R) <= Total(CountOf, W)
  BY <1>3, <1>4, RowsTotal
<1> QED
  BY <1>5, <1>6 DEF R

\* One write more, which fits beside the others, for one writer more.
LEMMA BoundCheck ==
    ASSUME MatrixTypeOK, WeeksBounded, NEW q \in CellRequests, q.kind \in {"add", "update"},
           NEW u \in MatrixWeeks, u = WeekOf(q.cell),
           SumOfOthers(q) + q.value <= WeekLimit, storedMatrix' = storedMatrix,
           peak' = [peak EXCEPT ![u] = Max({@, Cardinality(Writing(u)) + 1})],
           \A w \in MatrixWeeks : \A x \in Writes(w)' :
              x \in Writes(w) \/ (w = u /\ x = <<TargetId(q), q.value>>)
    PROVE  WeeksBounded'
<1> DEFINE m == <<TargetId(q), q.value>>
           n == Cardinality(Writing(u))
<1>1. q.value \in Nat /\ m \in Int \X Nat
  BY DEF CellRequests, TargetId
<1>2. WeekLimit \in Nat
  BY MatrixAssumption
<1>3. n \in Nat /\ Cardinality(Writes(u)) \in Nat /\ Cardinality(Writes(u)) <= n
  BY WritesFinite, FS_CardinalityType
<1>4. SumOfOthers(q) \in Nat
  <2>1. \E x \in {m} : x[1] = TargetId(q)
    OBVIOUS
  <2> QED
    BY <2>1, OthersCover
<1>5. q.value <= WeekLimit
  BY <1>1, <1>2, <1>4
<1>6. /\ peak'[u] \in Nat /\ peak'[u] >= n + 1
      /\ \A w \in MatrixWeeks : peak[w] \in Nat /\ peak'[w] \in Nat /\ peak[w] <= peak'[w]
  <2>1. peak \in [MatrixWeeks -> Nat] /\ n + 1 \in Nat
    BY <1>3 DEF MatrixTypeOK
  <2>2. Max({peak[u], n + 1}) \in Nat /\ Max({peak[u], n + 1}) >= peak[u] /\ Max({peak[u], n + 1}) >= n + 1
    BY <2>1, MaxOfTwo
  <2> DEFINE z == Max({peak[u], n + 1})
  <2>3. peak' = [peak EXCEPT ![u] = z]
    OBVIOUS
  <2>4. z \in Nat /\ z >= peak[u] /\ z >= n + 1
    BY <2>2
  <2> HIDE DEF n, z
  <2> QED
    BY <2>1, <2>3, <2>4
<1>7. \A w \in MatrixWeeks : \A x \in Writes(w)' : x[2] <= WeekLimit
  BY <1>5 DEF WeeksBounded
<1> HIDE DEF n
<1>8. ASSUME NEW w \in MatrixWeeks, NEW V \in SUBSET (Writes(w)')
      PROVE  Total(CountOf, RestOf(w, V)') + Total(SizeOf, V) <= peak'[w] * WeekLimit
  <2> DEFINE R == RestOf(w, V)
             b == Total(CountOf, R)
             p == peak[w] * WeekLimit
             p1 == peak'[w] * WeekLimit
  <2>1. RestOf(w, V)' = R
    BY DEF RestOf
  <2>2. b \in Nat
    BY RestRows, RowsTotal
  <2>3. p \in Nat /\ p1 \in Nat /\ p <= p1
    BY <1>2, <1>6, ProductGrows
  <2>4. CASE V \in SUBSET Writes(w)
    <3> DEFINE c == Total(SizeOf, V)
    <3>1. c \in Nat
      BY <2>4, WritesFinite, FS_Subset, SizesTotal
    <3>2. b + c <= p
      BY <2>4 DEF WeeksBounded
    <3>3. b + c <= p1
      <4> HIDE DEF b, c, p, p1
      <4> QED
        BY <2>2, <2>3, <3>1, <3>2
    <3> QED
      BY <2>1, <3>3
  <2>5. CASE w = u /\ m \in V
    <3> DEFINE K == V \ {m}
               c == Total(SizeOf, V)
               e == Total(SizeOf, K)
               g == Cardinality(K) * WeekLimit
               h == n * WeekLimit
               s == SumOfOthers(q)
    <3>1. K \in SUBSET Writes(u) /\ V = K \cup {m} /\ m \notin K
      BY <2>5
    <3>2. K \in SUBSET (Int \X Nat) /\ IsFiniteSet(K) /\ Cardinality(K) \in Nat /\ Cardinality(K) <= n
      <4>1. IsFiniteSet(Writes(u)) /\ Writes(u) \in SUBSET (Int \X Nat)
        BY WritesFinite
      <4>2. IsFiniteSet(K) /\ Cardinality(K) <= Cardinality(Writes(u))
        BY <3>1, <4>1, FS_Subset
      <4>3. Cardinality(K) \in Nat
        BY <4>2, FS_CardinalityType
      <4> QED
        BY <1>3, <3>1, <4>1, <4>2, <4>3
    <3>3. \A x \in K : SizeOf[x] = x[2] /\ x[2] \in Nat /\ x[2] <= WeekLimit
      BY <3>1, <3>2, SizesTotal DEF WeeksBounded
    <3>4. SizeOf[m] = q.value
      BY <1>1 DEF SizeOf
    <3>5. b <= s
      <4>1. \E x \in V : x[1] = TargetId(q)
        BY <2>5
      <4> QED
        BY <2>5, <4>1, OthersCover
    <3> HIDE DEF m
    <3>6. c = q.value + e
      <4> HIDE DEF K
      <4> QED
        BY <1>1, <3>1, <3>2, <3>3, <3>4, TotalInsert
    <3>7. e \in Nat /\ e <= g
      <4>1. \A x \in K : SizeOf[x] \in 0 .. WeekLimit /\ SizeOf[x] \in Nat
        BY <1>2, <3>3
      <4> HIDE DEF K
      <4> QED
        BY <1>2, <3>2, <4>1, TotalBounded, TotalType
    <3>8. g \in Nat /\ h \in Nat /\ g <= h
      BY <1>2, <1>3, <3>2, ProductGrows
    <3>9. h + WeekLimit <= p1
      <4>1. (n + 1) * WeekLimit <= peak'[u] * WeekLimit
        BY <1>2, <1>3, <1>6, ProductGrows
      <4>2. (n + 1) * WeekLimit = n * WeekLimit + WeekLimit
        BY <1>2, <1>3
      <4> QED
        BY <2>5, <4>1, <4>2
    <3>10. b + c <= p1
      <4>1. s \in Nat /\ s + q.value <= WeekLimit
        BY <1>4
      <4> HIDE DEF b, c, e, g, h, s, p1
      <4> QED
        BY <1>1, <1>2, <2>2, <2>3, <3>5, <3>6, <3>7, <3>8, <3>9, <4>1
    <3> QED
      BY <2>1, <3>10
  <2>6. V \in SUBSET Writes(w) \/ (w = u /\ m \in V)
    OBVIOUS
  <2> QED
    BY <2>4, <2>5, <2>6
<1> QED
  BY <1>7, <1>8, WeeksBoundedNext

-----------------------------------------------------------------------------
(* The steps.                                                              *)

LEMMA RequestFields ==
    ASSUME MatrixTypeOK, NEW k \in Coordinators, NEW q \in flight[k]
    PROVE  /\ q \in CellRequests /\ q.id \in Int /\ q.value \in Nat /\ q.prev \in Nat
           /\ q.kind \in {"add", "update", "delete", "load"} /\ q.rows \in SUBSET Distributions
           /\ \A c \in {"sent", "checked", "refused", "done"} :
                 /\ [q EXCEPT !.pc = c] \in CellRequests /\ [q EXCEPT !.pc = c].pc = c
                 /\ [q EXCEPT !.pc = c].kind = q.kind /\ [q EXCEPT !.pc = c].id = q.id
                 /\ [q EXCEPT !.pc = c].cell = q.cell /\ [q EXCEPT !.pc = c].value = q.value
                 /\ [q EXCEPT !.pc = c].rows = q.rows
<1>1. q \in CellRequests
  BY DEF MatrixTypeOK
<1> QED
  BY <1>1 DEF CellRequests

LEMMA RequestCell ==
    ASSUME MatrixTypeOK, IdsStand, NEW k \in Coordinators, NEW q \in flight[k], q.kind # "load"
    PROVE  q.cell \in Cells /\ WeekOf(q.cell) \in MatrixWeeks
<1>1. q.cell \in Cells
  BY DEF IdsStand
<1> QED
  BY <1>1 DEF Cells, WeekOf

\* A request that is refused, and one that is done and added nothing, leave the bounds alone.
LEMMA QuietMove ==
    ASSUME MatrixIInv, NEW k \in Coordinators, NEW q \in flight[k], NEW c \in {"refused", "done"},
           c = "done" => q.kind # "add",
           MoveCell(k, q, c), storedMatrix' \in SUBSET storedMatrix,
           UNCHANGED <<shown, chosen, edits, lost, peak>>
    PROVE  MatrixIInv'
<1> DEFINE q1 == [q EXCEPT !.pc = c]
<1>1. /\ q1 \in CellRequests /\ q1.pc = c /\ q1.kind = q.kind /\ q1.id = q.id /\ q1.cell = q.cell
      /\ q1.value = q.value /\ q1.rows = q.rows
  <2>1. q \in CellRequests
    BY RequestFields DEF MatrixIInv
  <2> QED
    BY <2>1 DEF CellRequests
<1>2. flight' = [flight EXCEPT ![k] = (@ \ {q}) \cup {q1}]
  BY DEF MoveCell
<1> HIDE DEF q1
<1>3. /\ flight' \in [Coordinators -> SUBSET CellRequests]
      /\ \A l \in Coordinators : IsFiniteSet(flight'[l])
      /\ \A l \in Coordinators : \A r \in flight'[l] : (r \in flight[l] /\ (l = k => r # q)) \/ (l = k /\ r = q1)
  BY <1>1, <1>2, MovedType DEF MatrixIInv
<1>4. MatrixTypeOK'
  BY <1>3, FS_Subset DEF MatrixIInv, MatrixTypeOK
<1>5. RowsOf(q, q1)
  <2>1. \A d, e \in storedMatrix' : d.id = e.id => d = e
    BY DEF MatrixIInv, IdsStand
  <2> QED
    BY <2>1 DEF RowsOf
<1>6. SameCall(q, q1)
  BY <1>1 DEF SameCall, Pending
<1>8. IdsStand'
  BY <1>1, <1>2, <1>5, <1>6, ServerIds DEF MatrixIInv
<1>9. \A w \in MatrixWeeks : Writes(w)' \subseteq Writes(w)
  <2>1. \A l \in Coordinators : \A r \in flight'[l] : r.pc # "checked" \/ r \in flight[l]
    BY <1>1, <1>3
  <2>2. \A i : RowWith(storedMatrix', i) # {} => RowWith(storedMatrix, i) # {}
    BY DEF RowWith
  <2> QED
    BY <2>1, <2>2, WritesKept
<1>10. WeeksBounded'
  <2>1. \A w \in MatrixWeeks : peak'[w] \in Nat /\ peak[w] <= peak'[w]
    BY DEF MatrixIInv, MatrixTypeOK
  <2> QED
    BY <1>9, <2>1, BoundKept DEF MatrixIInv
<1> QED
  BY <1>4, <1>8, <1>10 DEF MatrixIInv

LEMMA CheckWeekLimitInv ==
    ASSUME MatrixIInv, NEW k \in Coordinators, NEW q \in flight[k], CheckWeekLimit(k, q)
    PROVE  MatrixIInv'
<1> DEFINE unknown == q.kind = "update" /\ RowWith(storedMatrix, q.id) = {}
           refused == IF q.kind = "update" /\ q.id < 0 THEN TRUE
                      ELSE ~unknown /\ SumOfOthers(q) + q.value > WeekLimit
           u == WeekOf(q.cell)
<1>1. /\ q.kind \in {"add", "update"} /\ q.pc = "sent"
      /\ MoveCell(k, q, IF refused THEN "refused" ELSE "checked")
      /\ peak' = IF refused THEN peak ELSE [peak EXCEPT ![u] = Max({@, Cardinality(Writing(u)) + 1})]
      /\ UNCHANGED <<storedMatrix, shown, chosen, edits, lost>>
  BY DEF CheckWeekLimit
<1>2. CASE refused
  BY <1>1, <1>2, QuietMove
<1>3. CASE ~refused
  <2> DEFINE q1 == [q EXCEPT !.pc = "checked"]
  <2>1. MatrixTypeOK /\ IdsStand /\ WeeksBounded
    BY DEF MatrixIInv
  <2>2. /\ q1 \in CellRequests /\ q1.pc = "checked" /\ q1.kind = q.kind /\ q1.id = q.id
        /\ q1.cell = q.cell /\ q1.value = q.value /\ q1.rows = q.rows
    BY <2>1, RequestFields
  <2>3. q \in CellRequests /\ q.id \in Int /\ q.value \in Nat
    BY <2>1, RequestFields
  <2>4. u \in MatrixWeeks
    BY <1>1, <2>1, RequestCell
  <2>5. flight' = [flight EXCEPT ![k] = (@ \ {q}) \cup {q1}]
    BY <1>1, <1>3 DEF MoveCell
  <2>6. peak' = [peak EXCEPT ![u] = Max({@, Cardinality(Writing(u)) + 1})]
    BY <1>1, <1>3
  <2>7. unknown \/ SumOfOthers(q) + q.value <= WeekLimit
    <3>1. CASE q.kind = "add"
      <4>1. \E x \in {<<TargetId(q), q.value>>} : x[1] = TargetId(q)
        OBVIOUS
      <4>2. SumOfOthers(q) \in Nat
        BY <1>1, <2>1, <2>3, <4>1, OthersCover
      <4> QED
        BY <1>3, <2>3, <3>1, <4>2, MatrixAssumption
    <3>2. CASE q.kind = "update"
      <4>1. \E x \in {<<TargetId(q), q.value>>} : x[1] = TargetId(q)
        OBVIOUS
      <4>2. SumOfOthers(q) \in Nat
        BY <1>1, <2>1, <2>3, <4>1, OthersCover
      <4> QED
        BY <1>3, <2>3, <3>2, <4>2, MatrixAssumption
    <3> QED
      BY <1>1, <3>1, <3>2
  <2> HIDE DEF q1
  <2>8. /\ flight' \in [Coordinators -> SUBSET CellRequests]
        /\ \A l \in Coordinators : IsFiniteSet(flight'[l])
        /\ \A l \in Coordinators : \A r \in flight'[l] : r \in flight[l] \/ (l = k /\ r = q1)
    BY <2>1, <2>2, <2>5, MovedType
  <2> DEFINE z == Max({peak[u], Cardinality(Writing(u)) + 1})
  <2>9. z \in Nat /\ z >= peak[u] /\ peak' = [peak EXCEPT ![u] = z]
    <3>1. peak[u] \in Nat /\ Cardinality(Writing(u)) + 1 \in Nat
      BY <2>1, <2>4, WritesFinite, FS_CardinalityType DEF MatrixTypeOK
    <3>2. z \in Nat /\ z >= peak[u]
      BY <3>1, MaxOfTwo
    <3> QED
      BY <2>6, <3>2
  <2>16. peak' \in [MatrixWeeks -> Nat] /\ \A w \in MatrixWeeks : peak'[w] \in Nat /\ peak[w] <= peak'[w]
    <3> HIDE DEF z, u
    <3> QED
      BY <2>1, <2>4, <2>9 DEF MatrixTypeOK
  <2>10. MatrixTypeOK'
    BY <1>1, <2>1, <2>8, <2>16 DEF MatrixTypeOK
  <2>11. \A d \in storedMatrix' : \E e \in storedMatrix : e.id = d.id /\ e.cell = d.cell
    BY <1>1
  <2>12. \A d, e \in storedMatrix' : d.id = e.id => d = e
    BY <1>1, <2>1 DEF IdsStand
  <2>13. IdsStand'
    <3>1. SameCall(q, q1)
      BY <1>1, <2>2 DEF SameCall, Pending
    <3>2. shown' = shown /\ edits' = edits
      BY <1>1
    <3>3. RowsOf(q, q1)
      BY <2>11, <2>12 DEF RowsOf
    <3> QED
      BY <2>1, <2>2, <2>5, <3>1, <3>2, <3>3, ServerIds
  <2>14. \A w \in MatrixWeeks : \A x \in Writes(w)' :
            x \in Writes(w) \/ (~unknown /\ w = u /\ x = <<TargetId(q), q.value>>)
    <3> SUFFICES ASSUME NEW w, NEW x \in Writes(w)'
                 PROVE  x \in Writes(w) \/ (~unknown /\ w = u /\ x = <<TargetId(q), q.value>>)
      OBVIOUS
    <3>0. PICK l \in Coordinators : \E r \in flight'[l] :
             /\ x = <<TargetId(r), r.value>> /\ WeekOf(r.cell) = w
             /\ r.kind \in {"add", "update"} /\ r.pc = "checked"
             /\ r.kind = "add" \/ RowWith(storedMatrix', r.id) # {}
      BY DEF Writes, Writing, TargetId, RowWith, WeekOf
    <3>1. PICK r \in flight'[l] :
             /\ x = <<TargetId(r), r.value>> /\ WeekOf(r.cell) = w
             /\ r.kind \in {"add", "update"} /\ r.pc = "checked"
             /\ r.kind = "add" \/ RowWith(storedMatrix, r.id) # {}
      BY <1>1, <3>0
    <3>2. CASE r \in flight[l]
      <4>1. r \in Writing(w)
        BY <3>1, <3>2 DEF Writing
      <4> QED
        BY <3>1, <4>1 DEF Writes
    <3>3. CASE r = q1
      <4>1. x = <<TargetId(q), q.value>> /\ w = u
        BY <2>2, <3>1, <3>3 DEF TargetId
      <4> QED
        BY <2>2, <3>1, <3>3, <4>1
    <3> QED
      BY <2>8, <3>2, <3>3
  <2>15. WeeksBounded'
    <3>1. CASE ~unknown
      <4>1. \A w \in MatrixWeeks : \A x \in Writes(w)' :
               x \in Writes(w) \/ (w = u /\ x = <<TargetId(q), q.value>>)
        BY <2>14
      <4>2. storedMatrix' = storedMatrix /\ SumOfOthers(q) + q.value <= WeekLimit
        BY <1>1, <2>7, <3>1
      <4> HIDE DEF u
      <4>3. u = WeekOf(q.cell)
        BY DEF u
      <4> QED
        BY <1>1, <2>1, <2>3, <2>4, <2>6, <4>1, <4>2, <4>3, BoundCheck
    <3>2. CASE unknown
      <4>2. \A w \in MatrixWeeks : Writes(w)' \subseteq Writes(w)
        BY <2>14, <3>2
      <4>3. storedMatrix' = storedMatrix
        BY <1>1
      <4> QED
        BY <2>1, <2>16, <4>2, <4>3, BoundKept
    <3> QED
      BY <3>1, <3>2
  <2> QED
    BY <2>10, <2>13, <2>15 DEF MatrixIInv
<1> QED
  BY <1>2, <1>3

\* The commit of a write: the request is done and the row stored.
LEMMA WrittenInv ==
    ASSUME MatrixIInv, NEW k \in Coordinators, NEW q \in flight[k],
           q.kind \in {"add", "update"}, q.pc = "checked",
           q.kind = "update" => RowWith(storedMatrix, q.id) # {},
           NEW row \in Distributions, row.id = TargetId(q), row.count = q.value, row.cell = q.cell,
           storedMatrix' = (storedMatrix \ RowWith(storedMatrix, TargetId(q))) \cup {row},
           MoveCell(k, q, "done"), UNCHANGED <<shown, chosen, edits, lost, peak>>
    PROVE  MatrixIInv'
<1> DEFINE q1 == [q EXCEPT !.pc = "done"]
           t == TargetId(q)
           u == WeekOf(q.cell)
<1>0. MatrixTypeOK /\ IdsStand /\ WeeksBounded
  BY DEF MatrixIInv
<1>1. /\ q1 \in CellRequests /\ q1.pc = "done" /\ q1.kind = q.kind /\ q1.id = q.id
      /\ q1.cell = q.cell /\ q1.value = q.value /\ q1.rows = q.rows
  BY <1>0, RequestFields
<1>2. q.id \in Int /\ q.value \in Nat /\ t \in Int
  <2>1. q.id \in Int /\ q.value \in Nat
    BY <1>0, RequestFields
  <2> QED
    BY <2>1 DEF TargetId
<1>3. u \in MatrixWeeks
  BY <1>0, RequestCell
<1>4. flight' = [flight EXCEPT ![k] = (@ \ {q}) \cup {q1}]
  BY DEF MoveCell
<1> HIDE DEF q1
<1>5. /\ flight' \in [Coordinators -> SUBSET CellRequests]
      /\ \A l \in Coordinators : IsFiniteSet(flight'[l])
      /\ \A l \in Coordinators : \A r \in flight'[l] : (r \in flight[l] /\ (l = k => r # q)) \/ (l = k /\ r = q1)
  BY <1>0, <1>1, <1>4, MovedType
<1>6. storedMatrix' \in SUBSET Distributions /\ IsFiniteSet(storedMatrix')
  <2>1. IsFiniteSet(storedMatrix \ RowWith(storedMatrix, TargetId(q)))
    BY <1>0, FS_Subset DEF MatrixTypeOK
  <2>2. IsFiniteSet((storedMatrix \ RowWith(storedMatrix, TargetId(q))) \cup {row})
    BY <2>1, FS_AddElement
  <2> QED
    BY <1>0, <2>2 DEF MatrixTypeOK
<1>7. MatrixTypeOK'
  BY <1>0, <1>5, <1>6 DEF MatrixTypeOK
<1>8. q.kind = "add" => 0 - q.id \notin SettledIds
  BY <1>0 DEF IdsStand, Pending
<1>9. \A d \in storedMatrix : d.id \in Int /\ d.cell \in Cells
  BY <1>0 DEF MatrixTypeOK, Distributions
<1>10. q.kind = "update" => \E e \in storedMatrix : e.id = q.id /\ e.cell = q.cell
  <2> SUFFICES ASSUME q.kind = "update" PROVE \E e \in storedMatrix : e.id = q.id /\ e.cell = q.cell
    OBVIOUS
  <2>1. PICK e \in storedMatrix : e.id = q.id
    BY DEF RowWith
  <2>2. <<Magnitude(e.id), e.cell>> \in Mentions
    BY StoredShownKnown, RowsMentioned
  <2>3. <<Magnitude(q.id), q.cell>> \in Mentions
    BY SentMembers, CallsMentioned
  <2>4. e.cell = q.cell
    BY <1>0, <2>1, <2>2, <2>3 DEF IdsStand
  <2> QED
    BY <2>1, <2>4
<1>11. RowsOf(q, q1)
  <2>1. \A d, e \in storedMatrix' : d.id = e.id => d = e
    BY <1>0 DEF IdsStand, RowWith
  <2> QED
    BY <1>1, <1>10, <2>1 DEF TargetId, RowsOf
<1>12. SameCall(q, q1)
  BY <1>1, <1>4 DEF SameCall, Pending
<1>13. IdsStand'
  BY <1>0, <1>1, <1>4, <1>11, <1>12, ServerIds
<1>14. \A w \in MatrixWeeks : Writes(w)' \subseteq Writes(w)
  <2>1. \A l \in Coordinators : \A r \in flight'[l] : r.pc # "checked" \/ r \in flight[l]
    BY <1>1, <1>5
  <2>2. ASSUME NEW l \in Coordinators, NEW s \in flight[l], s.kind = "update",
               RowWith(storedMatrix', s.id) # {}
        PROVE  RowWith(storedMatrix, s.id) # {}
    <3>1. PICK d \in storedMatrix' : d.id = s.id
      BY <2>2 DEF RowWith
    <3>2. CASE \E e \in storedMatrix : e.id = d.id
      BY <3>1, <3>2 DEF RowWith
    <3>3. CASE q.kind = "add" /\ d.id = 0 - q.id
      <4>1. s.id \in SettledIds
        BY <2>2, SentMembers, CallsMentioned
      <4> QED
        BY <1>8, <3>1, <3>3, <4>1
    <3> QED
      BY <1>11, <3>2, <3>3 DEF RowsOf
  <2> QED
    BY <2>1, <2>2, WritesKept
<1>15. <<t, q.value>> \in Writes(u)
  <2>1. q \in Writing(u)
    BY DEF Writing
  <2> QED
    BY <2>1 DEF Writes
<1>16. WeeksBounded'
  <2>1. WeekOf(row.cell) = u /\ peak' = peak /\ row.id = t
    OBVIOUS
  <2>2. storedMatrix' = (storedMatrix \ RowWith(storedMatrix, t)) \cup {row}
    OBVIOUS
  <2> HIDE DEF t, u
  <2> QED
    BY <1>0, <1>2, <1>3, <1>14, <1>15, <2>1, <2>2, BoundWrite
<1> QED
  BY <1>7, <1>13, <1>16 DEF MatrixIInv

LEMMA CreateDistributionInv ==
    ASSUME MatrixIInv, NEW k \in Coordinators, NEW q \in flight[k], CreateDistribution(k, q)
    PROVE  MatrixIInv'
<1> DEFINE row == [id |-> 0 - q.id, cell |-> q.cell, count |-> q.value]
<1>0. MatrixTypeOK /\ IdsStand
  BY DEF MatrixIInv
<1>1. q.kind = "add" /\ q.pc = "checked" /\ UNCHANGED <<shown, chosen, edits, lost, peak>>
  BY DEF CreateDistribution
<1>2. CASE \E d \in storedMatrix : d.cell = q.cell
  <2>1. MoveCell(k, q, "refused") /\ storedMatrix' = storedMatrix
    BY <1>2 DEF CreateDistribution, Refuse
  <2> QED
    BY <1>1, <2>1, QuietMove
<1>3. CASE ~\E d \in storedMatrix : d.cell = q.cell
  <2>1. MoveCell(k, q, "done") /\ storedMatrix' = storedMatrix \cup {row}
    BY <1>3 DEF CreateDistribution, Commit
  <2>2. q.cell \in Cells /\ q.id \in Int /\ q.value \in Nat
    BY <1>0, <1>1, RequestCell, RequestFields
  <2>3. row \in Distributions /\ row.id = TargetId(q) /\ row.count = q.value /\ row.cell = q.cell
    BY <1>1, <2>2 DEF Distributions, TargetId
  <2>4. RowWith(storedMatrix, TargetId(q)) = {}
    <3>1. 0 - q.id \notin SettledIds
      BY <1>0, <1>1 DEF IdsStand, Pending
    <3> QED
      BY <1>1, <3>1, StoredShownKnown, RowsMentioned DEF RowWith, TargetId
  <2>5. storedMatrix' = (storedMatrix \ RowWith(storedMatrix, TargetId(q))) \cup {row}
    BY <2>1, <2>4
  <2> HIDE DEF row
  <2> QED
    BY <1>1, <2>1, <2>3, <2>5, WrittenInv
<1> QED
  BY <1>2, <1>3

LEMMA UpdateDistributionInv ==
    ASSUME MatrixIInv, NEW k \in Coordinators, NEW q \in flight[k], UpdateDistributionQuantity(k, q)
    PROVE  MatrixIInv'
<1>0. MatrixTypeOK /\ IdsStand
  BY DEF MatrixIInv
<1>1. q.kind = "update" /\ q.pc = "checked" /\ UNCHANGED <<shown, chosen, edits, lost, peak>>
  BY DEF UpdateDistributionQuantity
<1>2. CASE RowWith(storedMatrix, q.id) = {}
  <2>1. MoveCell(k, q, "refused") /\ storedMatrix' = storedMatrix
    BY <1>2 DEF UpdateDistributionQuantity, Refuse
  <2> QED
    BY <1>1, <2>1, QuietMove
<1>3. CASE RowWith(storedMatrix, q.id) # {}
  <2>1. /\ MoveCell(k, q, "done")
        /\ storedMatrix' = {IF d.id = q.id THEN [d EXCEPT !.count = q.value] ELSE d : d \in storedMatrix}
    BY <1>3 DEF UpdateDistributionQuantity, Commit
  <2>2. q.cell \in Cells /\ q.id \in Int /\ q.value \in Nat
    BY <1>0, <1>1, RequestCell, RequestFields
  <2>3. PICK e \in storedMatrix : e.id = q.id
    BY <1>3 DEF RowWith
  <2>4. e.cell = q.cell /\ e \in Distributions
    <3>1. <<Magnitude(e.id), e.cell>> \in Mentions
      BY StoredShownKnown, RowsMentioned
    <3>2. <<Magnitude(q.id), q.cell>> \in Mentions
      BY <1>1, SentMembers, CallsMentioned
    <3>3. e.cell = q.cell
      BY <1>0, <2>3, <3>1, <3>2 DEF IdsStand
    <3> QED
      BY <1>0, <3>3 DEF MatrixTypeOK
  <2> DEFINE row == [e EXCEPT !.count = q.value]
  <2>5. row \in Distributions /\ row.id = TargetId(q) /\ row.count = q.value /\ row.cell = q.cell
    BY <1>1, <2>2, <2>3, <2>4 DEF Distributions, TargetId
  <2>6. \A d \in storedMatrix : d.id = q.id <=> d = e
    BY <1>0, <2>3 DEF IdsStand
  <2>7. RowWith(storedMatrix, TargetId(q)) = {e}
    BY <1>1, <2>6 DEF RowWith, TargetId
  <2>8. storedMatrix' = (storedMatrix \ {e}) \cup {row}
    BY <2>1, <2>6
  <2> HIDE DEF row
  <2> QED
    BY <1>1, <1>3, <2>1, <2>5, <2>7, <2>8, WrittenInv
<1> QED
  BY <1>2, <1>3

LEMMA DeleteDistributionInv ==
    ASSUME MatrixIInv, NEW k \in Coordinators, NEW q \in flight[k], DeleteDistribution(k, q)
    PROVE  MatrixIInv'
<1>1. q.kind = "delete" /\ UNCHANGED <<shown, chosen, edits, lost, peak>>
  BY DEF DeleteDistribution
<1>2. \/ MoveCell(k, q, "refused") /\ storedMatrix' = storedMatrix
      \/ MoveCell(k, q, "done") /\ storedMatrix' = storedMatrix \ RowWith(storedMatrix, q.id)
  BY DEF DeleteDistribution, Refuse, Commit
<1> QED
  BY <1>1, <1>2, QuietMove

LEMMA GetSummaryInv ==
    ASSUME MatrixIInv, NEW k \in Coordinators, NEW q \in flight[k], GetSummary(k, q)
    PROVE  MatrixIInv'
<1> DEFINE found == {d \in storedMatrix : d.cell[1] = q.cell[1]}
           q0 == [q EXCEPT !.pc = "done"]
           q1 == [q EXCEPT !.pc = "done", !.rows = found]
<1>0. MatrixTypeOK /\ IdsStand /\ WeeksBounded
  BY DEF MatrixIInv
<1>1. q.kind = "load" /\ UNCHANGED <<storedMatrix, shown, chosen, edits, lost, peak>>
      /\ flight' = [flight EXCEPT ![k] = (@ \ {q}) \cup {q1}]
  BY DEF GetSummary
<1>2. found \in SUBSET Distributions /\ found \subseteq storedMatrix
  BY <1>0 DEF MatrixTypeOK
<1>3. /\ q0 \in CellRequests /\ q0.pc = "done" /\ q0.kind = q.kind /\ q0.id = q.id /\ q0.cell = q.cell
  BY <1>0, RequestFields
<1>4. q1 = [q0 EXCEPT !.rows = found]
  BY <1>0 DEF MatrixTypeOK, CellRequests
<1> HIDE DEF found, q0, q1
<1>5. /\ q1 \in CellRequests /\ q1.pc = "done" /\ q1.kind = q.kind /\ q1.id = q.id /\ q1.cell = q.cell
      /\ q1.rows = found
  BY <1>2, <1>3, <1>4 DEF CellRequests
<1>6. /\ flight' \in [Coordinators -> SUBSET CellRequests]
      /\ \A l \in Coordinators : IsFiniteSet(flight'[l])
      /\ \A l \in Coordinators : \A r \in flight'[l] : (r \in flight[l] /\ (l = k => r # q)) \/ (l = k /\ r = q1)
  BY <1>0, <1>1, <1>5, MovedType
<1>7. MatrixTypeOK'
  BY <1>0, <1>1, <1>6 DEF MatrixTypeOK
<1>8. IdsStand'
  <2>1. SameCall(q, q1)
    BY <1>1, <1>2, <1>5 DEF SameCall, Pending
  <2>2. RowsOf(q, q1)
    BY <1>0, <1>1 DEF IdsStand, RowsOf
  <2> QED
    BY <1>0, <1>1, <1>5, <2>1, <2>2, ServerIds
<1>9. WeeksBounded'
  <2>1. \A l \in Coordinators : \A r \in flight'[l] : r.pc # "checked" \/ r \in flight[l]
    BY <1>5, <1>6
  <2>2. \A w \in MatrixWeeks : Writes(w)' \subseteq Writes(w)
    BY <1>1, <2>1, WritesKept
  <2>3. \A w \in MatrixWeeks : peak'[w] \in Nat /\ peak[w] <= peak'[w]
    BY <1>0, <1>1 DEF MatrixTypeOK
  <2> QED
    BY <1>0, <1>1, <2>2, <2>3, BoundKept
<1> QED
  BY <1>7, <1>8, <1>9 DEF MatrixIInv

-----------------------------------------------------------------------------
(* The steps of the page.                                                  *)

\* A request that is not past its check adds no write.
LEMMA PageBound ==
    ASSUME MatrixIInv, storedMatrix' = storedMatrix, peak' = peak,
           \A l \in Coordinators : \A r \in flight'[l] :
              \/ r.pc # "checked"
              \/ \E s \in flight[l] :
                    /\ r.kind = s.kind /\ r.id = s.id /\ r.cell = s.cell /\ r.value = s.value
                    /\ r.pc = s.pc
    PROVE  WeeksBounded'
<1>1. \A w \in MatrixWeeks : Writes(w)' \subseteq Writes(w)
  BY WritesKept
<1>2. \A w \in MatrixWeeks : peak'[w] \in Nat /\ peak[w] <= peak'[w]
  BY DEF MatrixIInv, MatrixTypeOK
<1> QED
  BY <1>1, <1>2, BoundKept DEF MatrixIInv

\* What the page shows and asks after an edit.
LEMMA MatrixPageStep ==
    ASSUME MatrixIInv, NEW k \in Coordinators, NEW q1 \in CellRequests,
           q1.rows = {}, q1.pc \in {"sent", "asked"}, Send(k, q1),
           edits' = edits + 1, UNCHANGED <<storedMatrix, lost, peak>>,
           chosen' \in [Coordinators -> MatrixTemplates],
           NEW F \in SUBSET Distributions, shown' = [shown EXCEPT ![k] = F],
           \A d \in F :
              \/ \E e \in shown[k] : e.id = d.id /\ e.cell = d.cell
              \/ q1.kind = "add" /\ d.id = q1.id /\ d.cell = q1.cell,
           \/ q1.kind = "load"
           \/ q1.kind = "add" /\ q1.id = 0 - edits - 1 /\ q1.cell \in Cells
           \/ /\ q1.kind \in {"update", "delete"}
              /\ \E e \in shown[k] : e.id = q1.id /\ e.cell = q1.cell
    PROVE  MatrixIInv'
<1>0. MatrixTypeOK /\ IdsStand
  BY DEF MatrixIInv
<1>1. flight' = [flight EXCEPT ![k] = @ \cup {q1}]
  BY DEF Send
<1>2. /\ flight' \in [Coordinators -> SUBSET CellRequests]
      /\ \A l \in Coordinators : IsFiniteSet(flight'[l])
      /\ \A l \in Coordinators : \A r \in flight'[l] : r \in flight[l] \/ (l = k /\ r = q1)
  BY <1>0, <1>1, SentType
<1>3. /\ shown' \in [Coordinators -> SUBSET Distributions]
      /\ shown'[k] = F /\ \A l \in Coordinators \ {k} : shown'[l] = shown[l]
  BY <1>0 DEF MatrixTypeOK
<1>4. MatrixTypeOK'
  BY <1>0, <1>2, <1>3 DEF MatrixTypeOK
<1>5. \A d \in shown'[k] :
         \/ \E e \in shown[k] : e.id = d.id /\ e.cell = d.cell
         \/ q1.kind = "add" /\ d.id = q1.id /\ d.cell = q1.cell
  BY <1>3
<1>6. IdsStand'
  BY <1>0, <1>1, <1>3, <1>5, PageIds
<1>7. \A l \in Coordinators : \A r \in flight'[l] : r.pc # "checked" \/ r \in flight[l]
  BY <1>2
<1>8. WeeksBounded'
  BY <1>7, PageBound
<1> QED
  BY <1>4, <1>6, <1>8 DEF MatrixIInv

LEMMA ShownRows ==
    ASSUME MatrixTypeOK, NEW k \in Coordinators
    PROVE  /\ shown[k] \in SUBSET Distributions
           /\ \A d \in shown[k] : d.id \in Int /\ d.cell \in Cells /\ d.count \in Nat
<1> QED
  BY DEF MatrixTypeOK, Distributions

LEMMA DeleteCellInv ==
    ASSUME MatrixIInv, NEW k \in Coordinators, NEW d \in shown[k], DeleteCell(k, d),
           edits' = edits + 1, UNCHANGED <<storedMatrix, chosen, lost, peak>>
    PROVE  MatrixIInv'
<1> DEFINE q1 == Request("delete", d.id, d.cell, 0, d.count)
           F == shown[k] \ {d}
<1>0. MatrixTypeOK
  BY DEF MatrixIInv
<1>1. shown[k] \in SUBSET Distributions /\ d.id \in Int /\ d.cell \in Cells /\ d.count \in Nat
  BY <1>0, ShownRows
<1>2. /\ q1 \in CellRequests /\ q1.kind = "delete" /\ q1.id = d.id /\ q1.cell = d.cell
      /\ q1.pc = "sent" /\ q1.rows = {}
  BY <1>1 DEF Request, CellRequests
<1>3. Send(k, q1) /\ shown' = [shown EXCEPT ![k] = F]
  BY DEF DeleteCell
<1>4. /\ F \in SUBSET Distributions
      /\ \A e \in F :
            \/ \E f \in shown[k] : f.id = e.id /\ f.cell = e.cell
            \/ q1.kind = "add" /\ e.id = q1.id /\ e.cell = q1.cell
  BY <1>1
<1>5. chosen' \in [Coordinators -> MatrixTemplates]
  BY <1>0 DEF MatrixTypeOK
<1>6. q1.kind \in {"update", "delete"} /\ \E e \in shown[k] : e.id = q1.id /\ e.cell = q1.cell
  BY <1>2
<1> HIDE DEF q1, F
<1>7. F \in SUBSET Distributions
  BY <1>4
<1> QED
  BY <1>2, <1>3, <1>4, <1>5, <1>6, <1>7, MatrixPageStep

LEMMA UpdateCellInv ==
    ASSUME MatrixIInv, NEW k \in Coordinators, NEW d \in shown[k], NEW value \in Nat, UpdateCell(k, d, value),
           edits' = edits + 1, UNCHANGED <<storedMatrix, chosen, lost, peak>>
    PROVE  MatrixIInv'
<1> DEFINE q1 == Request("update", d.id, d.cell, value, d.count)
           row == [d EXCEPT !.count = value]
           F == (shown[k] \ {d}) \cup {row}
<1>0. MatrixTypeOK
  BY DEF MatrixIInv
<1>1. shown[k] \in SUBSET Distributions /\ d.id \in Int /\ d.cell \in Cells /\ d.count \in Nat
  BY <1>0, ShownRows
<1>2. /\ q1 \in CellRequests /\ q1.kind = "update" /\ q1.id = d.id /\ q1.cell = d.cell
      /\ q1.pc = "sent" /\ q1.rows = {}
  BY <1>1 DEF Request, CellRequests
<1>3. Send(k, q1) /\ shown' = [shown EXCEPT ![k] = F]
  BY DEF UpdateCell
<1>4. row \in Distributions /\ row.id = d.id /\ row.cell = d.cell
  BY <1>1 DEF Distributions
<1> HIDE DEF row
<1>5. F \in SUBSET Distributions /\ \A e \in F : \E f \in shown[k] : f.id = e.id /\ f.cell = e.cell
  BY <1>1, <1>4
<1>6. chosen' \in [Coordinators -> MatrixTemplates]
  BY <1>0 DEF MatrixTypeOK
<1>7. \A e \in F :
         \/ \E f \in shown[k] : f.id = e.id /\ f.cell = e.cell
         \/ q1.kind = "add" /\ e.id = q1.id /\ e.cell = q1.cell
  BY <1>5
<1>8. q1.kind \in {"update", "delete"} /\ \E e \in shown[k] : e.id = q1.id /\ e.cell = q1.cell
  BY <1>2
<1> HIDE DEF q1, F
<1>9. F \in SUBSET Distributions
  BY <1>5
<1> QED
  BY <1>2, <1>3, <1>6, <1>7, <1>8, <1>9, MatrixPageStep

LEMMA AddCellInv ==
    ASSUME MatrixIInv, NEW k \in Coordinators, NEW week \in MatrixWeeks, NEW line \in MatrixRows,
           NEW value \in Nat, AddCell(k, week, line, value),
           edits' = edits + 1, UNCHANGED <<storedMatrix, chosen, lost, peak>>
    PROVE  MatrixIInv'
<1> DEFINE cell == <<chosen[k], week, line>>
           temp == [id |-> 0 - edits - 1, cell |-> cell, count |-> value]
           q1 == Request("add", temp.id, cell, value, 0)
           F == shown[k] \cup {temp}
<1>0. MatrixTypeOK
  BY DEF MatrixIInv
<1>1. cell \in Cells /\ edits \in Nat /\ shown[k] \in SUBSET Distributions
  BY <1>0 DEF MatrixTypeOK, Cells
<1>2. Send(k, q1) /\ shown' = [shown EXCEPT ![k] = F]
  BY DEF AddCell
<1> HIDE DEF cell
<1>3. temp \in Distributions /\ temp.id = 0 - edits - 1 /\ temp.id \in Int /\ temp.cell = cell
  BY <1>1 DEF Distributions
<1> HIDE DEF temp
<1>4. /\ q1 \in CellRequests /\ q1.kind = "add" /\ q1.id = temp.id /\ q1.cell = cell
      /\ q1.pc = "sent" /\ q1.rows = {}
  BY <1>1, <1>3 DEF Request, CellRequests
<1>5. F \in SUBSET Distributions /\ \A e \in F : e \in shown[k] \/ (e.id = temp.id /\ e.cell = cell)
  BY <1>1, <1>3
<1>6. chosen' \in [Coordinators -> MatrixTemplates]
  BY <1>0 DEF MatrixTypeOK
<1> HIDE DEF q1, F
<1>7. F \in SUBSET Distributions
  BY <1>5
<1>8. \A e \in F :
         \/ \E f \in shown[k] : f.id = e.id /\ f.cell = e.cell
         \/ q1.kind = "add" /\ e.id = q1.id /\ e.cell = q1.cell
  BY <1>4, <1>5
<1>9. q1.kind = "add" /\ q1.id = 0 - edits - 1 /\ q1.cell \in Cells
  BY <1>1, <1>3, <1>4
<1> QED
  BY <1>2, <1>4, <1>6, <1>7, <1>8, <1>9, MatrixPageStep

LEMMA EditInv ==
    ASSUME MatrixIInv, NEW k \in Coordinators, Edit(k)
    PROVE  MatrixIInv'
<1>1. edits' = edits + 1 /\ UNCHANGED <<storedMatrix, chosen, lost, peak>>
  BY DEF Edit
<1>2. \A v \in 1 .. CellLimit + 1 : v \in Nat
  OBVIOUS
<1>3. \/ \E week \in MatrixWeeks, line \in MatrixRows, value \in Nat : AddCell(k, week, line, value)
      \/ \E d \in shown[k], value \in Nat : UpdateCell(k, d, value)
      \/ \E d \in shown[k] : DeleteCell(k, d)
  BY <1>2 DEF Edit, CellRows
<1> QED
  BY <1>1, <1>3, AddCellInv, UpdateCellInv, DeleteCellInv

LEMMA RemoveCellsInv ==
    ASSUME MatrixIInv, NEW k \in Coordinators, RemoveCells(k)
    PROVE  MatrixIInv'
<1> QED
  BY DeleteCellInv DEF RemoveCells

\* A template is selected, and its load asked for or sent.
LEMMA AskLoadInv ==
    ASSUME MatrixIInv, NEW k \in Coordinators, NEW t \in MatrixTemplates,
           NEW pc \in {"asked", "sent"}, AskLoad(k, t, pc)
    PROVE  MatrixIInv'
<1> DEFINE q0 == Request("load", edits + 1, <<t, 0, 0>>, 0, 0)
           q1 == [q0 EXCEPT !.pc = pc]
           F == shown[k]
<1>0. MatrixTypeOK
  BY DEF MatrixIInv
<1>1. edits' = edits + 1 /\ UNCHANGED <<storedMatrix, shown, lost, peak>> /\ Send(k, q1)
  BY DEF AskLoad
<1>2. chosen' \in [Coordinators -> MatrixTemplates] /\ edits \in Nat
  BY <1>0 DEF AskLoad, MatrixTypeOK
<1>3. <<t, 0, 0>> \in Cells \cup (MatrixTemplates \X {0} \X {0})
  OBVIOUS
<1>4. q1 \in CellRequests /\ q1.kind = "load" /\ q1.pc \in {"sent", "asked"} /\ q1.rows = {}
  <2>1. /\ q0 \in CellRequests /\ q0.kind = "load" /\ q0.rows = {}
    BY <1>2, <1>3 DEF Request, CellRequests
  <2> HIDE DEF q0
  <2> QED
    BY <2>1 DEF CellRequests
<1>5. F \in SUBSET Distributions /\ shown' = [shown EXCEPT ![k] = F] /\ \A d \in F : d \in shown[k]
  BY <1>0, <1>1 DEF MatrixTypeOK
<1> HIDE DEF q1, F
<1> QED
  BY <1>1, <1>2, <1>4, <1>5, MatrixPageStep

LEMMA SelectSavedTemplateInv ==
    ASSUME MatrixIInv, NEW k \in Coordinators, SelectSavedTemplate(k)
    PROVE  MatrixIInv'
<1>0. MatrixTypeOK /\ IdsStand
  BY DEF MatrixIInv
<1>1. /\ edits' = edits + 1 /\ UNCHANGED <<storedMatrix, shown, flight, lost, peak>>
      /\ chosen' = [chosen EXCEPT ![k] = savedTemplate[k]] /\ savedTemplate[k] \in MatrixTemplates
  BY DEF SelectSavedTemplate
<1>2. MatrixTypeOK'
  BY <1>0, <1>1 DEF MatrixTypeOK
<1>3. IdsStand'
  <2>1. Mentions' = Mentions /\ SettledIds' = SettledIds
    BY <1>1 DEF Mentions, SettledIds, KnownRows, CellCalls, SentRequests, Magnitude
  <2>2. \A m \in Mentions : m[1] \in 1 .. edits'
    BY <1>0, <1>1 DEF IdsStand, MatrixTypeOK
  <2> QED
    BY <1>0, <1>1, <2>1, <2>2 DEF IdsStand, Pending
<1>4. WeeksBounded'
  BY <1>1, PageBound
<1> QED
  BY <1>2, <1>3, <1>4 DEF MatrixIInv

-----------------------------------------------------------------------------
(* The answers, the initial states and the theorems.                       *)

\* Whatever an answer makes the page show was known before.
LEMMA AnswerStep ==
    ASSUME MatrixIInv, NEW k \in Coordinators, NEW q \in flight[k], NEW F,
           F = flight[k] \ {q} \/ F = {[r EXCEPT !.bound = FALSE] : r \in flight[k] \ {q}},
           flight' = [flight EXCEPT ![k] = F], NEW G,
           shown' = [shown EXCEPT ![k] = G],
           \A d \in G : \/ d \in shown[k] \/ d \in q.rows
                        \/ /\ d \in Distributions
                           /\ <<Magnitude(d.id), d.cell>> \in Mentions /\ d.id \in SettledIds,
           UNCHANGED <<storedMatrix, chosen, edits, peak>>, lost' \in Nat
    PROVE  MatrixIInv'
<1>0. MatrixTypeOK /\ IdsStand
  BY DEF MatrixIInv
<1>1. /\ flight' \in [Coordinators -> SUBSET CellRequests]
      /\ \A l \in Coordinators : IsFiniteSet(flight'[l])
      /\ \A l \in Coordinators : \A r \in flight'[l] :
            \E s \in flight[l] :
               /\ r.kind = s.kind /\ r.id = s.id /\ r.cell = s.cell /\ r.value = s.value
               /\ r.pc = s.pc /\ r.rows = s.rows
  BY <1>0, AnsweredType
<1>2. q.rows \in SUBSET Distributions /\ shown[k] \in SUBSET Distributions
  BY <1>0, RequestFields, ShownRows
<1>3. G \in SUBSET Distributions
  BY <1>2
<1>4. /\ shown' \in [Coordinators -> SUBSET Distributions]
      /\ shown'[k] = G /\ \A l \in Coordinators \ {k} : shown'[l] = shown[l]
  BY <1>0, <1>3 DEF MatrixTypeOK
<1>5. MatrixTypeOK'
  BY <1>0, <1>1, <1>4 DEF MatrixTypeOK
<1>6. \A d \in shown'[k] : <<Magnitude(d.id), d.cell>> \in Mentions /\ d.id \in SettledIds
  BY <1>4, SentMembers, StoredShownKnown, RowsMentioned
<1>7. IdsStand'
  BY <1>0, <1>4, <1>6, AnswerIds
<1>8. \A l \in Coordinators : \A r \in flight'[l] :
         \E s \in flight[l] :
            /\ r.kind = s.kind /\ r.id = s.id /\ r.cell = s.cell /\ r.value = s.value /\ r.pc = s.pc
  BY <1>1
<1>9. WeeksBounded'
  BY <1>8, PageBound
<1> QED
  BY <1>5, <1>7, <1>9 DEF MatrixIInv

LEMMA RollbackKnown ==
    ASSUME MatrixTypeOK, IdsStand, NEW k \in Coordinators, NEW q \in flight[k],
           NEW d \in Rollback(k, q)
    PROVE  \/ d \in shown[k]
           \/ /\ d \in Distributions
              /\ <<Magnitude(d.id), d.cell>> \in Mentions /\ d.id \in SettledIds
<1>1. q.id \in Int /\ q.prev \in Nat
  BY RequestFields
<1>2. CASE q.kind = "update" /\ q.bound
  <2>1. PICK e \in shown[k] : d = IF e.id = q.id THEN [e EXCEPT !.count = q.prev] ELSE e
    BY <1>2 DEF Rollback
  <2>2. e \in Distributions
    BY ShownRows
  <2>3. d \in Distributions /\ d.id = e.id /\ d.cell = e.cell
    BY <1>1, <2>1, <2>2 DEF Distributions
  <2> QED
    BY <2>3, StoredShownKnown, RowsMentioned
<1>3. CASE q.kind = "delete"
  <2>1. d \in shown[k] \/ d = [id |-> q.id, cell |-> q.cell, count |-> q.prev]
    BY <1>3 DEF Rollback
  <2>2. q.cell \in Cells
    BY <1>3, RequestCell
  <2>3. [id |-> q.id, cell |-> q.cell, count |-> q.prev] \in Distributions
    BY <1>1, <2>2 DEF Distributions
  <2>4. <<Magnitude(q.id), q.cell>> \in Mentions /\ q.id \in SettledIds
    BY <1>3, SentMembers, CallsMentioned
  <2> QED
    BY <2>1, <2>3, <2>4
<1>4. CASE q.kind # "delete" /\ ~(q.kind = "update" /\ q.bound)
  BY <1>4 DEF Rollback
<1> QED
  BY <1>2, <1>3, <1>4

LEMMA ConfirmKnown ==
    ASSUME MatrixTypeOK, IdsStand, NEW k \in Coordinators, NEW q \in flight[k], q.pc = "done",
           NEW d \in Confirm(k, q)
    PROVE  \/ d \in shown[k] \/ d \in q.rows
           \/ /\ d \in Distributions
              /\ <<Magnitude(d.id), d.cell>> \in Mentions /\ d.id \in SettledIds
<1>1. q.id \in Int /\ q.value \in Nat
  BY RequestFields
<1>2. CASE q.kind = "add"
  <2>1. d \in shown[k] \/ d = [id |-> 0 - q.id, cell |-> q.cell, count |-> q.value]
    BY <1>2 DEF Confirm
  <2>2. q.cell \in Cells
    BY <1>2, RequestCell
  <2>3. [id |-> 0 - q.id, cell |-> q.cell, count |-> q.value] \in Distributions
    BY <1>1, <2>2 DEF Distributions
  <2>4. q \in CellCalls
    BY <1>2, SentMembers
  <2>5. 0 - q.id \in SettledIds
    BY <1>2, <2>4 DEF SettledIds
  <2>6. Magnitude(0 - q.id) = Magnitude(q.id)
    BY <1>1 DEF Magnitude
  <2>7. <<Magnitude(0 - q.id), q.cell>> \in Mentions
    BY <2>4, <2>6, CallsMentioned
  <2> QED
    BY <2>1, <2>3, <2>5, <2>7
<1>3. CASE q.kind # "add"
  BY <1>3 DEF Confirm
<1> QED
  BY <1>2, <1>3

LEMMA MatrixAnsweredInv ==
    ASSUME MatrixIInv, NEW k \in Coordinators, NEW q \in flight[k], MatrixAnswered(k, q)
    PROVE  MatrixIInv'
<1> DEFINE F == Settled(k, q)
           G == IF q.pc = "done" THEN Confirm(k, q) ELSE Rollback(k, q)
<1>0. MatrixTypeOK /\ IdsStand
  BY DEF MatrixIInv
<1>1. F = flight[k] \ {q} \/ F = {[r EXCEPT !.bound = FALSE] : r \in flight[k] \ {q}}
  BY DEF Settled
<1>2. /\ flight' = [flight EXCEPT ![k] = F] /\ shown' = [shown EXCEPT ![k] = G]
      /\ UNCHANGED <<storedMatrix, chosen, edits, lost, peak>>
  BY DEF MatrixAnswered
<1>3. \A d \in G : \/ d \in shown[k] \/ d \in q.rows
                   \/ /\ d \in Distributions
                      /\ <<Magnitude(d.id), d.cell>> \in Mentions /\ d.id \in SettledIds
  <2>1. CASE q.pc = "done"
    BY <1>0, <2>1, ConfirmKnown
  <2>2. CASE q.pc # "done"
    BY <1>0, <2>2, RollbackKnown
  <2> QED
    BY <2>1, <2>2
<1>4. lost' \in Nat
  BY <1>0, <1>2 DEF MatrixTypeOK
<1> HIDE DEF F, G
<1> QED
  BY <1>1, <1>2, <1>3, <1>4, AnswerStep

LEMMA AnswerLostInv ==
    ASSUME MatrixIInv, NEW k \in Coordinators, NEW q \in flight[k], AnswerLost(k, q)
    PROVE  MatrixIInv'
<1> DEFINE F == flight[k] \ {q}
           G == Rollback(k, q)
<1>0. MatrixTypeOK /\ IdsStand
  BY DEF MatrixIInv
<1>1. /\ flight' = [flight EXCEPT ![k] = F] /\ shown' = [shown EXCEPT ![k] = G]
      /\ UNCHANGED <<storedMatrix, chosen, edits, peak>>
  BY DEF AnswerLost
<1>2. \A d \in G : \/ d \in shown[k]
                   \/ /\ d \in Distributions
                      /\ <<Magnitude(d.id), d.cell>> \in Mentions /\ d.id \in SettledIds
  BY <1>0, RollbackKnown
<1>3. lost' \in Nat
  BY <1>0 DEF AnswerLost, MatrixTypeOK
<1>4. F = flight[k] \ {q}
  OBVIOUS
<1> HIDE DEF F, G
<1> QED
  BY <1>1, <1>2, <1>3, <1>4, AnswerStep

\* What a load that is sent becomes.
LEMMA LoadSent ==
    ASSUME MatrixTypeOK, NEW k \in Coordinators, NEW q \in flight[k], q.kind = "load", q.pc = "asked"
    PROVE  \E q1 \in CellRequests :
              /\ [q EXCEPT !.pc = "sent", !.cell = <<chosen[k], 0, 0>>] = q1
              /\ q1.kind = "load" /\ q1.id = q.id /\ q1.cell = <<chosen[k], 0, 0>>
              /\ q1.pc = "sent" /\ q1.rows = q.rows
<1>1. q \in CellRequests /\ chosen[k] \in MatrixTemplates
  BY DEF MatrixTypeOK
<1> DEFINE c == <<chosen[k], 0, 0>>
           q1 == [q EXCEPT !.pc = "sent", !.cell = c]
<1>2. c \in Cells \cup (MatrixTemplates \X {0} \X {0})
  BY <1>1
<1> HIDE DEF c
<1>3. /\ q1 \in CellRequests /\ q1.kind = "load" /\ q1.id = q.id /\ q1.cell = c
      /\ q1.pc = "sent" /\ q1.rows = q.rows
  BY <1>1, <1>2 DEF CellRequests
<1>4. [q EXCEPT !.pc = "sent", !.cell = <<chosen[k], 0, 0>>] = q1 /\ c = <<chosen[k], 0, 0>>
  BY DEF c
<1> HIDE DEF q1
<1> QED
  BY <1>3, <1>4

LEMMA LoadDistributionsInv ==
    ASSUME MatrixIInv, NEW k \in Coordinators, NEW q \in flight[k], LoadDistributions(k, q)
    PROVE  MatrixIInv'
<1>0. MatrixTypeOK /\ IdsStand /\ WeeksBounded
  BY DEF MatrixIInv
<1>1. /\ q.kind = "load" /\ q.pc = "asked"
      /\ UNCHANGED <<storedMatrix, shown, chosen, edits, peak>>
  BY DEF LoadDistributions
<1>2. CASE lost' = lost + 1 /\ flight' = [flight EXCEPT ![k] = @ \ {q}]
  <2> DEFINE F == flight[k] \ {q}
             G == shown[k]
  <2>1. shown' = [shown EXCEPT ![k] = G] /\ lost' \in Nat
    BY <1>0, <1>1, <1>2 DEF MatrixTypeOK
  <2>2. F = flight[k] \ {q} /\ flight' = [flight EXCEPT ![k] = F] /\ \A d \in G : d \in shown[k]
    BY <1>2
  <2> HIDE DEF F, G
  <2> QED
    BY <1>1, <2>1, <2>2, AnswerStep
<1>3. CASE /\ flight' = [flight EXCEPT ![k] = (@ \ {q}) \cup
                {[q EXCEPT !.pc = "sent", !.cell = <<chosen[k], 0, 0>>]}]
           /\ lost' = lost
  <2>1. PICK q1 \in CellRequests :
              /\ [q EXCEPT !.pc = "sent", !.cell = <<chosen[k], 0, 0>>] = q1
              /\ q1.kind = "load" /\ q1.id = q.id /\ q1.cell = <<chosen[k], 0, 0>>
              /\ q1.pc = "sent" /\ q1.rows = q.rows
    BY <1>0, <1>1, LoadSent
  <2>2. flight' = [flight EXCEPT ![k] = (@ \ {q}) \cup {q1}]
    BY <1>3, <2>1
  <2>3. /\ flight' \in [Coordinators -> SUBSET CellRequests]
        /\ \A l \in Coordinators : IsFiniteSet(flight'[l])
        /\ \A l \in Coordinators : \A r \in flight'[l] : (r \in flight[l] /\ (l = k => r # q)) \/ (l = k /\ r = q1)
    BY <1>0, <2>2, MovedType
  <2>4. MatrixTypeOK'
    BY <1>0, <1>1, <1>3, <2>3 DEF MatrixTypeOK
  <2>5. IdsStand'
    <3>1. SameCall(q, q1)
      BY <1>1, <2>1 DEF SameCall
    <3>2. RowsOf(q, q1)
      BY <1>0, <1>1 DEF IdsStand, RowsOf
    <3> QED
      BY <1>0, <1>1, <2>1, <2>2, <3>1, <3>2, ServerIds
  <2>6. \A l \in Coordinators : \A r \in flight'[l] : r.pc # "checked" \/ r \in flight[l]
    BY <2>1, <2>3
  <2>7. WeeksBounded'
    BY <1>1, <2>6, PageBound
  <2> QED
    BY <2>4, <2>5, <2>7 DEF MatrixIInv
<1> QED
  BY <1>2, <1>3 DEF LoadDistributions

LEMMA MatrixInitInv == MatrixInit => MatrixIInv
<1> SUFFICES ASSUME MatrixInit PROVE MatrixIInv
  OBVIOUS
<1>1. /\ storedMatrix = {} /\ edits = 0 /\ lost = 0
      /\ \A k \in Coordinators : shown[k] = {} /\ flight[k] = {}
      /\ \A w \in MatrixWeeks : peak[w] = 1
  BY DEF MatrixInit
<1>2. IsFiniteSet({})
  BY FS_EmptySet
<1>3. MatrixTypeOK
  BY <1>1, <1>2 DEF MatrixInit, MatrixTypeOK
<1>4. KnownRows = {} /\ CellCalls = {}
  BY <1>1 DEF KnownRows, CellCalls, SentRequests
<1>5. Mentions = {} /\ SettledIds = {}
  BY <1>4 DEF Mentions, SettledIds
<1>6. IdsStand
  BY <1>1, <1>5 DEF IdsStand
<1>7. \A w \in MatrixWeeks : Writes(w) = {}
  BY <1>1 DEF Writes, Writing
<1>8. ASSUME NEW w \in MatrixWeeks, NEW V \in SUBSET Writes(w)
      PROVE  Total(CountOf, RestOf(w, V)) + Total(SizeOf, V) <= peak[w] * WeekLimit
  <2>1. V = {} /\ RestOf(w, V) = {}
    BY <1>1, <1>7 DEF RestOf
  <2>2. Total(CountOf, RestOf(w, V)) = 0 /\ Total(SizeOf, V) = 0
    BY <2>1, TotalEmpty
  <2> QED
    BY <1>1, <2>2, MatrixAssumption
<1>9. WeeksBounded
  BY <1>7, <1>8 DEF WeeksBounded
<1> QED
  BY <1>3, <1>6, <1>9 DEF MatrixIInv

\* The inductive invariant of the matrix of a syllabus: the ids of rows that are stored,
\* shown or asked for belong to one cell each, and whatever part of the writes past their
\* check is still to come, they and the rest of their week fit under the bound.
THEOREM MatrixInvariant == MatrixSpec => []MatrixIInv
<1>1. MatrixInit => MatrixIInv
  BY MatrixInitInv
<1>2. MatrixIInv /\ [MatrixNext]_matrixVars => MatrixIInv'
  <2> SUFFICES ASSUME MatrixIInv, [MatrixNext]_matrixVars PROVE MatrixIInv'
    OBVIOUS
  <2>1. ASSUME NEW k \in Coordinators, Edit(k) PROVE MatrixIInv'
    BY <2>1, EditInv
  <2>2. ASSUME NEW k \in Coordinators, RemoveCells(k) PROVE MatrixIInv'
    BY <2>2, RemoveCellsInv
  <2>3. ASSUME NEW k \in Coordinators, NEW t \in MatrixTemplates,
               SelectTemplate(k, t) \/ OpenMatrix(k, t)
        PROVE  MatrixIInv'
    BY <2>3, AskLoadInv DEF SelectTemplate, OpenMatrix
  <2>4. ASSUME NEW k \in Coordinators, NEW q \in flight[k], Serve(k, q) PROVE MatrixIInv'
    BY <2>4, CheckWeekLimitInv, CreateDistributionInv, UpdateDistributionInv, DeleteDistributionInv,
       GetSummaryInv DEF Serve
  <2>5. ASSUME NEW k \in Coordinators, NEW q \in flight[k], MatrixAnswered(k, q) PROVE MatrixIInv'
    BY <2>5, MatrixAnsweredInv
  <2>6. ASSUME NEW k \in Coordinators, NEW q \in flight[k], AnswerLost(k, q) PROVE MatrixIInv'
    BY <2>6, AnswerLostInv
  <2>8. ASSUME NEW k \in Coordinators, NEW q \in flight[k], LoadDistributions(k, q) PROVE MatrixIInv'
    BY <2>8, LoadDistributionsInv
  <2>9. ASSUME NEW k \in Coordinators, SelectSavedTemplate(k) PROVE MatrixIInv'
    BY <2>9, SelectSavedTemplateInv
  <2>7. CASE UNCHANGED matrixVars
    <3>1. UNCHANGED <<storedMatrix, shown, chosen, flight, edits, lost, peak>>
      BY <2>7 DEF matrixVars
    <3>2. MatrixTypeOK'
      BY <3>1 DEF MatrixIInv, MatrixTypeOK
    <3>3. IdsStand'
      <4>1. Mentions' = Mentions /\ SettledIds' = SettledIds
        BY <3>1 DEF Mentions, SettledIds, KnownRows, CellCalls, SentRequests, Magnitude
      <4> QED
        BY <3>1, <4>1 DEF MatrixIInv, IdsStand, Pending
    <3>4. WeeksBounded'
      BY <3>1, PageBound
    <3> QED
      BY <3>2, <3>3, <3>4 DEF MatrixIInv
  <2> QED
    BY <2>1, <2>2, <2>3, <2>4, <2>5, <2>6, <2>7, <2>8, <2>9 DEF MatrixNext
<1> QED
  BY <1>1, <1>2, PTL DEF MatrixSpec

\* A week never holds more than its limit for each writer that was between its check and
\* its write at once, so never more than the limit when no two were.
THEOREM OvershootIsBounded == MatrixSpec => []OvershootBounded
<1>1. MatrixIInv => OvershootBounded
  <2> SUFFICES ASSUME MatrixIInv, NEW w \in MatrixWeeks
               PROVE  SumWeek(storedMatrix, w) <= peak[w] * WeekLimit
    BY DEF OvershootBounded
  <2> DEFINE R == {d \in storedMatrix : WeekOf(d.cell) = w}
             a == Total(CountOf, R)
             p == peak[w] * WeekLimit
  <2>1. SumWeek(storedMatrix, w) = MapThenSumSet(LAMBDA d : d.count, R)
    BY DEF SumWeek
  <2>2. R = RestOf(w, {})
    BY DEF RestOf
  <2> HIDE DEF R
  <2>3. R \in SUBSET Distributions /\ IsFiniteSet(R)
    BY <2>2, RestRows DEF MatrixIInv
  <2>4. SumWeek(storedMatrix, w) = a
    BY <2>1, <2>3, CountsTotal
  <2>5. {} \in SUBSET Writes(w)
    OBVIOUS
  <2>6. a + Total(SizeOf, {}) <= p
    BY <2>2, <2>5 DEF MatrixIInv, WeeksBounded
  <2>7. Total(SizeOf, {}) = 0 /\ a \in Nat
    BY <2>3, RowsTotal, TotalEmpty
  <2>8. a <= p
    <3> HIDE DEF a, p
    <3> QED
      BY <2>6, <2>7
  <2> QED
    BY <2>4, <2>8
<1> QED
  BY <1>1, MatrixInvariant, PTL

-----------------------------------------------------------------------------
(* What an input shows, and what is stored.                                *)

StoredAt(cell) == {d \in storedMatrix : d.cell = cell}
Loads(k) == {q \in flight[k] : q.kind = "load"}
CallsAt(k, week, row) ==
    {q \in flight[k] : q.kind # "load" /\ q.cell[2] = week /\ q.cell[3] = row}
CellWith(id, cell, count) == [id |-> id, cell |-> cell, count |-> count]
WasServed(q) == q.pc = "done"

\* Nothing is in flight for the input: it shows what is stored.
Resting(k, week, row, cell) ==
    Loads(k) = {} /\ CallsAt(k, week, row) = {} /\ CellRows(k, week, row) = StoredAt(cell)

\* What a load brings: as long as it is alone, the cells of the chosen template.
Brought(q, cell) == {d \in q.rows : d.cell = cell}
Loading(k, week, row, cell) ==
    /\ CallsAt(k, week, row) = {}
    /\ \E q \in flight[k] :
          /\ Loads(k) = {q} /\ q.cell[1] = chosen[k]
          /\ WasServed(q) => Brought(q, cell) = StoredAt(cell)

\* A write is in flight alone: its answer leads to what is stored by then.
Holds(q, cell, there, stands) ==
    CASE q.kind = "add" ->
           /\ there = {CellWith(q.id, cell, q.value)}
           /\ stands = IF WasServed(q) THEN {CellWith(0 - q.id, cell, q.value)} ELSE {}
      [] q.kind = "update" ->
           /\ there = {CellWith(q.id, cell, q.value)}
           /\ stands = {CellWith(q.id, cell, IF WasServed(q) THEN q.value ELSE q.prev)}
      [] q.kind = "delete" ->
           /\ there = {}
           /\ stands = IF WasServed(q) THEN {} ELSE {CellWith(q.id, cell, q.prev)}
Saving(k, week, row, cell) ==
    /\ Loads(k) = {}
    /\ \E q \in flight[k] :
          /\ CallsAt(k, week, row) = {q} /\ q.cell = cell /\ q.bound
          /\ Holds(q, cell, CellRows(k, week, row), StoredAt(cell))

InputFits(k, week, row) ==
    LET cell == <<chosen[k], week, row>>
    IN  \/ <<k, cell>> \in blurred
        \/ Resting(k, week, row, cell)
        \/ Loading(k, week, row, cell)
        \/ Saving(k, week, row, cell)

\* A load is never refused, and it brings rows of its template.
LoadsServed ==
    \A k \in Coordinators : \A q \in flight[k] : q.kind = "load" =>
        /\ q.pc \in {"asked", "sent", "done"} /\ \A d \in q.rows : d.cell[1] = q.cell[1]
        /\ q.pc = "asked" => q.rows = {}

\* The unique index of syllabus_distribution.
OneRowPerCell == \A d, e \in storedMatrix : d.cell = e.cell => d = e

ShownIInv ==
    /\ LoadsServed /\ OneRowPerCell
    /\ \A k \in Coordinators : \A week \in MatrixWeeks, row \in MatrixRows : InputFits(k, week, row)

LEMMA CellParts ==
    ASSUME NEW c \in Cells
    PROVE  c = <<c[1], c[2], c[3]>> /\ c[1] \in MatrixTemplates /\ c[2] \in MatrixWeeks /\ c[3] \in MatrixRows
<1> QED
  BY DEF Cells

LEMMA InputCell ==
    ASSUME MatrixTypeOK, NEW k \in Coordinators, NEW w \in MatrixWeeks, NEW r \in MatrixRows
    PROVE  /\ <<chosen[k], w, r>> \in Cells /\ <<chosen[k], w, r>>[1] = chosen[k]
           /\ <<chosen[k], w, r>>[2] = w /\ <<chosen[k], w, r>>[3] = r
<1> QED
  BY DEF MatrixTypeOK, Cells

\* A step that leaves what an input shows, its calls and its stored rows alone.
LEMMA InputKept ==
    ASSUME NEW k \in Coordinators, NEW w, NEW r, InputFits(k, w, r),
           chosen'[k] = chosen[k], \A p \in blurred : p[1] = k => p \in blurred',
           CellRows(k, w, r)' = CellRows(k, w, r), CallsAt(k, w, r)' = CallsAt(k, w, r),
           Loads(k)' = Loads(k),
           \/ StoredAt(<<chosen[k], w, r>>)' = StoredAt(<<chosen[k], w, r>>)
           \/ <<k, <<chosen[k], w, r>>>> \in blurred'
    PROVE  InputFits(k, w, r)'
<1> DEFINE cell == <<chosen[k], w, r>>
<1>1. cell' = cell
  OBVIOUS
<1>2. CASE <<k, cell>> \in blurred \/ <<k, cell>> \in blurred'
  BY <1>1, <1>2 DEF InputFits
<1>3. ASSUME <<k, cell>> \notin blurred' PROVE {d \in storedMatrix' : d.cell = cell} = StoredAt(cell)
  BY <1>3 DEF StoredAt
<1>4. CASE <<k, cell>> \notin blurred' /\ Resting(k, w, r, cell)
  BY <1>1, <1>3, <1>4 DEF InputFits, Resting, StoredAt
<1>5. CASE <<k, cell>> \notin blurred' /\ Loading(k, w, r, cell)
  <2>1. PICK q \in flight[k] : /\ Loads(k) = {q} /\ q.cell[1] = chosen[k]
                               /\ WasServed(q) => Brought(q, cell) = StoredAt(cell)
    BY <1>5 DEF Loading
  <2>2. q \in flight'[k]
    BY <2>1 DEF Loads
  <2> QED
    BY <1>1, <1>3, <1>5, <2>1, <2>2 DEF InputFits, Loading, StoredAt, WasServed, Brought
<1>6. CASE <<k, cell>> \notin blurred' /\ Saving(k, w, r, cell)
  <2>1. PICK q \in flight[k] : /\ CallsAt(k, w, r) = {q} /\ q.cell = cell /\ q.bound
                               /\ Holds(q, cell, CellRows(k, w, r), StoredAt(cell))
    BY <1>6 DEF Saving
  <2>2. q \in flight'[k]
    BY <2>1 DEF CallsAt
  <2>3. Loads(k) = {}
    BY <1>6 DEF Saving
  <2>4. Holds(q, cell, CellRows(k, w, r)', StoredAt(cell)')
    BY <1>3, <1>6, <2>1 DEF StoredAt
  <2>5. Saving(k, w, r, cell)'
    BY <1>1, <2>1, <2>2, <2>3, <2>4 DEF Saving, Holds, WasServed
  <2> QED
    BY <1>1, <2>5 DEF InputFits
<1> QED
  BY <1>2, <1>4, <1>5, <1>6 DEF InputFits

-----------------------------------------------------------------------------
(* The server moves one request of a coordinator.                          *)

\* The input of a request that is moved, and the other inputs of its coordinator.
LEMMA InputMoved ==
    ASSUME MatrixTypeOK, NEW k \in Coordinators, NEW q \in flight[k], NEW q1 \in CellRequests,
           flight' = [flight EXCEPT ![k] = (@ \ {q}) \cup {q1}],
           q.kind # "load", q1.kind = q.kind, q1.cell = q.cell, q1.bound = q.bound,
           shown' = shown, chosen' = chosen, \A p \in blurred : p[1] = k => p \in blurred',
           NEW w \in MatrixWeeks, NEW r \in MatrixRows, InputFits(k, w, r),
           NEW cell \in Cells, cell = <<chosen[k], w, r>>,
           q.cell # cell => StoredAt(cell)' = StoredAt(cell),
           q.cell = cell /\ Holds(q, cell, CellRows(k, w, r), StoredAt(cell))
              => Holds(q1, cell, CellRows(k, w, r), StoredAt(cell)')
    PROVE  InputFits(k, w, r)'
<1>1. /\ cell[2] = w /\ cell[3] = r
  BY InputCell
<1>2. /\ flight'[k] = (flight[k] \ {q}) \cup {q1} /\ Loads(k)' = Loads(k)
      /\ q \in CallsAt(k, w, r) => CallsAt(k, w, r)' = (CallsAt(k, w, r) \ {q}) \cup {q1}
      /\ q \notin CallsAt(k, w, r) => CallsAt(k, w, r)' = CallsAt(k, w, r)
  <2>1. flight'[k] = (flight[k] \ {q}) \cup {q1}
    BY DEF MatrixTypeOK
  <2> QED
    BY <2>1 DEF CallsAt, Loads
<1>3. CellRows(k, w, r)' = CellRows(k, w, r) /\ chosen'[k] = chosen[k]
  BY DEF CellRows
<1>4. CASE q \notin CallsAt(k, w, r)
  <2>1. q.cell # cell
    BY <1>1, <1>4 DEF CallsAt
  <2>2. StoredAt(cell)' = StoredAt(cell)
    BY <2>1
  <2>3. StoredAt(<<chosen[k], w, r>>)' = StoredAt(<<chosen[k], w, r>>)
    BY <2>2 DEF StoredAt
  <2> QED
    BY <1>2, <1>3, <1>4, <2>3, InputKept
<1>5. CASE q \in CallsAt(k, w, r)
  <2>1. CASE <<k, cell>> \in blurred
    BY <2>1 DEF InputFits
  <2>2. CASE Saving(k, w, r, cell)
    <3>1. PICK p \in flight[k] : /\ CallsAt(k, w, r) = {p} /\ p.cell = cell /\ p.bound
                                 /\ Holds(p, cell, CellRows(k, w, r), StoredAt(cell))
      BY <2>2 DEF Saving
    <3>2. p = q
      BY <1>5, <3>1
    <3>3. CallsAt(k, w, r)' = {q1} /\ q1 \in flight'[k] /\ Loads(k)' = {}
      BY <1>2, <1>5, <2>2, <3>1, <3>2 DEF Saving
    <3>4. Holds(q1, cell, CellRows(k, w, r), StoredAt(cell)')
      BY <3>1, <3>2
    <3>5. Saving(k, w, r, cell)'
      BY <1>3, <3>1, <3>2, <3>3, <3>4 DEF Saving, Holds, WasServed, StoredAt
    <3> QED
      BY <3>5 DEF InputFits
  <2> QED
    BY <1>5, <2>1, <2>2 DEF InputFits, Resting, Loading
<1> QED
  BY <1>4, <1>5

\* What the others show: a cell they are not promised, or one that was not written.
LEMMA OthersKept ==
    ASSUME MatrixTypeOK, NEW k \in Coordinators, NEW l \in Coordinators \ {k},
           flight'[l] = flight[l], shown'[l] = shown[l], chosen'[l] = chosen[l],
           \A p \in blurred : p[1] = l => p \in blurred',
           NEW w \in MatrixWeeks, NEW r \in MatrixRows, InputFits(l, w, r),
           \/ <<l, <<chosen[l], w, r>>>> \in blurred'
           \/ StoredAt(<<chosen[l], w, r>>)' = StoredAt(<<chosen[l], w, r>>)
    PROVE  InputFits(l, w, r)'
<1>1. /\ CellRows(l, w, r)' = CellRows(l, w, r) /\ CallsAt(l, w, r)' = CallsAt(l, w, r)
      /\ Loads(l)' = Loads(l)
  BY DEF CellRows, CallsAt, Loads
<1> QED
  BY <1>1, InputKept

-----------------------------------------------------------------------------
(* The steps of the server.                                                *)

\* The rows of the id of a request are rows of its cell.
LEMMA RowsOfCall ==
    ASSUME MatrixTypeOK, IdsStand, NEW k \in Coordinators, NEW q \in flight[k], q.kind # "load"
    PROVE  /\ \A d \in storedMatrix : d.id = q.id => d.cell = q.cell
           /\ \A d \in shown[k] : d.id = q.id => d.cell = q.cell
<1>1. q \in CellCalls
  BY SentMembers
<1> SUFFICES ASSUME NEW d \in KnownRows, d.id = q.id PROVE d.cell = q.cell
  BY StoredShownKnown
<1>2. /\ <<Magnitude(d.id), d.cell>> \in Mentions /\ <<Magnitude(d.id), q.cell>> \in Mentions
  BY <1>1, RowsMentioned, CallsMentioned
<1> QED
  BY <1>2 DEF IdsStand

\* A check that passes or a request that is refused.
LEMMA QuietFits ==
    ASSUME MatrixTypeOK, NEW k \in Coordinators, NEW q \in flight[k], NEW q1 \in CellRequests,
           flight' = [flight EXCEPT ![k] = (@ \ {q}) \cup {q1}], q.kind # "load",
           q1.kind = q.kind, q1.cell = q.cell, q1.bound = q.bound, q1.id = q.id,
           q1.value = q.value, q1.prev = q.prev, q.pc # "done", q1.pc # "done",
           storedMatrix' = storedMatrix, shown' = shown, chosen' = chosen, blurred' = blurred,
           NEW l \in Coordinators, NEW w \in MatrixWeeks, NEW r \in MatrixRows, InputFits(l, w, r)
    PROVE  InputFits(l, w, r)'
<1>1. PICK cell \in Cells : cell = <<chosen[l], w, r>>
  BY InputCell
<1>2. StoredAt(cell)' = StoredAt(cell) /\ StoredAt(<<chosen[l], w, r>>)' = StoredAt(<<chosen[l], w, r>>)
  BY DEF StoredAt
<1>3. CASE l = k
  <2>1. Holds(q, cell, CellRows(k, w, r), StoredAt(cell)) => Holds(q1, cell, CellRows(k, w, r), StoredAt(cell)')
    BY <1>2 DEF Holds, WasServed
  <2> QED
    BY <1>1, <1>2, <1>3, <2>1, InputMoved
<1>4. CASE l # k
  <2>1. flight'[l] = flight[l] /\ shown'[l] = shown[l] /\ chosen'[l] = chosen[l]
    BY <1>4 DEF MatrixTypeOK
  <2> QED
    BY <1>2, <1>4, <2>1, OthersKept
<1> QED
  BY <1>3, <1>4

\* A write commits.
LEMMA CommitFits ==
    ASSUME MatrixTypeOK, NEW k \in Coordinators, NEW q \in flight[k], NEW q1 \in CellRequests,
           flight' = [flight EXCEPT ![k] = (@ \ {q}) \cup {q1}], q.kind # "load",
           q1.kind = q.kind, q1.cell = q.cell, q1.bound = q.bound,
           shown' = shown, chosen' = chosen,
           blurred' = blurred \cup ((Coordinators \ {k}) \X {q.cell}),
           NEW l \in Coordinators, NEW w \in MatrixWeeks, NEW r \in MatrixRows, InputFits(l, w, r),
           NEW cell \in Cells, cell = <<chosen[l], w, r>>,
           q.cell # cell => StoredAt(cell)' = StoredAt(cell),
           q.cell = cell /\ Holds(q, cell, CellRows(k, w, r), StoredAt(cell))
              => Holds(q1, cell, CellRows(k, w, r), StoredAt(cell)')
    PROVE  InputFits(l, w, r)'
<1>1. CASE l = k
  BY <1>1, InputMoved
<1>2. CASE l # k
  <2>1. flight'[l] = flight[l] /\ shown'[l] = shown[l] /\ chosen'[l] = chosen[l]
    BY <1>2 DEF MatrixTypeOK
  <2>2. \/ <<l, <<chosen[l], w, r>>>> \in blurred'
        \/ StoredAt(<<chosen[l], w, r>>)' = StoredAt(<<chosen[l], w, r>>)
    BY <1>2 DEF StoredAt
  <2> QED
    BY <1>2, <2>1, <2>2, OthersKept
<1> QED
  BY <1>1, <1>2

LEMMA MoveGives ==
    ASSUME MatrixTypeOK, NEW k \in Coordinators, NEW q \in flight[k],
           NEW c \in {"checked", "refused", "done"}, MoveCell(k, q, c)
    PROVE  \E q1 \in CellRequests :
              /\ flight' = [flight EXCEPT ![k] = (@ \ {q}) \cup {q1}] /\ q1.pc = c
              /\ q1.kind = q.kind /\ q1.cell = q.cell /\ q1.bound = q.bound /\ q1.id = q.id
              /\ q1.value = q.value /\ q1.prev = q.prev
<1> DEFINE q1 == [q EXCEPT !.pc = c]
<1>1. q \in CellRequests
  BY DEF MatrixTypeOK
<1>2. /\ q1 \in CellRequests /\ q1.pc = c
      /\ q1.kind = q.kind /\ q1.cell = q.cell /\ q1.bound = q.bound /\ q1.id = q.id
      /\ q1.value = q.value /\ q1.prev = q.prev
  BY <1>1 DEF CellRequests
<1>3. flight' = [flight EXCEPT ![k] = (@ \ {q}) \cup {q1}]
  BY DEF MoveCell
<1> QED
  BY <1>2, <1>3

LEMMA LoadsMoved ==
    ASSUME MatrixTypeOK, LoadsServed, NEW k \in Coordinators, NEW q \in flight[k], NEW q1 \in CellRequests,
           flight' = [flight EXCEPT ![k] = (@ \ {q}) \cup {q1}],
           q1.kind = "load" => q1.pc \in {"sent", "done"} /\ \A d \in q1.rows : d.cell[1] = q1.cell[1]
    PROVE  LoadsServed'
<1>1. \A l \in Coordinators : \A r \in flight'[l] : (r \in flight[l] /\ (l = k => r # q)) \/ (l = k /\ r = q1)
  BY MovedType
<1> SUFFICES ASSUME NEW l \in Coordinators, NEW r \in flight'[l], r.kind = "load"
             PROVE  /\ r.pc \in {"asked", "sent", "done"} /\ \A d \in r.rows : d.cell[1] = r.cell[1]
                    /\ r.pc = "asked" => r.rows = {}
  BY DEF LoadsServed
<1> QED
  BY <1>1 DEF LoadsServed

LEMMA QuietShows ==
    ASSUME MatrixTypeOK, ShownIInv, NEW k \in Coordinators, NEW q \in flight[k],
           q.kind # "load", q.pc # "done",
           MoveCell(k, q, "checked") \/ MoveCell(k, q, "refused"),
           storedMatrix' = storedMatrix, shown' = shown, chosen' = chosen, blurred' = blurred
    PROVE  ShownIInv'
<1>1. PICK q1 \in CellRequests :
              /\ flight' = [flight EXCEPT ![k] = (@ \ {q}) \cup {q1}] /\ q1.pc # "done"
              /\ q1.kind = q.kind /\ q1.cell = q.cell /\ q1.bound = q.bound /\ q1.id = q.id
              /\ q1.value = q.value /\ q1.prev = q.prev
  BY MoveGives
<1>2. LoadsServed'
  BY <1>1, LoadsMoved DEF ShownIInv
<1>3. OneRowPerCell'
  BY DEF ShownIInv, OneRowPerCell
<1>4. ASSUME NEW l \in Coordinators, NEW w \in MatrixWeeks, NEW r \in MatrixRows
      PROVE  InputFits(l, w, r)'
  <2>1. InputFits(l, w, r)
    BY DEF ShownIInv
  <2> QED
    BY <1>1, <2>1, QuietFits
<1> QED
  BY <1>2, <1>3, <1>4 DEF ShownIInv

LEMMA CheckShows ==
    ASSUME MatrixTypeOK, ShownIInv, NEW k \in Coordinators, NEW q \in flight[k], CheckWeekLimit(k, q)
    PROVE  ShownIInv'
<1>1. /\ q.kind \in {"add", "update"} /\ q.pc = "sent"
      /\ MoveCell(k, q, "checked") \/ MoveCell(k, q, "refused")
      /\ storedMatrix' = storedMatrix /\ shown' = shown /\ chosen' = chosen /\ blurred' = blurred
  BY DEF CheckWeekLimit
<1> QED
  BY <1>1, QuietShows

LEMMA RefuseShows ==
    ASSUME MatrixTypeOK, ShownIInv, NEW k \in Coordinators, NEW q \in flight[k],
           q.kind # "load", q.pc # "done", Refuse(k, q), shown' = shown, chosen' = chosen
    PROVE  ShownIInv'
<1> QED
  BY QuietShows DEF Refuse

\* What a write makes of the rows of a cell is what its request is to leave there.
LEMMA WriteShows ==
    ASSUME MatrixTypeOK, ShownIInv, NEW k \in Coordinators, NEW q \in flight[k], NEW S,
           q.kind # "load", Commit(k, q, S), shown' = shown, chosen' = chosen, OneRowPerCell',
           \A c \in Cells : c # q.cell => {d \in S : d.cell = c} = {d \in storedMatrix : d.cell = c},
           \A there : q.cell \in Cells /\ Holds(q, q.cell, there, {d \in storedMatrix : d.cell = q.cell})
              => Holds([q EXCEPT !.pc = "done"], q.cell, there, {d \in S : d.cell = q.cell})
    PROVE  ShownIInv'
<1> DEFINE q1 == [q EXCEPT !.pc = "done"]
<1>1. storedMatrix' = S /\ blurred' = blurred \cup ((Coordinators \ {k}) \X {q.cell})
      /\ flight' = [flight EXCEPT ![k] = (@ \ {q}) \cup {q1}]
  BY DEF Commit, MoveCell
<1>2. /\ q1 \in CellRequests /\ q1.kind = q.kind /\ q1.cell = q.cell /\ q1.bound = q.bound
  <2>1. q \in CellRequests
    BY DEF MatrixTypeOK
  <2> QED
    BY <2>1 DEF CellRequests
<1>3. \A there : q.cell \in Cells /\ Holds(q, q.cell, there, {d \in storedMatrix : d.cell = q.cell})
              => Holds(q1, q.cell, there, {d \in S : d.cell = q.cell})
  OBVIOUS
<1> HIDE DEF q1
<1>4. LoadsServed'
  BY <1>1, <1>2, LoadsMoved DEF ShownIInv
<1>5. ASSUME NEW l \in Coordinators, NEW w \in MatrixWeeks, NEW r \in MatrixRows
      PROVE  InputFits(l, w, r)'
  <2>1. InputFits(l, w, r)
    BY DEF ShownIInv
  <2>2. PICK cell \in Cells : cell = <<chosen[l], w, r>>
    BY InputCell
  <2>3. StoredAt(cell) = {d \in storedMatrix : d.cell = cell} /\ StoredAt(cell)' = {d \in S : d.cell = cell}
    BY <1>1 DEF StoredAt
  <2>4. q.cell # cell => StoredAt(cell)' = StoredAt(cell)
    BY <2>3
  <2>5. q.cell = cell /\ Holds(q, cell, CellRows(k, w, r), StoredAt(cell))
          => Holds(q1, cell, CellRows(k, w, r), StoredAt(cell)')
    BY <1>3, <2>3
  <2> QED
    BY <1>1, <1>2, <2>1, <2>2, <2>4, <2>5, CommitFits
<1> QED
  BY <1>4, <1>5 DEF ShownIInv

LEMMA CreateShows ==
    ASSUME MatrixTypeOK, IdsStand, ShownIInv, NEW k \in Coordinators, NEW q \in flight[k],
           CreateDistribution(k, q)
    PROVE  ShownIInv'
<1> DEFINE new == [id |-> 0 - q.id, cell |-> q.cell, count |-> q.value]
           S == storedMatrix \cup {new}
<1>1. q.kind = "add" /\ q.pc = "checked" /\ shown' = shown /\ chosen' = chosen
  BY DEF CreateDistribution
<1>2. CASE Refuse(k, q)
  BY <1>1, <1>2, RefuseShows
<1>3. CASE (\A d \in storedMatrix : d.cell # q.cell) /\ Commit(k, q, S)
  <2>1. new.cell = q.cell /\ new = CellWith(0 - q.id, q.cell, q.value)
    BY DEF CellWith
  <2>2. storedMatrix' = S
    BY <1>3 DEF Commit
  <2>3. [q EXCEPT !.pc = "done"].kind = "add" /\ [q EXCEPT !.pc = "done"].pc = "done"
        /\ [q EXCEPT !.pc = "done"].id = q.id /\ [q EXCEPT !.pc = "done"].value = q.value
    BY <1>1, RequestFields
  <2> HIDE DEF new
  <2>4. OneRowPerCell'
    BY <1>3, <2>1, <2>2 DEF OneRowPerCell, ShownIInv
  <2>5. \A c \in Cells : c # q.cell => {d \in S : d.cell = c} = {d \in storedMatrix : d.cell = c}
    BY <2>1
  <2>6. {d \in S : d.cell = q.cell} = {CellWith(0 - q.id, q.cell, q.value)}
    BY <1>3, <2>1
  <2>7. ASSUME NEW there, Holds(q, q.cell, there, {d \in storedMatrix : d.cell = q.cell})
        PROVE  Holds([q EXCEPT !.pc = "done"], q.cell, there, {d \in S : d.cell = q.cell})
    <3>1. there = {CellWith(q.id, q.cell, q.value)}
      BY <1>1, <2>7 DEF Holds
    <3> QED
      BY <2>3, <2>6, <3>1 DEF Holds, WasServed
  <2> HIDE DEF S
  <2> QED
    BY <1>1, <1>3, <2>4, <2>5, <2>7, WriteShows
<1> QED
  BY <1>2, <1>3 DEF CreateDistribution

LEMMA UpdateShows ==
    ASSUME MatrixTypeOK, IdsStand, ShownIInv, NEW k \in Coordinators, NEW q \in flight[k],
           UpdateDistributionQuantity(k, q)
    PROVE  ShownIInv'
<1> DEFINE New(d) == IF d.id = q.id THEN [d EXCEPT !.count = q.value] ELSE d
           S == {New(d) : d \in storedMatrix}
<1>1. q.kind = "update" /\ q.pc = "checked" /\ shown' = shown /\ chosen' = chosen
  BY DEF UpdateDistributionQuantity
<1>2. CASE Refuse(k, q)
  BY <1>1, <1>2, RefuseShows
<1>3. CASE Commit(k, q, S)
  <2>1. \A d \in storedMatrix : d \in Distributions /\ (d.id = q.id => d.cell = q.cell)
    BY <1>1, RowsOfCall DEF MatrixTypeOK
  <2>2. \A d \in storedMatrix : /\ New(d).cell = d.cell /\ (d.cell # q.cell => New(d) = d)
                                /\ d.id = q.id => New(d) = CellWith(q.id, d.cell, q.value)
    BY <2>1 DEF Distributions, CellWith
  <2>3. storedMatrix' = S
    BY <1>3 DEF Commit
  <2>4. [q EXCEPT !.pc = "done"].kind = "update" /\ [q EXCEPT !.pc = "done"].pc = "done"
        /\ [q EXCEPT !.pc = "done"].id = q.id /\ [q EXCEPT !.pc = "done"].value = q.value
    BY <1>1, RequestFields
  <2> HIDE DEF New
  <2>5. OneRowPerCell'
    BY <2>2, <2>3 DEF OneRowPerCell, ShownIInv
  <2>6. ASSUME NEW c \in Cells, c # q.cell PROVE {d \in S : d.cell = c} = {d \in storedMatrix : d.cell = c}
    BY <2>2, <2>6
  <2>7. ASSUME NEW there, Holds(q, q.cell, there, {d \in storedMatrix : d.cell = q.cell})
        PROVE  Holds([q EXCEPT !.pc = "done"], q.cell, there, {d \in S : d.cell = q.cell})
    <3>1. /\ there = {CellWith(q.id, q.cell, q.value)}
          /\ {d \in storedMatrix : d.cell = q.cell} = {CellWith(q.id, q.cell, q.prev)}
      BY <1>1, <2>7 DEF Holds, WasServed
    <3>2. CellWith(q.id, q.cell, q.prev).id = q.id
      BY DEF CellWith
    <3>3. {d \in S : d.cell = q.cell} = {CellWith(q.id, q.cell, q.value)}
      BY <2>2, <3>1, <3>2
    <3> QED
      BY <2>4, <3>1, <3>3 DEF Holds, WasServed
  <2> HIDE DEF S
  <2> QED
    BY <1>1, <1>3, <2>5, <2>6, <2>7, WriteShows
<1> QED
  BY <1>2, <1>3 DEF UpdateDistributionQuantity

LEMMA DeleteShows ==
    ASSUME MatrixTypeOK, IdsStand, ShownIInv, NEW k \in Coordinators, NEW q \in flight[k],
           DeleteDistribution(k, q)
    PROVE  ShownIInv'
<1> DEFINE S == storedMatrix \ RowWith(storedMatrix, q.id)
<1>1. q.kind = "delete" /\ q.pc = "sent" /\ shown' = shown /\ chosen' = chosen
  BY DEF DeleteDistribution
<1>2. CASE Refuse(k, q)
  BY <1>1, <1>2, RefuseShows
<1>3. CASE Commit(k, q, S)
  <2>1. \A d \in storedMatrix : d.id = q.id => d.cell = q.cell
    BY <1>1, RowsOfCall
  <2>2. \A d : d \in S <=> d \in storedMatrix /\ d.id # q.id
    BY DEF RowWith
  <2>3. storedMatrix' = S
    BY <1>3 DEF Commit
  <2>4. [q EXCEPT !.pc = "done"].kind = "delete" /\ [q EXCEPT !.pc = "done"].pc = "done"
    BY <1>1, RequestFields
  <2> HIDE DEF S
  <2>5. OneRowPerCell'
    BY <2>2, <2>3 DEF OneRowPerCell, ShownIInv
  <2>6. ASSUME NEW c \in Cells, c # q.cell PROVE {d \in S : d.cell = c} = {d \in storedMatrix : d.cell = c}
    BY <2>1, <2>2, <2>6
  <2>7. ASSUME NEW there, Holds(q, q.cell, there, {d \in storedMatrix : d.cell = q.cell})
        PROVE  Holds([q EXCEPT !.pc = "done"], q.cell, there, {d \in S : d.cell = q.cell})
    <3>1. there = {} /\ {d \in storedMatrix : d.cell = q.cell} = {CellWith(q.id, q.cell, q.prev)}
      BY <1>1, <2>7 DEF Holds, WasServed
    <3>2. CellWith(q.id, q.cell, q.prev).id = q.id
      BY DEF CellWith
    <3>3. {d \in S : d.cell = q.cell} = {}
      BY <2>2, <3>1, <3>2
    <3> QED
      BY <2>4, <3>1, <3>3 DEF Holds, WasServed
  <2> QED
    BY <1>1, <1>3, <2>5, <2>6, <2>7, WriteShows
<1> QED
  BY <1>2, <1>3 DEF DeleteDistribution

\* A load finds what is stored; alone, it leaves every input of its template settled.
LEMMA SummaryShows ==
    ASSUME MatrixTypeOK, ShownIInv, NEW k \in Coordinators, NEW q \in flight[k], GetSummary(k, q)
    PROVE  ShownIInv'
<1> DEFINE found == {d \in storedMatrix : d.cell[1] = q.cell[1]}
           q1 == [q EXCEPT !.pc = "done", !.rows = found]
<1>1. q.kind = "load" /\ UNCHANGED <<storedMatrix, shown, chosen, blurred>>
      /\ flight' = [flight EXCEPT ![k] = (@ \ {q}) \cup {q1}]
  BY DEF GetSummary
<1>2. /\ q1 \in CellRequests /\ q1.kind = q.kind /\ q1.cell = q.cell /\ q1.pc = "done" /\ q1.rows = found
  <2>1. q \in CellRequests /\ found \in SUBSET Distributions
    BY DEF MatrixTypeOK
  <2> HIDE DEF found
  <2> QED
    BY <2>1 DEF CellRequests
<1> HIDE DEF q1
<1>3. LoadsServed'
  BY <1>1, <1>2, LoadsMoved DEF ShownIInv
<1>4. OneRowPerCell'
  BY <1>1 DEF ShownIInv, OneRowPerCell
<1>5. flight'[k] = (flight[k] \ {q}) \cup {q1} /\ \A l \in Coordinators \ {k} : flight'[l] = flight[l]
  BY <1>1 DEF MatrixTypeOK
<1>6. ASSUME NEW l \in Coordinators, NEW w \in MatrixWeeks, NEW r \in MatrixRows
      PROVE  InputFits(l, w, r)'
  <2>1. InputFits(l, w, r)
    BY DEF ShownIInv
  <2>2. CASE l # k
    <3>1. flight'[l] = flight[l] /\ shown'[l] = shown[l] /\ chosen'[l] = chosen[l]
          /\ StoredAt(<<chosen[l], w, r>>)' = StoredAt(<<chosen[l], w, r>>) /\ blurred' = blurred
      BY <1>1, <1>5, <2>2 DEF StoredAt
    <3> QED
      BY <2>1, <2>2, <3>1, OthersKept
  <2>3. CASE l = k
    <3>1. PICK cell \in Cells : cell = <<chosen[k], w, r>>
      BY InputCell
    <3>2. chosen'[k] = chosen[k] /\ blurred' = blurred /\ cell[1] = chosen[k]
      BY <1>1, <3>1
    <3>3. CASE <<k, cell>> \in blurred
      BY <2>3, <3>1, <3>2, <3>3 DEF InputFits
    <3>4. CASE Loading(k, w, r, cell)
      <4>1. CallsAt(k, w, r) = {} /\ Loads(k) = {q} /\ q.cell[1] = chosen[k]
        BY <1>1, <3>4 DEF Loading, Loads
      <4>2. Loads(k)' = {q1} /\ q1 \in flight'[k]
        BY <1>1, <1>2, <1>5, <4>1 DEF Loads
      <4>3. CallsAt(k, w, r)' = {}
        BY <1>1, <1>2, <1>5, <4>1 DEF CallsAt
      <4>4. Brought(q1, cell) = {d \in storedMatrix' : d.cell = cell}
        BY <1>1, <1>2, <3>2, <4>1 DEF Brought
      <4>5. Loading(k, w, r, cell)'
        BY <1>2, <3>2, <4>1, <4>2, <4>3, <4>4 DEF Loading, StoredAt, Brought
      <4> QED
        BY <2>3, <3>1, <3>2, <4>5 DEF InputFits
    <3>5. Loads(k) # {}
      BY <1>1 DEF Loads
    <3> QED
      BY <2>1, <2>3, <3>1, <3>3, <3>4, <3>5 DEF InputFits, Resting, Saving
  <2> QED
    BY <2>2, <2>3
<1> QED
  BY <1>3, <1>4, <1>6 DEF ShownIInv

-----------------------------------------------------------------------------
(* The steps of the page.                                                  *)

\* The rows of an input in a set of rows.
RowsIn(S, cell) == {d \in S : d.cell[2] = cell[2] /\ d.cell[3] = cell[3]}

\* The input of a new request overlaps another one, or shows what is stored.
LEMMA InputSent ==
    ASSUME MatrixTypeOK, NEW k \in Coordinators, NEW q1 \in CellRequests,
           flight' = [flight EXCEPT ![k] = @ \cup {q1}], q1.kind # "load", q1.bound,
           storedMatrix' = storedMatrix, chosen' = chosen,
           NEW e \in Cells, q1.cell = e, blurred' = Blur(k, e),
           NEW F \in SUBSET Distributions, shown' = [shown EXCEPT ![k] = F],
           e[1] = chosen[k] \/ \E d \in shown[k] : d.cell = e,
           RowsIn(shown[k], e) = StoredAt(e) => Holds(q1, e, RowsIn(F, e), StoredAt(e)),
           InputFits(k, e[2], e[3])
    PROVE  InputFits(k, e[2], e[3])'
<1>0. PICK cell \in Cells : cell = <<chosen[k], e[2], e[3]>>
  <2>1. e[2] \in MatrixWeeks /\ e[3] \in MatrixRows
    BY CellParts
  <2> QED
    BY <2>1, InputCell
<1>1. cell[1] = chosen[k] /\ cell[2] = e[2] /\ cell[3] = e[3] /\ e = <<e[1], e[2], e[3]>>
  BY <1>0, CellParts
<1>2. /\ chosen'[k] = chosen[k] /\ shown'[k] = F /\ flight'[k] = flight[k] \cup {q1}
      /\ \A p \in blurred : p \in blurred'
  BY DEF MatrixTypeOK, Blur
<1>3. CASE <<k, cell>> \in blurred'
  BY <1>0, <1>2, <1>3 DEF InputFits
<1>4. CASE CellsOverlap(k, e)
  <2>1. cell \in CellsOfInput(e)
    BY <1>1 DEF CellsOfInput
  <2> QED
    BY <1>3, <1>4, <2>1 DEF Blur
<1>5. CASE ~CellsOverlap(k, e) /\ <<k, cell>> \notin blurred
  <2>1. Loads(k) = {} /\ \A q \in flight[k] : q.cell # e
    BY <1>5 DEF CellsOverlap, Loads
  <2>2. CellRows(k, e[2], e[3]) = RowsIn(shown[k], e)
    BY DEF CellRows, RowsIn
  <2>3. CASE Saving(k, e[2], e[3], cell)
    <3>1. PICK q \in flight[k] : /\ CallsAt(k, e[2], e[3]) = {q} /\ q.cell = cell
                                 /\ Holds(q, cell, CellRows(k, e[2], e[3]), StoredAt(cell))
      BY <2>3 DEF Saving
    <3>2. e[1] # chosen[k]
      BY <1>0, <1>1, <2>1, <3>1
    <3>3. PICK d \in shown[k] : d.cell = e
      BY <3>2
    <3>4. d \in CellRows(k, e[2], e[3])
      BY <3>3 DEF CellRows
    <3>5. q.kind \in {"add", "update", "delete"}
      <4>1. q.kind # "load" /\ q \in CellRequests
        BY <3>1 DEF CallsAt, MatrixTypeOK
      <4> QED
        BY <4>1 DEF CellRequests
    <3>6. d = CellWith(q.id, cell, q.value)
      BY <3>1, <3>4, <3>5 DEF Holds
    <3>7. d.cell = cell
      BY <3>6 DEF CellWith
    <3> QED
      BY <1>1, <3>2, <3>3, <3>7
  <2>4. CASE Resting(k, e[2], e[3], cell)
    <3>1. CallsAt(k, e[2], e[3]) = {} /\ RowsIn(shown[k], e) = StoredAt(cell)
      BY <2>2, <2>4 DEF Resting
    <3>2. e = cell
      <4>1. CASE \E d \in shown[k] : d.cell = e
        <5>1. PICK d \in shown[k] : d.cell = e
          BY <4>1
        <5>2. d \in RowsIn(shown[k], e)
          BY <5>1 DEF RowsIn
        <5> QED
          BY <3>1, <5>1, <5>2 DEF StoredAt
      <4>2. CASE e[1] = chosen[k]
        BY <1>0, <1>1, <4>2
      <4> QED
        BY <4>1, <4>2
    <3>3. Holds(q1, cell, RowsIn(F, e), StoredAt(cell))
      BY <3>1, <3>2
    <3>4. CallsAt(k, e[2], e[3])' = {q1} /\ q1 \in flight'[k]
      BY <1>2, <3>1 DEF CallsAt
    <3>5. Loads(k)' = {}
      BY <1>2, <2>1 DEF Loads
    <3>6. CellRows(k, e[2], e[3])' = RowsIn(F, e) /\ StoredAt(cell)' = StoredAt(cell)
      BY <1>2 DEF CellRows, RowsIn, StoredAt
    <3>7. Saving(k, e[2], e[3], cell)'
      BY <3>2, <3>3, <3>4, <3>5, <3>6 DEF Saving, Holds, WasServed
    <3> QED
      BY <1>0, <1>2, <3>7 DEF InputFits
  <2> QED
    BY <1>0, <1>5, <2>1, <2>3, <2>4 DEF InputFits, Loading, Loads
<1> QED
  BY <1>2, <1>3, <1>4, <1>5

\* The same for every input: the others keep what they show.
LEMMA SentShows ==
    ASSUME MatrixTypeOK, ShownIInv, NEW k \in Coordinators, NEW q1 \in CellRequests,
           Send(k, q1), q1.kind # "load", q1.bound,
           storedMatrix' = storedMatrix, chosen' = chosen,
           NEW e \in Cells, q1.cell = e, blurred' = Blur(k, e),
           NEW F \in SUBSET Distributions, shown' = [shown EXCEPT ![k] = F],
           e[1] = chosen[k] \/ \E d \in shown[k] : d.cell = e,
           \A d \in F : d \in shown[k] \/ d.cell = e,
           \A d \in shown[k] : d \in F \/ d.cell = e,
           RowsIn(shown[k], e) = StoredAt(e) => Holds(q1, e, RowsIn(F, e), StoredAt(e))
    PROVE  ShownIInv'
<1>1. flight' = [flight EXCEPT ![k] = @ \cup {q1}]
  BY DEF Send
<1>2. /\ flight'[k] = flight[k] \cup {q1} /\ \A l \in Coordinators \ {k} : flight'[l] = flight[l]
      /\ shown'[k] = F /\ \A l \in Coordinators \ {k} : shown'[l] = shown[l]
      /\ \A p \in blurred : p \in blurred'
  BY <1>1 DEF MatrixTypeOK, Blur
<1>3. LoadsServed'
  <2>1. \A l \in Coordinators : \A r \in flight'[l] : r.kind = "load" => r \in flight[l]
    BY <1>2
  <2> QED
    BY <2>1 DEF LoadsServed, ShownIInv
<1>4. OneRowPerCell'
  BY DEF ShownIInv, OneRowPerCell
<1>5. ASSUME NEW l \in Coordinators, NEW w \in MatrixWeeks, NEW r \in MatrixRows
      PROVE  InputFits(l, w, r)'
  <2>1. InputFits(l, w, r)
    BY DEF ShownIInv
  <2>2. StoredAt(<<chosen[l], w, r>>)' = StoredAt(<<chosen[l], w, r>>)
    BY DEF StoredAt
  <2>3. CASE l # k
    <3>1. flight'[l] = flight[l] /\ shown'[l] = shown[l] /\ chosen'[l] = chosen[l]
      BY <1>2, <2>3
    <3> QED
      BY <1>2, <2>1, <2>2, <2>3, <3>1, OthersKept
  <2>4. CASE l = k /\ w = e[2] /\ r = e[3]
    BY <1>1, <2>1, <2>4, InputSent
  <2>5. CASE l = k /\ (w # e[2] \/ r # e[3])
    <3>1. CellRows(k, w, r)' = CellRows(k, w, r)
      BY <1>2, <2>5 DEF CellRows
    <3>2. CallsAt(k, w, r)' = CallsAt(k, w, r)
      BY <1>2, <2>5 DEF CallsAt
    <3>3. Loads(k)' = Loads(k)
      BY <1>2 DEF Loads
    <3>4. chosen'[k] = chosen[k]
      OBVIOUS
    <3> QED
      BY <1>2, <2>1, <2>2, <2>5, <3>1, <3>2, <3>3, <3>4, InputKept
  <2> QED
    BY <2>3, <2>4, <2>5
<1> QED
  BY <1>3, <1>4, <1>5 DEF ShownIInv

LEMMA DeleteCellShows ==
    ASSUME MatrixTypeOK, ShownIInv, NEW k \in Coordinators, NEW d \in shown[k], DeleteCell(k, d),
           UNCHANGED <<storedMatrix, chosen>>
    PROVE  ShownIInv'
<1> DEFINE q1 == Request("delete", d.id, d.cell, 0, d.count)
           F == shown[k] \ {d}
<1>1. shown[k] \in SUBSET Distributions /\ d.id \in Int /\ d.cell \in Cells /\ d.count \in Nat
  BY ShownRows
<1>2. /\ q1 \in CellRequests /\ q1.kind = "delete" /\ q1.id = d.id /\ q1.cell = d.cell
      /\ q1.prev = d.count /\ q1.bound /\ q1.pc = "sent"
  BY <1>1 DEF Request, CellRequests
<1>3. Send(k, q1) /\ shown' = [shown EXCEPT ![k] = F] /\ blurred' = Blur(k, d.cell)
  BY DEF DeleteCell
<1>4. d = CellWith(d.id, d.cell, d.count)
  BY <1>1 DEF Distributions, CellWith
<1>5. F \in SUBSET Distributions
      /\ (\A x \in F : x \in shown[k]) /\ \A x \in shown[k] : x \in F \/ x.cell = d.cell
  BY <1>1
<1> HIDE DEF q1
<1>6. ASSUME RowsIn(shown[k], d.cell) = StoredAt(d.cell)
      PROVE  Holds(q1, d.cell, RowsIn(F, d.cell), StoredAt(d.cell))
  <2>1. d \in RowsIn(shown[k], d.cell)
    BY DEF RowsIn
  <2>2. \A x \in StoredAt(d.cell) : x = d
    BY <1>6, <2>1 DEF StoredAt, ShownIInv, OneRowPerCell
  <2>3. StoredAt(d.cell) = {d}
    BY <1>6, <2>1, <2>2
  <2>4. RowsIn(F, d.cell) = {}
    BY <1>6, <2>3 DEF RowsIn
  <2> QED
    BY <1>2, <1>4, <2>3, <2>4 DEF Holds, WasServed
<1> HIDE DEF F
<1> QED
  BY <1>1, <1>2, <1>3, <1>5, <1>6, SentShows

LEMMA UpdateCellShows ==
    ASSUME MatrixTypeOK, ShownIInv, NEW k \in Coordinators, NEW d \in shown[k], NEW value \in Nat,
           UpdateCell(k, d, value), UNCHANGED <<storedMatrix, chosen>>
    PROVE  ShownIInv'
<1> DEFINE q1 == Request("update", d.id, d.cell, value, d.count)
           row == [d EXCEPT !.count = value]
           F == (shown[k] \ {d}) \cup {row}
<1>1. shown[k] \in SUBSET Distributions /\ d.id \in Int /\ d.cell \in Cells /\ d.count \in Nat
  BY ShownRows
<1>2. /\ q1 \in CellRequests /\ q1.kind = "update" /\ q1.id = d.id /\ q1.cell = d.cell
      /\ q1.prev = d.count /\ q1.value = value /\ q1.bound /\ q1.pc = "sent"
  BY <1>1 DEF Request, CellRequests
<1>3. Send(k, q1) /\ shown' = [shown EXCEPT ![k] = F] /\ blurred' = Blur(k, d.cell)
  BY DEF UpdateCell
<1>4. d = CellWith(d.id, d.cell, d.count)
  BY <1>1 DEF Distributions, CellWith
<1>5. row = CellWith(d.id, d.cell, value) /\ row \in Distributions /\ row.cell = d.cell
  BY <1>1 DEF Distributions, CellWith
<1> HIDE DEF q1, row
<1>6. /\ F \in SUBSET Distributions
      /\ \A x \in F : x \in shown[k] \/ x.cell = d.cell
      /\ \A x \in shown[k] : x \in F \/ x.cell = d.cell
  BY <1>1, <1>5
<1>7. ASSUME RowsIn(shown[k], d.cell) = StoredAt(d.cell)
      PROVE  Holds(q1, d.cell, RowsIn(F, d.cell), StoredAt(d.cell))
  <2>1. d \in RowsIn(shown[k], d.cell)
    BY DEF RowsIn
  <2>2. \A x \in StoredAt(d.cell) : x = d
    BY <1>7, <2>1 DEF StoredAt, ShownIInv, OneRowPerCell
  <2>3. StoredAt(d.cell) = {d}
    BY <1>7, <2>1, <2>2
  <2>4. RowsIn(F, d.cell) = {row}
    BY <1>5, <1>7, <2>3 DEF RowsIn
  <2> QED
    BY <1>2, <1>4, <1>5, <2>3, <2>4 DEF Holds, WasServed
<1> HIDE DEF F
<1> QED
  BY <1>1, <1>2, <1>3, <1>6, <1>7, SentShows

LEMMA AddCellShows ==
    ASSUME MatrixTypeOK, ShownIInv, NEW k \in Coordinators, NEW week \in MatrixWeeks, NEW line \in MatrixRows,
           NEW value \in Nat, AddCell(k, week, line, value), UNCHANGED <<storedMatrix, chosen>>
    PROVE  ShownIInv'
<1> DEFINE cell == <<chosen[k], week, line>>
           temp == [id |-> 0 - edits - 1, cell |-> cell, count |-> value]
           q1 == Request("add", temp.id, cell, value, 0)
           F == shown[k] \cup {temp}
<1>1. /\ cell \in Cells /\ edits \in Nat /\ shown[k] \in SUBSET Distributions
      /\ cell[1] = chosen[k] /\ cell[2] = week /\ cell[3] = line
  BY InputCell, ShownRows DEF MatrixTypeOK
<1>2. /\ Send(k, q1) /\ shown' = [shown EXCEPT ![k] = F] /\ blurred' = Blur(k, cell)
      /\ CellRows(k, week, line) = {}
  BY DEF AddCell
<1> HIDE DEF cell
<1>3. /\ temp \in Distributions /\ temp.id \in Int /\ temp.cell = cell
      /\ temp = CellWith(temp.id, cell, value)
  BY <1>1 DEF Distributions, CellWith
<1> HIDE DEF temp
<1>4. /\ q1 \in CellRequests /\ q1.kind = "add" /\ q1.id = temp.id /\ q1.cell = cell
      /\ q1.value = value /\ q1.bound /\ q1.pc = "sent"
  BY <1>1, <1>3 DEF Request, CellRequests
<1> HIDE DEF q1
<1>5. /\ F \in SUBSET Distributions /\ \A x \in F : x \in shown[k] \/ x.cell = cell
      /\ \A x \in shown[k] : x \in F
  BY <1>1, <1>3
<1>6. ASSUME RowsIn(shown[k], cell) = StoredAt(cell)
      PROVE  Holds(q1, cell, RowsIn(F, cell), StoredAt(cell))
  <2>1. RowsIn(shown[k], cell) = {}
    BY <1>1, <1>2 DEF RowsIn, CellRows
  <2>2. RowsIn(F, cell) = {temp}
    BY <1>3, <2>1 DEF RowsIn
  <2> QED
    BY <1>3, <1>4, <1>6, <2>1, <2>2 DEF Holds, WasServed
<1> HIDE DEF F
<1> QED
  BY <1>1, <1>2, <1>4, <1>5, <1>6, SentShows

LEMMA EditShows ==
    ASSUME MatrixTypeOK, ShownIInv, NEW k \in Coordinators, Edit(k) \/ RemoveCells(k)
    PROVE  ShownIInv'
<1>1. UNCHANGED <<storedMatrix, chosen>>
  BY DEF Edit, RemoveCells
<1>2. \A v \in 1 .. CellLimit + 1 : v \in Nat
  OBVIOUS
<1>3. \/ \E week \in MatrixWeeks, line \in MatrixRows, value \in Nat : AddCell(k, week, line, value)
      \/ \E d \in shown[k], value \in Nat : UpdateCell(k, d, value)
      \/ \E d \in shown[k] : DeleteCell(k, d)
  BY <1>2 DEF Edit, RemoveCells, CellRows
<1> QED
  BY <1>1, <1>3, AddCellShows, UpdateCellShows, DeleteCellShows

\* A load is asked for: alone, it brings every cell; otherwise nothing is promised.
LEMMA AskLoadShows ==
    ASSUME MatrixTypeOK, ShownIInv, NEW k \in Coordinators, NEW t \in MatrixTemplates,
           NEW pc \in {"asked", "sent"}, AskLoad(k, t, pc)
    PROVE  ShownIInv'
<1> DEFINE q0 == Request("load", edits + 1, <<t, 0, 0>>, 0, 0)
           q1 == [q0 EXCEPT !.pc = pc]
<1>1. UNCHANGED <<storedMatrix, shown>> /\ chosen' = [chosen EXCEPT ![k] = t]
  BY DEF AskLoad
<1>2. /\ chosen'[k] = t /\ \A l \in Coordinators \ {k} : chosen'[l] = chosen[l]
  BY <1>1 DEF MatrixTypeOK
<1>3. /\ Send(k, q1)
      /\ IF flight[k] = {} THEN blurred' = blurred \ ({k} \X Cells)
         ELSE blurred' = blurred \cup ({k} \X Cells)
  BY DEF AskLoad, Reloaded
<1>4. q1.kind = "load" /\ q1.pc = pc /\ q1.rows = {} /\ q1.cell = <<t, 0, 0>> /\ q1.cell[1] = t
  BY DEF Request
<1> HIDE DEF q1
<1>5. /\ \A l \in Coordinators \ {k} : flight'[l] = flight[l]
      /\ flight'[k] = flight[k] \cup {q1}
      /\ \A p \in blurred : p[1] # k => p \in blurred'
  BY <1>3 DEF Send, MatrixTypeOK
<1>6. LoadsServed'
  <2>1. \A l \in Coordinators : \A r \in flight'[l] : r \in flight[l] \/ r = q1
    BY <1>5
  <2> QED
    BY <1>4, <2>1 DEF LoadsServed, ShownIInv
<1>7. OneRowPerCell'
  BY <1>1 DEF ShownIInv, OneRowPerCell
<1>8. ASSUME NEW l \in Coordinators, NEW w \in MatrixWeeks, NEW r \in MatrixRows
      PROVE  InputFits(l, w, r)'
  <2>1. InputFits(l, w, r)
    BY DEF ShownIInv
  <2>2. CASE l # k
    <3>1. flight'[l] = flight[l] /\ shown'[l] = shown[l] /\ chosen'[l] = chosen[l]
          /\ StoredAt(<<chosen[l], w, r>>)' = StoredAt(<<chosen[l], w, r>>)
      BY <1>1, <1>2, <1>5, <2>2 DEF StoredAt
    <3>2. \A p \in blurred : p[1] = l => p \in blurred'
      BY <1>5, <2>2
    <3> QED
      BY <2>1, <2>2, <3>1, <3>2, OthersKept
  <2>3. CASE l = k /\ flight[k] # {}
    <3>1. <<t, w, r>> \in Cells
      BY DEF Cells
    <3> QED
      BY <1>2, <1>3, <2>3, <3>1 DEF InputFits
  <2>4. CASE l = k /\ flight[k] = {}
    <3>1. flight'[k] = {q1}
      BY <1>5, <2>4
    <3>2. Loads(k)' = {q1} /\ CallsAt(k, w, r)' = {}
      BY <1>4, <3>1 DEF Loads, CallsAt
    <3>3. Loading(k, w, r, <<chosen[k], w, r>>)'
      BY <1>2, <1>4, <3>1, <3>2 DEF Loading, WasServed
    <3> QED
      BY <2>4, <3>3 DEF InputFits
  <2> QED
    BY <2>2, <2>3, <2>4
<1> QED
  BY <1>6, <1>7, <1>8 DEF ShownIInv

\* A step after which nothing is promised to its coordinator.
LEMMA BlurredShows ==
    ASSUME MatrixTypeOK, ShownIInv, NEW k \in Coordinators,
           UNCHANGED <<storedMatrix, shown>>, blurred' = blurred \cup ({k} \X Cells),
           chosen'[k] \in MatrixTemplates, flight'[k] \subseteq flight[k],
           \A l \in Coordinators \ {k} : chosen'[l] = chosen[l] /\ flight'[l] = flight[l]
    PROVE  ShownIInv'
<1>1. LoadsServed'
  <2>1. \A l \in Coordinators : \A r \in flight'[l] : r \in flight[l]
    OBVIOUS
  <2> QED
    BY <2>1 DEF LoadsServed, ShownIInv
<1>2. OneRowPerCell'
  BY DEF ShownIInv, OneRowPerCell
<1>3. ASSUME NEW l \in Coordinators, NEW w \in MatrixWeeks, NEW r \in MatrixRows
      PROVE  InputFits(l, w, r)'
  <2>1. InputFits(l, w, r)
    BY DEF ShownIInv
  <2>2. CASE l # k
    <3>1. flight'[l] = flight[l] /\ shown'[l] = shown[l] /\ chosen'[l] = chosen[l]
          /\ StoredAt(<<chosen[l], w, r>>)' = StoredAt(<<chosen[l], w, r>>)
      BY <2>2 DEF StoredAt
    <3> QED
      BY <2>1, <2>2, <3>1, OthersKept
  <2>3. CASE l = k
    <3>1. <<chosen'[k], w, r>> \in Cells
      BY DEF Cells
    <3> QED
      BY <2>3, <3>1 DEF InputFits
  <2> QED
    BY <2>2, <2>3
<1> QED
  BY <1>1, <1>2, <1>3 DEF ShownIInv

LEMMA SelectSavedShows ==
    ASSUME MatrixTypeOK, ShownIInv, NEW k \in Coordinators, SelectSavedTemplate(k)
    PROVE  ShownIInv'
<1>1. /\ UNCHANGED <<storedMatrix, shown, flight>> /\ blurred' = blurred \cup ({k} \X Cells)
      /\ chosen' = [chosen EXCEPT ![k] = savedTemplate[k]] /\ savedTemplate[k] \in MatrixTemplates
  BY DEF SelectSavedTemplate
<1>2. chosen'[k] \in MatrixTemplates /\ \A l \in Coordinators \ {k} : chosen'[l] = chosen[l]
  BY <1>1 DEF MatrixTypeOK
<1> QED
  BY <1>1, <1>2, BlurredShows

\* The load that is sent is for the template that is selected by then.
LEMMA LoadDistributionsShows ==
    ASSUME MatrixTypeOK, ShownIInv, NEW k \in Coordinators, NEW q \in flight[k],
           LoadDistributions(k, q)
    PROVE  ShownIInv'
<1>1. q.kind = "load" /\ q.pc = "asked" /\ UNCHANGED <<storedMatrix, shown, chosen>>
  BY DEF LoadDistributions
<1>2. CASE /\ flight' = [flight EXCEPT ![k] = @ \ {q}]
           /\ blurred' = blurred \cup ({k} \X Cells)
  <2>1. /\ flight'[k] \subseteq flight[k] /\ chosen'[k] \in MatrixTemplates
        /\ \A l \in Coordinators \ {k} : chosen'[l] = chosen[l] /\ flight'[l] = flight[l]
    BY <1>1, <1>2 DEF MatrixTypeOK
  <2> QED
    BY <1>1, <1>2, <2>1, BlurredShows
<1>3. CASE /\ flight' = [flight EXCEPT ![k] = (@ \ {q}) \cup
                {[q EXCEPT !.pc = "sent", !.cell = <<chosen[k], 0, 0>>]}]
           /\ blurred' = blurred
  <2>1. PICK q1 \in CellRequests :
              /\ [q EXCEPT !.pc = "sent", !.cell = <<chosen[k], 0, 0>>] = q1
              /\ q1.kind = "load" /\ q1.id = q.id /\ q1.cell = <<chosen[k], 0, 0>>
              /\ q1.pc = "sent" /\ q1.rows = q.rows
    BY <1>1, LoadSent
  <2>2. q1.rows = {} /\ q1.cell[1] = chosen[k]
    BY <1>1, <2>1 DEF ShownIInv, LoadsServed
  <2>3. flight' = [flight EXCEPT ![k] = (@ \ {q}) \cup {q1}]
    BY <1>3, <2>1
  <2>4. LoadsServed'
    BY <2>1, <2>2, <2>3, LoadsMoved DEF ShownIInv
  <2>5. OneRowPerCell'
    BY <1>1 DEF ShownIInv, OneRowPerCell
  <2>6. flight'[k] = (flight[k] \ {q}) \cup {q1} /\ \A l \in Coordinators \ {k} : flight'[l] = flight[l]
    BY <2>3 DEF MatrixTypeOK
  <2>7. ASSUME NEW l \in Coordinators, NEW w \in MatrixWeeks, NEW r \in MatrixRows
        PROVE  InputFits(l, w, r)'
    <3>1. InputFits(l, w, r)
      BY DEF ShownIInv
    <3>2. CASE l # k
      <4>1. flight'[l] = flight[l] /\ shown'[l] = shown[l] /\ chosen'[l] = chosen[l]
            /\ StoredAt(<<chosen[l], w, r>>)' = StoredAt(<<chosen[l], w, r>>)
        BY <1>1, <2>6, <3>2 DEF StoredAt
      <4> QED
        BY <1>3, <3>1, <3>2, <4>1, OthersKept
    <3>3. CASE l = k
      <4>1. PICK cell \in Cells : cell = <<chosen[k], w, r>>
        BY InputCell
      <4>2. chosen'[k] = chosen[k]
        BY <1>1
      <4>3. CASE <<k, cell>> \in blurred
        BY <1>3, <3>3, <4>1, <4>2, <4>3 DEF InputFits
      <4>4. CASE Loading(k, w, r, cell)
        <5>1. CallsAt(k, w, r) = {} /\ Loads(k) = {q}
          BY <1>1, <4>4 DEF Loading, Loads
        <5>2. Loads(k)' = {q1} /\ q1 \in flight'[k] /\ CallsAt(k, w, r)' = {}
          BY <1>1, <2>1, <2>6, <5>1 DEF Loads, CallsAt
        <5>3. Loading(k, w, r, cell)'
          BY <2>1, <2>2, <4>2, <5>2 DEF Loading, WasServed
        <5> QED
          BY <3>3, <4>1, <4>2, <5>3 DEF InputFits
      <4>5. Loads(k) # {}
        BY <1>1 DEF Loads
      <4> QED
        BY <3>1, <3>3, <4>1, <4>3, <4>4, <4>5 DEF InputFits, Resting, Saving
    <3> QED
      BY <3>2, <3>3
  <2> QED
    BY <2>4, <2>5, <2>7 DEF ShownIInv
<1> QED
  BY <1>2, <1>3 DEF LoadDistributions

-----------------------------------------------------------------------------
(* The answers.                                                            *)

\* An answer touches rows of its cell only.
LEMMA AnswerAtCell ==
    ASSUME MatrixTypeOK, IdsStand, NEW k \in Coordinators, NEW q \in flight[k], q.kind # "load",
           NEW G, G = Confirm(k, q) \/ G = Rollback(k, q)
    PROVE  /\ \A d \in G : d \in shown[k] \/ d.cell = q.cell
           /\ \A d \in shown[k] : d \in G \/ d.cell = q.cell
<1>1. /\ \A d \in shown[k] : d.id = q.id => d.cell = q.cell
      /\ \A d \in shown[k] : d \in Distributions
  BY RowsOfCall DEF MatrixTypeOK
<1>2. CASE G = shown[k]
  BY <1>2
<1>3. CASE G = shown[k] \ RowWith(shown[k], q.id)
  BY <1>1, <1>3 DEF RowWith
<1>4. ASSUME NEW n, G = {IF d.id = q.id THEN [d EXCEPT !.count = n] ELSE d : d \in shown[k]}
      PROVE  /\ \A d \in G : d \in shown[k] \/ d.cell = q.cell
             /\ \A d \in shown[k] : d \in G \/ d.cell = q.cell
  <2> DEFINE New(d) == IF d.id = q.id THEN [d EXCEPT !.count = n] ELSE d
  <2>1. \A d \in shown[k] : New(d) = d \/ (New(d).cell = q.cell /\ d.cell = q.cell)
    BY <1>1 DEF Distributions
  <2>2. G = {New(d) : d \in shown[k]}
    BY <1>4
  <2> HIDE DEF New
  <2> QED
    BY <2>1, <2>2
<1>5. ASSUME NEW n, NEW i, G = (shown[k] \ RowWith(shown[k], q.id)) \cup {[id |-> i, cell |-> q.cell, count |-> n]}
      PROVE  /\ \A d \in G : d \in shown[k] \/ d.cell = q.cell
             /\ \A d \in shown[k] : d \in G \/ d.cell = q.cell
  BY <1>1, <1>5 DEF RowWith
<1>6. CASE G = shown[k] \cup {[id |-> q.id, cell |-> q.cell, count |-> q.prev]}
  BY <1>6
<1>7. \/ G = shown[k] \/ G = shown[k] \ RowWith(shown[k], q.id)
      \/ G = {IF d.id = q.id THEN [d EXCEPT !.count = q.prev] ELSE d : d \in shown[k]}
      \/ G = (shown[k] \ RowWith(shown[k], q.id)) \cup {[id |-> 0 - q.id, cell |-> q.cell, count |-> q.value]}
      \/ G = shown[k] \cup {[id |-> q.id, cell |-> q.cell, count |-> q.prev]}
  BY DEF Confirm, Rollback
<1> QED
  BY <1>2, <1>3, <1>4, <1>5, <1>6, <1>7

\* What an answer leaves in its input is what is stored.
LEMMA AnswerSettles ==
    ASSUME MatrixTypeOK, IdsStand, NEW k \in Coordinators, NEW q \in flight[k], q.kind # "load", q.bound,
           q.pc \in {"done", "refused"},
           Holds(q, q.cell, RowsIn(shown[k], q.cell), StoredAt(q.cell)),
           NEW G, G = IF q.pc = "done" THEN Confirm(k, q) ELSE Rollback(k, q)
    PROVE  RowsIn(G, q.cell) = StoredAt(q.cell)
<1> DEFINE row == CellWith(q.id, q.cell, q.value)
<1>1. /\ \A d \in shown[k] : d.id = q.id => d \in RowsIn(shown[k], q.cell)
      /\ q \in CellRequests
  BY RowsOfCall DEF RowsIn, MatrixTypeOK
<1>2. row.id = q.id /\ row.cell = q.cell /\ \A n : [row EXCEPT !.count = n] = CellWith(q.id, q.cell, n)
  BY DEF CellWith
<1> HIDE DEF row
<1>3. CASE q.kind = "add"
  <2>1. RowsIn(shown[k], q.cell) = {row}
    BY <1>3 DEF Holds, row
  <2>2. row \in shown[k] /\ RowWith(shown[k], q.id) = {row}
    BY <1>1, <1>2, <2>1 DEF RowsIn, RowWith
  <2>3. RowsIn(shown[k] \ {row}, q.cell) = {}
    BY <2>1 DEF RowsIn
  <2>4. CASE q.pc = "done"
    <3>1. StoredAt(q.cell) = {CellWith(0 - q.id, q.cell, q.value)}
      BY <1>3, <2>4 DEF Holds, WasServed
    <3>2. G = (shown[k] \ {row}) \cup {CellWith(0 - q.id, q.cell, q.value)}
      BY <1>3, <2>2, <2>4 DEF Confirm, CellWith
    <3>3. CellWith(0 - q.id, q.cell, q.value).cell = q.cell
      BY DEF CellWith
    <3> QED
      BY <2>3, <3>1, <3>2, <3>3 DEF RowsIn
  <2>5. CASE q.pc = "refused"
    <3>1. StoredAt(q.cell) = {}
      BY <1>3, <2>5 DEF Holds, WasServed
    <3>2. G = shown[k] \ {row}
      BY <1>3, <2>2, <2>5 DEF Rollback
    <3> QED
      BY <2>3, <3>1, <3>2
  <2> QED
    BY <2>4, <2>5
<1>4. CASE q.kind = "update"
  <2>1. RowsIn(shown[k], q.cell) = {row}
    BY <1>4 DEF Holds, row
  <2>2. CASE q.pc = "done"
    <3>1. StoredAt(q.cell) = {row} /\ G = shown[k]
      BY <1>4, <2>2 DEF Holds, WasServed, Confirm, row
    <3> QED
      BY <2>1, <3>1
  <2>3. CASE q.pc = "refused"
    <3> DEFINE New(d) == IF d.id = q.id THEN [d EXCEPT !.count = q.prev] ELSE d
    <3>1. StoredAt(q.cell) = {CellWith(q.id, q.cell, q.prev)}
      BY <1>4, <2>3 DEF Holds, WasServed
    <3>2. G = {New(d) : d \in shown[k]}
      BY <1>4, <2>3 DEF Rollback
    <3>3. \A d \in shown[k] : d # row => New(d) = d /\ d \notin RowsIn(shown[k], q.cell)
      BY <1>1, <2>1
    <3>4. New(row) = CellWith(q.id, q.cell, q.prev) /\ New(row).cell = q.cell /\ row \in shown[k]
      BY <1>2, <2>1 DEF CellWith, RowsIn
    <3> HIDE DEF New
    <3>5. RowsIn(G, q.cell) = {New(row)}
      BY <3>2, <3>3, <3>4 DEF RowsIn
    <3> QED
      BY <3>1, <3>4, <3>5
  <2> QED
    BY <2>2, <2>3
<1>5. CASE q.kind = "delete"
  <2>1. RowsIn(shown[k], q.cell) = {}
    BY <1>5 DEF Holds
  <2>2. CASE q.pc = "done"
    <3>1. StoredAt(q.cell) = {} /\ G = shown[k]
      BY <1>5, <2>2 DEF Holds, WasServed, Confirm
    <3> QED
      BY <2>1, <3>1
  <2>3. CASE q.pc = "refused"
    <3>1. StoredAt(q.cell) = {CellWith(q.id, q.cell, q.prev)}
      BY <1>5, <2>3 DEF Holds, WasServed
    <3>2. G = shown[k] \cup {CellWith(q.id, q.cell, q.prev)}
      BY <1>5, <2>3 DEF Rollback, CellWith
    <3>3. CellWith(q.id, q.cell, q.prev).cell = q.cell
      BY DEF CellWith
    <3> QED
      BY <2>1, <3>1, <3>2, <3>3 DEF RowsIn
  <2> QED
    BY <2>2, <2>3
<1> QED
  BY <1>1, <1>3, <1>4, <1>5 DEF CellRequests

LEMMA AnsweredShows ==
    ASSUME MatrixTypeOK, IdsStand, ShownIInv, NEW k \in Coordinators, NEW q \in flight[k],
           MatrixAnswered(k, q), q.kind # "load"
    PROVE  ShownIInv'
<1> DEFINE G == IF q.pc = "done" THEN Confirm(k, q) ELSE Rollback(k, q)
<1>1. /\ q.pc \in {"done", "refused"} /\ UNCHANGED <<storedMatrix, chosen, blurred>>
      /\ shown' = [shown EXCEPT ![k] = G] /\ flight' = [flight EXCEPT ![k] = flight[k] \ {q}]
  BY DEF MatrixAnswered, Settled
<1>2. G = Confirm(k, q) \/ G = Rollback(k, q)
  OBVIOUS
<1>3. /\ shown'[k] = G /\ \A l \in Coordinators \ {k} : shown'[l] = shown[l]
      /\ flight'[k] = flight[k] \ {q} /\ \A l \in Coordinators \ {k} : flight'[l] = flight[l]
  BY <1>1 DEF MatrixTypeOK
<1>4. G = IF q.pc = "done" THEN Confirm(k, q) ELSE Rollback(k, q)
  OBVIOUS
<1> HIDE DEF G
<1>5. (\A d \in G : d \in shown[k] \/ d.cell = q.cell) /\ \A d \in shown[k] : d \in G \/ d.cell = q.cell
  BY <1>2, AnswerAtCell
<1>6. LoadsServed'
  <2>1. \A l \in Coordinators : \A r \in flight'[l] : r \in flight[l]
    BY <1>3
  <2> QED
    BY <2>1 DEF LoadsServed, ShownIInv
<1>7. OneRowPerCell'
  BY <1>1 DEF ShownIInv, OneRowPerCell
<1>8. ASSUME NEW l \in Coordinators, NEW w \in MatrixWeeks, NEW r \in MatrixRows
      PROVE  InputFits(l, w, r)'
  <2>1. InputFits(l, w, r)
    BY DEF ShownIInv
  <2>2. StoredAt(<<chosen[l], w, r>>)' = StoredAt(<<chosen[l], w, r>>) /\ chosen'[l] = chosen[l] /\ blurred' = blurred
    BY <1>1 DEF StoredAt
  <2>3. CASE l # k
    <3>1. flight'[l] = flight[l] /\ shown'[l] = shown[l] /\ chosen'[l] = chosen[l]
      BY <1>3, <2>2, <2>3
    <3> QED
      BY <2>1, <2>2, <2>3, <3>1, OthersKept
  <2>4. Loads(k)' = Loads(k)
    BY <1>3 DEF Loads
  <2>5. CASE l = k /\ (q.cell[2] # w \/ q.cell[3] # r)
    <3>1. CellRows(k, w, r)' = CellRows(k, w, r)
      BY <1>3, <1>5, <2>5 DEF CellRows
    <3>2. CallsAt(k, w, r)' = CallsAt(k, w, r)
      BY <1>3, <2>5 DEF CallsAt
    <3> QED
      BY <2>1, <2>2, <2>4, <2>5, <3>1, <3>2, InputKept
  <2>6. CASE l = k /\ q.cell[2] = w /\ q.cell[3] = r
    <3>1. PICK cell \in Cells : cell = <<chosen[k], w, r>>
      BY InputCell
    <3>2. q \in CallsAt(k, w, r)
      BY <2>6 DEF CallsAt
    <3>3. CASE <<k, cell>> \in blurred
      BY <2>2, <2>6, <3>1, <3>3 DEF InputFits
    <3>4. CASE Saving(k, w, r, cell)
      <4>1. /\ CallsAt(k, w, r) = {q} /\ q.cell = cell /\ q.bound /\ Loads(k) = {}
            /\ Holds(q, cell, CellRows(k, w, r), StoredAt(cell))
        BY <3>2, <3>4 DEF Saving
      <4>2. CellRows(k, w, r) = RowsIn(shown[k], cell)
        BY <3>1 DEF CellRows, RowsIn
      <4>3. RowsIn(G, cell) = StoredAt(cell)
        BY <1>1, <1>4, <4>1, <4>2, AnswerSettles
      <4>4. CellRows(k, w, r)' = RowsIn(G, cell) /\ StoredAt(cell)' = StoredAt(cell)
        BY <1>1, <1>3, <3>1 DEF CellRows, RowsIn, StoredAt
      <4>5. CallsAt(k, w, r)' = {}
        BY <1>3, <4>1 DEF CallsAt
      <4>6. Resting(k, w, r, cell)'
        BY <2>4, <4>1, <4>3, <4>4, <4>5 DEF Resting
      <4> QED
        BY <2>2, <2>6, <3>1, <4>6 DEF InputFits
    <3> QED
      BY <2>1, <2>6, <3>1, <3>2, <3>3, <3>4 DEF InputFits, Resting, Loading
  <2> QED
    BY <2>3, <2>5, <2>6
<1> QED
  BY <1>6, <1>7, <1>8 DEF ShownIInv

\* The summary a load brings replaces what is shown.
LEMMA LoadedShows ==
    ASSUME MatrixTypeOK, IdsStand, ShownIInv, NEW k \in Coordinators, NEW q \in flight[k],
           MatrixAnswered(k, q), q.kind = "load"
    PROVE  ShownIInv'
<1> DEFINE F == {[r EXCEPT !.bound = FALSE] : r \in flight[k] \ {q}}
<1>1. q.pc = "done" /\ \A d \in q.rows : d.cell[1] = q.cell[1]
  BY DEF MatrixAnswered, ShownIInv, LoadsServed
<1>2. /\ UNCHANGED <<storedMatrix, chosen, blurred>>
      /\ shown' = [shown EXCEPT ![k] = q.rows] /\ flight' = [flight EXCEPT ![k] = F]
  BY <1>1 DEF MatrixAnswered, Settled, Confirm
<1>3. /\ shown'[k] = q.rows /\ \A l \in Coordinators \ {k} : shown'[l] = shown[l]
      /\ flight'[k] = F /\ \A l \in Coordinators \ {k} : flight'[l] = flight[l]
  BY <1>2 DEF MatrixTypeOK
<1>4. \A l \in Coordinators : \A r \in flight'[l] :
         \E s \in flight[l] :
            /\ r.kind = s.kind /\ r.id = s.id /\ r.cell = s.cell /\ r.value = s.value
            /\ r.pc = s.pc /\ r.rows = s.rows
  BY <1>2, AnsweredType
<1>5. LoadsServed'
  BY <1>4 DEF LoadsServed, ShownIInv
<1>6. OneRowPerCell'
  BY <1>2 DEF ShownIInv, OneRowPerCell
<1>7. \A r \in F : \E s \in flight[k] \ {q} : r.kind = s.kind /\ r.cell = s.cell
  BY DEF MatrixTypeOK, CellRequests
<1> HIDE DEF F
<1>8. ASSUME NEW l \in Coordinators, NEW w \in MatrixWeeks, NEW r \in MatrixRows
      PROVE  InputFits(l, w, r)'
  <2>1. InputFits(l, w, r)
    BY DEF ShownIInv
  <2>2. StoredAt(<<chosen[l], w, r>>)' = StoredAt(<<chosen[l], w, r>>) /\ chosen'[l] = chosen[l] /\ blurred' = blurred
    BY <1>2 DEF StoredAt
  <2>3. CASE l # k
    <3>1. flight'[l] = flight[l] /\ shown'[l] = shown[l] /\ chosen'[l] = chosen[l]
      BY <1>3, <2>2, <2>3
    <3> QED
      BY <2>1, <2>2, <2>3, <3>1, OthersKept
  <2>4. CASE l = k
    <3>1. PICK cell \in Cells : cell = <<chosen[k], w, r>>
      BY InputCell
    <3>2. cell[1] = chosen[k] /\ cell[2] = w /\ cell[3] = r
      BY <3>1
    <3>3. q \in Loads(k)
      BY DEF Loads
    <3>4. CASE <<k, cell>> \in blurred
      BY <2>2, <2>4, <3>1, <3>4 DEF InputFits
    <3>5. CASE Loading(k, w, r, cell)
      <4>1. /\ CallsAt(k, w, r) = {} /\ Loads(k) = {q} /\ q.cell[1] = chosen[k]
            /\ Brought(q, cell) = StoredAt(cell)
        BY <1>1, <3>3, <3>5 DEF Loading, WasServed
      <4>2. Loads(k)' = {} /\ CallsAt(k, w, r)' = {}
        BY <1>3, <1>7, <4>1 DEF Loads, CallsAt
      <4>3. \A d \in q.rows : d.cell \in Cells
        BY DEF MatrixTypeOK, CellRequests, Distributions
      <4>4. \A d \in q.rows : d.cell = cell <=> d.cell[2] = w /\ d.cell[3] = r
        BY <1>1, <3>1, <3>2, <4>1, <4>3, CellParts
      <4>5. CellRows(k, w, r)' = Brought(q, cell)
        BY <1>3, <4>4 DEF CellRows, Brought
      <4>6. Resting(k, w, r, cell)'
        BY <2>2, <1>2, <4>1, <4>2, <4>5 DEF Resting, StoredAt
      <4> QED
        BY <2>2, <2>4, <3>1, <4>6 DEF InputFits
    <3> QED
      BY <2>1, <2>4, <3>1, <3>3, <3>4, <3>5 DEF InputFits, Resting, Saving
  <2> QED
    BY <2>3, <2>4
<1> QED
  BY <1>5, <1>6, <1>8 DEF ShownIInv

\* After a lost answer nothing is promised to its coordinator.
LEMMA LostShows ==
    ASSUME MatrixTypeOK, ShownIInv, NEW k \in Coordinators, NEW q \in flight[k], AnswerLost(k, q)
    PROVE  ShownIInv'
<1>1. /\ UNCHANGED <<storedMatrix, chosen>> /\ blurred' = blurred \cup ({k} \X Cells)
      /\ shown' = [shown EXCEPT ![k] = Rollback(k, q)] /\ flight' = [flight EXCEPT ![k] = flight[k] \ {q}]
  BY DEF AnswerLost
<1>2. /\ \A l \in Coordinators \ {k} : shown'[l] = shown[l]
      /\ flight'[k] = flight[k] \ {q} /\ \A l \in Coordinators \ {k} : flight'[l] = flight[l]
      /\ \A p \in blurred : p \in blurred'
  BY <1>1 DEF MatrixTypeOK
<1>3. LoadsServed'
  <2>1. \A l \in Coordinators : \A r \in flight'[l] : r \in flight[l]
    BY <1>2
  <2> QED
    BY <2>1 DEF LoadsServed, ShownIInv
<1>4. OneRowPerCell'
  BY <1>1 DEF ShownIInv, OneRowPerCell
<1>5. ASSUME NEW l \in Coordinators, NEW w \in MatrixWeeks, NEW r \in MatrixRows
      PROVE  InputFits(l, w, r)'
  <2>1. InputFits(l, w, r)
    BY DEF ShownIInv
  <2>2. CASE l # k
    <3>1. flight'[l] = flight[l] /\ shown'[l] = shown[l] /\ chosen'[l] = chosen[l]
          /\ StoredAt(<<chosen[l], w, r>>)' = StoredAt(<<chosen[l], w, r>>)
      BY <1>1, <1>2, <2>2 DEF StoredAt
    <3> QED
      BY <1>2, <2>1, <2>2, <3>1, OthersKept
  <2>3. CASE l = k
    <3>1. <<chosen[k], w, r>> \in Cells
      BY InputCell
    <3> QED
      BY <1>1, <2>3, <3>1 DEF InputFits
  <2> QED
    BY <2>2, <2>3
<1> QED
  BY <1>3, <1>4, <1>5 DEF ShownIInv

-----------------------------------------------------------------------------
(* Every step together.                                                    *)

LEMMA ShownInitially == MatrixInit => ShownIInv
<1> SUFFICES ASSUME MatrixInit PROVE ShownIInv
  OBVIOUS
<1>1. storedMatrix = {} /\ \A k \in Coordinators : shown[k] = {} /\ flight[k] = {}
  BY DEF MatrixInit
<1>2. LoadsServed /\ OneRowPerCell
  BY <1>1 DEF LoadsServed, OneRowPerCell
<1>3. ASSUME NEW k \in Coordinators, NEW w \in MatrixWeeks, NEW r \in MatrixRows
      PROVE  InputFits(k, w, r)
  <2>1. Resting(k, w, r, <<chosen[k], w, r>>)
    BY <1>1 DEF Resting, Loads, CallsAt, CellRows, StoredAt
  <2> QED
    BY <2>1 DEF InputFits
<1> QED
  BY <1>2, <1>3 DEF ShownIInv

LEMMA ShownKept ==
    ASSUME ShownIInv, UNCHANGED matrixVars
    PROVE  ShownIInv'
<1>1. UNCHANGED <<storedMatrix, shown, chosen, flight, blurred>>
  BY DEF matrixVars
<1>2. LoadsServed' /\ OneRowPerCell'
  BY <1>1 DEF ShownIInv, LoadsServed, OneRowPerCell
<1>3. ASSUME NEW k \in Coordinators, NEW w \in MatrixWeeks, NEW r \in MatrixRows
      PROVE  InputFits(k, w, r)'
  <2>1. /\ CellRows(k, w, r)' = CellRows(k, w, r) /\ CallsAt(k, w, r)' = CallsAt(k, w, r)
        /\ Loads(k)' = Loads(k) /\ StoredAt(<<chosen[k], w, r>>)' = StoredAt(<<chosen[k], w, r>>)
    BY <1>1 DEF CellRows, CallsAt, Loads, StoredAt
  <2>2. InputFits(k, w, r)
    BY DEF ShownIInv
  <2> QED
    BY <1>1, <2>1, <2>2, InputKept
<1> QED
  BY <1>2, <1>3 DEF ShownIInv

\* Whatever the order of the edits, the answers and the refusals, every input of every
\* coordinator shows what is stored, or is being loaded or saved by the one request whose
\* answer or roll back will make it so, or is promised nothing (store/index.ts:59).
THEOREM ShownInvariant == MatrixSpec => []ShownIInv
<1>1. MatrixInit => ShownIInv
  BY ShownInitially
<1>2. MatrixIInv /\ ShownIInv /\ [MatrixNext]_matrixVars => ShownIInv'
  <2> SUFFICES ASSUME MatrixIInv, ShownIInv, [MatrixNext]_matrixVars PROVE ShownIInv'
    OBVIOUS
  <2>0. MatrixTypeOK /\ IdsStand
    BY DEF MatrixIInv
  <2>1. ASSUME NEW k \in Coordinators, Edit(k) \/ RemoveCells(k) PROVE ShownIInv'
    BY <2>0, <2>1, EditShows
  <2>2. ASSUME NEW k \in Coordinators, NEW t \in MatrixTemplates,
               SelectTemplate(k, t) \/ OpenMatrix(k, t)
        PROVE  ShownIInv'
    BY <2>0, <2>2, AskLoadShows DEF SelectTemplate, OpenMatrix
  <2>3. ASSUME NEW k \in Coordinators, NEW q \in flight[k], Serve(k, q) PROVE ShownIInv'
    BY <2>0, <2>3, CheckShows, CreateShows, UpdateShows, DeleteShows, SummaryShows DEF Serve
  <2>4. ASSUME NEW k \in Coordinators, NEW q \in flight[k], MatrixAnswered(k, q) PROVE ShownIInv'
    BY <2>0, <2>4, AnsweredShows, LoadedShows
  <2>5. ASSUME NEW k \in Coordinators, NEW q \in flight[k], AnswerLost(k, q) PROVE ShownIInv'
    BY <2>0, <2>5, LostShows
  <2>6. ASSUME NEW k \in Coordinators, NEW q \in flight[k], LoadDistributions(k, q) PROVE ShownIInv'
    BY <2>0, <2>6, LoadDistributionsShows
  <2>7. ASSUME NEW k \in Coordinators, SelectSavedTemplate(k) PROVE ShownIInv'
    BY <2>0, <2>7, SelectSavedShows
  <2>8. CASE UNCHANGED matrixVars
    BY <2>8, ShownKept
  <2> QED
    BY <2>1, <2>2, <2>3, <2>4, <2>5, <2>6, <2>7, <2>8 DEF MatrixNext
<1> QED
  BY <1>1, <1>2, MatrixInvariant, PTL DEF MatrixSpec

\* What the rows of a cell sum up to, of which there is at most one.
LEMMA CellTotal ==
    ASSUME NEW S \in SUBSET Distributions, \A d, e \in S : d = e
    PROVE  MapThenSumSet(LAMBDA d : d.count, S) = IF S = {} THEN 0 ELSE (CHOOSE d \in S : TRUE).count
<1>1. CASE S = {}
  <2>1. IsFiniteSet(S)
    BY <1>1, FS_EmptySet
  <2>2. MapThenSumSet(LAMBDA d : d.count, S) = Total(CountOf, S)
    BY <2>1, CountsTotal
  <2> QED
    BY <1>1, <2>2, TotalEmpty
<1>2. CASE S # {}
  <2> DEFINE d == CHOOSE d \in S : TRUE
  <2>1. d \in S
    BY <1>2
  <2>2. S = {} \cup {d}
    BY <2>1
  <2>3. IsFiniteSet({}) /\ IsFiniteSet(S)
    BY <2>2, FS_EmptySet, FS_AddElement
  <2>4. CountOf[d] = d.count /\ CountOf[d] \in Nat
    BY <2>1 DEF CountOf, Distributions
  <2>5. MapThenSumSet(LAMBDA e : e.count, S) = Total(CountOf, S)
    BY <2>3, CountsTotal
  <2> HIDE DEF d
  <2>6. Total(CountOf, {} \cup {d}) = CountOf[d] + Total(CountOf, {})
    BY <2>3, <2>4, TotalInsert
  <2>7. Total(CountOf, {}) = 0
    BY TotalEmpty
  <2>8. Total(CountOf, S) = d.count
    BY <2>2, <2>4, <2>6, <2>7
  <2> QED
    BY <1>2, <2>5, <2>8 DEF d
<1> QED
  BY <1>1, <1>2

\* A coordinator with nothing in flight sees what is stored in every cell, whatever was
\* refused in between: the roll back of the store (store/index.ts:59; spec 003, FR-004).
THEOREM CellsShowWhatIsStored == MatrixSpec => []MatrixShowsStored
<1>1. MatrixIInv /\ ShownIInv => MatrixShowsStored
  <2> SUFFICES ASSUME MatrixIInv, ShownIInv, NEW k \in Coordinators, flight[k] = {},
                      NEW w \in MatrixWeeks, NEW r \in MatrixRows,
                      <<k, <<chosen[k], w, r>>>> \notin blurred
               PROVE  GetCellValue(k, w, r) = MapThenSumSet(LAMBDA d : d.count, StoredAt(<<chosen[k], w, r>>))
    BY DEF MatrixShowsStored, StoredAt
  <2> DEFINE S == StoredAt(<<chosen[k], w, r>>)
  <2>1. CellRows(k, w, r) = S
    BY DEF ShownIInv, InputFits, Resting, Loading, Saving
  <2>2. S \in SUBSET Distributions /\ \A d, e \in S : d = e
    BY DEF StoredAt, MatrixIInv, MatrixTypeOK, ShownIInv, OneRowPerCell
  <2> HIDE DEF S
  <2>3. MapThenSumSet(LAMBDA d : d.count, S) = IF S = {} THEN 0 ELSE (CHOOSE d \in S : TRUE).count
    BY <2>2, CellTotal
  <2> QED
    BY <2>1, <2>3 DEF GetCellValue, S
<1> QED
  BY <1>1, MatrixInvariant, ShownInvariant, PTL
=============================================================================
