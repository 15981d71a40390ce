---------------------------- MODULE ReviewScreen ----------------------------
(***************************************************************************)
(* The review of generated questions in one browser: the store materials   *)
(* with the decisions not yet approved, the copy of them in localStorage,  *)
(* the list of MaterialReviewList with its search view, and the calls in   *)
(* flight. Another administrator edits the same requests. The requests are *)
(* IN_REVIEW already: the change of status on the first opening, and what  *)
(* an approval starts, belong to MaterialLifecycle.                        *)
(*                                                                         *)
(* A slot holds a question, "EMPTY" or "REMOVED"; a decision is a question *)
(* that replaces it, "REMOVED" or "none".                                  *)
(***************************************************************************)
EXTENDS Naturals, FiniteSets

CONSTANTS Reviews,        \* the material requests under review
          SlotsOf,        \* request -> the ids of its slots
          FirstSlots,     \* slot -> what the generation put there
          BankQuestions,  \* the questions the search can find
          HiddenQuestions,\* those of topics the tenant has hidden
          MaxReviewMoves, \* bound on what the reviewer does
          MaxOtherDrafts  \* bound on what the other administrator does

VARIABLES rows,      \* the database: version and slots of every request
          review,    \* currentReview
          pending,   \* pendingReplacements and pendingRemovals
          disk,      \* localStorage: the draft_<id> entries
          list,      \* MaterialReviewList: request, view, checkbox
          loading,   \* isLoading of the store, shared by all its calls
          calls,     \* review, draft and approve calls in flight
          approval,  \* the last approval the server accepted, and what was on screen
          reviewMoves, otherDrafts

reviewVars == <<rows, review, pending, disk, list, loading, calls, approval,
                reviewMoves, otherDrafts>>

AllSlots == UNION {SlotsOf[m] : m \in Reviews}

ASSUME ReviewAssumption ==
  /\ \A m, n \in Reviews : m # n => SlotsOf[m] \cap SlotsOf[n] = {}
  /\ \A s \in AllSlots : FirstSlots[s] \in BankQuestions \cup {"EMPTY"}
  /\ {"EMPTY", "REMOVED", "none"} \cap BankQuestions = {}
  /\ MaxReviewMoves \in Nat /\ MaxOtherDrafts \in Nat

NoDecisions == [s \in AllSlots |-> "none"]
NoReview == [of |-> "none", version |-> 0, slots |-> [s \in {} |-> "EMPTY"]]
ClosedList == [of |-> "none", slot |-> "none", found |-> {}, warnings |-> FALSE]
NoApproval == [of |-> "none", shownOf |-> "none", shown |-> <<>>, result |-> <<>>]

ReviewInit ==
  /\ rows = [m \in Reviews |-> [version |-> 1, slots |-> [s \in SlotsOf[m] |-> FirstSlots[s]]]]
  /\ review = NoReview /\ pending = NoDecisions /\ disk = [m \in Reviews |-> NoDecisions]
  /\ list = ClosedList /\ loading = FALSE /\ calls = {} /\ approval = NoApproval
  /\ reviewMoves = 0 /\ otherDrafts = 0

\* What decisions make of slots; the list and the server agree on it.
Decide(slots, decisions) ==
  [s \in DOMAIN slots |-> IF decisions[s] = "none" THEN slots[s] ELSE decisions[s]]

\* questions: what the list shows.
Shown == Decide(review.slots, pending)

HasEmptySlots == \E s \in DOMAIN Shown : Shown[s] = "EMPTY"

-----------------------------------------------------------------------------
(* The store.                                                              *)

\* The watcher runs as soon as the decisions have changed, and writes them under
\* the review the store has at that moment.
Persist(decisions) ==
  disk' = IF review.of = "none" THEN disk ELSE [disk EXCEPT ![review.of] = decisions]

Call(kind, m, version, decisions) ==
  [kind |-> kind, of |-> m, version |-> version, decisions |-> decisions,
   warnings |-> FALSE, shownOf |-> "none", shown |-> <<>>,
   pc |-> "sent", heard |-> kind # "draft", answer |-> NoReview]

ReviewMove == reviewMoves < MaxReviewMoves /\ reviewMoves' = reviewMoves + 1

\* fetchReviewData: another request's decisions come from localStorage, before
\* the answer replaces the review.
FetchReviewData(m) ==
  /\ IF review.of = m THEN UNCHANGED <<pending, disk>>
     ELSE pending' = disk[m] /\ Persist(disk[m])
  /\ loading' = TRUE
  /\ calls' = calls \cup {Call("review", m, 0, NoDecisions)}

\* The audit button of the matrix, or the page of a review.
OpenList(m) ==
  /\ ReviewMove /\ list.of # m
  /\ list' = [ClosedList EXCEPT !.of = m]
  /\ FetchReviewData(m)
  /\ UNCHANGED <<rows, review, approval, otherDrafts>>

CloseList ==
  /\ ReviewMove /\ list.of # "none" /\ list' = ClosedList
  /\ UNCHANGED <<rows, review, pending, disk, loading, calls, approval, otherDrafts>>

\* The page is loaded again: memory is gone, calls that reached the network are not.
ReloadPage ==
  /\ ReviewMove
  /\ review' = NoReview /\ pending' = NoDecisions /\ list' = ClosedList /\ loading' = FALSE
  /\ calls' = {[c EXCEPT !.heard = FALSE] : c \in {d \in calls : d.pc = "sent"}}
  /\ UNCHANGED <<rows, disk, approval, otherDrafts>>

\* Another call of the store, such as the poll of the board, starts or ends.
OtherStoreCall ==
  /\ ReviewMove /\ loading' = ~loading
  /\ UNCHANGED <<rows, review, pending, disk, list, calls, approval, otherDrafts>>

-----------------------------------------------------------------------------
(* The list. It shows the review of the store, whichever request it is of. *)

Listing == list.of # "none" /\ review # NoReview

\* A decision on one slot, saved as a draft with the version of the review.
Record(s, decision) ==
  /\ pending' = [pending EXCEPT ![s] = decision]
  /\ Persist(pending')
  /\ calls' = calls \cup {Call("draft", list.of, review.version,
                               [NoDecisions EXCEPT ![s] = decision])}
  /\ UNCHANGED <<rows, review, loading, approval, otherDrafts>>

\* confirmRemove
RemoveSlot(s) ==
  /\ ReviewMove /\ Listing /\ list.slot = "none"
  /\ s \in DOMAIN Shown /\ Shown[s] # "REMOVED"
  /\ Record(s, "REMOVED")
  /\ UNCHANGED list

\* searchQuestionIds; its limit is larger than the bank of one subtopic here.
SearchQuestionIds(excluded, ofHiddenTopics) == BankQuestions \ (excluded \cup ofHiddenTopics)

\* getQuestionAlternatives: visible questions the request does not hold yet.
Alternatives(excluded) == SearchQuestionIds(excluded, HiddenQuestions)

\* openSearch and the search view: the slot's own question may be found again.
OpenSearch(s) ==
  /\ ReviewMove /\ Listing /\ list.slot = "none"
  /\ s \in DOMAIN Shown /\ Shown[s] # "REMOVED"
  /\ list' = [list EXCEPT !.slot = s,
                !.found = Alternatives({Shown[t] : t \in DOMAIN Shown} \ {Shown[s]})]
  /\ UNCHANGED <<rows, review, pending, disk, loading, calls, approval, otherDrafts>>

\* handleQuestionSelected
SelectQuestion(q) ==
  /\ ReviewMove /\ list.slot # "none" /\ q \in list.found
  /\ Record(list.slot, q)
  /\ list' = [list EXCEPT !.slot = "none", !.found = {}]

CloseSubView ==
  /\ ReviewMove /\ list.slot # "none"
  /\ list' = [list EXCEPT !.slot = "none", !.found = {}]
  /\ UNCHANGED <<rows, review, pending, disk, loading, calls, approval, otherDrafts>>

\* handleRestore: in the browser only.
RestoreSlot(s) ==
  /\ ReviewMove /\ Listing /\ list.slot = "none"
  /\ s \in DOMAIN Shown /\ Shown[s] = "REMOVED"
  /\ pending' = [pending EXCEPT ![s] = "none"] /\ Persist(pending')
  /\ UNCHANGED <<rows, review, list, loading, calls, approval, otherDrafts>>

ContinueWithWarnings ==
  /\ ReviewMove /\ Listing /\ HasEmptySlots
  /\ list' = [list EXCEPT !.warnings = ~@]
  /\ UNCHANGED <<rows, review, pending, disk, loading, calls, approval, otherDrafts>>

\* handleApprove: every decision in memory, to the request the list was opened for.
ClickApprove ==
  /\ ReviewMove /\ Listing /\ list.slot = "none" /\ ~loading
  /\ HasEmptySlots => list.warnings
  /\ loading' = TRUE
  /\ calls' = calls \cup {[Call("approve", list.of, review.version, pending) EXCEPT
                                !.warnings = list.warnings, !.shownOf = review.of, !.shown = Shown]}
  /\ UNCHANGED <<rows, review, pending, disk, list, approval, otherDrafts>>

-----------------------------------------------------------------------------
(* The server.                                                             *)

AnyVersion(c) == TRUE

\* The version in the call is still the one of the row.
GuardVersion(c) == c.version = rows[c.of].version

Answered(c, answer) ==
  calls' = (calls \ {c}) \cup (IF c.heard THEN {[c EXCEPT !.pc = "ok", !.answer = answer]} ELSE {})

Refused(c) ==
  calls' = (calls \ {c}) \cup (IF c.heard THEN {[c EXCEPT !.pc = "failed"]} ELSE {})

ServeReview(c) ==
  /\ c.kind = "review"
  /\ Answered(c, [of |-> c.of, version |-> rows[c.of].version, slots |-> rows[c.of].slots])
  /\ UNCHANGED <<rows, approval>>

\* saveDraft; nobody waits for the answer.
ServeDraft(c) ==
  /\ c.kind = "draft"
  /\ rows' = IF ~GuardVersion(c) THEN rows
             ELSE [rows EXCEPT ![c.of] = [version |-> @.version + 1,
                                          slots |-> Decide(@.slots, c.decisions)]]
  /\ calls' = calls \ {c}
  /\ UNCHANGED approval

\* execute: slots left EMPTY roll it back unless they are accepted; the bump of
\* the version is followed by the save of the status.
ServeApprove(c) ==
  LET result == Decide(rows[c.of].slots, c.decisions)
      accepted == /\ GuardVersion(c)
                  /\ (\E s \in DOMAIN result : result[s] = "EMPTY") => c.warnings
  IN /\ c.kind = "approve"
     /\ IF accepted
        THEN /\ rows' = [rows EXCEPT ![c.of] = [version |-> @.version + 2, slots |-> result]]
             /\ approval' = [of |-> c.of, shownOf |-> c.shownOf, shown |-> c.shown, result |-> result]
             /\ Answered(c, NoReview)
        ELSE Refused(c) /\ UNCHANGED <<rows, approval>>

ServeCall(c) ==
  /\ c.pc = "sent"
  /\ ServeReview(c) \/ ServeDraft(c) \/ ServeApprove(c)
  /\ UNCHANGED <<review, pending, disk, list, loading, reviewMoves, otherDrafts>>

\* The request or its answer is lost; of a draft nobody learns.
LoseCall(c) ==
  /\ c.pc \in {"sent", "ok"}
  /\ Refused(c)
  /\ UNCHANGED <<rows, review, pending, disk, list, loading, approval, reviewMoves, otherDrafts>>

\* The other administrator, whose screen is up to date.
OtherDraft(m, s, decision) ==
  /\ otherDrafts < MaxOtherDrafts /\ otherDrafts' = otherDrafts + 1
  /\ rows[m].slots[s] \notin {"REMOVED", decision}
  /\ rows' = [rows EXCEPT ![m] = [version |-> @.version + 1, slots |-> [@.slots EXCEPT ![s] = decision]]]
  /\ UNCHANGED <<review, pending, disk, list, loading, calls, approval, reviewMoves>>

-----------------------------------------------------------------------------
(* The answers, in any order.                                              *)

HearReview(c) ==
  /\ c.kind = "review"
  /\ review' = IF c.pc = "ok" THEN c.answer ELSE review
  /\ UNCHANGED <<pending, disk, list>>

\* approveCuration: the decisions and their copy are dropped, then the watcher
\* writes the empty ones under the review in the store; the modal closes.
HearApprove(c) ==
  /\ c.kind = "approve"
  /\ IF c.pc = "ok"
     THEN /\ pending' = NoDecisions
          /\ disk' = [m \in Reviews |-> IF m \in {c.of, review.of} THEN NoDecisions ELSE disk[m]]
          /\ list' = IF list.of = c.of THEN ClosedList ELSE list
     ELSE UNCHANGED <<pending, disk, list>>
  /\ UNCHANGED review

HearCall(c) ==
  /\ c.pc \in {"ok", "failed"}
  /\ HearReview(c) \/ HearApprove(c)
  /\ loading' = FALSE
  /\ calls' = calls \ {c}
  /\ UNCHANGED <<rows, approval, reviewMoves, otherDrafts>>

ReviewNext ==
  \/ \E m \in Reviews : OpenList(m)
  \/ CloseList \/ ReloadPage \/ OtherStoreCall
  \/ \E s \in AllSlots : RemoveSlot(s) \/ OpenSearch(s) \/ RestoreSlot(s)
  \/ \E q \in BankQuestions : SelectQuestion(q)
  \/ CloseSubView \/ ContinueWithWarnings \/ ClickApprove
  \/ \E c \in calls : ServeCall(c) \/ LoseCall(c) \/ HearCall(c)
  \/ \E m \in Reviews : \E s \in SlotsOf[m], d \in (BankQuestions \ HiddenQuestions) \cup {"REMOVED"} :
       OtherDraft(m, s, d)

ReviewSpec == ReviewInit /\ [][ReviewNext]_reviewVars

-----------------------------------------------------------------------------

\* handleApprove sends decisions, not a list: what the server approves of the request
\* on the screen is nevertheless slot by slot what the screen showed, whatever drafts,
\* restored slots, reloads and the other administrator did in between.
ApprovedAsShown ==
  approval.of = approval.shownOf => approval.result = approval.shown
=============================================================================
