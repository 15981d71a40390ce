-------------------------- MODULE MaterialLifecycle -------------------------
(***************************************************************************)
(* The life of one Material (tenant, profile, week): its generation        *)
(* attempts (MaterialRequest), the review of an attempt by administrators, *)
(* the materials-queue jobs that build its PDFs, the crash windows between *)
(* a commit and the queue, and the reconciliation sweep that closes them.  *)
(*                                                                         *)
(* A use case's transaction is one step, except where the code decides on  *)
(* an unlocked read: the opening of a review, an approval, and the guard   *)
(* of the completion callback.  That a callback's commit may be taken as   *)
(* one step is what MaterialWebhook shows (RefinesRollUp).  The merge-pdf  *)
(* job and the event it sends are in MaterialMerge and MaterialWebhook.    *)
(***************************************************************************)
EXTENDS MaterialStatus

CONSTANTS Requests,      \* generation attempts that may be created
          Courses,       \* courses of the profile
          Admins,        \* administrators with the review screen
          Slots,         \* bound: jobs in the queue at one time
          Outcomes,      \* what the rendering of a course may come to
          Attempts,      \* MATERIALS_JOB_OPTIONS.attempts
          MaxEdits,      \* bound: accepted curation edits per request
          MaxRounds,     \* bound: approvals per request
          MaxFaults      \* bound: crashes and infrastructure errors

ASSUME LifecycleAssumption ==
    /\ Courses # {}
    /\ Outcomes \subseteq Reported
    /\ Attempts \in Nat \ {0}
    /\ MaxEdits \in Nat
    /\ MaxRounds \in Nat
    /\ MaxFaults \in Nat

VARIABLES
    request,      \* request -> status, "none" before it is created
    review,       \* requests created with requires_review
    version,      \* request -> optimistic version
    course,       \* request -> course -> status, "none" before creation
    links,        \* request -> course -> download url columns that are set
    used,         \* request -> courses with rows in the usage ledger
    edits,        \* request -> number of accepted edits of the review rows
    holes,        \* request -> courses with an EMPTY review slot
    warned,       \* request -> courses whose warnings column is set
    recent,       \* requests whose updated_at is under the stale threshold
    material,     \* Material.status, "none" before the first generation
    latest,       \* Material.latestRequestId, as a set of at most one
    pending,      \* jobs of committed transactions not yet in the queue
    job,          \* slot -> job in the queue or being run
    view,         \* admin -> what the review screen shows
    rounds,       \* request -> approvals so far
    faults        \* faults so far

reviewRows == <<edits, holes>>
queues     == <<pending, job>>
rows == <<request, review, version, recent, course, links, warned, used,
          reviewRows, material, latest>>
vars == <<rows, queues, view, rounds, faults>>

Variants == {"student", "keys"}

\* 'generate-pdf' carries the courses of a request and builds every variant;
\* 'generate' carries one course and builds the student PDF.
Jobs == [req : Requests, kind : {"generate-pdf", "generate"},
         courses : SUBSET Courses]

NoJob == [step |-> "free"]

Running ==
    [step : {"wait"}, data : Jobs, todo : SUBSET Courses, tries : 0..Attempts - 1]
    \cup
    [step : {"report", "apply"}, data : Jobs, todo : SUBSET Courses,
     tries : 0..Attempts - 1, at : Courses, result : Reported]

\* request.courses, as a use case has read them
CourseRows == [status : [Courses -> CourseStatus],
               links : [Courses -> SUBSET Variants], warned : SUBSET Courses]

NoView == [open |-> "no"]
Views  == {NoView}
            \cup [open : {"loading"}, req : Requests, version : Nat,
                  found : RequestStatus, rows : CourseRows]
            \cup [open : {"shown"}, req : Requests, version : Nat, edits : Nat]
            \cup [open : {"approving"}, req : Requests, version : Nat, edits : Nat,
                  rows : CourseRows]

TypeOK ==
    /\ request \in [Requests -> RequestStatus \cup {"none"}]
    /\ review \subseteq Requests
    /\ version \in [Requests -> Nat]
    /\ course \in [Requests -> [Courses -> CourseStatus \cup {"none"}]]
    /\ links \in [Requests -> [Courses -> SUBSET Variants]]
    /\ used \in [Requests -> SUBSET Courses]
    /\ edits \in [Requests -> 0..MaxEdits]
    /\ holes \in [Requests -> SUBSET Courses]
    /\ warned \in [Requests -> SUBSET Courses]
    /\ recent \subseteq Requests
    /\ material \in RequestStatus \cup {"none"}
    /\ latest \subseteq Requests
    /\ pending \subseteq Jobs
    /\ job \in [Slots -> Running \cup {NoJob}]
    /\ view \in [Admins -> Views]
    /\ rounds \in [Requests -> 0..MaxRounds]
    /\ faults \in 0..MaxFaults

Init ==
    /\ request = [r \in Requests |-> "none"]
    /\ review = {}
    /\ version = [r \in Requests |-> 0]
    /\ course = [r \in Requests |-> [c \in Courses |-> "none"]]
    /\ links = [r \in Requests |-> [c \in Courses |-> {}]]
    /\ used = [r \in Requests |-> {}]
    /\ edits = [r \in Requests |-> 0]
    /\ holes = [r \in Requests |-> {}]
    /\ warned = [r \in Requests |-> {}]
    /\ recent = {}
    /\ material = "none"
    /\ latest = {}
    /\ pending = {}
    /\ job = [s \in Slots |-> NoJob]
    /\ view = [a \in Admins |-> NoView]
    /\ rounds = [r \in Requests |-> 0]
    /\ faults = 0

\* writes UPDATEs of the request row: TypeORM increments the version column and
\* sets updated_at with each.
Touch(r, writes) ==
    /\ version' = [version EXCEPT ![r] = @ + writes]
    /\ recent' = recent \cup {r}

Fault == faults < MaxFaults /\ faults' = faults + 1

-----------------------------------------------------------------------------
\* GenerateMaterialUseCase: the write transaction.  The usage rows of every
\* earlier attempt are deleted, the Material follows the new attempt, and in
\* direct mode one generate-pdf job is to be dispatched after the commit.
\* empty: the courses for which the bank could not fill every review slot.
Generate(r, requiresReview, empty) ==
    /\ request[r] = "none"
    /\ LET initial == IF requiresReview THEN "REVIEW_REQUIRED" ELSE "PROCESSING"
       IN  /\ request' = [request EXCEPT ![r] = initial]
           /\ material' = initial
    /\ review' = IF requiresReview THEN review \cup {r} ELSE review
    /\ course' = [course EXCEPT ![r] =
           [c \in Courses |-> IF requiresReview THEN "PENDING" ELSE "PROCESSING"]]
    /\ holes' = [holes EXCEPT ![r] = empty]
    /\ used' = [q \in Requests |-> {}]
    /\ latest' = {r}
    /\ Touch(r, 1)
    /\ pending' = IF requiresReview THEN pending
                  ELSE pending \cup {[req |-> r, kind |-> "generate-pdf",
                                      courses |-> Courses]}
    /\ UNCHANGED <<links, warned, edits, job, view, rounds, faults>>

\* materialsQueue.add; slots have no identity, any free one will do.
Free == {s \in Slots : job[s] = NoJob}

Enqueue(d) ==
    /\ Free # {}
    /\ job' = [job EXCEPT ![CHOOSE s \in Free : TRUE] =
                 [step |-> "wait", data |-> d, todo |-> d.courses, tries |-> 0]]

\* The jobs of a committed transaction are added one by one ...
Dispatch(d) ==
    /\ d \in pending
    /\ pending' = pending \ {d}
    /\ Enqueue(d)
    /\ UNCHANGED <<rows, view, rounds, faults>>

\* ... until a crash, or an error of add, loses those that are left.
LoseDispatch(lost) ==
    /\ lost # {}
    /\ Fault
    /\ pending' = pending \ lost
    /\ UNCHANGED <<rows, job, view, rounds>>

-----------------------------------------------------------------------------
Rows(r) == [status |-> course[r], links |-> links[r], warned |-> warned[r]]

\* GetMaterialReviewUseCase: reads the request and its courses, ...
OpenReview(a, r) ==
    /\ request[r] # "none"
    /\ view[a].open # "loading"
    /\ view' = [view EXCEPT ![a] = [open |-> "loading", req |-> r, found |-> request[r],
                                    version |-> version[r], rows |-> Rows(r)]]
    /\ UNCHANGED <<rows, queues, rounds, faults>>

\* ... saves IN_REVIEW if it found REVIEW_REQUIRED, and reads the review rows.
\* manager.save re-reads the row and the courses (cascade) and writes back every
\* column in which the entity differs, version included.  late: that second read
\* came after the commits made since the first one, so it undoes them; otherwise
\* only the status is written, on top of them.
ShowReview(a, late) ==
    /\ view[a].open = "loading"
    /\ LET v == view[a]
           r == v.req
           undone == late /\ version[r] # v.version
           saves == v.found = "REVIEW_REQUIRED"
       IN  /\ \/ /\ saves
                 /\ request' = [request EXCEPT ![r] = "IN_REVIEW"]
                 /\ version' = [version EXCEPT ![r] = IF undone THEN v.version ELSE @ + 1]
                 /\ recent' = recent \cup {r}
                 /\ course' = [course EXCEPT ![r] = IF late THEN v.rows.status ELSE @]
                 /\ links' = [links EXCEPT ![r] = IF late THEN v.rows.links ELSE @]
                 /\ warned' = [warned EXCEPT ![r] = IF late THEN v.rows.warned ELSE @]
              \/ /\ ~saves
                 /\ ~late
                 /\ UNCHANGED <<request, version, recent, course, links, warned>>
           /\ view' = [view EXCEPT ![a] =
                 [open |-> "shown", req |-> r, edits |-> edits[r],
                  version |-> IF saves THEN version'[r] ELSE v.version]]
    /\ UNCHANGED <<review, used, reviewRows, material, latest, queues, rounds, faults>>

\* The conditional UPDATE: accepted only at the version the screen shows.
Accepted(a, r, step) ==
    /\ view[a].open = step
    /\ view[a].req = r
    /\ view[a].version = version[r]

\* Replacements and removals; fills: the courses they leave without EMPTY slot.
Edit(r, fills) ==
    /\ edits[r] < MaxEdits
    /\ edits' = [edits EXCEPT ![r] = @ + 1]
    /\ fills \subseteq holes[r]
    /\ holes' = [holes EXCEPT ![r] = @ \ fills]

\* saveDraft
SaveDraft(a, r, fills) ==
    /\ Accepted(a, r, "shown")
    /\ Edit(r, fills)
    /\ Touch(r, 1)
    /\ view' = [view EXCEPT ![a] = NoView]
    /\ UNCHANGED <<request, review, course, links, warned, used, material, latest,
                   queues, rounds, faults>>

\* The edits of an approval are applied first; without continueWithWarnings an
\* EMPTY slot that is left rolls everything back.
Curate(r, changes, fills, continueWithWarnings) ==
    /\ \/ changes /\ Edit(r, fills)
       \/ ~changes /\ fills = {} /\ UNCHANGED reviewRows
    /\ holes'[r] # {} => continueWithWarnings

\* execute reads the request and its courses before the conditional UPDATE.
ReadForApproval(a) ==
    /\ view[a].open = "shown"
    /\ rounds[view[a].req] < MaxRounds
    /\ view' = [view EXCEPT ![a] =
           [open |-> "approving", req |-> view[a].req, version |-> view[a].version,
            edits |-> view[a].edits, rows |-> Rows(view[a].req)]]
    /\ UNCHANGED <<rows, queues, rounds, faults>>

AlreadyGenerated(a) == \A c \in Courses : view[a].rows.links[c] = Variants

\* The common part: the version is bumped, the status saved with the columns of
\* the courses as they were read, and the Material follows.
Decide(a, r, status) ==
    /\ rounds[r] < MaxRounds
    /\ request' = [request EXCEPT ![r] = status]
    /\ material' = status
    /\ links' = [links EXCEPT ![r] = view[a].rows.links]
    /\ warned' = [warned EXCEPT ![r] = view[a].rows.warned]
    /\ Touch(r, 2)
    /\ rounds' = [rounds EXCEPT ![r] = @ + 1]
    /\ view' = [view EXCEPT ![a] = NoView]
    /\ UNCHANGED <<review, used, latest, job, faults>>

\* execute, when the PDFs exist and nothing changes: the request is closed as
\* it is and no job is sent.
ApproveAsIs(a, r, continueWithWarnings) ==
    /\ Accepted(a, r, "approving")
    /\ Curate(r, FALSE, {}, continueWithWarnings)
    /\ AlreadyGenerated(a)
    /\ Decide(a, r, IF holes[r] # {} THEN "COMPLETED_WITH_WARNINGS" ELSE "COMPLETED")
    /\ course' = [course EXCEPT ![r] = [c \in Courses |->
           IF c \in view[a].rows.warned THEN "COMPLETED_WITH_WARNINGS" ELSE "COMPLETED"]]
    /\ UNCHANGED pending

\* execute otherwise: one 'generate' job per course after the commit.
Approve(a, r, changes, fills, continueWithWarnings) ==
    /\ Accepted(a, r, "approving")
    /\ Curate(r, changes, fills, continueWithWarnings)
    /\ changes \/ ~AlreadyGenerated(a)
    /\ Decide(a, r, "PROCESSING")
    /\ course' = [course EXCEPT ![r] = [c \in Courses |-> "PROCESSING"]]
    /\ pending' = pending \cup {[req |-> r, kind |-> "generate", courses |-> {c}] :
                                c \in Courses}

-----------------------------------------------------------------------------
\* PdfGenerationProcessor, one course of a job: the questions are loaded, the
\* PDFs rendered and uploaded; or the bank is empty; or something throws.  An
\* EMPTY slot is a warning.
Render(s, c, result) ==
    /\ job[s].step = "wait"
    /\ c \in job[s].todo
    /\ c \in holes[job[s].data.req] => result # "COMPLETED"
    /\ job' = [job EXCEPT ![s] =
           [step |-> "report", data |-> job[s].data, todo |-> job[s].todo,
            tries |-> job[s].tries, at |-> c, result |-> result]]
    /\ UNCHANGED <<rows, pending, view, rounds, faults>>

\* Mutant: one attempt too many.
RetryOnceMore(j) ==
    IF j.tries = Attempts THEN NoJob
    ELSE [step |-> "wait", data |-> j.data, todo |-> j.data.courses,
          tries |-> j.tries + 1]

\* The job is put back for its next attempt, all of its courses again, or it is
\* dropped because it has used them up.
Retry(j) ==
    IF j.tries + 1 = Attempts THEN NoJob
    ELSE [step |-> "wait", data |-> j.data, todo |-> j.data.courses,
          tries |-> j.tries + 1]

\* After a report: a 'failed' one is followed by the rethrow, any other by the
\* next course of the job.
Continue(j) ==
    IF j.result = "FAILED" THEN Retry(j)
    ELSE IF j.todo = {j.at} THEN NoJob
    ELSE [step |-> "wait", data |-> j.data, todo |-> j.todo \ {j.at},
          tries |-> j.tries]

\* HandleMaterialWebhookUseCase.execute, in process: the unlocked read ...
IgnoreReport(s) ==
    /\ job[s].step = "report"
    /\ LET status == course[job[s].data.req][job[s].at]
       IN  status \in Success \/ status = job[s].result
    /\ job' = [job EXCEPT ![s] = Continue(job[s])]
    /\ UNCHANGED <<rows, pending, view, rounds, faults>>

AcceptReport(s) ==
    /\ job[s].step = "report"
    /\ LET status == course[job[s].data.req][job[s].at]
       IN  status \notin Success /\ status # job[s].result
    /\ job' = [job EXCEPT ![s].step = "apply"]
    /\ UNCHANGED <<rows, pending, view, rounds, faults>>

\* The url columns a report sets; an url that is not reported keeps its value.
Reports(j) ==
    IF j.result \notin Success THEN {}
    ELSE IF j.data.kind = "generate-pdf" THEN Variants ELSE {"student"}

\* Mutant: a failed course does not count as finished.
NoneFailed(statuses) == \A c \in DOMAIN statuses : statuses[c] \in Finished \ {"FAILED"}

\* allFinished
RollsUp(statuses) == AllFinished(statuses)

\* ... and the commit.  recorded: the usage rows survived their savepoint.
ApplyReport(s, recorded) ==
    /\ job[s].step = "apply"
    /\ LET j == job[s]
           r == j.data.req
           now == [course[r] EXCEPT ![j.at] = j.result]
       IN  /\ course' = [course EXCEPT ![r] = now]
           /\ links' = [links EXCEPT ![r][j.at] = @ \cup Reports(j)]
           /\ warned' = [warned EXCEPT ![r] =
                  IF j.result = "COMPLETED" THEN @ \ {j.at} ELSE @ \cup {j.at}]
           /\ \/ /\ recorded <=> j.result \in Success
                 /\ UNCHANGED faults
              \/ /\ ~recorded /\ j.result \in Success
                 /\ Fault
           /\ used' = [used EXCEPT ![r] = IF recorded THEN @ \cup {j.at} ELSE @]
           /\ \/ /\ ~RollsUp(now)
                 /\ UNCHANGED <<request, version, recent, material>>
              \/ /\ RollsUp(now)
                 /\ request' = [request EXCEPT ![r] = FinalStatus(now)]
                 /\ material' = FinalStatus(now)
                 /\ Touch(r, 1)
           /\ job' = [job EXCEPT ![s] = Continue(j)]
    /\ UNCHANGED <<review, reviewRows, latest, pending, view, rounds>>

\* The callback throws: the processor's catch reports the course as failed, or
\* gives the attempt up if that is the report that threw.
ReportThrows(s) ==
    /\ job[s].step \in {"report", "apply"}
    /\ Fault
    /\ job' = [job EXCEPT ![s] =
           IF job[s].result = "FAILED" THEN Retry(job[s])
           ELSE [job[s] EXCEPT !.step = "report", !.result = "FAILED"]]
    /\ UNCHANGED <<rows, pending, view, rounds>>

\* The worker process dies: BullMQ finds the job stalled and puts it back, or
\* fails it for good when it has stalled before.
WorkerCrash(s) ==
    /\ job[s] # NoJob
    /\ Fault
    /\ \E next \in {NoJob, [step |-> "wait", data |-> job[s].data,
                            todo |-> job[s].data.courses, tries |-> job[s].tries]} :
          job' = [job EXCEPT ![s] = next]
    /\ UNCHANGED <<rows, pending, view, rounds>>

-----------------------------------------------------------------------------
\* The courses of a request that the sweep takes for stuck.
Stuck(r) == {c \in Courses : course[r][c] = "PROCESSING"}

\* Mutant: the sweep also picks up courses that wait for their review.
SweepUnstarted(r, bumped) ==
    /\ request[r] # "none"
    /\ r \notin recent
    /\ \E c \in Courses : course[r][c] \in {"PROCESSING", "PENDING"}
    /\ Enqueue([req |-> r, kind |-> "generate-pdf",
                courses |-> {c \in Courses : course[r][c] \in {"PROCESSING", "PENDING"}}])
    /\ bumped
    /\ recent' = recent \cup {r}
    /\ UNCHANGED <<request, review, version, course, links, warned, used, reviewRows,
                   material, latest, pending, view, rounds, faults>>

\* Mutant: only a request with none of its courses finished is taken for stuck.
SweepUntouched(r, bumped) ==
    /\ r \notin recent
    /\ Stuck(r) = Courses
    /\ Enqueue([req |-> r, kind |-> "generate-pdf", courses |-> Stuck(r)])
    /\ bumped
    /\ recent' = recent \cup {r}
    /\ UNCHANGED <<request, review, version, course, links, warned, used, reviewRows,
                   material, latest, pending, view, rounds, faults>>

\* sweepStuckMaterialCourses: a batch job of the stuck courses, then the bump of
\* updated_at, which may fail on its own.
SweepCourses(r, bumped) ==
    /\ r \notin recent
    /\ Stuck(r) # {}
    /\ Enqueue([req |-> r, kind |-> "generate-pdf", courses |-> Stuck(r)])
    /\ \/ bumped /\ recent' = recent \cup {r} /\ UNCHANGED faults
       \/ ~bumped /\ UNCHANGED recent /\ Fault
    /\ UNCHANGED <<request, review, version, course, links, warned, used, reviewRows,
                   material, latest, pending, view, rounds>>

\* Five minutes go by without a write of the request row.
Age(r) ==
    /\ r \in recent
    /\ recent' = recent \ {r}
    /\ UNCHANGED <<request, review, version, course, links, warned, used, reviewRows,
                   material, latest, queues, view, rounds, faults>>

-----------------------------------------------------------------------------
Work(s) ==
    \/ \E c \in Courses, result \in Outcomes : Render(s, c, result)
    \/ IgnoreReport(s)
    \/ AcceptReport(s)
    \/ \E recorded \in BOOLEAN : ApplyReport(s, recorded)

ReviewStep(a) ==
    \/ \E late \in BOOLEAN : ShowReview(a, late)
    \/ ReadForApproval(a)
    \/ \E r \in Requests :
          \/ OpenReview(a, r)
          \/ \E fills \in SUBSET Courses : SaveDraft(a, r, fills)
          \/ \E continueWithWarnings \in BOOLEAN :
                \/ ApproveAsIs(a, r, continueWithWarnings)
                \/ \E changes \in BOOLEAN, fills \in SUBSET Courses :
                      Approve(a, r, changes, fills, continueWithWarnings)

Faults ==
    \/ \E lost \in SUBSET pending : LoseDispatch(lost)
    \/ \E s \in Slots : ReportThrows(s) \/ WorkerCrash(s)

Next ==
    \/ \E r \in Requests, requiresReview \in BOOLEAN, empty \in SUBSET Courses :
          Generate(r, requiresReview, empty)
    \/ \E d \in pending : Dispatch(d)
    \/ \E a \in Admins : ReviewStep(a)
    \/ \E s \in Slots : Work(s)
    \/ \E r \in Requests :
          \/ Age(r)
          \/ \E bumped \in BOOLEAN : SweepCourses(r, bumped)
    \/ Faults

\* The queue hands every waiting job to a worker and a worker goes on with its
\* job; the cron fires every 15 minutes; time passes.  Administrators owe
\* nothing.
Fairness ==
    /\ WF_vars(\E d \in pending : Dispatch(d))
    /\ \A s \in Slots : WF_vars(Work(s))
    /\ \A r \in Requests :
          /\ WF_vars(Age(r))
          /\ WF_vars(SweepCourses(r, TRUE))

Spec == Init /\ [][Next]_vars
FairSpec == Spec /\ Fairness

-----------------------------------------------------------------------------
\* A request never stays in PROCESSING with nothing left that could move it: as
\* long as it is there, some course row is PROCESSING, which is what completion
\* callbacks roll up and the sweep looks for.  A Material in PROCESSING has such
\* a request, or one that an administrator can still decide on.
NoOrphanProcessing ==
    /\ \A r \in Requests : request[r] = "PROCESSING" => Stuck(r) # {}
    /\ material = "PROCESSING" =>
          \E r \in Requests : Stuck(r) # {} \/ request[r] \in {"REVIEW_REQUIRED", "IN_REVIEW"}

\* FR-006 (b): nothing is generated for a request that requires review before
\* an administrator has approved it, not even by the sweep.
ReviewGate ==
    \A r \in review :
        rounds[r] = 0 =>
            /\ \A c \in Courses : links[r][c] = {}
            /\ \A s \in Slots : job[s] # NoJob => job[s].data.req # r

\* "two admins can no longer overwrite each other's curation silently"
\* (saveDraft): every accepted edit of the review rows comes from a screen that
\* shows them as they are.
NoLostCuration ==
    [][\A r \in Requests : edits'[r] # edits[r] =>
          \E a \in Admins : /\ view[a] # view'[a]
                            /\ view[a].open \in {"shown", "approving"}
                            /\ view[a].req = r
                            /\ view[a].edits = edits[r]]_vars

\* A course that is PROCESSING is eventually finished, in spite of the crashes
\* between a commit and the queue, of jobs that use up their attempts on
\* another course of the batch, and of callbacks that throw.
EveryCourseFinishes ==
    \A r \in Requests, c \in Courses :
        course[r][c] = "PROCESSING" ~> course[r][c] \in Finished

\* "Either way the end state matches the sequential case: exactly one material
\* row, usages cleaned up" (GenerateMaterialUseCase): only the latest attempt
\* keeps questions reserved.
UsagesCleanedUp == \A r \in Requests \ latest : used[r] = {}
=============================================================================
