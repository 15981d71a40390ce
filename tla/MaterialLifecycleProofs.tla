----------------------- MODULE MaterialLifecycleProofs -----------------------
(***************************************************************************)
(* Proofs about MaterialLifecycle, for any number of attempts, courses,    *)
(* administrators, queue slots, retries, edits, approvals and faults.      *)
(***************************************************************************)
EXTENDS MaterialLifecycle, TLAPS

\* An attempt that was not created has no review and no screen that shows it; one
\* that was has all of its course rows.
Begun ==
    \A r \in Requests :
        /\ request[r] = "none" =>
             r \notin review /\ \A a \in Admins : view[a] # NoView => view[a].req # r
        /\ request[r] # "none" => \A c \in Courses : course[r][c] # "none"

\* What has not been approved, or not even been created, is in no queue, and neither
\* its rows nor what a screen has read of them have a url or a course under way.
Dormant(r) == request[r] = "none" \/ (r \in review /\ rounds[r] = 0)

Blank(found) ==
    \A c \in Courses : found.links[c] = {} /\ found.status[c] # "PROCESSING"

Idle(r) ==
    /\ Blank(Rows(r))
    /\ \A d \in pending : d.req # r
    /\ \A s \in Slots : job[s] # NoJob => job[s].data.req # r
    /\ \A a \in Admins : view[a].open \in {"loading", "approving"} /\ view[a].req = r =>
          Blank(view[a].rows)

NothingStarted == \A r \in Requests : Dormant(r) => Idle(r)

\* A request in PROCESSING has nothing but courses under way and finished ones, and
\* not only finished ones.
Processed(r) ==
    request[r] = "PROCESSING" =>
        /\ \A c \in Courses : course[r][c] \in Finished \cup {"PROCESSING"}
        /\ Stuck(r) # {}

\* A Material in PROCESSING follows a request that is, or that is under review.
Followed ==
    material = "PROCESSING" =>
        \E r \in Requests : request[r] \in {"PROCESSING", "REVIEW_REQUIRED", "IN_REVIEW"}

LifecycleIInv ==
    /\ TypeOK
    /\ Begun
    /\ NothingStarted
    /\ \A r \in Requests : Processed(r)
    /\ Followed

-----------------------------------------------------------------------------
(* Jobs and screens                                                        *)

Waits     == [step : {"wait"}, data : Jobs, todo : SUBSET Courses, tries : 0..Attempts - 1]
Reporting == [step : {"report", "apply"}, data : Jobs, todo : SUBSET Courses,
             tries : 0..Attempts - 1, at : Courses, result : Reported]

Loading   == [open : {"loading"}, req : Requests, version : Nat, found : RequestStatus,
              rows : CourseRows]
Shown     == [open : {"shown"}, req : Requests, version : Nat, edits : Nat]
Approving == [open : {"approving"}, req : Requests, version : Nat, edits : Nat, rows : CourseRows]

LEMMA JobKinds ==
    ASSUME NEW j \in Running \cup {NoJob}
    PROVE  /\ j.step = "wait" => j \in Waits
           /\ j.step \in {"report", "apply"} => j \in Reporting
           /\ j # NoJob => j.data \in Jobs /\ j.data.req \in Requests
           /\ j.step \in {"wait", "report", "apply"} => j # NoJob
           /\ j # NoJob => j.step \in {"wait", "report", "apply"}
<1>1. NoJob.step = "free"
  BY DEF NoJob
<1>2. \A d \in Jobs : d.req \in Requests
  BY DEF Jobs
<1> QED
  BY <1>1, <1>2 DEF Running, Waits, Reporting

LEMMA ViewKinds ==
    ASSUME NEW v \in Views
    PROVE  /\ v.open = "loading" => v \in Loading
           /\ v.open = "shown" => v \in Shown
           /\ v.open = "approving" => v \in Approving
           /\ v.open # "no" <=> v # NoView
           /\ v # NoView => v.req \in Requests
<1>1. NoView.open = "no"
  BY DEF NoView
<1> QED
  BY <1>1 DEF Views, Loading, Shown, Approving

LEMMA Bounds ==
    Attempts \in Nat /\ Attempts > 0 /\ MaxEdits \in Nat /\ MaxRounds \in Nat /\ MaxFaults \in Nat
<1> QED
  BY LifecycleAssumption

LEMMA WaitsTyped ==
    ASSUME NEW d \in Jobs, NEW todo \in SUBSET Courses, NEW tries \in 0..Attempts - 1
    PROVE  LET j == [step |-> "wait", data |-> d, todo |-> todo, tries |-> tries]
           IN  j \in Running \cup {NoJob} /\ j # NoJob /\ j.data = d
<1> DEFINE j == [step |-> "wait", data |-> d, todo |-> todo, tries |-> tries]
<1>1. j \in Waits /\ j.data = d /\ j.step = "wait"
  BY DEF Waits
<1>2. NoJob.step = "free"
  BY DEF NoJob
<1>3. Waits \subseteq Running
  BY DEF Waits, Running
<1> QED
  BY <1>1, <1>2, <1>3

\* What becomes of a job that has reported is a job of the same request, if any.
LEMMA ContinueTyped ==
    ASSUME NEW j \in Reporting
    PROVE  /\ Retry(j) \in Running \cup {NoJob} /\ (Retry(j) # NoJob => Retry(j).data = j.data)
           /\ Continue(j) \in Running \cup {NoJob}
           /\ Continue(j) # NoJob => Continue(j).data = j.data
<1>1. j.data \in Jobs /\ j.todo \in SUBSET Courses /\ j.tries \in 0..Attempts - 1
      /\ j.data.courses \in SUBSET Courses
  BY DEF Reporting, Jobs
<1>2. j.tries + 1 # Attempts => j.tries + 1 \in 0..Attempts - 1
  BY <1>1, Bounds
<1>3. Retry(j) \in Running \cup {NoJob} /\ (Retry(j) # NoJob => Retry(j).data = j.data)
  BY <1>1, <1>2, WaitsTyped DEF Retry
<1>4. j.todo \ {j.at} \in SUBSET Courses
  BY <1>1
<1>5. Continue(j) \in Running \cup {NoJob} /\ (Continue(j) # NoJob => Continue(j).data = j.data)
  BY <1>1, <1>3, <1>4, WaitsTyped DEF Continue
<1> QED
  BY <1>3, <1>5

-----------------------------------------------------------------------------
(* The steps that only move a job or a screen                              *)

LEMMA FaultCounted ==
    ASSUME TypeOK, Fault \/ UNCHANGED faults
    PROVE  faults' \in 0..MaxFaults
<1> QED
  BY Bounds DEF TypeOK, Fault

\* A job goes on, or ends.
LEMMA JobMoves ==
    ASSUME LifecycleIInv, NEW s \in Slots, job[s] # NoJob, NEW j \in Running \cup {NoJob},
           j # NoJob => j.data = job[s].data, job' = [job EXCEPT ![s] = j],
           UNCHANGED <<rows, pending, view, rounds>>, Fault \/ UNCHANGED faults
    PROVE  LifecycleIInv'
<1> USE DEF LifecycleIInv
<1>1. /\ UNCHANGED <<request, review, version, course, links, used, edits, holes>>
      /\ UNCHANGED <<warned, recent, material, latest, pending, view, rounds>>
  BY DEF rows, reviewRows
<1>2. job' \in [Slots -> Running \cup {NoJob}] /\ job'[s] = j
      /\ \A t \in Slots \ {s} : job'[t] = job[t]
  BY DEF TypeOK
<1>3. TypeOK'
  BY <1>1, <1>2, FaultCounted DEF TypeOK
<1>4. Begun' /\ Followed' /\ \A r \in Requests : Processed(r)'
  BY <1>1 DEF Begun, Followed, Processed, Stuck
<1>5. NothingStarted'
  <2> SUFFICES ASSUME NEW r \in Requests, Dormant(r)' PROVE Idle(r)'
    BY DEF NothingStarted
  <2>1. Idle(r)
    BY <1>1 DEF NothingStarted, Dormant
  <2>2. \A t \in Slots : job'[t] # NoJob => job'[t].data.req # r
    BY <1>2, <2>1 DEF Idle
  <2> QED
    BY <1>1, <2>1, <2>2 DEF Idle, Blank, Rows
<1> QED
  BY <1>3, <1>4, <1>5

\* A screen moves on to what the rows now are.
LEMMA ScreenMoves ==
    ASSUME LifecycleIInv, NEW a \in Admins, NEW v \in Views, view' = [view EXCEPT ![a] = v],
           v # NoView => request[v.req] # "none",
           v.open \in {"loading", "approving"} => v.rows = Rows(v.req),
           UNCHANGED <<rows, queues, rounds, faults>>
    PROVE  LifecycleIInv'
<1> USE DEF LifecycleIInv
<1>1. /\ UNCHANGED <<request, review, version, course, links, used, edits, holes>>
      /\ UNCHANGED <<warned, recent, material, latest, pending, job, rounds, faults>>
  BY DEF rows, reviewRows, queues
<1>2. view' \in [Admins -> Views] /\ view'[a] = v /\ \A b \in Admins \ {a} : view'[b] = view[b]
  BY DEF TypeOK
<1>3. TypeOK'
  BY <1>1, <1>2 DEF TypeOK
<1>4. Followed' /\ \A r \in Requests : Processed(r)'
  BY <1>1 DEF Followed, Processed, Stuck
<1>5. Begun'
  BY <1>1, <1>2 DEF Begun
<1>6. NothingStarted'
  <2> SUFFICES ASSUME NEW r \in Requests, Dormant(r)' PROVE Idle(r)'
    BY DEF NothingStarted
  <2>1. Idle(r)
    BY <1>1 DEF NothingStarted, Dormant
  <2>2. Blank(Rows(r))' /\ Blank(Rows(r))
    BY <1>1, <2>1 DEF Idle, Blank, Rows
  <2>3. ASSUME NEW b \in Admins, view'[b].open \in {"loading", "approving"}, view'[b].req = r
        PROVE  Blank(view'[b].rows)
    <3>1. CASE b = a
      <4>1. view'[b].rows = Rows(r)
        BY <1>2, <2>3, <3>1
      <4> QED
        BY <2>2, <4>1
    <3>2. CASE b # a
      BY <1>2, <2>1, <2>3, <3>2 DEF Idle
    <3> QED
      BY <3>1, <3>2
  <2>4. \A d \in pending' : d.req # r
    BY <1>1, <2>1 DEF Idle
  <2>5. \A t \in Slots : job'[t] # NoJob => job'[t].data.req # r
    BY <1>1, <2>1 DEF Idle
  <2> QED
    BY <2>2, <2>3, <2>4, <2>5 DEF Idle, Blank
<1> QED
  BY <1>3, <1>4, <1>5, <1>6

-----------------------------------------------------------------------------
(* The steps that change rows                                              *)

\* Columns no part of the invariant speaks of, jobs that leave the pending ones or
\* enter the queue for a request that may have them, and screens that close.
LEMMA QueueMoves ==
    ASSUME LifecycleIInv, TypeOK', UNCHANGED <<request, review, course, links, material, rounds>>,
           pending' \subseteq pending,
           \A s \in Slots : job'[s] = job[s] \/ (job'[s] # NoJob => ~Dormant(job'[s].data.req)),
           \A a \in Admins : view'[a] = view[a] \/ view'[a] = NoView
    PROVE  LifecycleIInv'
<1> USE DEF LifecycleIInv
<1>1. Begun'
  BY DEF Begun
<1>2. Followed' /\ \A r \in Requests : Processed(r)'
  BY DEF Followed, Processed, Stuck
<1>3. NothingStarted'
  <2> SUFFICES ASSUME NEW r \in Requests, Dormant(r)' PROVE Idle(r)'
    BY DEF NothingStarted
  <2>1. Dormant(r) /\ Idle(r)
    BY DEF NothingStarted, Dormant
  <2>2. Blank(Rows(r))'
    BY <2>1 DEF Idle, Blank, Rows
  <2>3. \A t \in Slots : job'[t] # NoJob => job'[t].data.req # r
    BY <2>1 DEF Idle
  <2>4. NoView.open = "no"
    BY DEF NoView
  <2>5. \A b \in Admins : view'[b].open \in {"loading", "approving"} /\ view'[b].req = r =>
            Blank(view'[b].rows)
    BY <2>1, <2>4 DEF Idle
  <2>6. \A d \in pending' : d.req # r
    BY <2>1 DEF Idle
  <2> QED
    BY <2>2, <2>3, <2>5, <2>6 DEF Idle, Blank
<1> QED
  BY <1>1, <1>2, <1>3

UnderWay == {"PROCESSING", "REVIEW_REQUIRED", "IN_REVIEW"}

\* The rows of one request change, and jobs of it are to be dispatched.
LEMMA RequestMoves ==
    ASSUME LifecycleIInv, TypeOK', NEW r \in Requests,
           request[r] # "none", request'[r] # "none", review' = review,
           \A q \in Requests \ {r} : /\ request'[q] = request[q] /\ course'[q] = course[q]
                                     /\ links'[q] = links[q] /\ rounds'[q] = rounds[q],
           \A c \in Courses : course'[r][c] # "none",
           Processed(r)',
           \/ material' = material /\ (request[r] \in UnderWay => request'[r] \in UnderWay)
           \/ material' # "PROCESSING"
           \/ request'[r] = "PROCESSING",
           Dormant(r)' => Dormant(r) /\ Blank(Rows(r))',
           \A d \in pending' : d \in pending \/ (d.req = r /\ ~Dormant(r)'),
           \A s \in Slots : \/ job'[s] = job[s] \/ job'[s] = NoJob
                            \/ job[s] # NoJob /\ job'[s].data = job[s].data,
           \A a \in Admins : \/ view'[a] = view[a]
                             \/ /\ view'[a].open \notin {"loading", "approving"}
                                /\ view'[a] # NoView => view'[a].req = r
    PROVE  LifecycleIInv'
<1> USE DEF LifecycleIInv
<1>1. Begun'
  <2> SUFFICES ASSUME NEW q \in Requests
               PROVE  /\ request'[q] = "none" =>
                           q \notin review' /\ \A a \in Admins : view'[a] # NoView => view'[a].req # q
                      /\ request'[q] # "none" => \A c \in Courses : course'[q][c] # "none"
    BY DEF Begun
  <2>1. CASE q = r
    BY <2>1
  <2>2. CASE q # r
    <3>1. request'[q] = request[q] /\ course'[q] = course[q]
      BY <2>2
    <3> QED
      BY <2>2, <3>1 DEF Begun
  <2> QED
    BY <2>1, <2>2
<1>2. ASSUME NEW q \in Requests, q # r
      PROVE  Processed(q)'
  <2>1. request'[q] = request[q] /\ course'[q] = course[q] /\ Processed(q)
    BY <1>2
  <2> QED
    BY <2>1 DEF Processed, Stuck
<1>3. \A q \in Requests : Processed(q)'
  BY <1>2
<1>4. Followed'
  <2> SUFFICES ASSUME material' = "PROCESSING"
               PROVE  \E q \in Requests : request'[q] \in UnderWay
    BY DEF Followed, UnderWay
  <2>1. CASE request'[r] = "PROCESSING"
    BY <2>1 DEF UnderWay
  <2>2. CASE material' = material /\ (request[r] \in UnderWay => request'[r] \in UnderWay)
    <3>1. PICK q \in Requests : request[q] \in UnderWay
      BY <2>2 DEF Followed, UnderWay
    <3>2. CASE q = r
      BY <2>2, <3>1, <3>2
    <3>3. CASE q # r
      BY <3>1, <3>3
    <3> QED
      BY <3>2, <3>3
  <2> QED
    BY <2>1, <2>2
<1>5. NothingStarted'
  <2> SUFFICES ASSUME NEW q \in Requests, Dormant(q)' PROVE Idle(q)'
    BY DEF NothingStarted
  <2>1. Dormant(q) /\ Blank(Rows(q))'
    <3>1. CASE q = r
      BY <3>1
    <3>2. CASE q # r
      <4>1. request'[q] = request[q] /\ rounds'[q] = rounds[q] /\ links'[q] = links[q]
            /\ course'[q] = course[q]
        BY <3>2
      <4>2. Dormant(q)
        BY <4>1 DEF Dormant
      <4>3. Blank(Rows(q))
        BY <4>2 DEF NothingStarted, Idle
      <4> QED
        BY <4>1, <4>2, <4>3 DEF Blank, Rows
    <3> QED
      BY <3>1, <3>2
  <2>2. Idle(q)
    BY <2>1 DEF NothingStarted
  <2>3. \A d \in pending' : d.req # q
    BY <2>2 DEF Idle
  <2>4. \A t \in Slots : job'[t] # NoJob => job'[t].data.req # q
    BY <2>2 DEF Idle
  <2>5. \A b \in Admins : view'[b].open \in {"loading", "approving"} /\ view'[b].req = q =>
            Blank(view'[b].rows)
    BY <2>2 DEF Idle
  <2> QED
    BY <2>1, <2>3, <2>4, <2>5 DEF Idle, Blank
<1> QED
  BY <1>1, <1>3, <1>4, <1>5

\* A row of the version and updated_at columns.
LEMMA TouchTyped ==
    ASSUME TypeOK, NEW r \in Requests, NEW n \in Nat, Touch(r, n)
    PROVE  version' \in [Requests -> Nat] /\ recent' \subseteq Requests
<1> QED
  BY DEF TypeOK, Touch

LEMMA EditTyped ==
    ASSUME TypeOK, NEW r \in Requests, NEW fills, Edit(r, fills) \/ UNCHANGED reviewRows
    PROVE  edits' \in [Requests -> 0..MaxEdits] /\ holes' \in [Requests -> SUBSET Courses]
<1>1. CASE UNCHANGED reviewRows
  BY <1>1 DEF reviewRows, TypeOK
<1>2. CASE Edit(r, fills)
  <2>1. edits[r] \in 0..MaxEdits /\ holes[r] \in SUBSET Courses
    BY DEF TypeOK
  <2>2. edits[r] + 1 \in 0..MaxEdits
    BY <1>2, <2>1, Bounds DEF Edit
  <2> QED
    BY <1>2, <2>1, <2>2 DEF Edit, TypeOK
<1> QED
  BY <1>1, <1>2

LEMMA EnqueueTyped ==
    ASSUME TypeOK, NEW d \in Jobs, Enqueue(d)
    PROVE  /\ job' \in [Slots -> Running \cup {NoJob}]
           /\ \A s \in Slots : job'[s] = job[s] \/ (job'[s] # NoJob /\ job'[s].data = d)
<1> DEFINE t == CHOOSE s \in Free : TRUE
           j == [step |-> "wait", data |-> d, todo |-> d.courses, tries |-> 0]
<1>1. t \in Slots
  BY DEF Enqueue, Free
<1>2. j \in Running \cup {NoJob} /\ j # NoJob /\ j.data = d
  <2>1. d.courses \in SUBSET Courses /\ 0 \in 0..Attempts - 1
    BY Bounds DEF Jobs
  <2> QED
    BY <2>1, WaitsTyped
<1>3. job' = [job EXCEPT ![t] = j]
  BY DEF Enqueue
<1> HIDE DEF t, j
<1> QED
  BY <1>1, <1>2, <1>3 DEF TypeOK

-----------------------------------------------------------------------------
(* The queue and the sweep                                                 *)

LEMMA QueueSteps ==
    ASSUME LifecycleIInv,
           \/ \E d \in pending : Dispatch(d)
           \/ \E lost \in SUBSET pending : LoseDispatch(lost)
           \/ \E r \in Requests : Age(r) \/ \E bumped \in BOOLEAN : SweepCourses(r, bumped)
    PROVE  LifecycleIInv'
<1> USE DEF LifecycleIInv
<1>1. ASSUME NEW d \in pending, Dispatch(d)
      PROVE  LifecycleIInv'
  <2>1. d \in Jobs /\ d.req \in Requests
    BY DEF TypeOK, Jobs
  <2>2. /\ UNCHANGED <<request, review, version, course, links, used, edits, holes>>
        /\ UNCHANGED <<warned, recent, material, latest, view, rounds, faults>>
        /\ pending' = pending \ {d} /\ Enqueue(d)
    BY <1>1 DEF Dispatch, rows, reviewRows
  <2>3. TypeOK'
    BY <2>1, <2>2, EnqueueTyped DEF TypeOK
  <2>4. ~Dormant(d.req)
    BY <2>1 DEF NothingStarted, Idle
  <2>5. \A s \in Slots : job'[s] = job[s] \/ (job'[s] # NoJob => ~Dormant(job'[s].data.req))
    BY <2>1, <2>2, <2>4, EnqueueTyped
  <2> QED
    BY <2>2, <2>3, <2>5, QueueMoves
<1>2. ASSUME NEW lost \in SUBSET pending, LoseDispatch(lost)
      PROVE  LifecycleIInv'
  <2>1. /\ UNCHANGED <<request, review, version, course, links, used, edits, holes>>
        /\ UNCHANGED <<warned, recent, material, latest, job, view, rounds>>
        /\ pending' = pending \ lost /\ Fault
    BY <1>2 DEF LoseDispatch, rows, reviewRows
  <2>2. TypeOK'
    BY <2>1, FaultCounted DEF TypeOK
  <2> QED
    BY <2>1, <2>2, QueueMoves
<1>3. ASSUME NEW r \in Requests, Age(r)
      PROVE  LifecycleIInv'
  <2>1. /\ UNCHANGED <<request, review, version, course, links, used, edits, holes>>
        /\ UNCHANGED <<warned, material, latest, pending, job, view, rounds, faults>>
        /\ recent' = recent \ {r}
    BY <1>3 DEF Age, queues, reviewRows
  <2>2. TypeOK'
    BY <2>1 DEF TypeOK
  <2> QED
    BY <2>1, <2>2, QueueMoves
<1>4. ASSUME NEW r \in Requests, NEW bumped \in BOOLEAN, SweepCourses(r, bumped)
      PROVE  LifecycleIInv'
  <2> DEFINE d == [req |-> r, kind |-> "generate-pdf", courses |-> Stuck(r)]
  <2>1. d \in Jobs /\ d.req = r
    BY DEF Jobs, Stuck
  <2>2. /\ UNCHANGED <<request, review, version, course, links, used, edits, holes>>
        /\ UNCHANGED <<warned, material, latest, pending, view, rounds>>
        /\ Enqueue(d) /\ Stuck(r) # {}
    BY <1>4 DEF SweepCourses, reviewRows
  <2>3. recent' \subseteq Requests /\ (Fault \/ UNCHANGED faults)
    BY <1>4 DEF SweepCourses, TypeOK
  <2> HIDE DEF d
  <2>4. TypeOK'
    BY <2>1, <2>2, <2>3, EnqueueTyped, FaultCounted DEF TypeOK
  <2>5. ~Dormant(r)
    BY <2>2 DEF NothingStarted, Idle, Blank, Rows, Stuck
  <2>6. \A s \in Slots : job'[s] = job[s] \/ (job'[s] # NoJob => ~Dormant(job'[s].data.req))
    BY <2>1, <2>2, <2>5, EnqueueTyped
  <2> QED
    BY <2>2, <2>4, <2>6, QueueMoves
<1> QED
  BY <1>1, <1>2, <1>3, <1>4

-----------------------------------------------------------------------------
(* A job, up to the commit of its report                                   *)

LEMMA JobSteps ==
    ASSUME LifecycleIInv, NEW s \in Slots,
           \/ \E c \in Courses, result \in Outcomes : Render(s, c, result)
           \/ IgnoreReport(s) \/ AcceptReport(s) \/ ReportThrows(s) \/ WorkerCrash(s)
    PROVE  LifecycleIInv'
<1>0. job[s] \in Running \cup {NoJob}
  BY DEF LifecycleIInv, TypeOK
<1>1. ASSUME NEW c \in Courses, NEW result \in Outcomes, Render(s, c, result)
      PROVE  LifecycleIInv'
  <2> DEFINE j == [step |-> "report", data |-> job[s].data, todo |-> job[s].todo,
                   tries |-> job[s].tries, at |-> c, result |-> result]
  <2>1. job[s] \in Waits /\ job[s] # NoJob
    BY <1>0, <1>1, JobKinds DEF Render
  <2>2. result \in Reported
    BY LifecycleAssumption
  <2>3. j \in Running /\ j.data = job[s].data
    BY <2>1, <2>2 DEF Waits, Running
  <2>4. job' = [job EXCEPT ![s] = j] /\ UNCHANGED <<rows, pending, view, rounds, faults>>
    BY <1>1 DEF Render
  <2> HIDE DEF j
  <2> QED
    BY <2>1, <2>3, <2>4, JobMoves
<1>2. CASE IgnoreReport(s)
  <2>1. job[s] \in Reporting /\ job[s] # NoJob
    BY <1>0, <1>2, JobKinds DEF IgnoreReport
  <2>2. job' = [job EXCEPT ![s] = Continue(job[s])] /\ UNCHANGED <<rows, pending, view, rounds, faults>>
    BY <1>2 DEF IgnoreReport
  <2> QED
    BY <2>1, <2>2, ContinueTyped, JobMoves
<1>3. CASE AcceptReport(s)
  <2> DEFINE j == [job[s] EXCEPT !.step = "apply"]
  <2>1. job[s] \in Reporting /\ job[s] # NoJob
    BY <1>0, <1>3, JobKinds DEF AcceptReport
  <2>2. j \in Running /\ j.data = job[s].data
    BY <2>1 DEF Reporting, Running
  <2>3. job' = [job EXCEPT ![s] = j] /\ UNCHANGED <<rows, pending, view, rounds, faults>>
    BY <1>3 DEF AcceptReport
  <2> HIDE DEF j
  <2> QED
    BY <2>1, <2>2, <2>3, JobMoves
<1>4. CASE ReportThrows(s)
  <2> DEFINE j == [job[s] EXCEPT !.step = "report", !.result = "FAILED"]
             next == IF job[s].result = "FAILED" THEN Retry(job[s]) ELSE j
  <2>1. job[s] \in Reporting /\ job[s] # NoJob
    BY <1>0, <1>4, JobKinds DEF ReportThrows
  <2>2. j \in Running /\ j.data = job[s].data
    BY <2>1 DEF Reporting, Running, Reported, Finished
  <2>3. next \in Running \cup {NoJob} /\ (next # NoJob => next.data = job[s].data)
    <3> HIDE DEF j
    <3> QED
      BY <2>1, <2>2, ContinueTyped
  <2>4. job' = [job EXCEPT ![s] = next] /\ UNCHANGED <<rows, pending, view, rounds>> /\ Fault
    BY <1>4 DEF ReportThrows
  <2> HIDE DEF next
  <2> QED
    BY <2>1, <2>3, <2>4, JobMoves
<1>5. CASE WorkerCrash(s)
  <2> DEFINE j == [step |-> "wait", data |-> job[s].data, todo |-> job[s].data.courses,
                   tries |-> job[s].tries]
  <2>1. job[s] # NoJob /\ UNCHANGED <<rows, pending, view, rounds>> /\ Fault
    BY <1>5 DEF WorkerCrash
  <2>2. PICK next \in {NoJob, j} : job' = [job EXCEPT ![s] = next]
    BY <1>5 DEF WorkerCrash
  <2>3. job[s].data \in Jobs /\ job[s].data.courses \in SUBSET Courses
        /\ job[s].tries \in 0..Attempts - 1
    BY <1>0, <2>1 DEF Running, Jobs
  <2>4. j \in Running \cup {NoJob} /\ j.data = job[s].data
    BY <2>3, WaitsTyped
  <2> HIDE DEF j
  <2>5. next \in Running \cup {NoJob} /\ (next # NoJob => next.data = job[s].data)
    BY <2>4
  <2> QED
    BY <2>1, <2>2, <2>5, JobMoves
<1> QED
  BY <1>1, <1>2, <1>3, <1>4, <1>5

-----------------------------------------------------------------------------
(* The commit of a report                                                  *)

\* Once all courses are finished the roll-up is never PROCESSING, and a status.
LEMMA FinalStatusTyped ==
    ASSUME NEW statuses
    PROVE  FinalStatus(statuses) \in {"FAILED", "REVIEW_REQUIRED", "COMPLETED"}
<1> QED
  BY DEF FinalStatus

LEMMA ReportCommits ==
    ASSUME LifecycleIInv, NEW s \in Slots, NEW recorded \in BOOLEAN, ApplyReport(s, recorded)
    PROVE  LifecycleIInv'
<1> USE DEF LifecycleIInv
<1>0. job[s] \in Running \cup {NoJob}
  BY DEF TypeOK
<1>1. job[s] \in Reporting /\ job[s] # NoJob
  BY <1>0, JobKinds DEF ApplyReport
<1> SUFFICES ASSUME NEW j, j = job[s], NEW r, r = j.data.req
             PROVE  LifecycleIInv'
  BY Zenon
<1> DEFINE now == [course[r] EXCEPT ![j.at] = j.result]
<1>2. j \in Reporting /\ r \in Requests /\ j.at \in Courses /\ j.result \in Reported
  BY <1>0, <1>1, JobKinds DEF Reporting
<1>3. ~Dormant(r)
  BY <1>1, <1>2 DEF NothingStarted, Idle
<1>4. request[r] # "none" /\ (r \in review => rounds[r] # 0) /\ \A c \in Courses : course[r][c] # "none"
  BY <1>2, <1>3 DEF Dormant, Begun
<1>5. /\ course' = [course EXCEPT ![r] = now]
      /\ links' = [links EXCEPT ![r][j.at] = @ \cup Reports(j)]
      /\ warned' = [warned EXCEPT ![r] =
             IF j.result = "COMPLETED" THEN @ \ {j.at} ELSE @ \cup {j.at}]
      /\ used' = [used EXCEPT ![r] = IF recorded THEN @ \cup {j.at} ELSE @]
      /\ job' = [job EXCEPT ![s] = Continue(j)]
  BY DEF ApplyReport
<1>6. \/ ~RollsUp(now) /\ UNCHANGED <<request, version, recent, material>>
      \/ /\ RollsUp(now) /\ request' = [request EXCEPT ![r] = FinalStatus(now)]
         /\ material' = FinalStatus(now) /\ Touch(r, 1)
  BY DEF ApplyReport
<1>7. UNCHANGED <<review, edits, holes, latest, pending, view, rounds>>
  BY DEF ApplyReport, reviewRows
<1>8. Fault \/ UNCHANGED faults
  BY DEF ApplyReport
<1>9. course[r] \in [Courses -> CourseStatus \cup {"none"}]
  BY <1>2 DEF TypeOK
<1>10. /\ now \in [Courses -> CourseStatus \cup {"none"}]
       /\ now[j.at] = j.result /\ \A c \in Courses \ {j.at} : now[c] = course[r][c]
  BY <1>2, <1>9 DEF Reported, CourseStatus
<1> HIDE DEF now
<1>11. /\ course' \in [Requests -> [Courses -> CourseStatus \cup {"none"}]] /\ course'[r] = now
       /\ \A q \in Requests \ {r} : course'[q] = course[q]
  BY <1>2, <1>5, <1>10 DEF TypeOK
<1>12. /\ links' \in [Requests -> [Courses -> SUBSET Variants]]
       /\ \A q \in Requests \ {r} : links'[q] = links[q]
  <2> DEFINE l == [links[r] EXCEPT ![j.at] = @ \cup Reports(j)]
  <2>1. Reports(j) \subseteq Variants
    BY DEF Reports, Variants
  <2>2. links[r] \in [Courses -> SUBSET Variants] /\ links[r][j.at] \subseteq Variants
    BY <1>2 DEF TypeOK
  <2>3. l \in [Courses -> SUBSET Variants]
    BY <1>2, <2>1, <2>2
  <2>4. links' = [links EXCEPT ![r] = l]
    BY <1>2, <1>5 DEF TypeOK
  <2> HIDE DEF l
  <2> QED
    BY <1>2, <2>3, <2>4 DEF TypeOK
<1>13. warned' \in [Requests -> SUBSET Courses] /\ used' \in [Requests -> SUBSET Courses]
  <2> DEFINE w == IF j.result = "COMPLETED" THEN warned[r] \ {j.at} ELSE warned[r] \cup {j.at}
             u == IF recorded THEN used[r] \cup {j.at} ELSE used[r]
  <2>1. w \in SUBSET Courses /\ u \in SUBSET Courses
    BY <1>2 DEF TypeOK
  <2>2. warned' = [warned EXCEPT ![r] = w] /\ used' = [used EXCEPT ![r] = u]
    BY <1>2, <1>5 DEF TypeOK
  <2> HIDE DEF w, u
  <2> QED
    BY <2>1, <2>2 DEF TypeOK
<1>14. /\ job' \in [Slots -> Running \cup {NoJob}]
       /\ \A t \in Slots : \/ job'[t] = job[t] \/ job'[t] = NoJob
                           \/ job[t] # NoJob /\ job'[t].data = job[t].data
  <2>1. Continue(j) \in Running \cup {NoJob} /\ (Continue(j) # NoJob => Continue(j).data = j.data)
    BY <1>2, ContinueTyped
  <2> QED
    BY <1>1, <1>5, <2>1 DEF TypeOK
<1>15. /\ request' \in [Requests -> RequestStatus \cup {"none"}] /\ material' \in RequestStatus \cup {"none"}
       /\ version' \in [Requests -> Nat] /\ recent' \subseteq Requests
       /\ \A q \in Requests \ {r} : request'[q] = request[q]
       /\ request'[r] \in {request[r], "FAILED", "REVIEW_REQUIRED", "COMPLETED"}
  <2>1. CASE UNCHANGED <<request, version, recent, material>>
    BY <2>1 DEF TypeOK
  <2>2. CASE request' = [request EXCEPT ![r] = FinalStatus(now)] /\ material' = FinalStatus(now)
             /\ Touch(r, 1)
    <3>1. FinalStatus(now) \in RequestStatus /\ FinalStatus(now) \in {"FAILED", "REVIEW_REQUIRED", "COMPLETED"}
      BY FinalStatusTyped DEF RequestStatus
    <3>2. version' \in [Requests -> Nat] /\ recent' \subseteq Requests
      BY <1>2, <2>2, TouchTyped
    <3> QED
      BY <1>2, <2>2, <3>1, <3>2 DEF TypeOK
  <2> QED
    BY <1>6, <2>1, <2>2
<1>16. TypeOK'
  BY <1>7, <1>8, <1>11, <1>12, <1>13, <1>14, <1>15, FaultCounted DEF TypeOK
<1>17. request'[r] # "none" /\ \A c \in Courses : course'[r][c] # "none"
  <2>1. j.result # "none" /\ \A c \in Courses : course[r][c] # "none"
    BY <1>2, <1>4 DEF Reported, Finished, Success
  <2>2. \A c \in Courses : now[c] # "none"
    BY <1>10, <2>1
  <2>3. request'[r] # "none"
    BY <1>4, <1>15
  <2> QED
    BY <1>11, <2>2, <2>3
<1>18. Processed(r)'
  <2> SUFFICES ASSUME request'[r] = "PROCESSING"
               PROVE  /\ \A c \in Courses : course'[r][c] \in Finished \cup {"PROCESSING"}
                      /\ \E c \in Courses : course'[r][c] = "PROCESSING"
    BY DEF Processed, Stuck
  <2>1. FinalStatus(now) # "PROCESSING"
    BY FinalStatusTyped
  <2>2. ~RollsUp(now) /\ request[r] = "PROCESSING"
    BY <1>2, <1>6, <2>1 DEF TypeOK
  <2>3. DOMAIN now = Courses
    BY <1>10
  <2>4. PICK c \in Courses : now[c] \notin Finished
    BY <2>2, <2>3 DEF RollsUp, AllFinished
  <2>5. \A d \in Courses : now[d] \in Finished \cup {"PROCESSING"}
    BY <1>2, <1>10, <2>2 DEF Processed, Reported
  <2> QED
    BY <1>11, <2>4, <2>5
<1>19. \/ material' = material /\ request'[r] = request[r]
       \/ material' # "PROCESSING"
  BY <1>6, FinalStatusTyped
<1>20. ~(Dormant(r)')
  BY <1>4, <1>7, <1>17 DEF Dormant
<1>21. \A q \in Requests \ {r} : /\ request'[q] = request[q] /\ course'[q] = course[q]
                                 /\ links'[q] = links[q] /\ rounds'[q] = rounds[q]
  BY <1>7, <1>11, <1>12, <1>15
<1> QED
  BY <1>2, <1>4, <1>7, <1>14, <1>16, <1>17, <1>18, <1>19, <1>20, <1>21, RequestMoves

-----------------------------------------------------------------------------
(* The review                                                              *)

\* What a screen reads of a request that was created.
LEMMA RowsTyped ==
    ASSUME TypeOK, Begun, NEW r \in Requests, request[r] # "none"
    PROVE  Rows(r) \in CourseRows
<1>1. course[r] \in [Courses -> CourseStatus \cup {"none"}] /\ \A c \in Courses : course[r][c] # "none"
  BY DEF TypeOK, Begun
<1>2. course[r] \in [Courses -> CourseStatus]
  BY <1>1
<1>3. links[r] \in [Courses -> SUBSET Variants] /\ warned[r] \in SUBSET Courses
  BY DEF TypeOK
<1> QED
  BY <1>2, <1>3 DEF Rows, CourseRows

\* A screen that shows a request shows one that was created.
LEMMA ShownIsCreated ==
    ASSUME LifecycleIInv, NEW a \in Admins, view[a] # NoView
    PROVE  view[a].req \in Requests /\ request[view[a].req] # "none"
<1>1. view[a] \in Views
  BY DEF LifecycleIInv, TypeOK
<1> QED
  BY <1>1, ViewKinds DEF LifecycleIInv, Begun

LEMMA ScreenReads ==
    ASSUME LifecycleIInv, NEW a \in Admins,
           ReadForApproval(a) \/ \E r \in Requests : OpenReview(a, r)
    PROVE  LifecycleIInv'
<1> USE DEF LifecycleIInv
<1>1. ASSUME NEW r \in Requests, OpenReview(a, r)
      PROVE  LifecycleIInv'
  <2> DEFINE v == [open |-> "loading", req |-> r, found |-> request[r],
                   version |-> version[r], rows |-> Rows(r)]
  <2>1. request[r] # "none" /\ view' = [view EXCEPT ![a] = v] /\ UNCHANGED <<rows, queues, rounds, faults>>
    BY <1>1 DEF OpenReview
  <2>2. request[r] \in RequestStatus /\ version[r] \in Nat
    BY <2>1 DEF TypeOK
  <2>3. v \in Views
    BY <2>1, <2>2, RowsTyped DEF Views
  <2>4. v.req = r /\ v.rows = Rows(r)
    OBVIOUS
  <2> HIDE DEF v
  <2> QED
    BY <2>1, <2>3, <2>4, ScreenMoves
<1>2. CASE ReadForApproval(a)
  <2> DEFINE v == [open |-> "approving", req |-> view[a].req, version |-> view[a].version,
                   edits |-> view[a].edits, rows |-> Rows(view[a].req)]
  <2>1. view[a].open = "shown" /\ view' = [view EXCEPT ![a] = v]
        /\ UNCHANGED <<rows, queues, rounds, faults>>
    BY <1>2 DEF ReadForApproval
  <2>2. view[a] \in Views
    BY DEF TypeOK
  <2>3. view[a] \in Shown /\ view[a] # NoView
    BY <2>1, <2>2, ViewKinds
  <2>4. view[a].req \in Requests /\ request[view[a].req] # "none"
    BY <2>3, ShownIsCreated
  <2>5. Rows(view[a].req) \in CourseRows
    BY <2>4, RowsTyped
  <2>6. v \in Views
    BY <2>3, <2>5 DEF Views, Shown
  <2>7. v.req = view[a].req /\ v.rows = Rows(view[a].req)
    OBVIOUS
  <2> HIDE DEF v
  <2> QED
    BY <2>1, <2>4, <2>6, <2>7, ScreenMoves
<1> QED
  BY <1>1, <1>2

\* The screen comes up, and an attempt that waited for its review is in review; if the
\* rows were read again in between, they are as they were when the screen opened.
LEMMA ScreenComesUp ==
    ASSUME LifecycleIInv, NEW a \in Admins, NEW late \in BOOLEAN, ShowReview(a, late)
    PROVE  LifecycleIInv'
<1> USE DEF LifecycleIInv
<1>1. view[a] \in Views /\ view[a].open = "loading"
  BY DEF TypeOK, ShowReview
<1>2. view[a] \in Loading /\ view[a] # NoView
  BY <1>1, ViewKinds
<1>3. view[a].req \in Requests /\ request[view[a].req] # "none"
  BY <1>2, ShownIsCreated
<1> SUFFICES ASSUME NEW v, v = view[a], NEW r, r = v.req
             PROVE  LifecycleIInv'
  BY Zenon
<1> DEFINE saves == v.found = "REVIEW_REQUIRED"
           undone == late /\ version[r] # v.version
           seen == IF saves THEN version'[r] ELSE v.version
           shown == [open |-> "shown", req |-> r, edits |-> edits[r], version |-> seen]
<1>4. /\ \/ /\ saves
            /\ request' = [request EXCEPT ![r] = "IN_REVIEW"]
            /\ version' = [version EXCEPT ![r] = IF undone THEN v.version ELSE @ + 1]
            /\ recent' = recent \cup {r}
            /\ course' = [course EXCEPT ![r] = IF late THEN v.rows.status ELSE @]
            /\ links' = [links EXCEPT ![r] = IF late THEN v.rows.links ELSE @]
            /\ warned' = [warned EXCEPT ![r] = IF late THEN v.rows.warned ELSE @]
         \/ /\ ~saves
            /\ UNCHANGED <<request, version, recent, course, links, warned>>
      /\ view' = [view EXCEPT ![a] = shown]
  BY DEF ShowReview
<1>5. /\ UNCHANGED <<review, used, edits, holes, material, latest>>
      /\ UNCHANGED <<pending, job, rounds, faults>>
  BY DEF ShowReview, reviewRows, queues
<1> HIDE DEF saves, undone
<1>6. /\ r \in Requests /\ v \in Loading /\ v.version \in Nat /\ v.rows \in CourseRows
      /\ request[r] # "none"
  BY <1>2, <1>3 DEF Loading
<1>7. /\ v.rows.status \in [Courses -> CourseStatus] /\ v.rows.links \in [Courses -> SUBSET Variants]
      /\ v.rows.warned \in SUBSET Courses
  BY <1>6 DEF CourseRows
<1>8. /\ course[r] \in [Courses -> CourseStatus \cup {"none"}] /\ \A c \in Courses : course[r][c] # "none"
      /\ links[r] \in [Courses -> SUBSET Variants] /\ warned[r] \in SUBSET Courses
  BY <1>6 DEF TypeOK, Begun
<1> DEFINE cs == IF saves /\ late THEN v.rows.status ELSE course[r]
           ls == IF saves /\ late THEN v.rows.links ELSE links[r]
           ws == IF saves /\ late THEN v.rows.warned ELSE warned[r]
<1>9. /\ course' = [course EXCEPT ![r] = cs] /\ links' = [links EXCEPT ![r] = ls]
      /\ warned' = [warned EXCEPT ![r] = ws]
  <2>1. CASE saves
    BY <1>4, <1>6, <2>1 DEF TypeOK
  <2>2. CASE ~saves
    BY <1>4, <1>6, <2>2 DEF TypeOK
  <2> QED
    BY <2>1, <2>2
<1>10. /\ cs \in [Courses -> CourseStatus \cup {"none"}] /\ \A c \in Courses : cs[c] # "none"
       /\ ls \in [Courses -> SUBSET Variants] /\ ws \in SUBSET Courses
  BY <1>7, <1>8 DEF CourseStatus, Finished, Success
<1>11. Dormant(r) => \A c \in Courses : ls[c] = {} /\ cs[c] # "PROCESSING"
  <2> SUFFICES ASSUME Dormant(r) PROVE \A c \in Courses : ls[c] = {} /\ cs[c] # "PROCESSING"
    OBVIOUS
  <2>1. Idle(r)
    BY <1>6 DEF NothingStarted
  <2>2. Blank(Rows(r)) /\ Blank(v.rows)
    BY <1>1, <2>1 DEF Idle
  <2> QED
    BY <2>2 DEF Blank, Rows
<1> HIDE DEF cs, ls, ws
<1>12. /\ course' \in [Requests -> [Courses -> CourseStatus \cup {"none"}]] /\ course'[r] = cs
       /\ links' \in [Requests -> [Courses -> SUBSET Variants]] /\ links'[r] = ls
       /\ warned' \in [Requests -> SUBSET Courses]
       /\ \A q \in Requests \ {r} : course'[q] = course[q] /\ links'[q] = links[q]
  BY <1>6, <1>9, <1>10 DEF TypeOK
<1>13. /\ version' \in [Requests -> Nat] /\ recent' \subseteq Requests
       /\ request' \in [Requests -> RequestStatus \cup {"none"}]
       /\ \A q \in Requests \ {r} : request'[q] = request[q]
       /\ (saves /\ request'[r] = "IN_REVIEW") \/ (~saves /\ request' = request)
  <2>1. CASE saves
    <3>1. request' = [request EXCEPT ![r] = "IN_REVIEW"] /\ recent' = recent \cup {r}
          /\ version' = [version EXCEPT ![r] = IF undone THEN v.version ELSE @ + 1]
      BY <1>4, <2>1
    <3>2. version' \in [Requests -> Nat]
      BY <1>6, <3>1 DEF TypeOK
    <3> QED
      BY <1>6, <2>1, <3>1, <3>2 DEF TypeOK, RequestStatus
  <2>2. CASE ~saves
    BY <1>4, <2>2 DEF TypeOK
  <2> QED
    BY <2>1, <2>2
<1>14. shown \in Views /\ shown.open = "shown" /\ shown.req = r
  <2>1. seen \in Nat /\ edits[r] \in Nat
    BY <1>6, <1>13, Bounds DEF TypeOK
  <2> HIDE DEF seen
  <2> QED
    BY <1>6, <2>1 DEF Views
<1>15. view' = [view EXCEPT ![a] = shown]
  BY <1>4
<1> HIDE DEF shown, seen
<1>16. view' \in [Admins -> Views] /\ view'[a] = shown /\ \A b \in Admins \ {a} : view'[b] = view[b]
  BY <1>14, <1>15 DEF TypeOK
<1>17. TypeOK'
  BY <1>5, <1>12, <1>13, <1>16 DEF TypeOK
<1>18. Processed(r)'
  <2>1. CASE saves
    BY <1>13, <2>1 DEF Processed
  <2>2. CASE ~saves
    <3>1. request' = request /\ course' = course
      BY <1>4, <2>2
    <3> QED
      BY <1>6, <3>1 DEF Processed, Stuck
  <2> QED
    BY <2>1, <2>2
<1>19. request'[r] # "none" /\ (request[r] \in UnderWay => request'[r] \in UnderWay)
  BY <1>6, <1>13 DEF UnderWay
<1>20. Dormant(r)' => Dormant(r) /\ Blank(Rows(r))'
  <2>1. Dormant(r)' => Dormant(r)
    BY <1>5, <1>19 DEF Dormant
  <2> QED
    BY <1>11, <1>12, <2>1 DEF Blank, Rows
<1>21. \A q \in Requests \ {r} : /\ request'[q] = request[q] /\ course'[q] = course[q]
                                 /\ links'[q] = links[q] /\ rounds'[q] = rounds[q]
  BY <1>5, <1>12, <1>13
<1>22. \A b \in Admins : \/ view'[b] = view[b]
                         \/ /\ view'[b].open \notin {"loading", "approving"}
                            /\ view'[b] # NoView => view'[b].req = r
  BY <1>14, <1>16
<1>23. \A c \in Courses : course'[r][c] # "none"
  BY <1>10, <1>12
<1> QED
  BY <1>5, <1>6, <1>17, <1>18, <1>19, <1>20, <1>21, <1>22, <1>23, RequestMoves

LEMMA DraftIsSaved ==
    ASSUME LifecycleIInv, NEW a \in Admins, NEW r \in Requests, NEW fills, SaveDraft(a, r, fills)
    PROVE  LifecycleIInv'
<1> USE DEF LifecycleIInv
<1>1. /\ UNCHANGED <<request, review, course, links, warned, used, material, latest>>
      /\ UNCHANGED <<pending, job, rounds, faults>>
      /\ Touch(r, 1) /\ Edit(r, fills) /\ view' = [view EXCEPT ![a] = NoView]
  BY DEF SaveDraft, queues
<1>2. view' \in [Admins -> Views] /\ \A b \in Admins : view'[b] = view[b] \/ view'[b] = NoView
  BY <1>1 DEF TypeOK, Views
<1>3. TypeOK'
  BY <1>1, <1>2, TouchTyped, EditTyped DEF TypeOK
<1> QED
  BY <1>1, <1>2, <1>3, QueueMoves

\* An approval, as it is or with jobs: the request gets a status, its courses another,
\* the columns that were read are written back, and the screen closes.
LEMMA Approves ==
    ASSUME LifecycleIInv, NEW a \in Admins, NEW r \in Requests,
           Accepted(a, r, "approving"),
           NEW changes, NEW fills, NEW continueWithWarnings,
           Curate(r, changes, fills, continueWithWarnings),
           NEW status \in {"PROCESSING", "COMPLETED", "COMPLETED_WITH_WARNINGS"},
           Decide(a, r, status),
           NEW statuses \in [Courses -> CourseStatus], course' = [course EXCEPT ![r] = statuses],
           status = "PROCESSING" => \A c \in Courses : statuses[c] = "PROCESSING",
           pending' \subseteq Jobs, \A d \in pending' : d \in pending \/ d.req = r
    PROVE  LifecycleIInv'
<1> USE DEF LifecycleIInv
<1>1. view[a] \in Views /\ view[a].open = "approving" /\ view[a].req = r
  BY DEF TypeOK, Accepted
<1>2. view[a] \in Approving /\ view[a] # NoView /\ request[r] # "none"
  BY <1>1, ViewKinds, ShownIsCreated
<1>3. /\ request' = [request EXCEPT ![r] = status] /\ material' = status
      /\ links' = [links EXCEPT ![r] = view[a].rows.links]
      /\ warned' = [warned EXCEPT ![r] = view[a].rows.warned]
      /\ rounds[r] < MaxRounds /\ rounds' = [rounds EXCEPT ![r] = @ + 1]
      /\ Touch(r, 2) /\ view' = [view EXCEPT ![a] = NoView]
      /\ UNCHANGED <<review, used, latest, job, faults>>
  BY DEF Decide
<1>4. Edit(r, fills) \/ UNCHANGED reviewRows
  BY DEF Curate
<1>5. view[a].rows.links \in [Courses -> SUBSET Variants] /\ view[a].rows.warned \in SUBSET Courses
  BY <1>2 DEF Approving, CourseRows
<1>6. /\ request' \in [Requests -> RequestStatus \cup {"none"}] /\ request'[r] = status
      /\ material' \in RequestStatus \cup {"none"}
      /\ \A q \in Requests \ {r} : request'[q] = request[q]
  BY <1>3 DEF TypeOK, RequestStatus
<1>7. /\ links' \in [Requests -> [Courses -> SUBSET Variants]]
      /\ warned' \in [Requests -> SUBSET Courses]
      /\ \A q \in Requests \ {r} : links'[q] = links[q]
  BY <1>3, <1>5 DEF TypeOK
<1>8. rounds[r] \in 0..MaxRounds /\ rounds[r] + 1 \in 0..MaxRounds
  BY <1>3, Bounds DEF TypeOK
<1>9. /\ rounds' \in [Requests -> 0..MaxRounds] /\ rounds'[r] # 0
      /\ \A q \in Requests \ {r} : rounds'[q] = rounds[q]
  BY <1>3, <1>8 DEF TypeOK
<1>10. /\ course' \in [Requests -> [Courses -> CourseStatus \cup {"none"}]] /\ course'[r] = statuses
       /\ \A q \in Requests \ {r} : course'[q] = course[q]
  BY DEF TypeOK
<1>11. view' \in [Admins -> Views] /\ \A b \in Admins : view'[b] = view[b] \/ view'[b] = NoView
  BY <1>3 DEF TypeOK, Views
<1>12. TypeOK'
  BY <1>3, <1>4, <1>6, <1>7, <1>9, <1>10, <1>11, TouchTyped, EditTyped DEF TypeOK
<1>13. request'[r] # "none" /\ \A c \in Courses : course'[r][c] # "none"
  BY <1>6, <1>10 DEF CourseStatus, Finished, Success
<1>14. Processed(r)'
  BY <1>6, <1>10, LifecycleAssumption DEF Processed, Stuck
<1>15. ~(Dormant(r)')
  BY <1>9, <1>13 DEF Dormant
<1>16. material' # "PROCESSING" \/ request'[r] = "PROCESSING"
  BY <1>3, <1>6
<1>17. \A q \in Requests \ {r} : /\ request'[q] = request[q] /\ course'[q] = course[q]
                                 /\ links'[q] = links[q] /\ rounds'[q] = rounds[q]
  BY <1>6, <1>7, <1>9, <1>10
<1>18. \A b \in Admins : \/ view'[b] = view[b]
                         \/ /\ view'[b].open \notin {"loading", "approving"}
                            /\ view'[b] # NoView => view'[b].req = r
  <2>1. NoView.open = "no"
    BY DEF NoView
  <2> QED
    BY <1>11, <2>1
<1>19. review' = review /\ job' = job
  BY <1>3
<1> QED
  BY <1>2, <1>12, <1>13, <1>14, <1>15, <1>16, <1>17, <1>18, <1>19, RequestMoves

LEMMA ApprovalSteps ==
    ASSUME LifecycleIInv, NEW a \in Admins, NEW r \in Requests, NEW continueWithWarnings \in BOOLEAN,
           \/ ApproveAsIs(a, r, continueWithWarnings)
           \/ \E changes \in BOOLEAN, fills \in SUBSET Courses :
                 Approve(a, r, changes, fills, continueWithWarnings)
    PROVE  LifecycleIInv'
<1>1. CASE ApproveAsIs(a, r, continueWithWarnings)
  <2> DEFINE status == IF holes[r] # {} THEN "COMPLETED_WITH_WARNINGS" ELSE "COMPLETED"
             statuses == [c \in Courses |->
                IF c \in view[a].rows.warned THEN "COMPLETED_WITH_WARNINGS" ELSE "COMPLETED"]
  <2>1. /\ Accepted(a, r, "approving") /\ Curate(r, FALSE, {}, continueWithWarnings)
        /\ Decide(a, r, status) /\ course' = [course EXCEPT ![r] = statuses] /\ pending' = pending
    BY <1>1 DEF ApproveAsIs
  <2>2. statuses \in [Courses -> CourseStatus]
    BY DEF CourseStatus, Finished, Success
  <2>3. status \in {"PROCESSING", "COMPLETED", "COMPLETED_WITH_WARNINGS"} /\ status # "PROCESSING"
    OBVIOUS
  <2>4. pending' \subseteq Jobs
    BY <2>1 DEF LifecycleIInv, TypeOK
  <2> HIDE DEF status, statuses
  <2> QED
    BY <2>1, <2>2, <2>3, <2>4, Approves
<1>2. ASSUME NEW changes \in BOOLEAN, NEW fills \in SUBSET Courses,
             Approve(a, r, changes, fills, continueWithWarnings)
      PROVE  LifecycleIInv'
  <2> DEFINE statuses == [c \in Courses |-> "PROCESSING"]
             sent == {[req |-> r, kind |-> "generate", courses |-> {c}] : c \in Courses}
  <2>1. /\ Accepted(a, r, "approving") /\ Curate(r, changes, fills, continueWithWarnings)
        /\ Decide(a, r, "PROCESSING") /\ course' = [course EXCEPT ![r] = statuses]
        /\ pending' = pending \cup sent
    BY <1>2 DEF Approve
  <2>2. statuses \in [Courses -> CourseStatus] /\ \A c \in Courses : statuses[c] = "PROCESSING"
    BY DEF CourseStatus
  <2>3. sent \subseteq Jobs /\ \A d \in sent : d.req = r
    BY DEF Jobs
  <2> HIDE DEF statuses, sent
  <2>4. pending' \subseteq Jobs /\ \A d \in pending' : d \in pending \/ d.req = r
    BY <2>1, <2>3 DEF LifecycleIInv, TypeOK
  <2> QED
    BY <2>1, <2>2, <2>4, Approves
<1> QED
  BY <1>1, <1>2

-----------------------------------------------------------------------------
(* A new attempt                                                           *)

LEMMA AttemptBegins ==
    ASSUME LifecycleIInv, NEW r \in Requests, NEW requiresReview \in BOOLEAN,
           NEW empty \in SUBSET Courses, Generate(r, requiresReview, empty)
    PROVE  LifecycleIInv'
<1> USE DEF LifecycleIInv
<1> DEFINE initial == IF requiresReview THEN "REVIEW_REQUIRED" ELSE "PROCESSING"
           statuses == [c \in Courses |-> IF requiresReview THEN "PENDING" ELSE "PROCESSING"]
           d == [req |-> r, kind |-> "generate-pdf", courses |-> Courses]
<1>1. /\ request[r] = "none" /\ request' = [request EXCEPT ![r] = initial] /\ material' = initial
      /\ review' = (IF requiresReview THEN review \cup {r} ELSE review)
      /\ course' = [course EXCEPT ![r] = statuses]
      /\ holes' = [holes EXCEPT ![r] = empty] /\ used' = [q \in Requests |-> {}] /\ latest' = {r}
      /\ Touch(r, 1)
      /\ pending' = (IF requiresReview THEN pending ELSE pending \cup {d})
      /\ UNCHANGED <<links, warned, edits, job, view, rounds, faults>>
  BY DEF Generate
<1>2. /\ initial \in RequestStatus /\ initial \in UnderWay
      /\ requiresReview => initial # "PROCESSING"
      /\ ~requiresReview => initial = "PROCESSING"
  BY DEF RequestStatus, UnderWay
<1>3. /\ statuses \in [Courses -> CourseStatus]
      /\ \A c \in Courses : /\ requiresReview => statuses[c] = "PENDING"
                            /\ ~requiresReview => statuses[c] = "PROCESSING"
  BY DEF CourseStatus
<1>4. d \in Jobs /\ d.req = r
  BY DEF Jobs
<1> HIDE DEF initial, statuses, d
<1>5. /\ request' \in [Requests -> RequestStatus \cup {"none"}] /\ request'[r] = initial
      /\ \A q \in Requests \ {r} : request'[q] = request[q]
      /\ material' \in RequestStatus \cup {"none"}
  BY <1>1, <1>2 DEF TypeOK
<1>6. /\ course' \in [Requests -> [Courses -> CourseStatus \cup {"none"}]] /\ course'[r] = statuses
      /\ \A q \in Requests \ {r} : course'[q] = course[q]
  BY <1>1, <1>3 DEF TypeOK
<1>7. /\ review' \subseteq Requests /\ pending' \subseteq Jobs /\ latest' \subseteq Requests
      /\ holes' \in [Requests -> SUBSET Courses] /\ used' \in [Requests -> SUBSET Courses]
  BY <1>1, <1>4 DEF TypeOK
<1>8. TypeOK'
  BY <1>1, <1>5, <1>6, <1>7, TouchTyped DEF TypeOK
<1>9. r \notin review /\ \A a \in Admins : view[a] # NoView => view[a].req # r
  BY <1>1 DEF Begun
<1>10. request'[r] # "none" /\ \A c \in Courses : statuses[c] # "none"
  BY <1>2, <1>3, <1>5 DEF UnderWay
<1>11. Begun'
  <2> SUFFICES ASSUME NEW q \in Requests
               PROVE  /\ request'[q] = "none" =>
                           q \notin review' /\ \A a \in Admins : view'[a] # NoView => view'[a].req # q
                      /\ request'[q] # "none" => \A c \in Courses : course'[q][c] # "none"
    BY DEF Begun
  <2>1. CASE q = r
    BY <2>1, <1>6, <1>10
  <2>2. CASE q # r
    <3>1. request'[q] = request[q] /\ course'[q] = course[q] /\ view' = view
          /\ (q \in review' <=> q \in review)
      BY <2>2, <1>1, <1>5, <1>6
    <3> QED
      BY <3>1 DEF Begun
  <2> QED
    BY <2>1, <2>2
<1>12. ASSUME NEW q \in Requests
       PROVE  Processed(q)'
  <2>1. CASE q = r
    BY <2>1, <1>2, <1>3, <1>5, <1>6, LifecycleAssumption DEF Processed, Stuck
  <2>2. CASE q # r
    <3>1. request'[q] = request[q] /\ course'[q] = course[q]
      BY <2>2, <1>5, <1>6
    <3> QED
      BY <3>1 DEF Processed, Stuck
  <2> QED
    BY <2>1, <2>2
<1>13. Followed'
  BY <1>2, <1>5 DEF Followed, UnderWay
<1>14. NothingStarted'
  <2> SUFFICES ASSUME NEW q \in Requests, Dormant(q)' PROVE Idle(q)'
    BY DEF NothingStarted
  <2>1. CASE q = r
    <3>1. requiresReview
      BY <2>1, <1>1, <1>9, <1>10 DEF Dormant
    <3>2. Idle(r)
      BY <1>1 DEF NothingStarted, Dormant
    <3>3. Blank(Rows(q))'
      BY <2>1, <3>1, <3>2, <1>1, <1>3, <1>6 DEF Idle, Blank, Rows
    <3>4. \A b \in Admins : view'[b].open \in {"loading", "approving"} /\ view'[b].req = q =>
              Blank(view'[b].rows)
      BY <2>1, <3>2, <1>1 DEF Idle
    <3>5. /\ \A e \in pending' : e.req # q
          /\ \A s \in Slots : job'[s] # NoJob => job'[s].data.req # q
      BY <2>1, <3>1, <3>2, <1>1 DEF Idle
    <3> QED
      BY <3>3, <3>4, <3>5 DEF Idle, Blank
  <2>2. CASE q # r
    <3>1. Dormant(q)
      BY <2>2, <1>1, <1>5 DEF Dormant
    <3>2. Idle(q)
      BY <3>1 DEF NothingStarted
    <3>3. Blank(Rows(q))'
      BY <2>2, <3>2, <1>1, <1>6 DEF Idle, Blank, Rows
    <3>4. \A b \in Admins : view'[b].open \in {"loading", "approving"} /\ view'[b].req = q =>
              Blank(view'[b].rows)
      BY <3>2, <1>1 DEF Idle
    <3>5. /\ \A e \in pending' : e.req # q
          /\ \A s \in Slots : job'[s] # NoJob => job'[s].data.req # q
      BY <2>2, <3>2, <1>1, <1>4 DEF Idle
    <3> QED
      BY <3>3, <3>4, <3>5 DEF Idle, Blank
  <2> QED
    BY <2>1, <2>2
<1> QED
  BY <1>8, <1>11, <1>12, <1>13, <1>14

-----------------------------------------------------------------------------
LEMMA LifecycleInitially ==
    Init => LifecycleIInv
<1> SUFFICES ASSUME Init PROVE LifecycleIInv
  OBVIOUS
<1>1. TypeOK
  BY Bounds DEF Init, TypeOK, Views
<1>2. NoView.open = "no" /\ \A a \in Admins : view[a] = NoView
  BY DEF Init, NoView
<1>3. Begun
  BY <1>2 DEF Init, Begun
<1>4. NothingStarted
  <2> SUFFICES ASSUME NEW r \in Requests PROVE Idle(r)
    BY DEF NothingStarted
  <2>1. Blank(Rows(r))
    BY DEF Init, Blank, Rows
  <2> QED
    BY <1>2, <2>1 DEF Init, Idle
<1>5. Followed /\ \A r \in Requests : Processed(r)
  BY DEF Init, Followed, Processed
<1> QED
  BY <1>1, <1>3, <1>4, <1>5 DEF LifecycleIInv

LEMMA LifecycleStep ==
    LifecycleIInv /\ [Next]_vars => LifecycleIInv'
<1> SUFFICES ASSUME LifecycleIInv, [Next]_vars PROVE LifecycleIInv'
  OBVIOUS
<1>1. CASE UNCHANGED vars
  BY <1>1 DEF vars, rows, reviewRows, queues, LifecycleIInv, TypeOK, Begun, NothingStarted, Dormant,
              Idle, Blank, Rows, Processed, Stuck, Followed
<1>2. ASSUME NEW r \in Requests, NEW requiresReview \in BOOLEAN, NEW empty \in SUBSET Courses,
             Generate(r, requiresReview, empty)
      PROVE  LifecycleIInv'
  BY <1>2, AttemptBegins
<1>3. CASE \/ \E d \in pending : Dispatch(d)
           \/ \E lost \in SUBSET pending : LoseDispatch(lost)
           \/ \E r \in Requests : Age(r) \/ \E bumped \in BOOLEAN : SweepCourses(r, bumped)
  BY <1>3, QueueSteps
<1>4. ASSUME NEW a \in Admins, ReviewStep(a)
      PROVE  LifecycleIInv'
  BY <1>4, ScreenComesUp, ScreenReads, DraftIsSaved, ApprovalSteps DEF ReviewStep
<1>5. ASSUME NEW s \in Slots, Work(s) \/ ReportThrows(s) \/ WorkerCrash(s)
      PROVE  LifecycleIInv'
  BY <1>5, JobSteps, ReportCommits DEF Work
<1> QED
  BY <1>1, <1>2, <1>3, <1>4, <1>5 DEF Next, Faults

\* The inductive invariant: the types; what was never approved is nowhere under way,
\* in no queue and on no screen; and what PROCESSING promises of a request and of a
\* Material.
THEOREM LifecycleInvariant == Spec => []LifecycleIInv
<1> QED
  BY LifecycleInitially, LifecycleStep, PTL DEF Spec

THEOREM LifecycleTyped == Spec => []TypeOK
<1>1. LifecycleIInv => TypeOK
  BY DEF LifecycleIInv
<1> QED
  BY <1>1, LifecycleInvariant, PTL

\* FR-006 (b): nothing is generated for an attempt before its review was approved,
\* whatever the sweep, crashed workers and stale screens do.
THEOREM GateHolds == Spec => []ReviewGate
<1>1. LifecycleIInv => ReviewGate
  <2> SUFFICES ASSUME LifecycleIInv, NEW r \in review, rounds[r] = 0
               PROVE  /\ \A c \in Courses : links[r][c] = {}
                      /\ \A s \in Slots : job[s] # NoJob => job[s].data.req # r
    BY DEF ReviewGate
  <2>1. r \in Requests
    BY DEF LifecycleIInv, TypeOK
  <2>2. Idle(r)
    BY <2>1 DEF LifecycleIInv, NothingStarted, Dormant
  <2> QED
    BY <2>2 DEF Idle, Blank, Rows
<1> QED
  BY <1>1, LifecycleInvariant, PTL

\* A request or a Material in PROCESSING always has something that can still move it.
THEOREM ProcessingIsBacked == Spec => []NoOrphanProcessing
<1>1. LifecycleIInv => NoOrphanProcessing
  BY DEF LifecycleIInv, NoOrphanProcessing, Processed, Followed
<1> QED
  BY <1>1, LifecycleInvariant, PTL
=============================================================================
