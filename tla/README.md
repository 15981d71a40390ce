# Odiseo: verification models and proofs

Odiseo is a multi-tenant SaaS with which schools plan their courses and produce
exercise booklets ("materials") as PDFs. The back end (`backend-nestjs`) is a
NestJS application with several web replicas and separate worker processes. It
keeps its state in PostgreSQL (one schema per tenant), sends work through BullMQ
queues in Redis, caches in Redis and in process, and stores PDFs in S3. The web
client (`frontend-vue`, Nuxt with Pinia stores) keeps copies of that state in its
stores, updates some of them before the server has answered, polls others, and so
takes part in the races.

This directory holds TLA+ modules of the parts where that architecture makes the
program hard to test, TLC runs of small instances, and TLAPS proofs. `PROJECT.json`
maps every definition to the lines it models, and lists the hazards the properties
are about.

Paths below are relative to `src/backend-nestjs/src/` unless they start with
`frontend-vue/`, which is relative to `src/`.

## 1. Inventory

### Materials

| Part | State | Operations | Hard behaviour |
|---|---|---|---|
| Generation, `materials/use-cases/generate-material.use-case.ts` | `materials` (one per tenant, profile, week), `material_requests` (one per attempt), `material_request_courses`, `material_review_questions` | read the template and the ledger, plan the slots of each course, write the attempt, dispatch a job after the commit | a crash between commit and dispatch; a regeneration while jobs of the earlier attempt run; two generations of a cycle at once |
| Question selection, `question-bank/` | level counts, quotas, recycling | split the quota over the subtopics, select with fallback of levels, search alternatives | zeros and remainders; what was used when is read long before it is written |
| Review, `get-material-review`, `approve-material-review`, and the review screen of the client | `status`, `version` and courses of the request, review rows; decisions of the screen and their copy in localStorage | open (REVIEW_REQUIRED becomes IN_REVIEW), save a draft, approve with or without regeneration | two administrators at once, optimistic versions, saves of entities that are stale |
| PDF worker, `materials/processors/pdf-generation.processor.ts` | BullMQ jobs (`generate-pdf`, `generate`, `merge-pdf`), attempts | per course: load questions, render, upload, report; merge | retries of a whole batch after one course failed, stalled jobs, duplicate jobs |
| Completion callbacks, `handle-material-webhook.use-case.ts` | course status and urls, usage ledger, request and Material status | one transaction per report: guard, update, ledger under a savepoint, parent lock, roll-up, merge dispatch; an event after the commit | concurrent and repeated reports, lock order, failures inside the savepoint, a job added inside the transaction |
| Reconciliation, `materials/materials.cron.ts` | `updated_at` of requests, a Redis lock | every 15 minutes: redispatch courses that are PROCESSING for over 5 minutes, mark weeks whose event was lost | duplicates of jobs that are only slow, a bump that fails alone, a batch of weeks in no order |
| Board and matrix of the client | history rows, the selected cycle, a timer | poll, filter, select a cycle, generate | answers in any order, a timer that keeps its cycle, a poll that stops |

How they interact: the use cases write through `TenantService.runInTenant` (one
READ COMMITTED transaction with the tenant's `search_path`), add jobs to
`materials-queue`, and the processor calls the webhook use case *in process* to
report each course. The webhook use case rolls the courses up into the request and
its Material, and dispatches `merge-pdf`. The event `material.course.generated`
marks the syllabus week as generated.

What makes it correct: a finished request carries the roll-up of its courses; a
success is not undone; one merge per roll-up, and a combined PDF at the end of it;
the usage ledger (which questions a cycle has used) describes the PDFs that exist;
a PDF has the questions the template asked for and repeats none of the cycle;
nothing is generated before an approval when a review is required; nobody's
curation is overwritten unseen; nothing stays PROCESSING for ever.

### The other components

| Part | State and operations | Hard behaviour | Correct when |
|---|---|---|---|
| Syllabus, `syllabus/` and the matrix of the client | syllabus per course and cycle, matrix of cells, `is_generated`, clones | check-then-write of the weekly limit, concurrent inserts of one cell, optimistic cells, clones into another cycle | a week exceeds its limit only by what overlapped; the matrix shows what is stored; templates belong to the cycle |
| Academic time, `academic-time/` and its screens | cycles, weeks, material templates | sequences of edits over existing weeks, deletions that count their dependants first | weeks follow the cycle; nothing is orphaned but by what came late |
| Catalogs, `catalogs/` and its page | shared catalogue, visibility per tenant, versioned cache, hourly synchronisation | cache fill racing a bump, version lost | an answer knows every write before the last bump |
| Authorization state, `auth/`, the auth store and the route middleware | permissions, `tokens_valid_after`, two cache tiers, the browser's copy | cache fill racing a revocation; commit, clock and stamp in three steps; seconds against milliseconds; answers that are lost | a revoked token stops being accepted, no other one is refused |
| Roles, `admin/roles/` | inheritance graph, role assignments | concurrent updates of the graph, saves of entities that are stale | no cycle; nobody grants what no manager has; the holders are revoked |
| Tenants, `tenants/`, `admin/tenants/`, `database/` | company row, provisioning job, schema migrations, administrators | retried multi-step provisioning, suspension racing a cache fill, concurrent deactivation | active implies provisioned; suspended implies refused; an administrator is left |
| PDF designs, `materials/pdf-design/` and its form | design rows, the partial unique index of the default, images in S3 | overlapping saves, S3 beside the row, a form older than the row | one default; an image url has its object; what was not touched stays |
| Consumption metrics and distributed lock, `admin/dashboard/`, `common/locking/` | monthly counters, a Redis key with a TTL | overlapping and repeated runs, the end of a month | what is reported was consumed |
| PDF rendering, downloads, onboarding, S3, GCS, health, metrics | little or none | I/O | not a subject of this project |

## 2. Plan

Done: the core of materials; the life of a tenant and what the platform keeps for
it; sessions and roles; the plan of a tenant; the preparation of a material and the
screens that follow it; both reconciliation sweeps; the proofs of section 5.

Every invariant a run checks is proved. To add to the model later: the lock order of an
approval against a callback, the version of the review rows each PDF was rendered from,
the reentrancy of `runInTenant`.

## 3. Modules

### Completion callbacks

* `MaterialStatus`: the two status enums and the functions the callback computes
  over sibling rows (`AllFinished`, `HasFailed`, `HasWarnings`, `FinalStatus`).
* `CourseRollUp`: abstract specification. A report takes effect at one instant; the
  request gets the roll-up when all courses are finished; one merge per entry into a
  rolled-up state.
* `MaterialWebhook`: `HandleMaterialWebhookUseCase.execute`, one action per
  statement that another transaction can interleave with. `course`, `pdf`, `ledger`,
  `unrecorded`, `request`, `material` are committed rows; `pc`, `cb`, `prev`,
  `wrote`, `outcome`, `sent` are what one invocation holds; `courseLock`, `keyShare`,
  `parentLock` are PostgreSQL row locks. `Receive`, `ReadAndIgnore`/`ReadAndGo` (the
  guard), `UpdateCourse`, `WriteLedger`/`LedgerFails` (the savepoint), `LockParent`,
  `NotAllFinished`/`RollUp`, `Commit`, `Rollback`, `Emit`/`LoseEvent` follow the
  method from top to bottom. `LedgerFails` also stands for a success reported with
  no usage rows, for which the code skips the write. It implements `CourseRollUp`
  under the refinement mapping of `Abstract` (`INSTANCE CourseRollUp WITH course,
  request, merges`, the committed rows and the committed merge dispatches).
* `MaterialMerge`: the above composed with the consumer of the merge job. The job
  is in the queue from the step that calls `materialsQueue.add`, before the commit.

### The life of a material

* `MaterialLifecycle`: one Material over several attempts: generation, review,
  approval, both generation jobs with retries and stalls, reports, the sweep, and
  faults. A transaction is one step except where the code decides on an unlocked
  read: `OpenReview`/`ShowReview`, `ReadForApproval`/`Approve`,
  `AcceptReport`/`ApplyReport`. That a report's commit may be one step is
  `RefinesRollUp`. Question contents are abstracted to the number of accepted edits
  and the courses that have an EMPTY slot (a removed question, or one that is gone
  from the bank, is only a possible outcome "with warnings"); the keys and solutions
  urls, always set together, are one.
* `GeneratedWeeks`: the mark `is_generated`. `CommitCourse` and `EmitEvent` are apart
  (a crash may fall in between), the listener has its attempts, `StartSweep` takes a
  batch, chosen freely because the query has no order, and `SweepFinds`/`SweepMarks`
  work it off. `shelf` lets a course have an archived and an active syllabus.
* `QuestionPlan`: the template page that distributes counts over difficulties
  (`AddCourse` .. `TypeDifficulty`, `SaveTemplate`), and a generation from the read
  of the template and the ledger (`ReadInputs`) over the choice per course
  (`PlanCourse`: level counts, quotas per subtopic, selection with fallback), the
  write (`WriteAttempt`) and the worker (`LoadCourseQuestions`) to the ledger
  (`RecordUsage`). Any subset of the candidates the code would sample from is a
  possible sample. A batch may be retried after it has printed: `LoadCourseQuestions`
  then keeps the saved slots of a course and draws again where the catalog moved its
  topics.
* `ReviewScreen`: the review in one browser: the decisions, their copy in
  localStorage, the search for alternatives, calls in flight, while another
  administrator drafts the same requests.
* `MaterialBoard`: the history page and the matrix over it, each with a poll; every
  answer may be late and none says what it answers. A failed fetch of the templates
  ends the handler that awaited it (`HearTemplates`, `HearContext`): the selection is not
  reset, the history not asked for, and an opening with a context leaves
  `isProgrammaticChange` set.

### What a tenant plans

* `SyllabusMatrix`: the distribution matrix. A call is the check of the limit in one
  transaction and the write in another; `flight` holds the requests of a coordinator,
  the store is written when a cell is edited and put back when the request fails.
  `OpenMatrix` is the mount, with any template of the cycle; `SelectTemplate` is the
  watcher for a template other than the saved one, which is taken over, saved and only
  then loaded (`LoadDistributions`); `SelectSavedTemplate` is the watcher for the saved
  one, which does neither.
* `AcademicPlan`: cycles, weeks, templates, syllabi, distributions and clones. An
  operation that reads before it writes is two steps.
* `PlanScreens`: the endless list of the cycles and the page of the syllabi of one,
  with the modal that clones. The page's watcher holds its guard until the syllabi and
  the templates of the cycle are there (`FetchSyllabiByCycle`, `TemplatesAnswered`) or
  the templates fail (`TemplatesFail`); a fetch of syllabi that fails leaves the list of
  the cycle before (`FetchSyllabiFails`). Creating a syllabus from this page is left out:
  the first syllabus of a cycle comes from another coordinator.
* `Catalogs`: the versioned cache against visibility changes and the hourly
  synchronisation, and the page with its optimistic switches.

### Sessions and roles

* `AuthState`: the account, the two cache tiers, logins, changes of the password and
  of the account by others. `Revoke` is the chain after the commit of a change:
  `ReadClock` (`new Date()`), `Stamp` (the UPDATE of `tokens_valid_after`),
  `InvalidateUserPermissions`, each a step, so that two revocations may stamp in the
  other order than they read the clock; `latest` is the latest instant ever committed. A
  login replaces whatever cookie the browser has. The guard answers a failure of the
  database with a 401, as the code does.
* `WebSession` EXTENDS it with the browser: store, middleware, interceptor, pages, and
  lost answers of `fetchMe`, of a change of the password and of a logout, which loads the
  page anew with the cookie still there.
* `RoleGraph`: `RolesService`; a call is `Author` (what it may grant, by the committed
  graph or by permissions that a cache tier still answers, `LoadAuthState`), read,
  advisory lock and guard, read of the holders, save, revocation of the holders' tokens.

### The platform

* `TenantLifecycle`: creation, provisioning jobs, migrations beside the deploy CLI,
  suspension, the cached lookup of the middleware.
* `TenantConsole`: the tenants' administrators, from two operators' browsers.
* `ConsumptionMetrics`: the hourly collector on two replicas, the distributed lock
  that expires under it, the dashboard's aggregation (`GetMetrics`).
* `PdfDesign`: the designs with their images in S3, and the form.

### Composition

`MaterialMerge` and `WebSession` compose components that share state. `MCPlanning`,
`MCScreens`, `MCSessions` and `MCTenants` put modules that read nothing of each other
into one run: a variable `focus` picks one of them at the start, the others keep their
initial state. (`MCSessions` looks at the sessions twice, under two restrictions.) A run then explores the sum and not the product of their states;
nothing is lost, as no property relates two of them. Where a run checks liveness, no
fair action is enabled in an initial state, so standing still is a fair behaviour of
a module out of focus. TLC counts such a run as one action; that every action and
disjunct of the modules in it is taken was read off its statistics of the
subexpressions (`-coverage`). `MCMaterialWebhook` and `MCMaterialLifecycle` define
symmetry sets.

Operators commented "Mutant:" are wrong variants of the definition that follows
them; no specification uses them. They record what each property is able to notice.

### Assumptions about code outside the repository

* PostgreSQL, READ COMMITTED: an UPDATE locks its row to the end of the transaction;
  an INSERT with a foreign key takes FOR KEY SHARE on the referenced row, which
  conflicts with FOR UPDATE; rolling back to a savepoint drops the locks taken since;
  a statement after a failed one of the same transaction fails too; a unique index
  makes the second insert wait for the first and fail.
* TypeORM 0.3 (`package-lock.json`: 0.3.31): `manager.update` sets the given columns,
  adds one to the version column and sets `updated_at` unless they are given.
  `manager.save` re-reads the row by id, and the related rows of a cascade, and
  writes the columns in which the entity differs, version and `updated_at` included;
  its WHERE clause has the id only, so it does not fail on a stale version.
  `MaterialRequest.courses` is `cascade: true`. `ShowReview` has both outcomes of
  the race between its re-read and another commit. The same holds for the saves of
  companies, roles and designs: what a payload leaves out is written back as read.
* BullMQ: at-least-once; a job whose handler throws is retried from its start up to
  `attempts` times; a stalled job is put back, or failed when it stalls again.
* EventEmitter2 calls asynchronous listeners without waiting for them and keeps
  nothing: an event is lost with its process.
* Redis: a key is there until its TTL is over, is dropped, or is evicted. A call may
  time out; the code then goes on without the cache.
* The browser: answers come in any order, a request may be lost after the server has
  served it, timers and watchers run between any two of them.
* One clock: `AuthState` assumes that all API processes and replicas read the same time.
  With clocks that differ, `NoFalseReject` would hold up to their difference only.
* The templates of a cycle are in the store when its matrix mounts, as the page of the
  syllabi fetches them before it offers to open one.
* `RoleGraph` lets a cached permission be as old as it likes; the code bounds it by the
  TTLs of both tiers.
* `updated_at` is abstracted to recent or not, and `Age` may happen at any time, so
  the 5-minute threshold is not assumed to be longer than any step. The hour of
  `GeneratedWeeks` is treated alike; `AuthState` and `ConsumptionMetrics`, whose
  properties are about a boundary of time, count ticks and hours.
* `pending` in `MaterialLifecycle` is a set: two dispatches that are identical and
  wait at the same time count once. Slots have no identity; a dispatch waits for a
  free one.

## 4. Runs

| Run | Instance | Question | Result |
|---|---|---|---|
| `webhook` | 2 courses, 2 handlers (each may run any number of callbacks), 2 PDFs | Do concurrent, repeated, aborted callbacks behave like reports one after the other? `RollUpExact`, `ExactlyOneMerge`, `LedgerMatchesPdf`, `GeneratedHasPdf`, `RefinesRollUp` | holds |
| `recovery` | 1 request, 2 courses, 2 slots, 1 fault | Does the sweep repair what a crash leaves? `NoOrphanProcessing`, `EveryCourseFinishes` | holds |
| `review` | 1 request, 1 course, 2 administrators, 2 attempts, 1 edit, 1 approval, 1 fault | Is nothing generated before an approval? `ReviewGate` | holds |
| `tenants` | 2 workers, CLI, 1 operator, 2 jobs, 2 migrations, 2 faults; 2 consoles, 4 people of 2 tenants of whom 3 are administrators at the start; 2 months of 2 hours; 2 designers, 2 designs | What the platform keeps: `ServiceableIsBuilt`, `NoDuplicateMigration`, `AdminBeforeService`, `NoSilentOrphan`, `SuspensionEnforced`, `AdminKept`, `DashboardTruthful`, `OneDefault`, `UrlHasObject`, `UntouchedKept` | holds |
| `sessions` | 1 browser, 2 ticks, logouts, and either 2 processes, 1 change of the account (password or deactivation) and 1 fault, or 1 process, 2 changes (password, reset) and no fault; 3 roles and one to create, 2 users, 3 calls, 2 at a time | Who may do what, and who is signed out? `NoFalseReject`, `SignedOutOnlyWhenRevoked`, `PasswordChangeEndsSessions`, `RevocationTakesEffect`; `Confined`, `NoInheritanceCycle`, `RevocationCovers` | holds |
| `planning` | matrix of 1 week, 2 templates, 1 row, 2 coordinators, 3 edits; 2 planners, 2 cycles, templates, syllabi, 4 operations; 2 topics, 3 catalog calls, 1 fault; 2 courses over 3 subtopics, 4 questions, 2 weeks, 2 generations | Does the plan stay consistent, and are the questions those asked for and new? `OvershootBounded`, `MatrixShowsStored`, `TemplatesOfOwnCycle`, `WeeksMatchCycle`, `OrphansAreLate`, `ServedSinceBump`, `PlanAsConfigured`, `NoRepetition` | holds |
| `screens` | 2 requests with 3 slots, 3 questions; 2 cycles on the board, 2 clicks, 1 failed request; 2 courses, 3 syllabi, batches of 1, 2 attempts, 1 fault; 3 cycles in pages of 1, 5 moves (failed answers included), 1 change by others | Do the screens, the weeks they show as generated and the lists follow the server? `ApprovedAsShown`, `ScreensCatchUp`, `EveryWeekMarked`, `SyllabiOfSelection`, `ScrollSettles` | holds |
| `webhook_success` | as `webhook`, 1 PDF | `SuccessIsAuthoritative` | violated |
| `webhook_deadlock` | as `webhook`, 1 PDF | `ParentLockSerializes` | violated |
| `merge_race` | as `webhook`, 1 PDF, 1 merge job | `CombinedPdfProduced` | violated |
| `curation` | 1 request, 2 administrators, 2 edits | `NoLostCuration` | violated |
| `regenerate` | 2 requests, 1 course | `UsagesCleanedUp` | violated |

`webhook` and `review` also check a type invariant.

What the violated properties show (each quotes a comment of the code):

* `webhook_success`. The guard reads the course without a lock. A `failed` report
  that passed it before a `completed` one committed overwrites the success. It takes
  two jobs for one course, which the sweep creates for a request that is only slow.
* `webhook_deadlock`. Two successful callbacks of one request hold FOR KEY SHARE
  from their ledger insert and both ask for FOR UPDATE. PostgreSQL aborts one after
  its deadlock timeout; the processor then reports that course `failed` and the job
  is retried. The result is right in the end, at the price of rendering again.
* `merge_race`. The merge job is consumed before the transaction that sent it
  commits, sees fewer than two completed courses and returns. No other job is sent.
* `curation`. Two administrators open the review at the same time; both read
  REVIEW_REQUIRED at version 1. The first save makes it 2. The second one re-reads,
  finds its entity at version 1, and writes 1 back. The second administrator's draft
  makes it 2 again, and the first one's screen, which shows 2, may now overwrite it.
  This rests on the TypeORM assumption above.
* `regenerate`. A job of the earlier attempt inserts its usage rows after the new
  attempt has deleted them; they stay, and exclude questions from later materials.

### Exceptions the properties state

Several properties hold only up to something the code does not exclude. The
exception is a history variable of the module, so that it covers that case and no
other, and it says where the code is weak:

* `AdminKept`: two deletions each counted the other's administrator (`overlapped`).
* `NoInheritanceCycle`: a save wrote back an inheritance its payload did not submit
  (`writtenBack`); such a call takes no advisory lock. `Confined`: a save wrote back
  permissions or an inheritance its payload did not submit. A role that was stripped of
  a permission and then assigned gets it back from an overlapping rename.
* `EveryWeekMarked`: an archived and an active syllabus of one course (`Twins`). The
  listener looks a syllabus up without `is_active`.
* `ServedSinceBump`: the version was lost, unreadable, or used twice
  (`bumped.lapsed`). Version 0 is then used again, which the comment at
  `catalogs/catalog.use-case.ts:55` rules out only for timestamps.
* `OneDefault`, `UrlHasObject`: calls that overlapped or failed (`disturbed`);
  at most one default holds without exception, thanks to the index.
* `NoSilentOrphan`, `AdminBeforeService`: a death of the process, a second stall, a
  failed suspension, a save of a stale row, a re-enqueued job without credentials
  (`causes`).
* `WeeksMatchCycle`: updates of one cycle that overlapped (`collided`).
  `OrphansAreLate`: dependants inserted after the count (`late`).
* `MatrixShowsStored`: requests for one input that overlapped, or an edit that
  overlapped a load, a lost answer, another coordinator (`blurred`). The load is an
  exception of its own: a refused delete puts its row back at its old index
  (`features/syllabus/store/index.ts:125`), into the rows of another template if their
  load was answered in between, and the input does not look at the template.
  So is the template that the syllabus has already: picking it loads nothing
  (`SyllabusDistributionMatrix.vue:64`), and after an opening with another template the
  rows of that one stay in the store while the inputs and the edits are for the saved one.
  A load that is lost, or is never sent because `setTemplate` or the templates failed,
  leaves the matrix like that too.
  `SyllabiOfSelection`: a selection made while the guard was held, or a fetch while
  another was in flight (`page.overlap`), and a last fetch that failed (`page.failed`),
  which leaves the list of the cycle before under the new selection.
  `ScrollSettles`: pages shifted by others (`shifted`).
* `PlanAsConfigured`: a zero among counts typed by hand. The defaults of
  `generate-material.use-case.ts:226` replace it; the sum still holds.
* `NoRepetition` is about a generation that read the ledger after the other was in
  it: two that overlap may print the same question. So may a retry of the other one, after
  the catalog moved its topics, with exclusions that were read earlier (`redrawn`).
* `SignedOutOnlyWhenRevoked`: a `fetchMe` that got no decision of the server, because its
  answer was lost or the guard's read of the database failed (`web[s].unserved`). The
  store takes either for a refusal, so the user is sent to the login page with a live
  cookie (`frontend-vue/src/stores/auth.store.ts:126`, `auth/auth.guard.ts:116`).
* `PasswordChangeEndsSessions`: the row holds an older instant than one committed before
  (`latest`), which is described below; a stamp that failed; a login that read the
  account before the change and signed after it.
* `RevocationCovers`: another change committed between the read of the holders and the
  save.

Disagreements with the documentation met while modelling, for which there is no run:
"A changed password must invalidate every session minted under the old one"
(`auth/auth.service.ts:460`), but `revokeUserTokens` reads the clock and then sends an
UPDATE that does not compare (`:567`). A reset of the password reads the clock; the user
signs in with the new password and changes it, which stamps a later instant; then the
reset's UPDATE lands and sets `tokens_valid_after` back to before that login, whose token
passes the guard until it expires or the next revocation comes. A logout beside the
change does the same. The trace is in the instance of `sessions`, for the invariant
`EveryChangeEndsSessions` of `AuthState`; `PasswordChangeEndsSessions` is that invariant
with this exception. The roll-up of a generation with warnings moves a request from PROCESSING to
REVIEW_REQUIRED, a transition that `specs/004-generacion-revision-materiales/spec.md:127`
does not have. The collector only ever writes the current month
(`admin/dashboard/consumption-metrics.cron.ts:79`), so what is used after its last
run of a month is in no row, ever, although `specs/008-tenant-subscriptions/spec.md:87` (SC-002) allows the
dashboard a delay of one hour.
The nightly generation sends `courses: []` (`materials/materials.cron.ts:511`), which
the use case refuses.

### Bounds

The invariants of these instances are proved for every size (section 5); the bounds
matter for liveness and for the runs that expect a violation.

`webhook`: two handlers and two courses are the smallest instance in which last
callbacks of different courses, and repeated callbacks of one course, overlap;
handlers are reused, so the number of callbacks is not bounded. The merge guard and
the roll-up need two courses.

`recovery` needs two courses so that a failed course can strand another one of its
batch, and two slots so that a redispatched job runs beside the original. Its
renderings succeed with warnings or fail: a success without warnings takes the same
steps. `review` needs two administrators for stale screens and two attempts for a
retry; its fault is a crash or an infrastructure error at any step.

`tenants`: two workers for the second execution of a stalled job, two migrations for
a partly migrated schema, a second tenant for lists of the wrong tenant, a month of
two hours so that a run can start in one month and end in the next, five clicks for a
create, an edit and a delete by two designers. `sessions`: two ticks a
second, for a login before and after a stamp in the same second; two processes for
a local tier that the drop does not reach, with one fault; two changes of the account,
for revocations that overlap and land in the other order. Logouts revoke without
changing it and are not bounded. Both at once is out of TLC's reach: the run restricts
the second process and the faults to behaviours with one change (`OneChange`) and two
changes to one process without faults (`OneProcess`); the theorems have neither limit.
Two roles, one that may be
created and the system role for a cycle, a parent that is removed before the save, and
a grant too many; three calls for one that changes the graph between the read and the
save of another. `planning`: a limit of 2 and two cells of 2, one in each template, for an
overshoot; three edits, loads included, for a row, an overlap and another template; four operations for clone, rename, delete, clone; quotas of up to 3 over 2 subtopics for a
remainder and a fallback of levels; two weeks for the recycling of the earlier one.
`screens`: four moves for remove, reload, restore, approve; a batch of one of two
unmarked weeks makes the sweep leave one out, a third syllabus makes twins;
pages of one for a list that takes three requests; five moves for two selections, a
failure and a fetch beside them.

`MaxFaults`, `MaxEdits`, `MaxRounds`, and the other constants named Max..., bound how
often an environment action happens, never what it does. Clocks (`MaxTicks`,
`MaxHour`, `MaxCatalogClock`) stop at their bound. The runs but `webhook`,
`merge_race`, `webhook_success` and `webhook_deadlock` do not check for deadlock:
when every bound is used up and every call is answered, nothing is left to do.

### Fairness

Weak fairness only, and never of people, of generations, or of faults.

* `Fairness` of `MaterialLifecycle`: dispatch after a commit (the loop that follows
  it), the worker's next step (BullMQ hands out waiting jobs and the handler goes on),
  the passing of time, and the sweep with a successful bump (a cron that fires every
  15 minutes; failures of it are faults, and `MaxFaults` bounds them).
  `EveryCourseFinishes` is checked with direct generation: an administrator may
  approve again for ever, and a stale save of the review screen may set a course back
  to PENDING.
* `MarkFairness`: time, and the sweep, whose run is one loop (`SweepStep`).
  None of the event or its listener, which may be lost.
* `TenantFairness`: executions go on, jobs are taken, an operator's call that was
  begun ends, a lookup fills the cache, the cache's TTL passes (`SuspensionEnforced`).
* `WebFairness`: requests and revocations that were begun end, TTLs pass
  (`RevocationTakesEffect`).
* `ScreensFairness`: a page that was asked for is served and its answer handled.
* `BoardFairness`: the polls of open screens fire (`setInterval`), requests are
  served and heard. Each kind of request has its own fairness; failures are bounded.

## 5. Proofs

TLAPS checks the theorems below for every value of the constants that satisfies the
module's assumptions. Each invariant a run checks is a theorem. A theorem named
`...Invariant` states the inductive invariant of a specification; it was checked by TLC
on a small instance before it was proved, and the properties follow from it. Under
every such theorem there is one lemma per action.

| Module | About | Theorems |
|---|---|---|
| `MaterialWebhookProofs` | `MaterialWebhook` | `TypeCorrect`, `RollUpIsExact`, `MergeIsOnce`, `LedgerFollowsPdf`, `EventsHavePdf`, `Refinement` |
| `MaterialLifecycleProofs` | `MaterialLifecycle` | `LifecycleInvariant`, `LifecycleTyped`, `GateHolds`, `ProcessingIsBacked` |
| `PlanningProofs` | `AcademicPlan` | `PlanInvariant`, `ReferencesAreOwn`, `WeeksAreDerived`, `DeletionsLeaveNothing` |
| | `Catalogs` | `CatalogInvariant`, `AnswersKnowTheBump` |
| | `QuestionPlan` | `QuestionsInvariant`, `QuestionsAreNew`, `ConfiguredInvariant`, `PlansAreAsConfigured` |
| `ScreenProofs` | `PlanScreens` | `SyllabiInvariant`, `SelectionIsShown` |
| | `ReviewScreen` | `ReviewInvariant`, `ApprovalsAsShown` |
| | `SyllabusMatrix` | `MatrixInvariant`, `OvershootIsBounded`, `ShownInvariant`, `CellsShowWhatIsStored` |
| `AccessProofs` | `AuthState`, `WebSession` | `SessionInvariant`, `FreshTokensPass`, `ChangesEndSessions`, `SignedOutForAReason` |
| | `RoleGraph` | `RolesInvariant`, `InheritanceStaysAcyclic`, `ManagersStayConfined`, `RevocationReachesHolders` |
| `TenantLifecycleProofs` | `TenantLifecycle` | `TenantInvariant`, `ServedAreBuilt`, `MigrationsOnce`, `AdministratorFirst`, `OrphansAreExplained` |
| `PlatformProofs` | `TenantConsole` | `ConsoleInvariant`, `AdministratorKept` |
| | `PdfDesign` | `DesignInvariant`, `DefaultIsUnique`, `UrlsResolve`, `UpdatesKeepUntouched` |
| | `ConsumptionMetrics` | `MetricsInvariant`, `DashboardStaysTruthful` |
| `NumberFacts` | least elements, induction over naturals and finite sets, sums | lemmas only |

`ApprovalsAsShown`, `UpdatesKeepUntouched`, `RevocationReachesHolders` and
`QuestionsAreNew` are action properties or relate a state to an earlier one through
history variables; `Refinement` is an implementation of an abstract specification.

### Assumptions

Every `ASSUME` says something the code, its schema or its seed establishes.

* `WebhookAssumption`: finitely many courses, at least one; `NoPdf` and `Nobody` are
  no PDF and no handler. `LifecycleAssumption`: at least one course (a
  generation without courses is refused).
* `RoleAssumption`, `FirstGraph`: finitely many roles, and the inheritance the
  migrations seed has no cycle. `AuthAssumption`: a second has at least one tick.
* `TenantAssumption`: finitely many jobs; a deployment is no worker. `ConsoleAssumption`:
  finitely many people; every tenant has an administrator at the start.
  `DesignAssumption`: finitely many designs, at least one, of which at most one is the
  default at the start. `MetricsAssumption`: finitely many clients.
* `MatrixAssumption`: finitely many coordinators, a limit of at least one question.
* `PlanAssumption`: `Nil` is no cycle and no template. `CatalogAssumption`: finitely
  many topics. `ScreenAssumption`, `QuestionAssumption`, `ReviewAssumption`: the initial
  rows have their types; slots belong to one request.
* `StoredAssumption`: the counts of a template stored at the start add up, as
  `validateAndMapCourses` refuses the rest (`academic-time/academic-time.use-case.ts:349`),
  and one that calls itself distributed is; the subtopics of a course come in an order.

### Arguments

**Callbacks.** `RollUpExact` and `ExactlyOneMerge` are not inductive: they depend on
what a transaction has read before it commits. `IInv` adds `LockOwner` (a handler is
past the parent lock exactly when it holds it), `HasReport`, `FreshParent`
(`previousParentStatus` is still the committed status) and `FreshRollUp` (what is about
to be committed is the roll-up of the rows as they will be). The lock makes them
stable: only `Commit` changes committed rows and the committing handler owns the lock,
so nobody else is between its parent read and its commit. Ledger and events have an
invariant of their own on top (`DInv`), since they do not depend on the parent lock.
`Refinement`: `Commit` is the report of `CourseRollUp`, every other step stutters.

**Life of a material.** `ReviewGate` speaks of urls and statuses; what makes it
inductive is everything that could bring one about. `NothingStarted` says that as
long as a request is not approved, nothing of it is in the queue, in a job, in a
course row, or in the rows a screen has read and may save back. `Processed`
and `Followed` carry `NoOrphanProcessing`. The run `recovery` checks that property
with no administrators; the theorem has any number of them.

**Questions.** `NoRepetition` compares two generations through what each of them
found in the ledger. `QuestionIInv` says that the rows of a generation stand together
in the ledger or not at all, that its questions avoid what it excluded, and that what
it excluded covers every generation it saw there.

`PlanAsConfigured` is arithmetic. The subtopics share the questions of a course as evenly
as possible, and each takes its share from the levels where the one before it has stopped.
Where a subtopic starts is a recursive function; `ShareIs` shows that it is the closed
form `Before`, by induction on the subtopics. So the shares lie one behind the other
(`SharesAddUp`), the pairs of a subtopic and a place in its share are as many as the
places in the order of the levels, and those of one level are as many as the level's
count (`SlotsOfLevel`, with the cardinality of a bijection). What is left is that the
defaults change neither counts that were distributed nor positive ones (`LevelsAsAsked`),
and that stored counts add up at any time (`ConfiguredIInv`).

**Review in a browser.** The optimistic version is what an approval depends on:
`ReviewIInv` says that slots that were read with a version, by a screen or by an
answer still on its way, are those of the row while the row has that version.

**Academic time.** `PlanIInv` says of every transaction in flight what of its read
still holds (`UpdateCurrent`), and that a syllabus that is not there neither refers to
anything nor is referred to; without that a new syllabus in its place would inherit
foreign templates.

**Catalogs.** A call is to know every write before the last bump that precedes its
read. That revision of the catalog is the call's `floor`. `CachesFit` says that a call
that still holds the current version has the last bump as its floor, that every entry
cached under the version it holds is at least as new as its floor, and that calls with
the same version have the same floor; `CacheFollowsBump` says the same of the current
version, and that no entry has a version that was never used.

**Matrix of a syllabus.** A week may hold more than its limit because the check and the
write are two transactions, so the bound has to follow the writes that are past their
check. `WeeksBounded` says that for every week and every part of these writes, what the
rest of the week holds and what this part will write is at most the peak of the overlap
times the limit. A check adds a writer, and what it found plus its own value is within
the limit; a commit turns a write into a row and leaves the sum alone; a delete only
takes away. An update replaces the row of its id, so `IdsStand` has to say that an id
belongs to one cell, in the table, in what any page shows and in every request, and that the id of a
pending insert is nowhere else yet.

`MatrixShowsStored` is about inputs at rest; `ShownIInv` says what leads back to rest. An
input rests and shows what is stored (`Resting`), or is part of a template that one load
is fetching (`Loading`), or has one request of its own in flight (`Saving`), or overlaps
have cost it its promise (`blurred`). A request that is alone determines both what
the input shows and what is stored, before and after its commit (`Holds`), so that either
answer, the confirmation or the roll back, ends at rest (`AnswerSettles`). The other
inputs are left alone because a roll back finds its row by the id, and an id belongs to
one cell (`IdsStand`); the unique index of the table makes the row of a cell the only
one (`OneRowPerCell`).

**Page of the syllabi.** `SyllabiIInv`: the guard of the watcher is only held while the
templates or a fetch it started are awaited, a fetch that is alone is for the cycle that
is selected, and the modal clones what is selected. A selection finds the guard free or
counts as an overlap, so a fetch that is heard last without one decides what is shown.

**Sessions.** `SessionIInv`: nothing is ahead of the clock; the row, every cache tier and
every request hold instants up to `latest`, the latest that was committed, and not
`account.validAfter`, which may go back; and a token signed before a change is not newer
than `latest`, or a revocation is under way whose instant it is not newer than, or that
has yet to read the clock (`StampDue`). When nothing is under way this speaks of `latest`
alone, and of the row as long as it holds `latest`.

**Roles.** The ancestors the code computes with a recursive query are a recursive
function here. `AncestorsClosed` and `AncestorsLeast` (the least set that contains the
seeds and is closed under inheritance) are proved once, by induction on the rounds, and
replace the recursion everywhere else. `CycleInv` holds because whoever is between the
advisory lock and its save owns the lock, so the graph the guard saw is the graph it
extends. `ConfinedInv` finds a set of roles that is closed under inheritance, contains
what managers hold and adds nothing to it. `HitInv` covers the holders a call has read.

**Tenants.** `TenantIInv` follows an execution of a job through its steps: what `WorkAt`
says at each of them is what the schema has by then. `NoDuplicateMigration` needs that
the list of pending migrations is read under the schema lock and stays exact while it
is held. `ServedInv`, `AdminInv` and `OrphanInv` are conjuncts of it, one for each
property, each of them about stale rows too (the cache, the lookups, the operators' saves).

**Console.** `Counted`: until two deletions have been between count and update at
once, every tenant has an administrator, and whoever has counted is alone and would
still count enough.

**Designs.** `DesignIInv` relates the rows, the objects in S3 and every transaction in
flight: as long as nothing overlapped or failed, a transaction works on the committed
row (`Alone`), and the bucket is ahead of the row (`Uploaded`): an upload is there before
the row names it, an image is gone before the row forgets it only while the call that
removed it runs. `Shows` relates the form to what it loaded; it is what
`UpdatesKeepUntouched` needs.

**Consumption.** `MetricsIInv`: every measurement a collector holds and every stored
one is at most what was used in its month, or at most the peak of the users. A use
only adds to a month and the months share no hour, so the sum over the months of a
range is at most what was used in all of them (`TotalCovered`). The sums are
`MapThenSumSet` of an expression, which unfolds to the function that the fold chooses;
`NumberFacts` shows that such a function exists and that there is only one.

**Induction.** The library's induction theorems take an operator as a parameter.
`NumberFacts` therefore derives a least element of every non-empty set of naturals and
a smallest subset of every finite set from `FS_StrictSubsetOrderingWellFounded` and
`WFMin`, which take none, and from them an induction for sets. It serves the walk over
the roles, the migrations and the sums.

### Only model-checked

* Liveness, which is out of the prover's reach: `EveryCourseFinishes`,
  `EveryWeekMarked`, `SuspensionEnforced`, `RevocationTakesEffect`, `ScrollSettles`,
  `ScreensCatchUp`.
* The modules `MaterialMerge`, `GeneratedWeeks` and `MaterialBoard`, and the list of
  the cycles in `PlanScreens`: what is checked of them is liveness or a violation.
* The properties of the runs that expect a violation.

## 6. Not modelled

* Question contents, rendering, signing of urls, uploads (an outcome per course), the
  PDFs' file names, billing columns of a course, notifications, HTTP validation, the
  callback's "no such course" early return (courses are never deleted in the model).
* The nightly generation: its calls are refused, so it changes nothing.
* The job of an approved review whose topics were moved meanwhile: it carries no
  excluded questions (`materials/processors/pdf-generation.processor.ts:542`).
  `QuestionPlan` follows direct generations, with the draws of their retries; the usage
  rows of a generation are reported for the whole request at once.
* Rendering (`pdf-generator.service.ts`), onboarding, health, metrics, S3 and GCS
  adapters: reads, layout and I/O.
* Layout, dialogs, notifications and previews of the client's components; a page is
  modelled where it keeps state that can disagree with the server's.
* The reentrancy of `TenantService.runInTenant`, whose nested calls join the outer
  transaction: every modelled call opens its own.
* The lock order of an approval against a callback: its abort is an outcome
  (`ReportThrows`), not a cycle of locks.
