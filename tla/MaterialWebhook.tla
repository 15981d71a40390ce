--------------------------- MODULE MaterialWebhook --------------------------
(***************************************************************************)
(* HandleMaterialWebhookUseCase.execute: the transaction that applies a    *)
(* per-course report of the PDF worker, one action per statement that      *)
(* other transactions can interleave with, for the courses of one          *)
(* MaterialRequest.  Handlers are concurrent invocations (jobs of several  *)
(* worker replicas, a redispatched job beside the original one).  The      *)
(* consumer of the merge-pdf job it sends is in MaterialMerge.             *)
(*                                                                         *)
(* Database: READ COMMITTED PostgreSQL.  The variables course, pdf,        *)
(* ledger, unrecorded, request and material are the COMMITTED rows; what   *)
(* an open transaction has written is in the handler's own variables.  Row *)
(* locks are explicit: an UPDATE of a course row locks it to the end of    *)
(* the transaction, an INSERT into the usage ledger takes FOR KEY SHARE on *)
(* the parent request (foreign key), and the parent is read FOR UPDATE,    *)
(* which conflicts with another transaction's FOR KEY SHARE.               *)
(***************************************************************************)
EXTENDS MaterialStatus

CONSTANTS Courses,      \* course rows of the request
          Handlers,     \* concurrent invocations of execute
          Pdfs,         \* question lists a generated PDF can have
          NoPdf,        \* no PDF reported yet
          Nobody        \* a row lock that is free

ASSUME WebhookAssumption ==
    /\ NoPdf \notin Pdfs
    /\ Nobody \notin Handlers
    /\ Courses # {}
    /\ IsFiniteSet(Courses)

VARIABLES
    course,       \* committed status of each course row
    pdf,          \* committed artifact columns: the PDF last reported
    ledger,       \* committed material_question_usage rows, by PDF
    unrecorded,   \* courses whose last success committed without usage rows
    request,      \* committed MaterialRequest.status
    material,     \* committed Material.status
    merges,       \* observer: merge jobs of committed roll-ups, see Commit
    generated,    \* courses for which material.course.generated was emitted
    pc,           \* next statement of each handler
    cb,           \* the report a handler is applying
    prev,         \* previousParentStatus, "none" before it is read
    wrote,        \* the handler's ledger write stands in its transaction
    outcome,      \* request status the transaction writes, "none" if it does not
    sent,         \* the transaction has added a merge-pdf job
    courseLock,   \* course -> handler holding its row lock
    keyShare,     \* handlers holding FOR KEY SHARE on the request row
    parentLock    \* handler holding FOR UPDATE on the request row

rows  == <<course, pdf, ledger, unrecorded, request, material>>
local == <<cb, prev, wrote, outcome, sent>>
locks == <<courseLock, keyShare, parentLock>>
vars  == <<rows, merges, generated, pc, local, locks>>

Reports == [course : Courses, status : Success, pdf : Pdfs]
             \cup [course : Courses, status : {"EMPTY_BANK", "FAILED"}, pdf : {NoPdf}]

NoReport == [course |-> Nobody, status |-> "none", pdf |-> NoPdf]

Steps == {"idle", "read", "update", "ledger", "lock", "rollup", "commit", "emit"}

TypeOK ==
    /\ course \in [Courses -> CourseStatus]
    /\ pdf \in [Courses -> Pdfs \cup {NoPdf}]
    /\ ledger \in [Courses -> SUBSET Pdfs]
    /\ unrecorded \subseteq Courses
    /\ request \in RequestStatus
    /\ material \in RequestStatus
    /\ merges \in Nat
    /\ generated \subseteq Courses
    /\ pc \in [Handlers -> Steps]
    /\ cb \in [Handlers -> Reports \cup {NoReport}]
    /\ prev \in [Handlers -> RequestStatus \cup {"none"}]
    /\ wrote \in [Handlers -> BOOLEAN]
    /\ outcome \in [Handlers -> {"none", "FAILED"} \cup RolledUp]
    /\ sent \in [Handlers -> BOOLEAN]
    /\ courseLock \in [Courses -> Handlers \cup {Nobody}]
    /\ keyShare \subseteq Handlers
    /\ parentLock \in Handlers \cup {Nobody}

\* A request whose jobs have just been dispatched (direct generation, or an
\* approved review): every course row is PROCESSING.
Init ==
    /\ course = [c \in Courses |-> "PROCESSING"]
    /\ pdf = [c \in Courses |-> NoPdf]
    /\ ledger = [c \in Courses |-> {}]
    /\ unrecorded = {}
    /\ request = "PROCESSING"
    /\ material = "PROCESSING"
    /\ merges = 0
    /\ generated = {}
    /\ pc = [h \in Handlers |-> "idle"]
    /\ cb = [h \in Handlers |-> NoReport]
    /\ prev = [h \in Handlers |-> "none"]
    /\ wrote = [h \in Handlers |-> FALSE]
    /\ outcome = [h \in Handlers |-> "none"]
    /\ sent = [h \in Handlers |-> FALSE]
    /\ courseLock = [c \in Courses |-> Nobody]
    /\ keyShare = {}
    /\ parentLock = Nobody

-----------------------------------------------------------------------------
\* The course row the handler works on, and the sibling rows as its own
\* transaction reads them: committed rows, plus what it has itself written.
Target(h)   == cb[h].course
Siblings(h) == [course EXCEPT ![Target(h)] = cb[h].status]

\* The end of a transaction, committed or not: locals and locks are dropped.
Release(h, step) ==
    /\ pc'     = [pc EXCEPT ![h] = step]
    /\ cb'     = IF step = "emit" THEN cb ELSE [cb EXCEPT ![h] = NoReport]
    /\ prev'    = [prev EXCEPT ![h] = "none"]
    /\ wrote'   = [wrote EXCEPT ![h] = FALSE]
    /\ outcome' = [outcome EXCEPT ![h] = "none"]
    /\ sent'    = [sent EXCEPT ![h] = FALSE]
    /\ courseLock' = [c \in Courses |-> IF courseLock[c] = h THEN Nobody
                                        ELSE courseLock[c]]
    /\ keyShare'   = keyShare \ {h}
    /\ parentLock' = IF parentLock = h THEN Nobody ELSE parentLock

\* PdfGenerationProcessor calls execute with a report: at-least-once, in any
\* order, for any course of the request (retries, redispatched jobs).
Receive(h, r) ==
    /\ pc[h] = "idle"
    /\ pc' = [pc EXCEPT ![h] = "read"]
    /\ cb' = [cb EXCEPT ![h] = r]
    /\ UNCHANGED <<rows, merges, generated, prev, wrote, outcome, sent, locks>>

\* The asymmetric idempotency guard, decided on an unlocked read.
ReadAndIgnore(h) ==
    /\ pc[h] = "read"
    /\ \/ course[Target(h)] \in Success
       \/ course[Target(h)] = cb[h].status
    /\ Release(h, "idle")
    /\ UNCHANGED <<rows, merges, generated>>

ReadAndGo(h) ==
    /\ pc[h] = "read"
    /\ course[Target(h)] \notin Success
    /\ course[Target(h)] # cb[h].status
    /\ pc' = [pc EXCEPT ![h] = "update"]
    /\ UNCHANGED <<rows, merges, generated, local, locks>>

\* UPDATE of the course row by id: waits for the row lock, then applies
\* whatever was committed meanwhile.
UpdateCourse(h) ==
    /\ pc[h] = "update"
    /\ courseLock[Target(h)] = Nobody
    /\ courseLock' = [courseLock EXCEPT ![Target(h)] = h]
    /\ pc' = [pc EXCEPT ![h] = IF cb[h].status \in Success THEN "ledger" ELSE "lock"]
    /\ UNCHANGED <<rows, merges, generated, local, keyShare, parentLock>>

\* DELETE + INSERT of the usage rows under SAVEPOINT usage_ledger.
WriteLedger(h) ==
    /\ pc[h] = "ledger"
    /\ parentLock = Nobody
    /\ keyShare' = keyShare \cup {h}
    /\ wrote' = [wrote EXCEPT ![h] = TRUE]
    /\ pc' = [pc EXCEPT ![h] = "lock"]
    /\ UNCHANGED <<rows, merges, generated,
                   cb, prev, outcome, sent, courseLock, parentLock>>

\* The write fails: ROLLBACK TO SAVEPOINT, which also drops the key share.
LedgerFails(h) ==
    /\ pc[h] = "ledger"
    /\ pc' = [pc EXCEPT ![h] = "lock"]
    /\ UNCHANGED <<rows, merges, generated, local, locks>>

\* Mutant: the parent is read without a lock.
ReadParent(h) ==
    /\ pc[h] = "lock"
    /\ prev' = [prev EXCEPT ![h] = request]
    /\ pc' = [pc EXCEPT ![h] = "rollup"]
    /\ UNCHANGED <<rows, merges, generated, cb, wrote, outcome, sent, locks>>

\* SELECT ... FOR UPDATE of the parent request; previousParentStatus.
LockParent(h) ==
    /\ pc[h] = "lock"
    /\ parentLock = Nobody
    /\ keyShare \subseteq {h}
    /\ parentLock' = h
    /\ prev' = [prev EXCEPT ![h] = request]
    /\ pc' = [pc EXCEPT ![h] = "rollup"]
    /\ UNCHANGED <<rows, merges, generated,
                   cb, wrote, outcome, sent, courseLock, keyShare>>

\* Mutant: every roll-up without a failed course sends a merge.
MergeAlways(h) ==
    /\ ~HasFailed(Siblings(h))
    /\ Cardinality(Courses) >= 2

\* Merge-once guard.
MustMerge(h) ==
    /\ ~HasFailed(Siblings(h))
    /\ Cardinality(Courses) >= 2
    /\ prev[h] \notin RolledUp

\* The sibling read and the roll-up.  materialsQueue.add happens here, inside
\* the transaction: the job is visible to workers before the commit.
NotAllFinished(h) ==
    /\ pc[h] = "rollup"
    /\ ~AllFinished(Siblings(h))
    /\ pc' = [pc EXCEPT ![h] = "commit"]
    /\ UNCHANGED <<rows, merges, generated, local, locks>>

RollUp(h) ==
    /\ pc[h] = "rollup"
    /\ AllFinished(Siblings(h))
    /\ outcome' = [outcome EXCEPT ![h] = FinalStatus(Siblings(h))]
    /\ sent' = [sent EXCEPT ![h] = MustMerge(h)]
    /\ pc' = [pc EXCEPT ![h] = "commit"]
    /\ UNCHANGED <<rows, merges, generated, cb, prev, wrote, locks>>

\* Mutant: the insert without the delete that should precede it.
UsageRowsAppended(h) ==
    IF wrote[h] THEN ledger[Target(h)] \cup {cb[h].pdf} ELSE ledger[Target(h)]

\* The usage rows of the course when the transaction commits: replaced by those
\* of the reported PDF, or left alone if the savepoint was rolled back.
UsageRows(h) == IF wrote[h] THEN {cb[h].pdf} ELSE ledger[Target(h)]

\* COMMIT: the transaction's writes become the committed rows.
Commit(h) ==
    /\ pc[h] = "commit"
    /\ course' = Siblings(h)
    /\ \/ /\ cb[h].status \in Success
          /\ pdf' = [pdf EXCEPT ![Target(h)] = cb[h].pdf]
          /\ ledger' = [ledger EXCEPT ![Target(h)] = UsageRows(h)]
          /\ unrecorded' = IF wrote[h] THEN unrecorded \ {Target(h)}
                           ELSE unrecorded \cup {Target(h)}
          /\ Release(h, "emit")
       \/ /\ cb[h].status \notin Success
          /\ UNCHANGED <<pdf, ledger, unrecorded>>
          /\ Release(h, "idle")
    /\ \/ /\ outcome[h] = "none"
          /\ UNCHANGED <<request, material, merges>>
       \/ /\ outcome[h] # "none"
          /\ request' = outcome[h]
          /\ material' = outcome[h]
          /\ merges' = IF outcome[h] = "FAILED" THEN 0
                       ELSE IF sent[h] THEN merges + 1 ELSE merges
    /\ UNCHANGED <<generated>>

\* Mutant: the event captured inside the transaction is emitted all the same.
RollbackAndEmit(h) ==
    /\ pc[h] \in {"lock", "rollup", "commit"}
    /\ cb[h].status \in Success
    /\ Release(h, "emit")
    /\ UNCHANGED <<rows, merges, generated>>

\* The transaction is rolled back: an error of a statement or of queue.add, a
\* lost connection, a crash of the process.  A job already added stays.
Rollback(h) ==
    /\ pc[h] \in {"read", "update", "ledger", "lock", "rollup", "commit"}
    /\ Release(h, "idle")
    /\ UNCHANGED <<rows, merges, generated>>

\* material.course.generated, emitted after the commit ...
Emit(h) ==
    /\ pc[h] = "emit"
    /\ generated' = generated \cup {Target(h)}
    /\ Release(h, "idle")
    /\ UNCHANGED <<rows, merges>>

\* ... or lost, because the process dies first.
LoseEvent(h) ==
    /\ pc[h] = "emit"
    /\ Release(h, "idle")
    /\ UNCHANGED <<rows, merges, generated>>

Next ==
    \/ \E h \in Handlers :
          \/ \E r \in Reports : Receive(h, r)
          \/ ReadAndIgnore(h)
          \/ ReadAndGo(h)
          \/ UpdateCourse(h)
          \/ WriteLedger(h)
          \/ LedgerFails(h)
          \/ LockParent(h)
          \/ NotAllFinished(h)
          \/ RollUp(h)
          \/ Commit(h)
          \/ Rollback(h)
          \/ Emit(h)
          \/ LoseEvent(h)

Spec == Init /\ [][Next]_vars

-----------------------------------------------------------------------------
\* The committed rows are always those of a serial execution of the reports
\* (abstract specification CourseRollUp), whatever the interleaving.
Abstract == INSTANCE CourseRollUp
              WITH course <- course, request <- request, merges <- merges
RefinesRollUp == Abstract!Spec

\* Whenever every committed course row is finished, the committed request and
\* its Material carry exactly the roll-up of those rows: no interleaving of
\* last callbacks leaves a finished request in PROCESSING or with the roll-up
\* of an older set of rows (execute, "serialize the parent roll-up").
RollUpExact ==
    AllFinished(course) => /\ request = FinalStatus(course)
                           /\ material = request

\* Merge-once guard: a request that is rolled up has been given one merge-pdf
\* job by the transaction that moved it there, and not a second one by a
\* concurrent or repeated last callback.
ExactlyOneMerge ==
    merges = IF request \in RolledUp /\ Cardinality(Courses) >= 2 THEN 1 ELSE 0

\* The usage ledger describes the PDF that was last reported, alone: the
\* delete-then-insert never mixes the rows of two attempts, and only a failed
\* savepoint leaves a success without its own rows.
LedgerMatchesPdf ==
    \A c \in Courses \ unrecorded :
        course[c] \in Success => ledger[c] = {pdf[c]}

\* The week is announced as generated only for a course whose success has been
\* committed, never on behalf of a transaction that rolls back.
GeneratedHasPdf == \A c \in generated : pdf[c] # NoPdf

\* "Success is AUTHORITATIVE ... nothing that arrives afterwards may undo that"
\* (execute, terminal-state guard): a committed success is not replaced by a
\* status that is not a success.
SuccessIsAuthoritative ==
    [][\A c \in Courses : course[c] \in Success => course'[c] \in Success]_course

\* "Taking a FOR UPDATE lock on the parent row forces them to serialize: the
\* second callback blocks here until the first commits": no two handlers wait
\* for each other at that statement.
ParentLockSerializes ==
    \A h1, h2 \in keyShare :
        pc[h1] = "lock" /\ pc[h2] = "lock" => h1 = h2
=============================================================================
