----------------------- MODULE MaterialWebhookProofs ------------------------
(***************************************************************************)
(* Proofs about MaterialWebhook for every set of courses, handlers and     *)
(* PDFs.  The inductive invariant says what the FOR UPDATE lock on the     *)
(* parent request gives a transaction: from the lock to the commit its     *)
(* snapshot of the parent and its sibling read stay true of the committed  *)
(* rows.                                                                   *)
(***************************************************************************)
EXTENDS MaterialWebhook, FiniteSetTheorems, TLAPS

\* A handler is between LockParent and Commit exactly when it holds the lock.
LockOwner ==
    \A h \in Handlers : pc[h] \in {"rollup", "commit"} <=> parentLock = h

\* A handler that is not idle applies a report of the contract.
HasReport == \A h \in Handlers : pc[h] # "idle" => cb[h] \in Reports

\* previousParentStatus is still the committed status of the parent.
FreshParent ==
    \A h \in Handlers : pc[h] \in {"rollup", "commit"} => prev[h] = request

\* What the transaction is about to commit is the roll-up of the rows as they
\* will be committed.
FreshRollUp ==
    \A h \in Handlers :
        /\ pc[h] # "commit" => outcome[h] = "none" /\ sent[h] = FALSE
        /\ pc[h] = "commit" =>
             /\ AllFinished(Siblings(h)) =>
                    /\ outcome[h] = FinalStatus(Siblings(h))
                    /\ sent[h] = MustMerge(h)
             /\ ~AllFinished(Siblings(h)) =>
                    outcome[h] = "none" /\ sent[h] = FALSE

IInv ==
    /\ TypeOK
    /\ LockOwner
    /\ HasReport
    /\ FreshParent
    /\ FreshRollUp
    /\ RollUpExact
    /\ ExactlyOneMerge

\* The roll-up is one of three request statuses.
LEMMA FinalStatusType ==
    ASSUME NEW f
    PROVE  FinalStatus(f) \in {"FAILED"} \cup RolledUp
BY DEF FinalStatus, RolledUp

\* The course statuses a report carries.
LEMMA ReportType ==
    ASSUME NEW r \in Reports
    PROVE  /\ r.course \in Courses
           /\ r.status \in Finished
           /\ r.status \in CourseStatus
           /\ r.pdf \in Pdfs \cup {NoPdf}
           /\ r.status \in Success => r.pdf \in Pdfs
BY WebhookAssumption DEF Reports, Finished, Success, CourseStatus

\* Dropping a transaction's locals and locks keeps their types.
LEMMA ReleaseType ==
    ASSUME TypeOK, NEW h \in Handlers, NEW step \in Steps, Release(h, step)
    PROVE  /\ pc' \in [Handlers -> Steps]
           /\ cb' \in [Handlers -> Reports \cup {NoReport}]
           /\ prev' \in [Handlers -> RequestStatus \cup {"none"}]
           /\ wrote' \in [Handlers -> BOOLEAN]
           /\ outcome' \in [Handlers -> {"none", "FAILED"} \cup RolledUp]
           /\ sent' \in [Handlers -> BOOLEAN]
           /\ courseLock' \in [Courses -> Handlers \cup {Nobody}]
           /\ keyShare' \subseteq Handlers
           /\ parentLock' \in Handlers \cup {Nobody}
BY DEF Release, TypeOK

\* Every step keeps every variable in its type.
LEMMA TypeStep ==
    ASSUME TypeOK, HasReport, [Next]_vars
    PROVE  TypeOK'
<1> USE DEF Steps
<1>1. ASSUME NEW h \in Handlers, NEW r \in Reports, Receive(h, r) PROVE TypeOK'
  BY <1>1 DEF TypeOK, Receive, rows, locks
<1>2. ASSUME NEW h \in Handlers, ReadAndIgnore(h) PROVE TypeOK'
  BY <1>2, ReleaseType DEF TypeOK, ReadAndIgnore, rows
<1>3. ASSUME NEW h \in Handlers, ReadAndGo(h) PROVE TypeOK'
  BY <1>3 DEF TypeOK, ReadAndGo, rows, local, locks
<1>4. ASSUME NEW h \in Handlers, UpdateCourse(h) PROVE TypeOK'
  BY <1>4 DEF TypeOK, UpdateCourse, rows, local
<1>5. ASSUME NEW h \in Handlers, WriteLedger(h) PROVE TypeOK'
  BY <1>5 DEF TypeOK, WriteLedger, rows
<1>6. ASSUME NEW h \in Handlers, LedgerFails(h) PROVE TypeOK'
  BY <1>6 DEF TypeOK, LedgerFails, rows, local, locks
<1>7. ASSUME NEW h \in Handlers, LockParent(h) PROVE TypeOK'
  BY <1>7 DEF TypeOK, LockParent, rows
<1>8. ASSUME NEW h \in Handlers, NotAllFinished(h) PROVE TypeOK'
  BY <1>8 DEF TypeOK, NotAllFinished, rows, local, locks
<1>9. ASSUME NEW h \in Handlers, RollUp(h) PROVE TypeOK'
  <2>1. FinalStatus(Siblings(h)) \in {"none", "FAILED"} \cup RolledUp
    BY FinalStatusType
  <2>2. MustMerge(h) \in BOOLEAN
    BY DEF MustMerge
  <2> QED
    BY <1>9, <2>1, <2>2 DEF TypeOK, RollUp, rows, locks
<1>10. ASSUME NEW h \in Handlers, Commit(h) PROVE TypeOK'
  <2>1. cb[h] \in Reports
    BY <1>10 DEF HasReport, Commit
  <2>2. /\ Target(h) \in Courses
        /\ cb[h].status \in CourseStatus
        /\ cb[h].status \in Success => cb[h].pdf \in Pdfs
    BY <2>1, ReportType DEF Target
  <2>3. course' \in [Courses -> CourseStatus]
    BY <1>10, <2>2 DEF Commit, Siblings, TypeOK
  <2>4. /\ pdf' \in [Courses -> Pdfs \cup {NoPdf}]
        /\ ledger' \in [Courses -> SUBSET Pdfs]
        /\ unrecorded' \subseteq Courses
    BY <1>10, <2>2 DEF Commit, UsageRows, TypeOK
  <2>5. /\ request' \in RequestStatus
        /\ material' \in RequestStatus
        /\ merges' \in Nat
        /\ generated' \subseteq Courses
    BY <1>10 DEF Commit, TypeOK, RequestStatus, RolledUp
  <2>6. \E step \in Steps : Release(h, step)
    BY <1>10 DEF Commit
  <2> QED
    BY <2>3, <2>4, <2>5, <2>6, ReleaseType DEF TypeOK
<1>11. ASSUME NEW h \in Handlers, Rollback(h) PROVE TypeOK'
  BY <1>11, ReleaseType DEF TypeOK, Rollback, rows
<1>12. ASSUME NEW h \in Handlers, Emit(h) PROVE TypeOK'
  <2>1. Target(h) \in Courses
    BY <1>12, ReportType DEF Emit, HasReport, Target
  <2> QED
    BY <1>12, <2>1, ReleaseType DEF TypeOK, Emit, rows
<1>13. ASSUME NEW h \in Handlers, LoseEvent(h) PROVE TypeOK'
  BY <1>13, ReleaseType DEF TypeOK, LoseEvent, rows
<1>14. CASE UNCHANGED vars
  BY <1>14 DEF TypeOK, vars, rows, local, locks
<1> QED
  BY <1>1, <1>2, <1>3, <1>4, <1>5, <1>6, <1>7, <1>8, <1>9, <1>10, <1>11,
     <1>12, <1>13, <1>14 DEF Next

\* What one handler owes the invariant after a step of its own.
Owes(h) ==
    /\ pc[h] \in {"rollup", "commit"} <=> parentLock = h
    /\ pc[h] # "idle" => cb[h] \in Reports
    /\ pc[h] \in {"rollup", "commit"} => prev[h] = request
    /\ pc[h] # "commit" => outcome[h] = "none" /\ sent[h] = FALSE
    /\ pc[h] = "commit" =>
         /\ AllFinished(Siblings(h)) =>
                /\ outcome[h] = FinalStatus(Siblings(h))
                /\ sent[h] = MustMerge(h)
         /\ ~AllFinished(Siblings(h)) => outcome[h] = "none" /\ sent[h] = FALSE

\* The transaction state of a handler that a step leaves alone.
Untouched(g) ==
    /\ pc'[g] = pc[g]
    /\ cb'[g] = cb[g]
    /\ prev'[g] = prev[g]
    /\ outcome'[g] = outcome[g]
    /\ sent'[g] = sent[g]
    /\ (parentLock' = g) <=> (parentLock = g)

\* The handlers' part of the invariant is Owes of each handler.
LEMMA OwesAll ==
    (\A h \in Handlers : Owes(h))
    <=> LockOwner /\ HasReport /\ FreshParent /\ FreshRollUp
BY DEF Owes, LockOwner, HasReport, FreshParent, FreshRollUp

\* A step of h that leaves the committed rows and the other handlers alone
\* preserves the invariant if h keeps what it owes.
LEMMA LocalStep ==
    ASSUME IInv, TypeOK', NEW h \in Handlers, UNCHANGED <<rows, merges>>,
           \A g \in Handlers \ {h} : Untouched(g),
           Owes(h)'
    PROVE  IInv'
<1>1. ASSUME NEW g \in Handlers \ {h} PROVE Owes(g)'
  <2>1. Owes(g)
    BY OwesAll DEF IInv
  <2>2. Siblings(g)' = Siblings(g) /\ Target(g)' = Target(g)
    BY DEF Untouched, Siblings, Target, rows
  <2>3. MustMerge(g)' = MustMerge(g)
    BY <2>2 DEF Untouched, MustMerge, HasFailed
  <2>4. /\ AllFinished(Siblings(g))' = AllFinished(Siblings(g))
        /\ FinalStatus(Siblings(g))' = FinalStatus(Siblings(g))
    BY <2>2 DEF AllFinished, FinalStatus, HasFailed, HasWarnings
  <2> QED
    BY <2>1, <2>3, <2>4 DEF Owes, Untouched, rows
<1>2. RollUpExact' /\ ExactlyOneMerge'
  <2>1. course' = course /\ request' = request /\ material' = material /\ merges' = merges
    BY DEF rows
  <2> QED
    BY <2>1 DEF IInv, RollUpExact, ExactlyOneMerge, AllFinished, FinalStatus,
                HasFailed, HasWarnings
<1>3. (\A g \in Handlers : Owes(g))'
  BY <1>1
<1>4. (LockOwner /\ HasReport /\ FreshParent /\ FreshRollUp)'
  BY <1>3 DEF Owes, LockOwner, HasReport, FreshParent, FreshRollUp
<1> QED
  BY <1>2, <1>4 DEF IInv

\* A handler that has just ended its transaction, or emits, owes only a report.
LEMMA ReleaseOwes ==
    ASSUME TypeOK, NEW h \in Handlers, NEW step \in {"idle", "emit"},
           Release(h, step), step = "emit" => cb[h] \in Reports
    PROVE  /\ Owes(h)'
           /\ \A g \in Handlers \ {h} : Untouched(g)
<1>1. \A g \in Handlers \ {h} : Untouched(g)
  BY WebhookAssumption DEF Release, Untouched, TypeOK
<1>2. /\ pc'[h] = step
      /\ parentLock' # h
      /\ outcome'[h] = "none"
      /\ sent'[h] = FALSE
      /\ step = "emit" => cb'[h] = cb[h]
  BY WebhookAssumption DEF Release, TypeOK
<1> QED
  BY <1>1, <1>2 DEF Owes

\* A step of one handler that commits nothing preserves the invariant.
LEMMA UncommittedStep ==
    ASSUME IInv, TypeOK', NEW h \in Handlers,
           \/ \E r \in Reports : Receive(h, r)
           \/ ReadAndIgnore(h) \/ ReadAndGo(h) \/ UpdateCourse(h)
           \/ WriteLedger(h) \/ LedgerFails(h) \/ LockParent(h)
           \/ NotAllFinished(h) \/ RollUp(h) \/ Rollback(h)
           \/ Emit(h) \/ LoseEvent(h)
    PROVE  IInv'
<1>0. Owes(h) /\ TypeOK /\ HasReport
  BY OwesAll DEF IInv
<1>1. ASSUME NEW r \in Reports, Receive(h, r) PROVE IInv'
  <2>1. Owes(h)' /\ \A g \in Handlers \ {h} : Untouched(g)
    BY <1>0, <1>1 DEF Receive, Owes, Untouched, TypeOK, locks
  <2> QED
    BY <1>1, <2>1, LocalStep DEF Receive
<1>2. CASE ReadAndIgnore(h) \/ Rollback(h) \/ Emit(h) \/ LoseEvent(h)
  <2>1. Release(h, "idle") /\ UNCHANGED <<rows, merges>>
    BY <1>2 DEF ReadAndIgnore, Rollback, Emit, LoseEvent
  <2>2. Owes(h)' /\ \A g \in Handlers \ {h} : Untouched(g)
    BY <1>0, <2>1, ReleaseOwes
  <2> QED
    BY <2>1, <2>2, LocalStep
<1>3. CASE ReadAndGo(h) \/ UpdateCourse(h) \/ WriteLedger(h) \/ LedgerFails(h)
  <2>1. Owes(h)' /\ \A g \in Handlers \ {h} : Untouched(g)
    BY <1>0, <1>3 DEF ReadAndGo, UpdateCourse, WriteLedger, LedgerFails, Owes,
                      Untouched, TypeOK, local, locks
  <2> QED
    BY <1>3, <2>1, LocalStep DEF ReadAndGo, UpdateCourse, WriteLedger, LedgerFails
<1>4. CASE LockParent(h)
  <2>1. Owes(h)' /\ \A g \in Handlers \ {h} : Untouched(g)
    BY <1>0, <1>4, WebhookAssumption DEF LockParent, Owes, Untouched, TypeOK, rows
  <2> QED
    BY <1>4, <2>1, LocalStep DEF LockParent
<1>5. CASE NotAllFinished(h)
  <2>1. Siblings(h)' = Siblings(h)
    BY <1>5 DEF NotAllFinished, Siblings, Target, rows, local
  <2>2. ~AllFinished(Siblings(h))'
    BY <1>5, <2>1 DEF NotAllFinished, AllFinished
  <2>3. \A g \in Handlers \ {h} : Untouched(g)
    BY <1>0, <1>5 DEF NotAllFinished, Untouched, TypeOK, local, locks
  <2>4. Owes(h)'
    BY <1>0, <1>5, <2>2 DEF NotAllFinished, Owes, TypeOK, rows, local, locks
  <2> QED
    BY <1>5, <2>3, <2>4, LocalStep DEF NotAllFinished
<1>6. CASE RollUp(h)
  <2>1. Siblings(h)' = Siblings(h) /\ prev' = prev
    BY <1>6 DEF RollUp, Siblings, Target, rows
  <2>2. /\ AllFinished(Siblings(h))'
        /\ FinalStatus(Siblings(h))' = FinalStatus(Siblings(h))
        /\ MustMerge(h)' = MustMerge(h)
    BY <1>6, <2>1 DEF RollUp, AllFinished, FinalStatus, HasFailed, HasWarnings,
                      MustMerge
  <2>3. \A g \in Handlers \ {h} : Untouched(g)
    BY <1>0, <1>6 DEF RollUp, Untouched, TypeOK, locks
  <2>4. /\ pc'[h] = "commit"
        /\ outcome'[h] = FinalStatus(Siblings(h))
        /\ sent'[h] = MustMerge(h)
    BY <1>0, <1>6 DEF RollUp, TypeOK
  <2>5. Owes(h)'
    BY <1>0, <1>6, <2>2, <2>4 DEF RollUp, Owes, rows, locks
  <2> QED
    BY <1>6, <2>3, <2>5, LocalStep DEF RollUp
<1> QED
  BY <1>1, <1>2, <1>3, <1>4, <1>5, <1>6

\* The commit: the lock makes the handler the only one with a roll-up in hand,
\* and its roll-up is that of the rows it commits.
LEMMA CommitStep ==
    ASSUME IInv, TypeOK', NEW h \in Handlers, Commit(h)
    PROVE  IInv'
<1>0. Owes(h) /\ TypeOK
  BY OwesAll DEF IInv
<1>1. /\ cb[h] \in Reports
      /\ parentLock = h
      /\ prev[h] = request
  BY <1>0 DEF Commit, Owes
<1>2. course' = Siblings(h)
  BY DEF Commit
<1>3. PICK step \in {"idle", "emit"} : Release(h, step)
  BY DEF Commit
<1>4. Owes(h)' /\ \A g \in Handlers \ {h} : Untouched(g)
  BY <1>0, <1>1, <1>3, ReleaseOwes
<1>5. ASSUME NEW g \in Handlers \ {h} PROVE Owes(g)'
  <2>1. Owes(g) /\ parentLock # g
    BY <1>1, OwesAll DEF IInv
  <2>2. pc[g] \notin {"rollup", "commit"}
    BY <2>1 DEF Owes
  <2> QED
    BY <1>4, <2>1, <2>2 DEF Owes, Untouched
<1>6. (LockOwner /\ HasReport /\ FreshParent /\ FreshRollUp)'
  BY <1>4, <1>5 DEF Owes, LockOwner, HasReport, FreshParent, FreshRollUp
<1>7. RollUpExact' /\ ExactlyOneMerge'
  <2>1. CASE AllFinished(Siblings(h))
    <3>1. /\ outcome[h] = FinalStatus(Siblings(h))
          /\ sent[h] = MustMerge(h)
      BY <1>0, <2>1 DEF Owes, Commit
    <3>2. outcome[h] \in {"FAILED"} \cup RolledUp /\ outcome[h] # "none"
      BY <3>1, FinalStatusType DEF RolledUp
    <3>3. request' = outcome[h] /\ material' = outcome[h]
      BY <3>2 DEF Commit
    <3>4. RollUpExact'
      BY <1>2, <3>1, <3>3 DEF RollUpExact, FinalStatus, HasFailed, HasWarnings
    <3>5. (outcome[h] = "FAILED") <=> HasFailed(Siblings(h))
      BY <3>1 DEF FinalStatus
    <3>6. merges' = IF outcome[h] = "FAILED" THEN 0
                    ELSE IF sent[h] THEN merges + 1 ELSE merges
      BY <3>2 DEF Commit
    <3>7. ExactlyOneMerge'
      BY <1>1, <3>1, <3>2, <3>3, <3>5, <3>6
         DEF ExactlyOneMerge, MustMerge, IInv, RolledUp
    <3> QED
      BY <3>4, <3>7
  <2>2. CASE ~AllFinished(Siblings(h))
    <3>1. outcome[h] = "none"
      BY <1>0, <2>2 DEF Owes, Commit
    <3>2. UNCHANGED <<request, material, merges>>
      BY <3>1 DEF Commit
    <3>3. ~AllFinished(course)'
      BY <1>2, <2>2 DEF AllFinished
    <3> QED
      BY <3>2, <3>3 DEF RollUpExact, ExactlyOneMerge, IInv
  <2> QED
    BY <2>1, <2>2
<1> QED
  BY <1>6, <1>7 DEF IInv

\* The invariant holds initially: nothing is finished, nothing is open.
LEMMA InitInv == Init => IInv
<1> SUFFICES ASSUME Init PROVE IInv
  OBVIOUS
<1>1. TypeOK
  BY WebhookAssumption
     DEF Init, TypeOK, Steps, CourseStatus, RequestStatus, NoReport
<1>2. ~AllFinished(course)
  BY WebhookAssumption DEF Init, AllFinished, Finished, Success
<1>3. RollUpExact /\ ExactlyOneMerge
  BY <1>2 DEF Init, RollUpExact, ExactlyOneMerge, RolledUp
<1>4. LockOwner /\ HasReport /\ FreshParent /\ FreshRollUp
  BY WebhookAssumption DEF Init, LockOwner, HasReport, FreshParent, FreshRollUp
<1> QED
  BY <1>1, <1>3, <1>4 DEF IInv

\* Every step preserves the invariant.
LEMMA NextInv == IInv /\ [Next]_vars => IInv'
<1> SUFFICES ASSUME IInv, [Next]_vars PROVE IInv'
  OBVIOUS
<1>1. TypeOK'
  BY TypeStep DEF IInv
<1>2. CASE Next
  <2>1. PICK h \in Handlers :
          \/ \/ \E r \in Reports : Receive(h, r)
             \/ ReadAndIgnore(h) \/ ReadAndGo(h) \/ UpdateCourse(h)
             \/ WriteLedger(h) \/ LedgerFails(h) \/ LockParent(h)
             \/ NotAllFinished(h) \/ RollUp(h) \/ Rollback(h)
             \/ Emit(h) \/ LoseEvent(h)
          \/ Commit(h)
    BY <1>2 DEF Next
  <2> QED
    BY <1>1, <2>1, UncommittedStep, CommitStep
<1>3. CASE UNCHANGED vars
  <2>1. UNCHANGED <<course, request, material, merges>>
    BY <1>3 DEF vars, rows
  <2>2. UNCHANGED <<pc, cb, prev, outcome, sent, parentLock>>
    BY <1>3 DEF vars, local, locks
  <2>3. RollUpExact' /\ ExactlyOneMerge'
    BY <2>1 DEF IInv, RollUpExact, ExactlyOneMerge, AllFinished, FinalStatus,
                HasFailed, HasWarnings
  <2>4. (LockOwner /\ HasReport /\ FreshParent)'
    BY <2>1, <2>2 DEF IInv, LockOwner, HasReport, FreshParent
  <2>5. ASSUME NEW h \in Handlers
        PROVE  /\ AllFinished(Siblings(h))' = AllFinished(Siblings(h))
               /\ FinalStatus(Siblings(h))' = FinalStatus(Siblings(h))
               /\ MustMerge(h)' = MustMerge(h)
    BY <2>1, <2>2 DEF Siblings, Target, MustMerge, AllFinished, FinalStatus,
                      HasFailed, HasWarnings
  <2>6. FreshRollUp'
    BY <2>2, <2>5 DEF IInv, FreshRollUp
  <2> QED
    BY <1>1, <2>3, <2>4, <2>6 DEF IInv
<1> QED
  BY <1>2, <1>3

\* The inductive invariant holds throughout.
THEOREM Invariance == Spec => []IInv
BY InitInv, NextInv, PTL DEF Spec

\* Every reachable state is well typed, whatever the interleaving of the
\* handlers of execute.
THEOREM TypeCorrect == Spec => []TypeOK
<1>1. IInv => TypeOK
  BY DEF IInv
<1> QED
  BY <1>1, Invariance, PTL

\* The FOR UPDATE lock on the parent does what its comment promises: no set of
\* concurrent last callbacks leaves a finished request without its roll-up.
THEOREM RollUpIsExact == Spec => []RollUpExact
<1>1. IInv => RollUpExact
  BY DEF IInv
<1> QED
  BY <1>1, Invariance, PTL

\* The merge-once guard holds for any number of courses and handlers.
THEOREM MergeIsOnce == Spec => []ExactlyOneMerge
<1>1. IInv => ExactlyOneMerge
  BY DEF IInv
<1> QED
  BY <1>1, Invariance, PTL

-----------------------------------------------------------------------------
\* The usage ledger and the announcement of a generated week rest on simpler
\* facts: what has a report in hand, and that an announcement follows a commit.
Announces ==
    \A h \in Handlers : pc[h] = "emit" => pdf[Target(h)] # NoPdf

DInv == LedgerMatchesPdf /\ GeneratedHasPdf /\ Announces

\* Only a handler whose report is a success announces.
LEMMA DataStep ==
    ASSUME IInv, TypeOK', DInv, [Next]_vars
    PROVE  DInv'
<1> USE DEF IInv
<1>1. ASSUME NEW h \in Handlers, Commit(h) PROVE DInv'
  <2>1. cb[h] \in Reports
    BY <1>1 DEF HasReport, Commit
  <2>2. /\ Target(h) \in Courses
        /\ cb[h].status \in Success => cb[h].pdf \in Pdfs
    BY <2>1, ReportType DEF Target
  <2>3. CASE cb[h].status \in Success
    <3>1. /\ pdf' = [pdf EXCEPT ![Target(h)] = cb[h].pdf]
          /\ ledger' = [ledger EXCEPT ![Target(h)] = UsageRows(h)]
          /\ unrecorded' = IF wrote[h] THEN unrecorded \ {Target(h)}
                           ELSE unrecorded \cup {Target(h)}
          /\ Release(h, "emit")
          /\ course' = Siblings(h)
          /\ generated' = generated
      BY <1>1, <2>3 DEF Commit
    <3>2. cb' = cb /\ pc' = [pc EXCEPT ![h] = "emit"]
      BY <3>1 DEF Release
    <3>3. cb[h].pdf # NoPdf
      BY <2>2, <2>3, WebhookAssumption
    <3>4. LedgerMatchesPdf'
      BY <2>2, <3>1 DEF LedgerMatchesPdf, DInv, UsageRows, Siblings, TypeOK
    <3>5. GeneratedHasPdf'
      BY <2>2, <3>1, <3>3 DEF GeneratedHasPdf, DInv, TypeOK
    <3>6. Announces'
      <4>1. ASSUME NEW g \in Handlers, pc'[g] = "emit"
            PROVE  pdf'[cb[g].course] # NoPdf
        <5>1. CASE g = h
          BY <5>1, <2>2, <3>1, <3>3 DEF Target, TypeOK
        <5>2. CASE g # h
          <6>1. pc[g] = "emit"
            BY <3>2, <4>1, <5>2 DEF TypeOK
          <6>2. cb[g].course \in Courses
            BY <6>1, ReportType DEF HasReport
          <6>3. pdf[cb[g].course] # NoPdf
            BY <6>1 DEF DInv, Announces, Target
          <6> QED
            BY <6>2, <6>3, <3>1, <3>3, <2>2 DEF TypeOK
        <5> QED
          BY <5>1, <5>2
      <4> QED
        BY <4>1, <3>2 DEF Announces, Target
    <3> QED
      BY <3>4, <3>5, <3>6 DEF DInv
  <2>4. CASE cb[h].status \notin Success
    <3>1. /\ UNCHANGED <<pdf, ledger, unrecorded, generated>>
          /\ Release(h, "idle")
          /\ course' = Siblings(h)
      BY <1>1, <2>4 DEF Commit
    <3>2. LedgerMatchesPdf'
      BY <2>2, <2>4, <3>1 DEF LedgerMatchesPdf, DInv, Siblings, TypeOK
    <3>3. GeneratedHasPdf' /\ Announces'
      BY <3>1 DEF GeneratedHasPdf, Announces, DInv, Target, Release, TypeOK
    <3> QED
      BY <3>2, <3>3 DEF DInv
  <2> QED
    BY <2>3, <2>4
<1>2. ASSUME NEW h \in Handlers, Emit(h) PROVE DInv'
  <2>1. /\ UNCHANGED rows
        /\ generated' = generated \cup {Target(h)}
        /\ Release(h, "idle")
        /\ pdf[Target(h)] # NoPdf
    BY <1>2 DEF Emit, DInv, Announces
  <2>2. LedgerMatchesPdf' /\ GeneratedHasPdf'
    BY <2>1 DEF LedgerMatchesPdf, GeneratedHasPdf, DInv, rows
  <2>3. Announces'
    BY <2>1 DEF Announces, DInv, Release, Target, rows, TypeOK
  <2> QED
    BY <2>2, <2>3 DEF DInv
<1>3. ASSUME UNCHANGED <<rows, generated>>,
             \A g \in Handlers : pc'[g] = "emit" => pc[g] = "emit" /\ cb'[g] = cb[g]
      PROVE  DInv'
  BY <1>3 DEF DInv, LedgerMatchesPdf, GeneratedHasPdf, Announces, Target, rows
<1>4. ASSUME NEW h \in Handlers, NEW r \in Reports, Receive(h, r) PROVE DInv'
  BY <1>3, <1>4 DEF Receive, TypeOK
<1>5. ASSUME NEW h \in Handlers,
             ReadAndIgnore(h) \/ Rollback(h) \/ LoseEvent(h)
      PROVE  DInv'
  <2>1. Release(h, "idle") /\ UNCHANGED <<rows, generated>>
    BY <1>5 DEF ReadAndIgnore, Rollback, LoseEvent
  <2> QED
    BY <1>3, <2>1 DEF Release, TypeOK
<1>6. ASSUME NEW h \in Handlers,
             \/ ReadAndGo(h) \/ UpdateCourse(h) \/ WriteLedger(h)
             \/ LedgerFails(h) \/ LockParent(h) \/ NotAllFinished(h) \/ RollUp(h)
      PROVE  DInv'
  <2>1. /\ UNCHANGED <<rows, generated, cb>>
        /\ \E s \in Steps \ {"emit"} : pc' = [pc EXCEPT ![h] = s]
    BY <1>6 DEF ReadAndGo, UpdateCourse, WriteLedger, LedgerFails, LockParent,
                NotAllFinished, RollUp, local, Steps
  <2> QED
    BY <1>3, <2>1 DEF TypeOK
<1>7. CASE UNCHANGED vars
  BY <1>3, <1>7 DEF vars, local
<1> QED
  BY <1>1, <1>2, <1>4, <1>5, <1>6, <1>7 DEF Next

\* Ledger and events are consistent in every reachable state.
LEMMA DataInvariance == Spec => []DInv
<1>1. Init => DInv
  BY DEF Init, DInv, LedgerMatchesPdf, GeneratedHasPdf, Announces, Success
<1>2. IInv /\ IInv' /\ DInv /\ [Next]_vars => DInv'
  BY DataStep DEF IInv
<1> QED
  BY <1>1, <1>2, Invariance, PTL DEF Spec

\* The ledger rows of a course are those of its last reported PDF, unless their
\* savepoint was rolled back.
THEOREM LedgerFollowsPdf == Spec => []LedgerMatchesPdf
<1>1. DInv => LedgerMatchesPdf
  BY DEF DInv
<1> QED
  BY <1>1, DataInvariance, PTL

\* Only a committed success with a PDF is announced to the rest of the program.
THEOREM EventsHavePdf == Spec => []GeneratedHasPdf
<1>1. DInv => GeneratedHasPdf
  BY DEF DInv
<1> QED
  BY <1>1, DataInvariance, PTL

-----------------------------------------------------------------------------
\* Only a commit changes what the abstract specification sees.
LEMMA SilentStep ==
    ASSUME [Next]_vars, ~ \E h \in Handlers : Commit(h)
    PROVE  UNCHANGED <<course, request, merges>>
<1>1. CASE UNCHANGED vars
  BY <1>1 DEF vars, rows
<1>2. CASE Next
  BY <1>2 DEF Next, Receive, ReadAndIgnore, ReadAndGo, UpdateCourse, WriteLedger,
     LedgerFails, LockParent, NotAllFinished, RollUp, Rollback, Emit, LoseEvent, rows
<1> QED
  BY <1>1, <1>2

\* A commit is one atomic report of the abstract specification.
LEMMA CommitIsReport ==
    ASSUME IInv, NEW h \in Handlers, Commit(h)
    PROVE  Abstract!Report(cb[h].course, cb[h].status)
<1>0. /\ AllFinished(course') <=> Abstract!AllFinished(course')
      /\ FinalStatus(course') = Abstract!FinalStatus(course')
      /\ RolledUp = Abstract!RolledUp
  BY DEF AllFinished, FinalStatus, HasFailed, HasWarnings, RolledUp, Finished,
         Success, Abstract!AllFinished, Abstract!FinalStatus, Abstract!HasFailed,
         Abstract!HasWarnings, Abstract!RolledUp, Abstract!Finished,
         Abstract!Success
<1>1. Owes(h) /\ TypeOK /\ ExactlyOneMerge
  BY OwesAll DEF IInv
<1>2. cb[h] \in Reports /\ prev[h] = request
  BY <1>1 DEF Commit, Owes
<1>3. course' = Siblings(h)
  BY DEF Commit
<1>4. course' = [course EXCEPT ![cb[h].course] = cb[h].status]
  BY <1>3 DEF Siblings, Target
<1>5. CASE ~AllFinished(Siblings(h))
  <2>1. outcome[h] = "none"
    BY <1>1, <1>5 DEF Owes, Commit
  <2>2. UNCHANGED <<request, merges>>
    BY <2>1 DEF Commit
  <2> QED
    BY <1>0, <1>3, <1>4, <1>5, <2>2 DEF Abstract!Report
<1>6. CASE AllFinished(Siblings(h))
  <2>1. /\ outcome[h] = FinalStatus(Siblings(h))
        /\ sent[h] = MustMerge(h)
    BY <1>1, <1>6 DEF Owes, Commit
  <2>2. outcome[h] \in {"FAILED"} \cup RolledUp /\ outcome[h] # "none"
    BY <2>1, FinalStatusType DEF RolledUp
  <2>3. /\ request' = outcome[h]
        /\ merges' = IF outcome[h] = "FAILED" THEN 0
                     ELSE IF sent[h] THEN merges + 1 ELSE merges
    BY <2>2 DEF Commit
  <2>4. (outcome[h] = "FAILED") <=> HasFailed(Siblings(h))
    BY <2>1 DEF FinalStatus
  <2>5. Cardinality(Courses) < 2 <=> ~(Cardinality(Courses) >= 2)
    BY FS_CardinalityType, WebhookAssumption
  <2>6. merges' = IF request' \notin RolledUp \/ Cardinality(Courses) < 2
                  THEN 0
                  ELSE IF request \in RolledUp THEN merges ELSE 1
    BY <1>1, <1>2, <2>1, <2>2, <2>3, <2>4, <2>5
       DEF ExactlyOneMerge, MustMerge, RolledUp
  <2>7. AllFinished(course') /\ request' = FinalStatus(course')
    BY <1>3, <1>6, <2>1, <2>3
  <2>8. merges' = IF request' \notin Abstract!RolledUp \/ Cardinality(Courses) < 2
                  THEN 0
                  ELSE IF request \in Abstract!RolledUp THEN merges ELSE 1
    BY <1>0, <2>6
  <2>9. Abstract!AllFinished(course') /\ request' = Abstract!FinalStatus(course')
    BY <1>0, <2>7
  <2>10. Cardinality(Courses) = Abstract!Cardinality(Courses)
    BY DEF Cardinality, Abstract!Cardinality, IsFiniteSet, Abstract!IsFiniteSet
  <2> QED
    BY <1>4, <2>8, <2>9, <2>10 DEF Abstract!Report
<1> QED
  BY <1>5, <1>6

\* The webhook transactions implement the abstract specification: to a reader of
\* the committed rows, reports are applied one at a time.
THEOREM Refinement == Spec => RefinesRollUp
<1>1. Init => Abstract!Init
  BY DEF Init, Abstract!Init
<1>2. IInv /\ [Next]_vars => [Abstract!Next]_(Abstract!vars)
  <2> SUFFICES ASSUME IInv, [Next]_vars PROVE [Abstract!Next]_(Abstract!vars)
    OBVIOUS
  <2>1. CASE \E h \in Handlers : Commit(h)
    <3>1. PICK h \in Handlers : Commit(h)
      BY <2>1
    <3>2. cb[h].course \in Courses /\ cb[h].status \in Abstract!Reported
      BY <3>1, ReportType DEF IInv, HasReport, Commit, Abstract!Reported,
         Abstract!Finished, Abstract!Success, Finished, Success
    <3> QED
      BY <3>1, <3>2, CommitIsReport DEF Abstract!Next
  <2>2. CASE ~ \E h \in Handlers : Commit(h)
    BY <2>2, SilentStep DEF Abstract!vars
  <2> QED
    BY <2>1, <2>2
<1> QED
  BY <1>1, <1>2, Invariance, PTL DEF Spec, RefinesRollUp, Abstract!Spec
=============================================================================
