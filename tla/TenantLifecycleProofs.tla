------------------------ MODULE TenantLifecycleProofs -------------------------
(***************************************************************************)
(* Proofs about TenantLifecycle for any number of workers, deployments,    *)
(* operators, requests, jobs and migrations.                               *)
(***************************************************************************)
EXTENDS TenantLifecycle, NumberFacts, TLAPS

Flags == {TRUE, FALSE}
Rows == [status : Statuses \cup {"NONE"}, isActive : BOOLEAN]
Jobs == [st : {"none", "waiting", "active", "done", "failed"}, creds : BOOLEAN,
         made : Nat, stalls : {0, 1}, by : Workers \cup {Free}]
Pcs == {"idle", "schema", "lock", "apply", "role", "admin", "activate", "drop", "suspend"}
Works == [pc : Pcs, job : ProvisionJobs \cup {0}, todo : SUBSET Migrations]
Operations == [pc : {"idle", "check", "save", "drop"},
               kind : Statuses \cup {"edit", "none"}, row : Rows]

TenantTypeOK ==
    /\ company \in Rows
    /\ creating \in {"idle", "plain", "admin", "done"} /\ asked \in BOOLEAN
    /\ built \subseteq {"schema", "role", "admin"} /\ applied \subseteq Migrations
    /\ queued \in [ProvisionJobs -> Jobs]
    /\ work \in [Executors -> Works]
    /\ ddlLock \in Executors \cup {Free}
    /\ operation \in [Operators -> Operations] /\ operations \in Nat
    /\ subdomain \in Rows /\ lookup \in [Visitors -> Rows]
    /\ faults \in Nat

\* What a call of an operator has read and is about to write: a row that exists, and an
\* active one when it reactivates the tenant.
Calling ==
    \A o \in Operators :
        IF operation[o].pc \in {"check", "save"}
        THEN /\ operation[o].kind \in Statuses \cup {"edit"}
             /\ operation[o].row.status \in Statuses
             /\ operation[o].pc = "save" /\ operation[o].kind = "ACTIVE"
                   => operation[o].row.isActive = TRUE
        ELSE operation[o].row = NoRow

\* The values a step writes.
LEMMA Literals ==
    /\ NoRow \in Rows /\ NoJob \in Jobs /\ AtRest \in Works /\ NoCall \in Operations
    /\ [NoCall EXCEPT !.pc = "drop"] \in Operations
    /\ \A status \in Statuses, b \in BOOLEAN : Row(status, b) \in Rows
    /\ \A b \in BOOLEAN : NewJob(b) \in Jobs
BY DEF NoRow, NoJob, AtRest, NoCall, Row, NewJob, Rows, Jobs, Works, Operations, Statuses, Pcs, Free

\* What a step makes of the record of an execution, and of that of a job.
LEMMA PcRecord ==
    ASSUME NEW e \in Works, NEW pc \in Pcs
    PROVE  [e EXCEPT !.pc = pc] \in Works
BY DEF Works

LEMMA TodoRecord ==
    ASSUME NEW e \in Works, NEW pc \in Pcs, NEW todo \in SUBSET Migrations
    PROVE  /\ [e EXCEPT !.pc = pc, !.todo = todo] \in Works
           /\ [e EXCEPT !.todo = todo] \in Works
BY DEF Works

LEMMA TakenRecord ==
    ASSUME NEW pc \in Pcs, NEW job \in ProvisionJobs
    PROVE  [AtRest EXCEPT !.pc = pc, !.job = job] \in Works
BY DEF Works, AtRest

LEMMA JobRecords ==
    ASSUME NEW e \in Jobs, NEW st \in {"waiting", "active", "done", "failed"}
    PROVE  /\ \A w \in Workers : [e EXCEPT !.st = st, !.by = w] \in Jobs
           /\ [e EXCEPT !.st = st, !.stalls = 1] \in Jobs
           /\ [e EXCEPT !.st = st] \in Jobs
           /\ [e EXCEPT !.made = @ + 1, !.st = st] \in Jobs
<1>1. \A w \in Workers : [e EXCEPT !.st = st, !.by = w] \in Jobs
  BY DEF Jobs
<1>2. [e EXCEPT !.st = st, !.stalls = 1] \in Jobs
  BY DEF Jobs
<1>3. [e EXCEPT !.st = st] \in Jobs
  BY DEF Jobs
<1>4. [e EXCEPT !.made = @ + 1, !.st = st] \in Jobs
  <2>1. \A n \in Nat : [e EXCEPT !.made = n, !.st = st] \in Jobs
    BY DEF Jobs
  <2>2. e.made + 1 \in Nat
    BY DEF Jobs
  <2> QED
    BY <2>1, <2>2
<1> QED
  BY <1>1, <1>2, <1>3, <1>4

\* The runner takes the first of the migrations that are left.
LEMMA NextIsLeft ==
    ASSUME TenantTypeOK, NEW w \in Executors, work[w].todo # {}
    PROVE  NextMigration(w) \in work[w].todo
<1>1. work[w].todo \in SUBSET Nat
  BY TenantAssumption DEF TenantTypeOK, Works, Migrations
<1>2. \E m \in work[w].todo : \A k \in work[w].todo : m <= k
  BY <1>1, LeastNumber
<1> QED
  BY <1>2 DEF NextMigration

\* Every step keeps every variable in its type.
LEMMA TenantTypeStep ==
    ASSUME TenantTypeOK, Calling, [TenantNext]_tenantVars
    PROVE  TenantTypeOK'
<1> USE Literals
<1>1. ASSUME NEW creds \in Credentials, SaveCompany(creds) PROVE TenantTypeOK'
  <2>1. asked' \in BOOLEAN /\ company' \in Rows
    BY <1>1, TenantAssumption DEF SaveCompany, Statuses
  <2>2. creating' \in {"idle", "plain", "admin", "done"}
    BY <1>1 DEF SaveCompany
  <2>3. UNCHANGED <<built, applied, queued, work, ddlLock, operation, operations, subdomain,
                    lookup, faults>>
    BY <1>1 DEF SaveCompany
  <2> QED
    BY <2>1, <2>2, <2>3 DEF TenantTypeOK
<1>2. CASE EnqueueProvisioning
  <2>1. NewJob(creating = "admin") \in Jobs
    OBVIOUS
  <2>2. queued' \in [ProvisionJobs -> Jobs]
    <3> DEFINE job == NewJob(creating = "admin")
    <3>1. \E j \in ProvisionJobs : queued' = [queued EXCEPT ![j] = job]
      BY <1>2 DEF EnqueueProvisioning, AddJob
    <3> HIDE DEF job
    <3> QED
      BY <2>1, <3>1 DEF TenantTypeOK, job
  <2>3. /\ creating' = "done"
        /\ UNCHANGED <<company, asked, built, applied, work, ddlLock, operation,
                       operations, subdomain, lookup, faults>>
    BY <1>2 DEF EnqueueProvisioning
  <2> QED
    BY <2>2, <2>3 DEF TenantTypeOK
<1>3. CASE EnqueueFails \/ CreateCrashes
  <2>1. company' \in Rows
    BY <1>3 DEF EnqueueFails, CreateCrashes, TenantTypeOK, Statuses
  <2>2. faults' \in Nat
    <3>1. faults' = faults + 1 /\ faults \in Nat
      BY <1>3 DEF EnqueueFails, CreateCrashes, Fault, TenantTypeOK
    <3> QED
      BY <3>1
  <2>3. creating' = "done" /\ UNCHANGED <<asked, built, applied, queued, work, ddlLock, operation,
                                         operations, subdomain, lookup>>
    BY <1>3 DEF EnqueueFails, CreateCrashes
  <2> QED
    BY <2>1, <2>2, <2>3 DEF TenantTypeOK
<1>4. ASSUME NEW w \in Workers, NEW j \in ProvisionJobs, TakeJob(w, j) PROVE TenantTypeOK'
  <2>1. [queued[j] EXCEPT !.st = "active", !.by = w] \in Jobs
    BY JobRecords DEF TenantTypeOK
  <2>2. [AtRest EXCEPT !.pc = "schema", !.job = j] \in Works
    BY TakenRecord DEF Pcs
  <2> QED
    BY <1>4, <2>1, <2>2 DEF TakeJob, TenantTypeOK, unchangedByWork
<1>5. ASSUME NEW w \in Executors, NEW pc \in Pcs, work' = [work EXCEPT ![w].pc = pc]
      PROVE  work' \in [Executors -> Works]
  <2>1. [work[w] EXCEPT !.pc = pc] \in Works
    BY PcRecord DEF TenantTypeOK
  <2> QED
    BY <1>5, <2>1 DEF TenantTypeOK
<1>6. ASSUME NEW w \in Deployers, StartMigrations(w) PROVE TenantTypeOK'
  <2>1. work' \in [Executors -> Works]
    BY <1>5, <1>6 DEF StartMigrations, Pcs, Executors
  <2> QED
    BY <1>6, <2>1 DEF StartMigrations, TenantTypeOK, unchangedByWork
<1>7. ASSUME NEW w \in Executors, CreateTenantSchema(w) \/ SeedRole(w) \/ SeedAdmin(w) PROVE TenantTypeOK'
  <2>1. work' \in [Executors -> Works]
    BY <1>5, <1>7 DEF CreateTenantSchema, SeedRole, SeedAdmin, AfterRole, Pcs
  <2> QED
    BY <1>7, <2>1 DEF CreateTenantSchema, SeedRole, SeedAdmin, TenantTypeOK, unchangedByWork
<1>8. ASSUME NEW w \in Executors, LockAndReadMigrations(w) PROVE TenantTypeOK'
  <2>1. [work[w] EXCEPT !.pc = "apply", !.todo = Migrations \ applied] \in Works
    BY TodoRecord DEF TenantTypeOK, Pcs
  <2> QED
    BY <1>8, <2>1 DEF LockAndReadMigrations, TenantTypeOK, unchangedByWork
<1>9. ASSUME NEW w \in Executors, ApplyMigration(w) PROVE TenantTypeOK'
  <2> DEFINE m == NextMigration(w)
             f == [work[w] EXCEPT !.todo = work[w].todo \ {m}]
  <2>1. m \in work[w].todo /\ work[w] \in Works
    BY <1>9, NextIsLeft DEF ApplyMigration, TenantTypeOK
  <2>2. work[w].todo \subseteq Migrations
    BY <2>1 DEF Works
  <2>3. f \in Works
    BY <2>1, <2>2, TodoRecord DEF Works
  <2>4. work' = [work EXCEPT ![w] = f] /\ applied' = applied \cup {m}
    BY <1>9 DEF ApplyMigration
  <2> HIDE DEF f, m
  <2> QED
    BY <1>9, <2>1, <2>2, <2>3, <2>4 DEF ApplyMigration, TenantTypeOK, unchangedByWork
<1>10. ASSUME NEW w \in Executors, Unlock(w) PROVE TenantTypeOK'
  <2>1. [work[w] EXCEPT !.pc = "role"] \in Works
    BY PcRecord DEF TenantTypeOK, Pcs
  <2> QED
    BY <1>10, <2>1 DEF Unlock, TenantTypeOK, unchangedByWork
<1>11. ASSUME NEW w \in Executors, Activate(w) PROVE TenantTypeOK'
  <2>1. work' \in [Executors -> Works]
    BY <1>5, <1>11 DEF Activate, Pcs
  <2>2. company' \in Rows
    BY <1>11 DEF Activate, TenantTypeOK, Rows
  <2> QED
    BY <1>11, <2>1, <2>2 DEF Activate, TenantTypeOK, unchangedByWork
<1>12. ASSUME NEW w \in Executors, DropLookup(w) PROVE TenantTypeOK'
  <2>1. queued' \in [ProvisionJobs -> Jobs]
    <3>1. \A j \in ProvisionJobs : [queued[j] EXCEPT !.st = "done"] \in Jobs
      BY JobRecords DEF TenantTypeOK
    <3> QED
      BY <1>12, <3>1 DEF DropLookup, TenantTypeOK
  <2>2. work' \in [Executors -> Works]
    BY <1>12 DEF DropLookup, TenantTypeOK
  <2> QED
    BY <1>12, <2>1, <2>2 DEF DropLookup, Fault, NoFault, TenantTypeOK, unchangedByWork
<1>13. ASSUME NEW w \in Workers, AttemptFails(w) PROVE TenantTypeOK'
  <2> DEFINE job == queued[work[w].job]
             last == job.made + 1 >= ProvisionAttempts
             failed == [job EXCEPT !.made = @ + 1, !.st = IF last THEN "failed" ELSE "waiting"]
             g == [work[w] EXCEPT !.pc = "suspend", !.todo = {}]
  <2>1. g \in Works
    BY TodoRecord DEF TenantTypeOK, Pcs, Executors
  <2>2. work' = [work EXCEPT ![w] = g] \/ work' = [work EXCEPT ![w] = AtRest]
    BY <1>13 DEF AttemptFails
  <2>3. work' \in [Executors -> Works]
    <3> HIDE DEF g
    <3> QED
      BY <2>1, <2>2 DEF TenantTypeOK
  <2>4. queued' \in [ProvisionJobs -> Jobs]
    <3>1. \/ queued' = [queued EXCEPT ![work[w].job] = job]
          \/ queued' = [queued EXCEPT ![work[w].job] = failed]
      BY <1>13 DEF AttemptFails
    <3>2. work[w].job \in ProvisionJobs => job \in Jobs /\ failed \in Jobs
      <4>1. ASSUME work[w].job \in ProvisionJobs PROVE job \in Jobs
        BY <4>1 DEF TenantTypeOK
      <4>2. (IF last THEN "failed" ELSE "waiting") \in {"waiting", "active", "done", "failed"}
        OBVIOUS
      <4> HIDE DEF job, last
      <4> QED
        BY <4>1, <4>2, JobRecords
    <3> HIDE DEF job, failed
    <3> QED
      BY <3>1, <3>2 DEF TenantTypeOK
  <2> QED
    BY <1>13, <2>3, <2>4 DEF AttemptFails, Fault, TenantTypeOK, unchangedByWork
<1>14. ASSUME NEW w \in Executors, Suspend(w) PROVE TenantTypeOK'
  <2>1. work' \in [Executors -> Works]
    BY <1>5, <1>14 DEF Suspend, Pcs
  <2> QED
    BY <1>14, <2>1 DEF Suspend, TenantTypeOK, unchangedByWork, Statuses
<1>15. ASSUME NEW w \in Workers, SuspendFails(w) PROVE TenantTypeOK'
  BY <1>15 DEF SuspendFails, TenantTypeOK, unchangedByWork
<1>16. ASSUME NEW j \in ProvisionJobs, Stall(j) PROVE TenantTypeOK'
  <2>1. /\ [queued[j] EXCEPT !.st = "waiting", !.stalls = 1] \in Jobs
        /\ [queued[j] EXCEPT !.st = "failed"] \in Jobs
    BY JobRecords DEF TenantTypeOK
  <2>2. \/ queued' = [queued EXCEPT ![j] = [queued[j] EXCEPT !.st = "waiting", !.stalls = 1]]
        \/ queued' = [queued EXCEPT ![j] = [queued[j] EXCEPT !.st = "failed"]]
    BY <1>16 DEF Stall
  <2>3. queued' \in [ProvisionJobs -> Jobs]
    BY <2>1, <2>2 DEF TenantTypeOK
  <2> QED
    BY <1>16, <2>3 DEF Stall, Fault, TenantTypeOK, unchangedByWork
<1>17. ASSUME NEW o \in Operators, NEW kind \in Statuses \cup {"edit"}, Begin(o, kind) PROVE TenantTypeOK'
  <2>1. [pc |-> IF kind = "ACTIVE" /\ ~company.isActive THEN "check" ELSE "save",
         kind |-> kind, row |-> company] \in Operations
    BY DEF Operations, TenantTypeOK
  <2> QED
    BY <1>17, <2>1 DEF Begin, TenantTypeOK, unchangedByOperator
<1>18. ASSUME NEW o \in Operators, Requeue(o) PROVE TenantTypeOK'
  <2>1. queued' \in [ProvisionJobs -> Jobs]
    <3> DEFINE job == NewJob(FALSE)
    <3>1. queued' = queued \/ \E j \in ProvisionJobs : queued' = [queued EXCEPT ![j] = job]
      BY <1>18 DEF Requeue, AddJob
    <3>2. job \in Jobs
      OBVIOUS
    <3> HIDE DEF job
    <3> QED
      BY <3>1, <3>2 DEF TenantTypeOK
  <2>2. faults' \in Nat /\ operation' \in [Operators -> Operations]
    <3>1. faults' \in Nat
      <4>1. (faults' = faults \/ faults' = faults + 1) /\ faults \in Nat
        BY <1>18 DEF Requeue, Fault, TenantTypeOK
      <4> QED
        BY <4>1
    <3>2. operation' = [operation EXCEPT ![o] = NoCall]
      BY <1>18 DEF Requeue
    <3> QED
      BY <3>1, <3>2 DEF TenantTypeOK
  <2>3. UNCHANGED <<company, creating, asked, built, applied, work, ddlLock, operations,
                    subdomain, lookup>>
    BY <1>18 DEF Requeue, unchangedByOperator
  <2> QED
    BY <2>1, <2>2, <2>3 DEF TenantTypeOK
<1>19. ASSUME NEW o \in Operators, Reactivate(o) PROVE TenantTypeOK'
  <2>1. [operation[o] EXCEPT !.pc = "save", !.row.isActive = TRUE] \in Operations
    <3>1. operation[o] \in Operations /\ operation[o].row \in Rows
      BY DEF Operations, TenantTypeOK
    <3>2. [operation[o].row EXCEPT !.isActive = TRUE] \in Rows
      BY <3>1 DEF Rows
    <3> QED
      BY <3>1, <3>2 DEF Operations
  <2> QED
    BY <1>19, <2>1 DEF Reactivate, TenantTypeOK, unchangedByOperator
<1>20. ASSUME NEW o \in Operators, Save(o) PROVE TenantTypeOK'
  <2> DEFINE call == operation[o]
  <2>1. /\ call.row.status \in Statuses \cup {"NONE"} /\ call.row.isActive \in BOOLEAN
        /\ call.kind \in Statuses \cup {"edit"}
    BY <1>20 DEF TenantTypeOK, Operations, Rows, Calling, Save
  <2>2. company' \in Rows
    <3>1. company' = Row(IF call.kind = "edit" THEN call.row.status ELSE call.kind, call.row.isActive)
      BY <1>20 DEF Save
    <3> QED
      BY <2>1, <3>1 DEF Row, Rows
  <2>3. operation' = [operation EXCEPT ![o] = [NoCall EXCEPT !.pc = "drop"]]
    BY <1>20 DEF Save
  <2> QED
    BY <1>20, <2>2, <2>3 DEF Save, TenantTypeOK, unchangedByOperator
<1>21. ASSUME NEW o \in Operators, InvalidateSubdomain(o) PROVE TenantTypeOK'
  BY <1>21 DEF InvalidateSubdomain, Fault, NoFault, TenantTypeOK, unchangedByOperator
<1>22. ASSUME NEW v \in Visitors, FindBySubdomain(v) \/ FillCache(v) PROVE TenantTypeOK'
  BY <1>22 DEF FindBySubdomain, FillCache, Fault, NoFault, TenantTypeOK, unchangedByVisitor
<1>23. CASE ExpireLookup
  BY <1>23 DEF ExpireLookup, TenantTypeOK, unchangedByVisitor
<1>24. CASE UNCHANGED tenantVars
  BY <1>24 DEF tenantVars, TenantTypeOK
<1> QED
  BY <1>1, <1>2, <1>3, <1>4, <1>6, <1>7, <1>8, <1>9, <1>10, <1>11, <1>12, <1>13, <1>14, <1>15,
     <1>16, <1>17, <1>18, <1>19, <1>20, <1>21, <1>22, <1>23, <1>24 DEF TenantNext, WorkStep

-----------------------------------------------------------------------------
Alone(w) == \A x \in Executors \ {w} : work'[x] = work[x]
SameJob(w) == work'[w].job = work[w].job

\* What each step does to the record of its execution.
LEMMA WorkEffects ==
    ASSUME TenantTypeOK, NEW w \in Executors
    PROVE  /\ WorkStep(w) => Alone(w)
           /\ CreateTenantSchema(w) => SameJob(w) /\ work'[w].pc = "lock"
           /\ LockAndReadMigrations(w) =>
                SameJob(w) /\ work'[w].pc = "apply" /\ work'[w].todo = Migrations \ applied
           /\ ApplyMigration(w) =>
                /\ SameJob(w) /\ work'[w].pc = "apply"
                /\ work'[w].todo = work[w].todo \ {NextMigration(w)}
           /\ Unlock(w) => IF w \in Deployers THEN work'[w] = AtRest
                           ELSE SameJob(w) /\ work'[w].pc = "role"
           /\ SeedRole(w) => SameJob(w) /\ work'[w].pc = AfterRole(queued[work[w].job])
           /\ SeedAdmin(w) => SameJob(w) /\ work'[w].pc = "activate"
           /\ Activate(w) \/ Suspend(w) => SameJob(w) /\ work'[w].pc = "drop"
           /\ DropLookup(w) => work'[w] = AtRest
<1>0. work[w] \in Works /\ work \in [Executors -> Works]
  BY DEF TenantTypeOK
<1>1. ASSUME NEW f, work' = [work EXCEPT ![w] = f] PROVE Alone(w) /\ work'[w] = f
  BY <1>0, <1>1 DEF Alone
<1>2. ASSUME NEW pc \in Pcs PROVE LET f == [work[w] EXCEPT !.pc = pc] IN f.pc = pc /\ f.job = work[w].job
  BY <1>0 DEF Works
<1>3. ASSUME NEW pc \in Pcs, work' = [work EXCEPT ![w].pc = pc]
      PROVE  Alone(w) /\ work'[w].pc = pc /\ SameJob(w)
  BY <1>0, <1>3 DEF Alone, SameJob, Works
<1>4. CreateTenantSchema(w) => Alone(w) /\ SameJob(w) /\ work'[w].pc = "lock"
  BY <1>3 DEF CreateTenantSchema, Pcs
<1>5. LockAndReadMigrations(w) =>
        Alone(w) /\ SameJob(w) /\ work'[w].pc = "apply" /\ work'[w].todo = Migrations \ applied
  <2> DEFINE f == [work[w] EXCEPT !.pc = "apply", !.todo = Migrations \ applied]
  <2>1. f.pc = "apply" /\ f.job = work[w].job /\ f.todo = Migrations \ applied
    BY <1>0 DEF Works
  <2>2. LockAndReadMigrations(w) => work' = [work EXCEPT ![w] = f]
    BY DEF LockAndReadMigrations
  <2> HIDE DEF f
  <2> QED
    BY <1>1, <2>1, <2>2 DEF SameJob
<1>6. ApplyMigration(w) => /\ Alone(w) /\ SameJob(w) /\ work'[w].pc = "apply"
                           /\ work'[w].todo = work[w].todo \ {NextMigration(w)}
  <2> DEFINE f == [work[w] EXCEPT !.todo = @ \ {NextMigration(w)}]
  <2>1. f.pc = work[w].pc /\ f.job = work[w].job /\ f.todo = work[w].todo \ {NextMigration(w)}
    BY <1>0 DEF Works
  <2>2. ApplyMigration(w) => work' = [work EXCEPT ![w] = f] /\ work[w].pc = "apply"
    BY DEF ApplyMigration
  <2> HIDE DEF f
  <2> QED
    BY <1>1, <2>1, <2>2 DEF SameJob
<1>7. Unlock(w) => /\ Alone(w)
                   /\ IF w \in Deployers THEN work'[w] = AtRest
                      ELSE SameJob(w) /\ work'[w].pc = "role"
  <2> DEFINE f == [work[w] EXCEPT !.pc = "role"]
  <2>1. f.pc = "role" /\ f.job = work[w].job
    BY <1>0 DEF Works
  <2>2. Unlock(w) => work' = [work EXCEPT ![w] = IF w \in Deployers THEN AtRest ELSE f]
    BY DEF Unlock
  <2> HIDE DEF f
  <2> QED
    BY <1>1, <2>1, <2>2 DEF SameJob
<1>8. SeedRole(w) => Alone(w) /\ SameJob(w) /\ work'[w].pc = AfterRole(queued[work[w].job])
  <2>1. AfterRole(queued[work[w].job]) \in Pcs
    BY DEF AfterRole, Pcs
  <2> QED
    BY <1>3, <2>1 DEF SeedRole
<1>9. SeedAdmin(w) => Alone(w) /\ SameJob(w) /\ work'[w].pc = "activate"
  BY <1>3 DEF SeedAdmin, Pcs
<1>10. Activate(w) \/ Suspend(w) => Alone(w) /\ SameJob(w) /\ work'[w].pc = "drop"
  BY <1>3 DEF Activate, Suspend, Pcs
<1>11. DropLookup(w) => Alone(w) /\ work'[w] = AtRest
  BY <1>1 DEF DropLookup
<1> QED
  BY <1>4, <1>5, <1>6, <1>7, <1>8, <1>9, <1>10, <1>11 DEF WorkStep

LEMMA QueueEffects ==
    ASSUME TenantTypeOK, NEW w \in Executors
    PROVE  /\ StartMigrations(w) => Alone(w) /\ work'[w].pc = "lock"
           /\ \A j \in ProvisionJobs :
                TakeJob(w, j) => Alone(w) /\ work'[w].pc = "schema" /\ work'[w].job = j
           /\ SuspendFails(w) => Alone(w) /\ work'[w] = AtRest
           /\ AttemptFails(w) =>
                /\ Alone(w)
                /\ \/ work'[w] = AtRest
                   \/ SameJob(w) /\ work'[w].pc = "suspend"
<1>0. work[w] \in Works /\ work \in [Executors -> Works]
  BY DEF TenantTypeOK
<1>1. ASSUME NEW f, work' = [work EXCEPT ![w] = f] PROVE Alone(w) /\ work'[w] = f
  BY <1>0, <1>1 DEF Alone
<1>2. StartMigrations(w) => Alone(w) /\ work'[w].pc = "lock"
  BY <1>0 DEF StartMigrations, Alone, Works
<1>3. ASSUME NEW j \in ProvisionJobs, TakeJob(w, j)
      PROVE  Alone(w) /\ work'[w].pc = "schema" /\ work'[w].job = j
  <2>1. work'[w] = [AtRest EXCEPT !.pc = "schema", !.job = j] /\ Alone(w)
    BY <1>1, <1>3 DEF TakeJob
  <2> QED
    BY <2>1 DEF AtRest
<1>4. SuspendFails(w) => Alone(w) /\ work'[w] = AtRest
  BY <1>1 DEF SuspendFails
<1>5. AttemptFails(w) => Alone(w) /\ (work'[w] = AtRest \/ (SameJob(w) /\ work'[w].pc = "suspend"))
  <2> DEFINE f == [work[w] EXCEPT !.pc = "suspend", !.todo = {}]
  <2>1. f.pc = "suspend" /\ f.job = work[w].job
    BY <1>0 DEF Works
  <2>2. AttemptFails(w) => work' = [work EXCEPT ![w] = AtRest] \/ work' = [work EXCEPT ![w] = f]
    BY DEF AttemptFails
  <2> HIDE DEF f
  <2> QED
    BY <1>1, <2>1, <2>2 DEF SameJob
<1> QED
  BY <1>2, <1>3, <1>4, <1>5

-----------------------------------------------------------------------------
\* What one call of the platform never takes back: milestones, migrations and jobs.
JobsKept ==
    \A j \in ProvisionJobs : queued[j].st # "none" => /\ queued'[j].st # "none"
                                                     /\ queued'[j].creds = queued[j].creds
Monotone == built \subseteq built' /\ applied \subseteq applied' /\ JobsKept

\* A new job takes a free id.
LEMMA AddJobKeeps ==
    ASSUME TenantTypeOK, NEW creds \in BOOLEAN, AddJob(creds)
    PROVE  /\ JobsKept
           /\ \E j \in ProvisionJobs :
                /\ queued'[j].st = "waiting" /\ queued'[j].creds = creds
                /\ \A k \in ProvisionJobs \ {j} : queued'[k] = queued[k]
<1>1. PICK j \in ProvisionJobs : queued[j] = NoJob /\ queued' = [queued EXCEPT ![j] = NewJob(creds)]
  BY DEF AddJob
<1>2. queued[j].st = "none" /\ NewJob(creds).st = "waiting" /\ NewJob(creds).creds = creds
  BY <1>1 DEF NoJob, NewJob
<1> QED
  BY <1>1, <1>2 DEF TenantTypeOK, JobsKept

LEMMA MonotoneStep ==
    ASSUME TenantTypeOK, [TenantNext]_tenantVars
    PROVE  Monotone
<1>1. built \subseteq built' /\ applied \subseteq applied'
  BY DEF TenantNext, WorkStep, SaveCompany, EnqueueProvisioning, EnqueueFails, CreateCrashes, TakeJob,
     StartMigrations, CreateTenantSchema, LockAndReadMigrations, ApplyMigration, Unlock, SeedRole,
     SeedAdmin, Activate, DropLookup, AttemptFails, Suspend, SuspendFails, Stall, Begin, Requeue,
     Reactivate, Save, InvalidateSubdomain, FindBySubdomain, FillCache, ExpireLookup, tenantVars,
     unchangedByOperator, unchangedByVisitor
<1>2. ASSUME NEW j \in ProvisionJobs, NEW f \in Jobs, queued' = [queued EXCEPT ![j] = f],
             queued[j].st # "none" => f.st # "none" /\ f.creds = queued[j].creds
      PROVE  JobsKept
  BY <1>2 DEF JobsKept, TenantTypeOK
<1>3. (UNCHANGED queued) => JobsKept
  BY DEF JobsKept
<1>4. ASSUME NEW creds, creds \in BOOLEAN, AddJob(creds) PROVE JobsKept
  BY <1>4, AddJobKeeps
<1>5. ASSUME NEW w \in Workers, NEW j \in ProvisionJobs, TakeJob(w, j) PROVE JobsKept
  <2> DEFINE f == [queued[j] EXCEPT !.st = "active", !.by = w]
  <2>1. f.st # "none" /\ f.creds = queued[j].creds /\ queued' = [queued EXCEPT ![j] = f] /\ f \in Jobs
    <3>1. queued[j] \in Jobs
      BY DEF TenantTypeOK
    <3>2. f \in Jobs
      BY <3>1, JobRecords
    <3>3. f.st # "none" /\ f.creds = queued[j].creds
      BY <3>1 DEF Jobs
    <3> QED
      BY <1>5, <3>2, <3>3 DEF TakeJob
  <2> HIDE DEF f
  <2> QED
    BY <1>2, <2>1
<1>6. ASSUME NEW w \in Executors, DropLookup(w) PROVE JobsKept
  <2> DEFINE j == work[w].job
  <2>1. CASE j \in ProvisionJobs
    <3> DEFINE f == IF queued[j].st = "active" /\ queued[j].by = w THEN [queued[j] EXCEPT !.st = "done"]
                    ELSE queued[j]
    <3>1. queued[j] \in Jobs /\ [queued[j] EXCEPT !.st = "done"] \in Jobs
      BY <2>1, JobRecords DEF TenantTypeOK
    <3>2. f \in Jobs /\ (queued[j].st # "none" => f.st # "none" /\ f.creds = queued[j].creds)
      BY <3>1 DEF Jobs
    <3>3. queued' = [queued EXCEPT ![j] = f]
      BY <1>6, <2>1 DEF DropLookup, TenantTypeOK
    <3> HIDE DEF f, j
    <3> QED
      BY <1>2, <2>1, <3>2, <3>3
  <2>2. CASE j \notin ProvisionJobs
    BY <1>6, <2>2 DEF DropLookup, TenantTypeOK, JobsKept
  <2> QED
    BY <2>1, <2>2
<1>7. ASSUME NEW w \in Workers, AttemptFails(w) PROVE JobsKept
  <2> DEFINE j == work[w].job
             last == queued[j].made + 1 >= ProvisionAttempts
             st == IF last THEN "failed" ELSE "waiting"
             f == [queued[j] EXCEPT !.made = @ + 1, !.st = st]
  <2>1. queued' = [queued EXCEPT ![j] = queued[j]] \/ queued' = [queued EXCEPT ![j] = f]
    BY <1>7 DEF AttemptFails
  <2>2. CASE j \in ProvisionJobs
    <3>1. queued[j] \in Jobs /\ st \in {"waiting", "active", "done", "failed"}
      BY <2>2 DEF TenantTypeOK
    <3> HIDE DEF last, st
    <3>2. f \in Jobs
      BY <3>1, JobRecords
    <3>3. f.st = st /\ f.creds = queued[j].creds
      BY <3>1 DEF Jobs
    <3> HIDE DEF f, j
    <3> QED
      BY <1>2, <2>1, <2>2, <3>1, <3>2, <3>3
  <2>3. CASE j \notin ProvisionJobs
    <3> HIDE DEF f, j
    <3> QED
      BY <2>1, <2>3 DEF TenantTypeOK, JobsKept
  <2> QED
    BY <2>2, <2>3
<1>8. ASSUME NEW j \in ProvisionJobs, Stall(j) PROVE JobsKept
  <2> DEFINE f == [queued[j] EXCEPT !.st = "waiting", !.stalls = 1]
             g == [queued[j] EXCEPT !.st = "failed"]
  <2>1. /\ f \in Jobs /\ f.st # "none" /\ f.creds = queued[j].creds
        /\ g \in Jobs /\ g.st # "none" /\ g.creds = queued[j].creds
    <3>1. queued[j] \in Jobs
      BY DEF TenantTypeOK
    <3>2. f \in Jobs /\ g \in Jobs
      BY <3>1, JobRecords
    <3>3. f.st # "none" /\ f.creds = queued[j].creds /\ g.st # "none" /\ g.creds = queued[j].creds
      BY <3>1 DEF Jobs
    <3> QED
      BY <3>2, <3>3
  <2>2. queued' = [queued EXCEPT ![j] = f] \/ queued' = [queued EXCEPT ![j] = g]
    BY <1>8 DEF Stall
  <2> HIDE DEF f, g
  <2> QED
    BY <1>2, <2>1, <2>2
<1>9. ASSUME EnqueueProvisioning \/ \E o \in Operators : Requeue(o) PROVE JobsKept
  <2>1. ASSUME EnqueueProvisioning PROVE JobsKept
    <3>1. AddJob(creating = "admin") /\ (creating = "admin") \in BOOLEAN
      BY <2>1 DEF EnqueueProvisioning
    <3> QED
      BY <1>4, <3>1
  <2>2. ASSUME NEW o \in Operators, Requeue(o) PROVE JobsKept
    <3>1. AddJob(FALSE) \/ UNCHANGED queued
      BY <2>2 DEF Requeue
    <3> QED
      BY <1>3, <1>4, <3>1
  <2> QED
    BY <1>9, <2>1, <2>2
<1>10. JobsKept
  BY <1>3, <1>5, <1>6, <1>7, <1>8, <1>9 DEF TenantNext, WorkStep, SaveCompany, EnqueueFails,
     CreateCrashes, StartMigrations, CreateTenantSchema, LockAndReadMigrations, ApplyMigration,
     Unlock, SeedRole, SeedAdmin, Activate, Suspend, SuspendFails, Begin, Reactivate, Save,
     InvalidateSubdomain, FindBySubdomain, FillCache, ExpireLookup, tenantVars,
     unchangedByOperator, unchangedByVisitor
<1> QED
  BY <1>1, <1>10 DEF Monotone

-----------------------------------------------------------------------------
\* What the step an execution has reached says of the schema, of the advisory lock and of
\* the job it runs.
WorkAt(w) ==
    /\ ddlLock = w <=> work[w].pc = "apply"
    /\ work[w].pc = "apply" => work[w].todo = Migrations \ applied
    /\ work[w].pc \in {"lock", "apply", "role", "admin", "activate"} => "schema" \in built
    /\ work[w].pc \in {"role", "admin", "activate"} => Migrations \subseteq applied
    /\ w \in Deployers => work[w].pc \in {"idle", "lock", "apply"}
    /\ w \in Workers /\ work[w].pc # "idle"
          => work[w].job \in ProvisionJobs /\ queued[work[w].job].st # "none"
WorkInv == \A w \in Executors : WorkAt(w)

\* The other executions keep theirs when the step neither takes their lock nor applies a
\* migration without it.
LEMMA WorkOthers ==
    ASSUME WorkInv, Monotone, NEW w \in Executors, Alone(w), WorkAt(w)',
           \A x \in Executors \ {w} : ddlLock' = x <=> ddlLock = x,
           applied' = applied \/ ddlLock = w
    PROVE  WorkInv'
<1>1. ASSUME NEW x \in Executors \ {w} PROVE WorkAt(x)'
  <2>1. WorkAt(x) /\ work'[x] = work[x] /\ (ddlLock' = x <=> ddlLock = x)
    BY DEF WorkInv, Alone
  <2>2. work[x].pc = "apply" => applied' = applied
    BY <2>1 DEF WorkAt
  <2> QED
    BY <2>1, <2>2 DEF WorkAt, Monotone, JobsKept
<1> QED
  BY <1>1 DEF WorkInv

LEMMA WorkStepInv ==
    ASSUME TenantTypeOK, WorkInv, Monotone, [TenantNext]_tenantVars
    PROVE  WorkInv'
<1>0. Workers \cap Deployers = {} /\ Free \notin Executors
  BY TenantAssumption DEF Free, Executors
<1>1. ASSUME NEW w \in Executors, Alone(w), UNCHANGED <<ddlLock, applied>>, WorkAt(w)' PROVE WorkInv'
  BY <1>1, WorkOthers
<1>2. ASSUME NEW w \in Executors, CreateTenantSchema(w) PROVE WorkInv'
  <2>1. /\ Alone(w) /\ SameJob(w) /\ work'[w].pc = "lock" /\ UNCHANGED <<ddlLock, applied>>
        /\ work[w].pc = "schema" /\ "schema" \in built' /\ WorkAt(w)
    BY <1>2, WorkEffects DEF CreateTenantSchema, WorkStep, WorkInv
  <2>2. WorkAt(w)'
    BY <2>1 DEF WorkAt, SameJob, Monotone, JobsKept
  <2> QED
    BY <1>1, <2>1, <2>2
<1>3. ASSUME NEW w \in Executors, LockAndReadMigrations(w) PROVE WorkInv'
  <2>1. /\ Alone(w) /\ SameJob(w) /\ work'[w].pc = "apply" /\ work'[w].todo = Migrations \ applied
        /\ work[w].pc = "lock" /\ ddlLock = Free /\ ddlLock' = w
        /\ UNCHANGED <<applied, built>> /\ WorkAt(w)
    BY <1>3, WorkEffects DEF LockAndReadMigrations, WorkStep, WorkInv
  <2>2. WorkAt(w)'
    BY <2>1 DEF WorkAt, SameJob, Monotone, JobsKept
  <2> QED
    BY <1>0, <2>1, <2>2, WorkOthers
<1>4. ASSUME NEW w \in Executors, ApplyMigration(w) PROVE WorkInv'
  <2>1. /\ Alone(w) /\ SameJob(w) /\ work'[w].pc = "apply"
        /\ work'[w].todo = work[w].todo \ {NextMigration(w)}
        /\ work[w].pc = "apply" /\ ddlLock' = ddlLock /\ applied' = applied \cup {NextMigration(w)}
        /\ UNCHANGED built /\ WorkAt(w)
    BY <1>4, WorkEffects DEF ApplyMigration, WorkStep, WorkInv
  <2>2. WorkAt(w)'
    BY <2>1 DEF WorkAt, SameJob, Monotone, JobsKept
  <2>3. ddlLock = w
    BY <2>1 DEF WorkAt
  <2> QED
    BY <2>1, <2>2, <2>3, WorkOthers
<1>5. ASSUME NEW w \in Executors, Unlock(w) PROVE WorkInv'
  <2>1. /\ Alone(w) /\ work[w].pc = "apply" /\ work[w].todo = {} /\ ddlLock' = Free
        /\ UNCHANGED <<applied, built>> /\ WorkAt(w)
    BY <1>5, WorkEffects DEF Unlock, WorkStep, WorkInv, WorkAt
  <2>2. IF w \in Deployers THEN work'[w].pc = "idle" ELSE SameJob(w) /\ work'[w].pc = "role"
    BY <1>5, WorkEffects DEF AtRest
  <2>3. Migrations \subseteq applied
    BY <2>1 DEF WorkAt
  <2>4. WorkAt(w)'
    BY <1>0, <2>1, <2>2, <2>3 DEF WorkAt, SameJob, Monotone, JobsKept
  <2>5. ddlLock = w
    BY <2>1 DEF WorkAt
  <2> QED
    BY <1>0, <2>1, <2>4, <2>5, WorkOthers
<1>6. ASSUME NEW w \in Executors, SeedRole(w) \/ SeedAdmin(w) \/ Activate(w) \/ Suspend(w) PROVE WorkInv'
  <2>1. /\ Alone(w) /\ SameJob(w) /\ work'[w].pc \in {"admin", "activate", "drop"}
        /\ UNCHANGED <<ddlLock, applied>> /\ WorkAt(w)
    BY <1>6, WorkEffects DEF SeedRole, SeedAdmin, Activate, Suspend, WorkStep, WorkInv, AfterRole
  <2>2. work[w].pc \in {"role", "admin", "activate"} \/ (work[w].pc = "suspend" /\ work'[w].pc = "drop")
    BY <1>6, WorkEffects DEF SeedRole, SeedAdmin, Activate, Suspend
  <2>3. WorkAt(w)'
    BY <2>1, <2>2 DEF WorkAt, SameJob, Monotone, JobsKept
  <2> QED
    BY <1>1, <2>1, <2>3
<1>7. ASSUME NEW w \in Executors, DropLookup(w) \/ SuspendFails(w) PROVE WorkInv'
  <2>1. /\ Alone(w) /\ work'[w].pc = "idle" /\ work[w].pc \in {"drop", "suspend"}
        /\ UNCHANGED <<ddlLock, applied>> /\ WorkAt(w)
    BY <1>7, WorkEffects, QueueEffects DEF DropLookup, SuspendFails, WorkStep, WorkInv, AtRest
  <2>2. WorkAt(w)'
    BY <2>1 DEF WorkAt
  <2> QED
    BY <1>1, <2>1, <2>2
<1>8. ASSUME NEW w \in Workers, AttemptFails(w) PROVE WorkInv'
  <2>1. /\ Alone(w) /\ w \in Executors /\ UNCHANGED applied
        /\ ddlLock' = IF ddlLock = w THEN Free ELSE ddlLock
        /\ work[w].pc # "idle" /\ WorkAt(w)
    BY <1>8, QueueEffects DEF AttemptFails, WorkInv, Executors
  <2>2. work'[w].pc = "idle" \/ (SameJob(w) /\ work'[w].pc = "suspend")
    BY <1>8, <2>1, QueueEffects DEF AtRest
  <2>3. WorkAt(w)'
    BY <1>0, <2>1, <2>2 DEF WorkAt, SameJob, Monotone, JobsKept
  <2> QED
    BY <1>0, <2>1, <2>3, WorkOthers
<1>9. ASSUME NEW w \in Workers, NEW j \in ProvisionJobs, TakeJob(w, j) PROVE WorkInv'
  <2>1. /\ Alone(w) /\ w \in Executors /\ work'[w].pc = "schema" /\ work'[w].job = j
        /\ UNCHANGED <<ddlLock, applied>> /\ queued[j].st # "none" /\ work[w] = AtRest /\ WorkAt(w)
    BY <1>9, QueueEffects DEF TakeJob, WorkInv, Executors
  <2>2. WorkAt(w)'
    BY <1>0, <2>1 DEF WorkAt, Monotone, JobsKept, AtRest
  <2> QED
    BY <1>1, <2>1, <2>2
<1>10. ASSUME NEW w \in Deployers, StartMigrations(w) PROVE WorkInv'
  <2>1. /\ Alone(w) /\ w \in Executors /\ work'[w].pc = "lock" /\ "schema" \in built'
        /\ UNCHANGED <<ddlLock, applied>> /\ work[w] = AtRest /\ WorkAt(w)
    BY <1>10, QueueEffects DEF StartMigrations, WorkInv, Executors
  <2>2. WorkAt(w)'
    BY <1>0, <2>1 DEF WorkAt, AtRest
  <2> QED
    BY <1>1, <2>1, <2>2
<1>11. (UNCHANGED <<work, ddlLock, applied, built>>) => WorkInv'
  BY DEF WorkInv, WorkAt, Monotone, JobsKept
<1> QED
  BY <1>2, <1>3, <1>4, <1>5, <1>6, <1>7, <1>8, <1>9, <1>10, <1>11 DEF TenantNext, WorkStep,
     SaveCompany, EnqueueProvisioning, EnqueueFails, CreateCrashes, Stall, Begin, Requeue,
     Reactivate, Save, InvalidateSubdomain, FindBySubdomain, FillCache, ExpireLookup, tenantVars,
     unchangedByOperator, unchangedByVisitor, Executors

-----------------------------------------------------------------------------
\* Before the row of the company is saved nothing else has happened.
Dormant ==
    company.status = "NONE" =>
        /\ company = NoRow
        /\ \A j \in ProvisionJobs : queued[j].st = "none"
        /\ \A w \in Executors : work[w].pc = "idle"
        /\ \A o \in Operators : operation[o].pc \notin {"check", "save"}
        /\ creating = "idle"

\* What the steps of an operator make of the record of the call.
OtherCalls(o) == \A p \in Operators \ {o} : operation'[p] = operation[p]
LEMMA CallEffects ==
    ASSUME TenantTypeOK, NEW o \in Operators
    PROVE  /\ Requeue(o) \/ InvalidateSubdomain(o) => OtherCalls(o) /\ operation'[o] = NoCall
           /\ Save(o) => /\ OtherCalls(o) /\ operation'[o].row = NoRow
                         /\ operation'[o].pc = "drop"
           /\ Reactivate(o) => /\ OtherCalls(o) /\ operation'[o].pc = "save"
                               /\ operation'[o].kind = operation[o].kind
                               /\ operation'[o].row.status = operation[o].row.status
                               /\ operation'[o].row.isActive = TRUE
           /\ \A kind \in Statuses \cup {"edit"} : Begin(o, kind) =>
                /\ OtherCalls(o) /\ operation'[o].kind = kind /\ operation'[o].row = company
                /\ operation'[o].pc = IF kind = "ACTIVE" /\ ~company.isActive THEN "check" ELSE "save"
<1>0. operation[o] \in Operations /\ operation \in [Operators -> Operations]
  BY DEF TenantTypeOK
<1>1. ASSUME NEW f, operation' = [operation EXCEPT ![o] = f] PROVE OtherCalls(o) /\ operation'[o] = f
  BY <1>0, <1>1 DEF OtherCalls
<1>2. Requeue(o) \/ InvalidateSubdomain(o) => OtherCalls(o) /\ operation'[o] = NoCall
  BY <1>1 DEF Requeue, InvalidateSubdomain
<1>3. Save(o) => OtherCalls(o) /\ operation'[o].row = NoRow /\ operation'[o].pc = "drop"
  <2>1. Save(o) => OtherCalls(o) /\ operation'[o] = [NoCall EXCEPT !.pc = "drop"]
    BY <1>1 DEF Save
  <2> QED
    BY <2>1 DEF NoCall
<1>4. ASSUME Reactivate(o)
      PROVE  /\ OtherCalls(o) /\ operation'[o].pc = "save"
             /\ operation'[o].kind = operation[o].kind
             /\ operation'[o].row.status = operation[o].row.status
             /\ operation'[o].row.isActive = TRUE
  <2> DEFINE f == [operation[o] EXCEPT !.pc = "save", !.row.isActive = TRUE]
  <2>1. operation[o].row \in Rows
    BY <1>0 DEF Operations
  <2>2. /\ f.pc = "save" /\ f.kind = operation[o].kind
        /\ f.row.status = operation[o].row.status /\ f.row.isActive = TRUE
    BY <1>0, <2>1 DEF Operations, Rows
  <2>3. operation' = [operation EXCEPT ![o] = f]
    BY <1>4 DEF Reactivate
  <2> HIDE DEF f
  <2> QED
    BY <1>1, <2>2, <2>3
<1>5. ASSUME NEW kind \in Statuses \cup {"edit"}, Begin(o, kind)
      PROVE  /\ OtherCalls(o) /\ operation'[o].kind = kind /\ operation'[o].row = company
             /\ operation'[o].pc = IF kind = "ACTIVE" /\ ~company.isActive THEN "check" ELSE "save"
  <2> DEFINE f == [pc |-> IF kind = "ACTIVE" /\ ~company.isActive THEN "check" ELSE "save",
                   kind |-> kind, row |-> company]
  <2>1. operation' = [operation EXCEPT ![o] = f]
    BY <1>5 DEF Begin
  <2>2. /\ f.kind = kind /\ f.row = company
        /\ f.pc = IF kind = "ACTIVE" /\ ~company.isActive THEN "check" ELSE "save"
    OBVIOUS
  <2> HIDE DEF f
  <2> QED
    BY <1>1, <2>1, <2>2
<1> QED
  BY <1>2, <1>3, <1>4, <1>5

LEMMA CallingStep ==
    ASSUME TenantTypeOK, Dormant, Calling, [TenantNext]_tenantVars
    PROVE  Calling'
<1> DEFINE Sound(call) ==
        IF call.pc \in {"check", "save"}
        THEN /\ call.kind \in Statuses \cup {"edit"} /\ call.row.status \in Statuses
             /\ call.pc = "save" /\ call.kind = "ACTIVE" => call.row.isActive = TRUE
        ELSE call.row = NoRow
<1>1. ASSUME NEW o \in Operators, OtherCalls(o), Sound(operation'[o]) PROVE Calling'
  BY <1>1 DEF Calling, OtherCalls
<1>2. ASSUME NEW o \in Operators, Requeue(o) \/ InvalidateSubdomain(o) PROVE Calling'
  <2>1. OtherCalls(o) /\ operation'[o] = NoCall
    BY <1>2, CallEffects
  <2>2. Sound(operation'[o])
    BY <2>1 DEF NoCall
  <2> QED
    BY <1>1, <2>1, <2>2
<1>3. ASSUME NEW o \in Operators, Save(o) PROVE Calling'
  BY <1>1, <1>3, CallEffects
<1>4. ASSUME NEW o \in Operators, Reactivate(o) PROVE Calling'
  <2>1. /\ OtherCalls(o) /\ operation'[o].pc = "save" /\ operation'[o].kind = operation[o].kind
        /\ operation'[o].row.status = operation[o].row.status
        /\ operation'[o].row.isActive = TRUE
    BY <1>4, CallEffects
  <2>2. operation[o].kind \in Statuses \cup {"edit"} /\ operation[o].row.status \in Statuses
    BY <1>4 DEF Reactivate, Calling
  <2> QED
    BY <1>1, <2>1, <2>2
<1>5. ASSUME NEW o \in Operators, NEW kind \in Statuses \cup {"edit"}, Begin(o, kind) PROVE Calling'
  <2>1. /\ OtherCalls(o) /\ operation'[o].kind = kind /\ operation'[o].row = company
        /\ operation'[o].pc = IF kind = "ACTIVE" /\ ~company.isActive THEN "check" ELSE "save"
    BY <1>5, CallEffects
  <2>2. company.status \in Statuses
    <3>1. company # NoRow
      BY <1>5 DEF Begin
    <3>2. company.status \in Statuses \cup {"NONE"}
      BY DEF TenantTypeOK, Rows
    <3> QED
      BY <3>1, <3>2 DEF Dormant
  <2>3. company.isActive \in BOOLEAN
    BY DEF TenantTypeOK, Rows
  <2>4. operation'[o].pc \in {"check", "save"}
    BY <2>1
  <2>5. operation'[o].pc = "save" /\ kind = "ACTIVE" => company.isActive = TRUE
    BY <2>1, <2>3
  <2> QED
    BY <1>1, <2>1, <2>2, <2>4, <2>5
<1>6. (UNCHANGED operation) => Calling'
  BY DEF Calling
<1> QED
  BY <1>2, <1>3, <1>4, <1>5, <1>6 DEF TenantNext, WorkStep, SaveCompany, EnqueueProvisioning,
     EnqueueFails, CreateCrashes, TakeJob, StartMigrations, CreateTenantSchema, LockAndReadMigrations,
     ApplyMigration, Unlock, SeedRole, SeedAdmin, Activate, DropLookup, AttemptFails, Suspend,
     SuspendFails, Stall, FindBySubdomain, FillCache, ExpireLookup, tenantVars, unchangedByWork,
     unchangedByVisitor

\* The row is written by a creation, by a job or by a call, and never taken away.
LEMMA DormantStep ==
    ASSUME TenantTypeOK, Dormant, Calling, WorkInv, [TenantNext]_tenantVars
    PROVE  Dormant'
<1> SUFFICES ASSUME company'.status = "NONE" PROVE Dormant'
  BY DEF Dormant
<1>1. ASSUME NEW status \in Statuses, NEW b, company' = Row(status, b) PROVE FALSE
  BY <1>1 DEF Row, Statuses
<1>2. company' = company /\ company.status = "NONE"
  <2>1. ASSUME NEW o \in Operators, Save(o) PROVE FALSE
    <3>1. operation[o].kind \in Statuses \cup {"edit"} /\ operation[o].row.status \in Statuses
      BY <2>1 DEF Save, Calling
    <3>2. company' = Row(IF operation[o].kind = "edit" THEN operation[o].row.status
                         ELSE operation[o].kind, operation[o].row.isActive)
      BY <2>1 DEF Save
    <3> QED
      BY <1>1, <3>1, <3>2
  <2>2. ASSUME NEW w \in Executors, Activate(w) PROVE FALSE
    <3>1. company'.status = company.status
      BY <2>2 DEF Activate, TenantTypeOK, Rows
    <3> QED
      BY <2>2, <3>1 DEF Activate, Dormant
  <2>3. ASSUME (\E creds \in Credentials : SaveCompany(creds)) \/ EnqueueFails \/ (\E w \in Executors : Suspend(w))
        PROVE  FALSE
    BY <1>1, <2>3 DEF SaveCompany, EnqueueFails, Suspend, Statuses
  <2>4. company' = company
    BY <2>1, <2>2, <2>3 DEF TenantNext, WorkStep, EnqueueProvisioning,
     CreateCrashes, TakeJob, StartMigrations, CreateTenantSchema, LockAndReadMigrations,
     ApplyMigration, Unlock, SeedRole, SeedAdmin, DropLookup, AttemptFails, SuspendFails, Stall,
     Begin, Requeue, Reactivate, InvalidateSubdomain, FindBySubdomain, FillCache, ExpireLookup,
     tenantVars, unchangedByWork, unchangedByOperator, unchangedByVisitor
  <2> QED
    BY <2>4
<1>3. /\ company = NoRow /\ creating = "idle"
      /\ \A j \in ProvisionJobs : queued[j].st = "none"
      /\ \A w \in Executors : work[w].pc = "idle"
      /\ \A o \in Operators : operation[o].pc \notin {"check", "save"}
  BY <1>2 DEF Dormant
<1>4. NoRow.isActive = FALSE
  BY DEF NoRow
<1>5. UNCHANGED <<creating, queued, work>>
  <2>1. ASSUME NEW creds \in Credentials, SaveCompany(creds) PROVE FALSE
    BY <1>1, <2>1 DEF SaveCompany, Statuses
  <2> QED
    BY <1>3, <1>4, <2>1 DEF TenantNext, WorkStep, EnqueueProvisioning, EnqueueFails,
       CreateCrashes, TakeJob, StartMigrations, CreateTenantSchema, LockAndReadMigrations,
       ApplyMigration, Unlock, SeedRole, SeedAdmin, Activate, DropLookup, AttemptFails, Suspend,
       SuspendFails, Stall, Begin, Requeue, Reactivate, Save, InvalidateSubdomain, FindBySubdomain,
       FillCache, ExpireLookup, tenantVars, unchangedByOperator,
       unchangedByVisitor, Executors
<1>6. \A o \in Operators : operation'[o].pc \notin {"check", "save"}
  <2>1. ASSUME NEW o \in Operators, InvalidateSubdomain(o) 
      PROVE  \A p \in Operators : operation'[p].pc \notin {"check", "save"}
    <3>1. OtherCalls(o) /\ operation'[o] = NoCall
      BY <2>1, CallEffects
    <3>2. operation'[o].pc = "idle"
      BY <3>1 DEF NoCall
    <3> QED
      BY <1>3, <3>1, <3>2 DEF OtherCalls
  <2>2. CASE UNCHANGED operation
    BY <1>3, <2>2
  <2> QED
    BY <1>2, <1>3, <2>1, <2>2 DEF TenantNext, WorkStep, SaveCompany, EnqueueProvisioning, EnqueueFails,
     CreateCrashes, TakeJob, StartMigrations, CreateTenantSchema, LockAndReadMigrations,
     ApplyMigration, Unlock, SeedRole, SeedAdmin, Activate, DropLookup, AttemptFails, Suspend,
     SuspendFails, Stall, Begin, Requeue, Reactivate, Save, FindBySubdomain,
     FillCache, ExpireLookup, tenantVars, unchangedByWork, unchangedByVisitor
<1> QED
  BY <1>2, <1>3, <1>5, <1>6 DEF Dormant

-----------------------------------------------------------------------------
Completed == "schema" \in built /\ 1 \in applied
\* No row that a request could be resolved with is active.
Dark ==
    /\ company.isActive = FALSE /\ subdomain.isActive = FALSE
    /\ \A v \in Visitors : lookup[v].isActive = FALSE
    /\ \A o \in Operators : operation[o].row.isActive = FALSE
ServedInv == Completed \/ Dark

LEMMA ServedStep ==
    ASSUME TenantTypeOK, WorkInv, Monotone, ServedInv, [TenantNext]_tenantVars
    PROVE  ServedInv'
<1>1. CASE Completed
  BY <1>1 DEF Completed, Monotone, ServedInv
<1>2. CASE Dark /\ ~Completed
  <2>0. NoRow.isActive = FALSE /\ \A status, b : Row(status, b).isActive = b
    BY DEF NoRow, Row
  <2>1. ASSUME NEW w \in Executors PROVE ~Activate(w)
    <3>1. 1 \in Migrations
      BY TenantAssumption DEF Migrations
    <3> QED
      BY <1>2, <3>1 DEF Activate, WorkInv, WorkAt, Completed
  <2>2. ASSUME NEW o \in Operators PROVE ~Reactivate(o)
    BY <1>2 DEF Reactivate, Seeded, Completed
  <2>3. company'.isActive = FALSE
    <3>1. ASSUME NEW o \in Operators, Save(o) PROVE company'.isActive = FALSE
      BY <1>2, <2>0, <3>1 DEF Save, Dark
    <3>2. ASSUME (\E creds \in Credentials : SaveCompany(creds)) \/ EnqueueFails \/ (\E w \in Executors : Suspend(w))
          PROVE  company'.isActive = FALSE
      <4>1. \E status : company' = Row(status, FALSE)
        BY <3>2 DEF SaveCompany, EnqueueFails, Suspend
      <4> QED
        BY <2>0, <4>1
    <3>3. (UNCHANGED company) => company'.isActive = FALSE
      BY <1>2 DEF Dark
    <3> QED
      BY <2>1, <3>1, <3>2, <3>3 DEF TenantNext, WorkStep, EnqueueProvisioning,
         CreateCrashes, TakeJob, StartMigrations, CreateTenantSchema, LockAndReadMigrations,
         ApplyMigration, Unlock, SeedRole, SeedAdmin, DropLookup, AttemptFails, SuspendFails, Stall,
         Begin, Requeue, Reactivate, InvalidateSubdomain, FindBySubdomain, FillCache, ExpireLookup,
         tenantVars, unchangedByWork, unchangedByOperator, unchangedByVisitor
  <2>4. subdomain'.isActive = FALSE
    <3>1. subdomain' = subdomain \/ subdomain' = NoRow \/ \E v \in Visitors : subdomain' = lookup[v]
      BY DEF TenantNext, WorkStep, SaveCompany, EnqueueProvisioning, EnqueueFails,
         CreateCrashes, TakeJob, StartMigrations, CreateTenantSchema, LockAndReadMigrations,
         ApplyMigration, Unlock, SeedRole, SeedAdmin, Activate, DropLookup, AttemptFails, Suspend,
         SuspendFails, Stall, Begin, Requeue, Reactivate, Save, InvalidateSubdomain, FindBySubdomain,
         FillCache, ExpireLookup, tenantVars
    <3> QED
      BY <1>2, <2>0, <3>1 DEF Dark
  <2>5. ASSUME NEW v \in Visitors PROVE lookup'[v].isActive = FALSE
    <3>1. \/ lookup' = lookup
          \/ \E x \in Visitors : lookup' = [lookup EXCEPT ![x] = NoRow]
                                 \/ lookup' = [lookup EXCEPT ![x] = company]
      BY DEF TenantNext, WorkStep, SaveCompany, EnqueueProvisioning, EnqueueFails,
         CreateCrashes, TakeJob, StartMigrations, CreateTenantSchema, LockAndReadMigrations,
         ApplyMigration, Unlock, SeedRole, SeedAdmin, Activate, DropLookup, AttemptFails, Suspend,
         SuspendFails, Stall, Begin, Requeue, Reactivate, Save, InvalidateSubdomain, FindBySubdomain,
         FillCache, ExpireLookup, tenantVars, unchangedByWork, unchangedByOperator
    <3>2. company.isActive = FALSE /\ lookup[v].isActive = FALSE
      BY <1>2 DEF Dark
    <3>3. lookup'[v] \in {lookup[v], NoRow, company}
      BY <3>1 DEF TenantTypeOK
    <3> QED
      BY <2>0, <3>2, <3>3
  <2>6. ASSUME NEW p \in Operators PROVE operation'[p].row.isActive = FALSE
    <3>1. operation[p].row.isActive = FALSE /\ company.isActive = FALSE
      BY <1>2 DEF Dark
    <3>2. ASSUME NEW o \in Operators, Requeue(o) \/ InvalidateSubdomain(o) PROVE operation'[p].row.isActive = FALSE
      <4>1. OtherCalls(o) /\ operation'[o] = NoCall
        BY <3>2, CallEffects
      <4>2. NoCall.row = NoRow
        BY DEF NoCall
      <4> QED
        BY <2>0, <3>1, <4>1, <4>2 DEF OtherCalls
    <3>3. ASSUME NEW o \in Operators, NEW kind \in Statuses \cup {"edit"}, Begin(o, kind) \/ Save(o)
          PROVE  operation'[p].row.isActive = FALSE
      <4>1. OtherCalls(o) /\ operation'[o].row \in {NoRow, company}
        BY <3>3, CallEffects
      <4> QED
        BY <2>0, <3>1, <4>1 DEF OtherCalls
    <3>4. (UNCHANGED operation) => operation'[p].row.isActive = FALSE
      BY <3>1
    <3> QED
      BY <2>2, <3>2, <3>3, <3>4 DEF TenantNext, WorkStep, SaveCompany, EnqueueProvisioning, EnqueueFails,
         CreateCrashes, TakeJob, StartMigrations, CreateTenantSchema, LockAndReadMigrations,
         ApplyMigration, Unlock, SeedRole, SeedAdmin, Activate, DropLookup, AttemptFails, Suspend,
         SuspendFails, Stall, FindBySubdomain, FillCache, ExpireLookup, tenantVars,
         unchangedByWork, unchangedByVisitor
  <2> QED
    BY <2>3, <2>4, <2>5, <2>6 DEF ServedInv, Dark
<1> QED
  BY <1>1, <1>2 DEF ServedInv

-----------------------------------------------------------------------------
\* Jobs come from a creation and from an operator only.
LEMMA NewJobs ==
    ASSUME TenantTypeOK, [TenantNext]_tenantVars,
           NEW j \in ProvisionJobs, queued[j].st = "none", queued'[j].st # "none"
    PROVE  \/ EnqueueProvisioning /\ queued'[j].creds = (creating = "admin")
           \/ "requeue" \in causes'
<1>1. ASSUME EnqueueProvisioning PROVE queued'[j].creds = (creating = "admin")
  <2>1. AddJob(creating = "admin") /\ (creating = "admin") \in BOOLEAN
    BY <1>1 DEF EnqueueProvisioning
  <2>2. PICK k \in ProvisionJobs : /\ queued'[k].creds = (creating = "admin")
                                   /\ \A i \in ProvisionJobs \ {k} : queued'[i] = queued[i]
    BY <2>1, AddJobKeeps
  <2> QED
    BY <2>2
<1>2. ASSUME NEW o \in Operators, Requeue(o) PROVE "requeue" \in causes'
  BY <1>2 DEF Requeue
<1>3. ASSUME NEW w \in Workers, NEW k \in ProvisionJobs, TakeJob(w, k) PROVE FALSE
  BY <1>3 DEF TakeJob, TenantTypeOK
<1>4. ASSUME NEW w \in Executors, DropLookup(w) PROVE FALSE
  BY <1>4 DEF DropLookup, TenantTypeOK
<1>5. ASSUME NEW w \in Workers, AttemptFails(w) PROVE FALSE
  <2>1. \/ queued' = [queued EXCEPT ![work[w].job] = queued[work[w].job]]
        \/ /\ queued[work[w].job].st = "active"
           /\ \E f : queued' = [queued EXCEPT ![work[w].job] = f]
    BY <1>5 DEF AttemptFails
  <2> QED
    BY <2>1 DEF TenantTypeOK
<1>6. ASSUME NEW k \in ProvisionJobs, Stall(k) PROVE FALSE
  <2>1. queued[k].st = "active" /\ \E f : queued' = [queued EXCEPT ![k] = f]
    BY <1>6 DEF Stall
  <2> QED
    BY <2>1 DEF TenantTypeOK
<1> QED
  BY <1>1, <1>2, <1>3, <1>4, <1>5, <1>6 DEF TenantNext, WorkStep, SaveCompany, EnqueueFails,
     CreateCrashes, StartMigrations, CreateTenantSchema, LockAndReadMigrations, ApplyMigration,
     Unlock, SeedRole, SeedAdmin, Activate, Suspend, SuspendFails, Begin, Reactivate, Save,
     InvalidateSubdomain, FindBySubdomain, FillCache, ExpireLookup, tenantVars,
     unchangedByOperator, unchangedByVisitor

LEMMA CausesGrow ==
    ASSUME [TenantNext]_tenantVars PROVE causes \subseteq causes'
BY DEF TenantNext, WorkStep, SaveCompany, EnqueueProvisioning, EnqueueFails,
   CreateCrashes, TakeJob, StartMigrations, CreateTenantSchema, LockAndReadMigrations,
   ApplyMigration, Unlock, SeedRole, SeedAdmin, Activate, DropLookup, AttemptFails, Suspend,
   SuspendFails, Stall, Begin, Requeue, Reactivate, Save, InvalidateSubdomain, FindBySubdomain,
   FillCache, ExpireLookup, tenantVars, Fault, NoFault

-----------------------------------------------------------------------------
\* The credentials that create was given travel with every job, until an operator has the
\* provisioning enqueued again or activates the row in its middle.
Excused == "requeue" \in causes \/ "reactivate" \in causes
AdminInv ==
    /\ creating = "idle" => company.status = "NONE"
    /\ creating = "admin" => asked = TRUE
    /\ creating = "plain" => asked = FALSE
    /\ asked = TRUE /\ ~Excused =>
        /\ \A j \in ProvisionJobs : queued[j].st # "none" => queued[j].creds = TRUE
        /\ "admin" \in built \/
            /\ company.isActive = FALSE
            /\ \A o \in Operators : operation[o].row.isActive = FALSE
            /\ \A w \in Workers : work[w].pc # "activate"

LEMMA AdminStep ==
    ASSUME TenantTypeOK, Dormant, Calling, WorkInv, Monotone, AdminInv, [TenantNext]_tenantVars
    PROVE  AdminInv'
<1>0. /\ NoRow.isActive = FALSE /\ NoCall.row = NoRow /\ AtRest.pc = "idle"
      /\ \A status, b : Row(status, b).isActive = b
      /\ \A status, b : Row(status, b).status = status
  BY DEF NoRow, Row, NoCall, AtRest
<1>1. ASSUME NEW creds \in Credentials, SaveCompany(creds) PROVE AdminInv'
  <2>1. /\ company.status = "NONE" /\ company'.isActive = FALSE
        /\ creating' \in {"admin", "plain"} /\ asked' = creds
        /\ UNCHANGED <<queued, work, operation, built>>
    BY <1>0, <1>1 DEF SaveCompany, NoRow
  <2>2. /\ \A j \in ProvisionJobs : queued[j].st = "none"
        /\ \A w \in Executors : work[w].pc = "idle"
        /\ \A o \in Operators : operation[o].row = NoRow
    BY <2>1 DEF Dormant, Calling
  <2>3. (creating' = "admin" => asked' = TRUE) /\ (creating' = "plain" => asked' = FALSE)
    <3>1. creds \in BOOLEAN /\ creating' = IF creds THEN "admin" ELSE "plain"
      BY <1>1, TenantAssumption DEF SaveCompany
    <3> QED
      BY <2>1, <3>1
  <2> QED
    BY <1>0, <2>1, <2>2, <2>3 DEF AdminInv, Executors
<1>2. ASSUME \A creds \in Credentials : ~SaveCompany(creds)
      PROVE  AdminInv'
  <2>1. UNCHANGED asked /\ (creating' = creating \/ creating' = "done")
    BY <1>2 DEF TenantNext, WorkStep, EnqueueProvisioning, EnqueueFails,
       CreateCrashes, TakeJob, StartMigrations, CreateTenantSchema, LockAndReadMigrations,
       ApplyMigration, Unlock, SeedRole, SeedAdmin, Activate, DropLookup, AttemptFails, Suspend,
       SuspendFails, Stall, Begin, Requeue, Reactivate, Save, InvalidateSubdomain, FindBySubdomain,
       FillCache, ExpireLookup, tenantVars, unchangedByWork, unchangedByOperator, unchangedByVisitor
  <2>2. creating' = "idle" => company'.status = "NONE"
    <3> SUFFICES ASSUME creating' = "idle" PROVE company'.status = "NONE"
      OBVIOUS
    <3>1. creating = "idle" /\ company.status = "NONE"
      BY <2>1 DEF AdminInv
    <3>2. /\ \A w \in Executors : work[w].pc = "idle"
          /\ \A o \in Operators : operation[o].pc \notin {"check", "save"}
      BY <3>1 DEF Dormant
    <3>3. company' = company
      BY <1>2, <3>1, <3>2 DEF TenantNext, WorkStep, EnqueueProvisioning, EnqueueFails,
         CreateCrashes, TakeJob, StartMigrations, CreateTenantSchema, LockAndReadMigrations,
         ApplyMigration, Unlock, SeedRole, SeedAdmin, Activate, DropLookup, AttemptFails, Suspend,
         SuspendFails, Stall, Begin, Requeue, Reactivate, Save, InvalidateSubdomain, FindBySubdomain,
         FillCache, ExpireLookup, tenantVars, unchangedByWork, unchangedByOperator, unchangedByVisitor, Executors
    <3> QED
      BY <3>1, <3>3
  <2> SUFFICES ASSUME asked = TRUE, ~Excused'
      PROVE  /\ \A j \in ProvisionJobs : queued'[j].st # "none" => queued'[j].creds = TRUE
             /\ "admin" \in built' \/
                 /\ company'.isActive = FALSE
                 /\ \A o \in Operators : operation'[o].row.isActive = FALSE
                 /\ \A w \in Workers : work'[w].pc # "activate"
    <3>1. creating' = "admin" => asked' = TRUE
      BY <2>1 DEF AdminInv
    <3>2. creating' = "plain" => asked' = FALSE
      BY <2>1 DEF AdminInv
    <3> QED
      BY <2>1, <2>2, <3>1, <3>2 DEF AdminInv
  <2>3. ~Excused
    BY CausesGrow DEF Excused
  <2>4. \A j \in ProvisionJobs : queued[j].st # "none" => queued[j].creds = TRUE
    BY <2>3 DEF AdminInv
  <2>5. ASSUME NEW j \in ProvisionJobs, queued'[j].st # "none" PROVE queued'[j].creds = TRUE
    <3>1. CASE queued[j].st # "none"
      BY <2>4, <3>1 DEF Monotone, JobsKept
    <3>2. CASE queued[j].st = "none"
      <4>1. EnqueueProvisioning /\ queued'[j].creds = (creating = "admin")
        BY <2>5, <3>2, NewJobs DEF Excused
      <4>2. creating = "admin"
        BY <4>1 DEF EnqueueProvisioning, AdminInv
      <4> QED
        BY <4>1, <4>2
    <3> QED
      BY <3>1, <3>2
  <2>6. ASSUME "admin" \notin built'
        PROVE  /\ company'.isActive = FALSE
               /\ \A o \in Operators : operation'[o].row.isActive = FALSE
               /\ \A w \in Workers : work'[w].pc # "activate"
    <3>1. /\ company.isActive = FALSE
          /\ \A o \in Operators : operation[o].row.isActive = FALSE
          /\ \A w \in Workers : work[w].pc # "activate"
      BY <2>3, <2>6 DEF AdminInv, Monotone
    <3>2. ASSUME NEW o \in Operators PROVE ~Reactivate(o)
      BY DEF Reactivate, Excused
    <3>3. ASSUME NEW w \in Executors PROVE ~Activate(w) /\ ~SeedAdmin(w)
      BY <2>6, <3>1 DEF Activate, SeedAdmin, WorkInv, WorkAt, Executors
    <3>4. company'.isActive = FALSE
      <4>1. ASSUME NEW o \in Operators, Save(o) PROVE company'.isActive = FALSE
        <5>1. company' = Row(IF operation[o].kind = "edit" THEN operation[o].row.status
                             ELSE operation[o].kind, operation[o].row.isActive)
          BY <4>1 DEF Save
        <5>2. company'.isActive = operation[o].row.isActive
          BY <1>0, <5>1
        <5> QED
          BY <3>1, <5>2
      <4>2. ASSUME EnqueueFails \/ \E w \in Executors : Suspend(w) PROVE company'.isActive = FALSE
        <5>1. company' = Row("SUSPENDED", FALSE)
          BY <4>2 DEF EnqueueFails, Suspend
        <5>2. Row("SUSPENDED", FALSE).isActive = FALSE
          BY DEF Row
        <5> QED
          BY <5>1, <5>2
      <4> QED
        BY <1>2, <3>1, <3>3, <4>1, <4>2 DEF TenantNext, WorkStep, EnqueueProvisioning,
           CreateCrashes, TakeJob, StartMigrations, CreateTenantSchema, LockAndReadMigrations,
           ApplyMigration, Unlock, SeedRole, SeedAdmin, DropLookup, AttemptFails, SuspendFails, Stall,
           Begin, Requeue, Reactivate, InvalidateSubdomain, FindBySubdomain, FillCache, ExpireLookup,
           tenantVars, unchangedByWork, unchangedByOperator, unchangedByVisitor
    <3>5. ASSUME NEW p \in Operators PROVE operation'[p].row.isActive = FALSE
      <4>1. ASSUME NEW o \in Operators, Requeue(o) \/ InvalidateSubdomain(o)
            PROVE  operation'[p].row.isActive = FALSE
        BY <1>0, <3>1, <4>1, CallEffects DEF OtherCalls
      <4>2. ASSUME NEW o \in Operators, NEW kind \in Statuses \cup {"edit"}, Begin(o, kind) \/ Save(o)
            PROVE  operation'[p].row.isActive = FALSE
        <5>1. OtherCalls(o) /\ operation'[o].row \in {NoRow, company}
          BY <4>2, CallEffects
        <5> QED
          BY <1>0, <3>1, <5>1 DEF OtherCalls
      <4>3. (UNCHANGED operation) => operation'[p].row.isActive = FALSE
        BY <3>1
      <4> QED
        BY <1>2, <3>2, <4>1, <4>2, <4>3 DEF TenantNext, WorkStep, EnqueueProvisioning, EnqueueFails,
           CreateCrashes, TakeJob, StartMigrations, CreateTenantSchema, LockAndReadMigrations,
           ApplyMigration, Unlock, SeedRole, SeedAdmin, Activate, DropLookup, AttemptFails, Suspend,
           SuspendFails, Stall, FindBySubdomain, FillCache, ExpireLookup, tenantVars,
           unchangedByWork, unchangedByVisitor
    <3>6. ASSUME NEW x \in Workers PROVE work'[x].pc # "activate"
      <4>0. x \in Executors
        BY DEF Executors
      <4>1. ASSUME NEW w \in Executors, Alone(w), work'[w].pc # "activate" PROVE work'[x].pc # "activate"
        BY <3>1, <4>0, <4>1 DEF Alone
      <4>2. ASSUME NEW w \in Executors, SeedRole(w) PROVE work'[x].pc # "activate"
        <5>1. w \in Workers /\ work[w].job \in ProvisionJobs /\ queued[work[w].job].st # "none"
          BY <4>2 DEF SeedRole, WorkInv, WorkAt, Executors
        <5>2. queued[work[w].job].creds = TRUE
          BY <2>4, <5>1
        <5>3. Alone(w) /\ work'[w].pc = "admin"
          BY <4>2, <5>2, WorkEffects DEF WorkStep, AfterRole
        <5> QED
          BY <4>1, <5>3
      <4>3. ASSUME NEW w \in Executors, WorkStep(w), ~SeedRole(w) PROVE work'[x].pc # "activate"
        <5>1. work'[w].pc # "activate"
          BY <1>0, <3>3, <4>3, WorkEffects DEF WorkStep
        <5> QED
          BY <4>1, <4>3, <5>1, WorkEffects
      <4>4. ASSUME NEW w \in Executors, \/ StartMigrations(w) \/ SuspendFails(w) \/ AttemptFails(w)
                                        \/ \E j \in ProvisionJobs : TakeJob(w, j)
            PROVE  work'[x].pc # "activate"
        <5>1. Alone(w) /\ work'[w].pc # "activate"
          BY <1>0, <4>4, QueueEffects
        <5> QED
          BY <4>1, <5>1
      <4>5. (UNCHANGED work) => work'[x].pc # "activate"
        BY <3>1
      <4> QED
        BY <1>2, <4>2, <4>3, <4>4, <4>5 DEF TenantNext, EnqueueProvisioning, EnqueueFails,
           CreateCrashes, Stall, Begin, Requeue, Reactivate, Save, InvalidateSubdomain,
           FindBySubdomain, FillCache, ExpireLookup, tenantVars, unchangedByOperator,
           unchangedByVisitor, unchangedByWork, Executors
    <3> QED
      BY <3>4, <3>5, <3>6
  <2> QED
    BY <2>5, <2>6
<1> QED
  BY <1>1, <1>2

-----------------------------------------------------------------------------
\* What leaves a company behind that nobody provisions any more.
Lost == causes \cap {"crash", "handler", "stall", "clobber"} # {}
Ordered == company.status = "ACTIVE" /\ company.isActive = FALSE

\* While a company is ordered and not built, no job has ended but one whose failure is
\* about to suspend it.
OrphanInv ==
    Ordered /\ ~Lost =>
        /\ creating # "done" \/ \E j \in ProvisionJobs : queued[j].st # "none"
        /\ \A j \in ProvisionJobs :
              queued[j].st \in {"done", "failed"} => \E w \in Workers : work[w].pc = "suspend"
        /\ \A w \in Workers : work[w].pc # "drop"

\* A row becomes an ordered one in its creation only: an operator's save that brings an
\* older row back counts as a lost update.
LEMMA OrderedOnce ==
    ASSUME TenantTypeOK, Calling, [TenantNext]_tenantVars, Ordered', ~Lost',
           \A creds \in Credentials : ~SaveCompany(creds)
    PROVE  Ordered /\ \A w \in Executors : ~Activate(w) /\ ~Suspend(w)
<1>0. \A status, b : Row(status, b).isActive = b /\ Row(status, b).status = status
  BY DEF Row
<1>1. ASSUME NEW w \in Executors PROVE ~Activate(w) /\ ~Suspend(w)
  <2>1. ~Activate(w)
    BY DEF Activate, Ordered, TenantTypeOK, Rows
  <2>2. ~Suspend(w)
    BY DEF Suspend, Ordered, Row
  <2> QED
    BY <2>1, <2>2
<1>2. ~EnqueueFails
  BY DEF EnqueueFails, Ordered, Row
<1>3. ASSUME NEW o \in Operators, Save(o) PROVE Ordered
  <2> DEFINE call == operation[o]
  <2>1. company' = Row(IF call.kind = "edit" THEN call.row.status ELSE call.kind, call.row.isActive)
    BY <1>3 DEF Save
  <2>2. "clobber" \notin causes'
    BY DEF Lost
  <2>3. /\ company'.isActive # company.isActive => call.kind = "ACTIVE"
        /\ company'.status # company.status => call.kind # "edit"
    BY <1>3, <2>2 DEF Save
  <2>4. call.kind = "ACTIVE" => call.row.isActive = TRUE
    BY <1>3 DEF Save, Calling
  <2>5. company'.isActive = call.row.isActive
    BY <1>0, <2>1
  <2>6. call.kind # "ACTIVE"
    BY <2>4, <2>5 DEF Ordered
  <2>7. call.kind = "edit"
    BY <1>0, <2>1, <2>6 DEF Ordered
  <2> QED
    BY <2>3, <2>6, <2>7 DEF Ordered
<1>4. (UNCHANGED company) => Ordered
  BY DEF Ordered
<1> QED
  BY <1>1, <1>2, <1>3, <1>4 DEF TenantNext, WorkStep, EnqueueProvisioning,
     CreateCrashes, TakeJob, StartMigrations, CreateTenantSchema, LockAndReadMigrations,
     ApplyMigration, Unlock, SeedRole, SeedAdmin, DropLookup, AttemptFails, SuspendFails, Stall,
     Begin, Requeue, Reactivate, InvalidateSubdomain, FindBySubdomain, FillCache, ExpireLookup,
     tenantVars, unchangedByWork, unchangedByOperator, unchangedByVisitor

LEMMA OrphanStep ==
    ASSUME TenantTypeOK, Dormant, Calling, WorkInv, Monotone, OrphanInv, [TenantNext]_tenantVars
    PROVE  OrphanInv'
<1> SUFFICES ASSUME Ordered', ~Lost' PROVE OrphanInv'
  BY DEF OrphanInv
<1>0. AtRest.pc = "idle" /\ NoRow.status = "NONE"
  BY DEF AtRest, NoRow
<1>1. ASSUME NEW creds \in Credentials, SaveCompany(creds) PROVE OrphanInv'
  <2>1. /\ company.status = "NONE" /\ creating' \in {"admin", "plain"} /\ UNCHANGED <<queued, work>>
    BY <1>0, <1>1 DEF SaveCompany
  <2>2. /\ \A j \in ProvisionJobs : queued[j].st = "none"
        /\ \A w \in Executors : work[w].pc = "idle"
    BY <2>1 DEF Dormant
  <2> QED
    BY <2>1, <2>2 DEF OrphanInv, Executors
<1>2. ASSUME \A creds \in Credentials : ~SaveCompany(creds)
      PROVE  OrphanInv'
  <2>1. /\ Ordered /\ ~Lost
        /\ \A w \in Executors : ~Activate(w) /\ ~Suspend(w)
    <3>1. ~Lost
      BY CausesGrow DEF Lost
    <3> QED
      BY <1>2, <3>1, OrderedOnce
  <2>2. /\ creating # "done" \/ \E j \in ProvisionJobs : queued[j].st # "none"
        /\ \A j \in ProvisionJobs :
              queued[j].st \in {"done", "failed"} => \E w \in Workers : work[w].pc = "suspend"
        /\ \A w \in Workers : work[w].pc # "drop"
    BY <2>1 DEF OrphanInv
  <2>3. \A w \in Executors : ~DropLookup(w) /\ ~SuspendFails(w)
    BY <2>2 DEF DropLookup, SuspendFails, WorkInv, WorkAt, Executors, Lost
  <2>4. creating' # "done" \/ \E j \in ProvisionJobs : queued'[j].st # "none"
    <3>1. CASE EnqueueProvisioning
      <4>1. AddJob(creating = "admin") /\ (creating = "admin") \in BOOLEAN
        BY <3>1 DEF EnqueueProvisioning
      <4> QED
        BY <4>1, AddJobKeeps
    <3>2. CASE EnqueueFails \/ CreateCrashes
      BY <3>2 DEF EnqueueFails, CreateCrashes, Fault, Ordered, Row, Lost
    <3>3. CASE ~EnqueueProvisioning /\ ~EnqueueFails /\ ~CreateCrashes
      <4>1. creating' = creating
        BY <1>2, <3>3 DEF TenantNext, WorkStep,
           TakeJob, StartMigrations, CreateTenantSchema, LockAndReadMigrations,
           ApplyMigration, Unlock, SeedRole, SeedAdmin, Activate, DropLookup, AttemptFails, Suspend,
           SuspendFails, Stall, Begin, Requeue, Reactivate, Save, InvalidateSubdomain, FindBySubdomain,
           FillCache, ExpireLookup, tenantVars, unchangedByWork, unchangedByOperator, unchangedByVisitor
      <4> QED
        BY <2>2, <4>1 DEF Monotone, JobsKept
    <3> QED
      BY <3>1, <3>2, <3>3
  <2>5. ASSUME NEW w \in Executors, Alone(w), work[w].pc # "suspend", work'[w].pc # "drop",
               \A j \in ProvisionJobs : queued'[j].st \in {"done", "failed"}
                    => queued[j].st \in {"done", "failed"} \/ (w \in Workers /\ work'[w].pc = "suspend")
        PROVE  OrphanInv'
    <3>1. \A x \in Workers : work'[x].pc # "drop"
      BY <2>2, <2>5 DEF Alone, Executors
    <3>2. \A x \in Workers : work[x].pc = "suspend" => work'[x].pc = "suspend"
      BY <2>5 DEF Alone, Executors
    <3>3. ASSUME NEW j \in ProvisionJobs, queued'[j].st \in {"done", "failed"}
          PROVE  \E x \in Workers : work'[x].pc = "suspend"
      BY <2>2, <2>5, <3>2, <3>3
    <3> QED
      BY <2>4, <3>1, <3>3 DEF OrphanInv
  <2>6. ASSUME UNCHANGED work,
               \A j \in ProvisionJobs : queued'[j].st \in {"done", "failed"}
                    => queued[j].st \in {"done", "failed"}
        PROVE  OrphanInv'
    BY <2>2, <2>4, <2>6 DEF OrphanInv
  <2>7. ASSUME NEW w \in Executors, WorkStep(w) PROVE OrphanInv'
    <3>1. Alone(w) /\ work'[w].pc # "drop" /\ work[w].pc # "suspend" /\ UNCHANGED queued
      <4>1. /\ Alone(w)
            /\ work'[w].pc # "drop"
        BY <1>0, <2>1, <2>3, <2>7, WorkEffects DEF WorkStep, AfterRole
      <4>2. work[w].pc # "suspend" /\ UNCHANGED queued
        BY <2>1, <2>3, <2>7 DEF WorkStep, CreateTenantSchema, LockAndReadMigrations,
           ApplyMigration, Unlock, SeedRole, SeedAdmin
      <4> QED
        BY <4>1, <4>2
    <3> QED
      BY <2>5, <3>1
  <2>8. ASSUME NEW w \in Deployers, StartMigrations(w) PROVE OrphanInv'
    <3>1. Alone(w) /\ w \in Executors /\ work'[w].pc = "lock" /\ work[w] = AtRest /\ UNCHANGED queued
      BY <2>8, QueueEffects DEF StartMigrations, Executors
    <3> QED
      BY <1>0, <2>5, <3>1
  <2>9. ASSUME NEW w \in Workers, NEW j \in ProvisionJobs, TakeJob(w, j) PROVE OrphanInv'
    <3>1. Alone(w) /\ w \in Executors /\ work'[w].pc = "schema" /\ work[w] = AtRest
      BY <2>9, QueueEffects DEF TakeJob, Executors
    <3>2. \A k \in ProvisionJobs : queued'[k].st \in {"done", "failed"} => queued[k].st \in {"done", "failed"}
      <4> DEFINE f == [queued[j] EXCEPT !.st = "active", !.by = w]
      <4>1. queued[j] \in Jobs
        BY DEF TenantTypeOK
      <4>2. f.st = "active"
        BY <4>1 DEF Jobs
      <4>3. queued' = [queued EXCEPT ![j] = f]
        BY <2>9 DEF TakeJob
      <4> HIDE DEF f
      <4> QED
        BY <4>2, <4>3 DEF TenantTypeOK
    <3> QED
      BY <1>0, <2>5, <3>1, <3>2
  <2>10. ASSUME NEW w \in Workers, AttemptFails(w) PROVE OrphanInv'
    <3> DEFINE j == work[w].job
               owner == queued[j].st = "active" /\ queued[j].by = w
               last == queued[j].made + 1 >= ProvisionAttempts
               st == IF last THEN "failed" ELSE "waiting"
               f == [queued[j] EXCEPT !.made = @ + 1, !.st = st]
               g == [work[w] EXCEPT !.pc = "suspend", !.todo = {}]
    <3>1. /\ w \in Executors /\ Alone(w) /\ work[w].pc \notin {"suspend", "idle"}
          /\ work'[w] = AtRest \/ work'[w].pc = "suspend"
      BY <2>10, QueueEffects DEF AttemptFails, Executors
    <3>2. j \in ProvisionJobs /\ queued[j] \in Jobs
      BY <3>1 DEF WorkInv, WorkAt, TenantTypeOK
    <3>3. /\ queued' = [queued EXCEPT ![j] = IF ~owner THEN queued[j] ELSE f]
          /\ work' = [work EXCEPT ![w] = IF owner /\ last THEN g ELSE AtRest]
      BY <2>10 DEF AttemptFails
    <3>4. f.st = st
      BY <3>2 DEF Jobs
    <3>5. g.pc = "suspend"
      <4>1. work[w] \in Works
        BY <3>1 DEF TenantTypeOK
      <4> QED
        BY <4>1 DEF Works
    <3>6. work'[w] = IF owner /\ last THEN g ELSE AtRest
      <4> HIDE DEF owner, last, g
      <4> QED
        BY <3>1, <3>3 DEF TenantTypeOK
    <3>7. queued'[j] = IF ~owner THEN queued[j] ELSE f
      <4> HIDE DEF owner, last, f
      <4> QED
        BY <3>2, <3>3 DEF TenantTypeOK
    <3>8. \A k \in ProvisionJobs \ {j} : queued'[k] = queued[k]
      <4> HIDE DEF owner, last, f, j
      <4> QED
        BY <3>3 DEF TenantTypeOK
    <3>9. queued'[j].st \in {"done", "failed"}
            => queued[j].st \in {"done", "failed"} \/ work'[w].pc = "suspend"
      <4> HIDE DEF owner, last, f, g, j
      <4> QED
        BY <3>4, <3>5, <3>6, <3>7
    <3>10. \A k \in ProvisionJobs : queued'[k].st \in {"done", "failed"}
             => queued[k].st \in {"done", "failed"} \/ (w \in Workers /\ work'[w].pc = "suspend")
      <4> HIDE DEF j
      <4> QED
        BY <3>8, <3>9
    <3> QED
      BY <1>0, <2>5, <3>1, <3>10
  <2>11. ASSUME NEW j \in ProvisionJobs, Stall(j) PROVE OrphanInv'
    <3> DEFINE f == [queued[j] EXCEPT !.st = "waiting", !.stalls = 1]
    <3>1. queued' = [queued EXCEPT ![j] = f] /\ UNCHANGED work
      BY <2>11 DEF Stall, Fault, Lost
    <3>2. f.st = "waiting"
      <4>1. queued[j] \in Jobs
        BY DEF TenantTypeOK
      <4> QED
        BY <4>1 DEF Jobs
    <3> HIDE DEF f
    <3>3. \A k \in ProvisionJobs : queued'[k].st \in {"done", "failed"} => queued[k].st \in {"done", "failed"}
      BY <3>1, <3>2 DEF TenantTypeOK
    <3> QED
      BY <2>6, <3>1, <3>3
  <2>12. ASSUME NEW creds \in BOOLEAN, AddJob(creds), UNCHANGED work PROVE OrphanInv'
    <3>1. PICK k \in ProvisionJobs : /\ queued'[k].st = "waiting"
                                     /\ \A i \in ProvisionJobs \ {k} : queued'[i] = queued[i]
      BY <2>12, AddJobKeeps
    <3> QED
      BY <2>6, <2>12, <3>1
  <2>13. CASE EnqueueProvisioning
    <3>1. AddJob(creating = "admin") /\ (creating = "admin") \in BOOLEAN /\ UNCHANGED work
      BY <2>13 DEF EnqueueProvisioning
    <3> QED
      BY <2>12, <3>1
  <2>14. ASSUME NEW o \in Operators, Requeue(o) PROVE OrphanInv'
    <3>1. (AddJob(FALSE) \/ UNCHANGED queued) /\ UNCHANGED work
      BY <2>14 DEF Requeue, unchangedByOperator
    <3> QED
      BY <2>6, <2>12, <3>1
  <2>15. (UNCHANGED <<queued, work>>) => OrphanInv'
    BY <2>6
  <2> QED
    BY <1>2, <2>3, <2>7, <2>8, <2>9, <2>10, <2>11, <2>13, <2>14, <2>15 DEF TenantNext, EnqueueFails,
       CreateCrashes, Begin, Reactivate, Save, InvalidateSubdomain, FindBySubdomain, FillCache,
       ExpireLookup, tenantVars, unchangedByOperator, unchangedByVisitor, Executors
<1> QED
  BY <1>1, <1>2

-----------------------------------------------------------------------------
TenantIInv == /\ TenantTypeOK /\ Dormant /\ Calling /\ WorkInv
              /\ ServedInv /\ AdminInv /\ OrphanInv

LEMMA TenantInitInv == TenantInit => TenantIInv
<1> SUFFICES ASSUME TenantInit PROVE TenantIInv
  OBVIOUS
<1>0. /\ NoRow.isActive = FALSE /\ NoRow.status = "NONE" /\ NoCall.row = NoRow /\ NoCall.pc = "idle"
      /\ AtRest.pc = "idle" /\ NoJob.st = "none"
  BY DEF NoRow, NoCall, AtRest, NoJob
<1>1. TenantTypeOK
  BY Literals DEF TenantInit, TenantTypeOK
<1>2. Dormant /\ Calling
  BY <1>0 DEF TenantInit, Dormant, Calling
<1>3. WorkInv
  BY <1>0, TenantAssumption DEF TenantInit, WorkInv, WorkAt, Executors, Free
<1>4. ServedInv
  BY <1>0 DEF TenantInit, ServedInv, Dark
<1>5. AdminInv /\ OrphanInv
  BY <1>0 DEF TenantInit, AdminInv, OrphanInv, Ordered
<1> QED
  BY <1>1, <1>2, <1>3, <1>4, <1>5 DEF TenantIInv

LEMMA TenantNextInv == TenantIInv /\ [TenantNext]_tenantVars => TenantIInv'
<1> SUFFICES ASSUME TenantIInv, [TenantNext]_tenantVars PROVE TenantIInv'
  OBVIOUS
<1> USE DEF TenantIInv
<1>1. Monotone
  BY MonotoneStep
<1>2. TenantTypeOK' /\ Dormant' /\ Calling'
  BY TenantTypeStep, DormantStep, CallingStep
<1>3. WorkInv' /\ ServedInv'
  BY <1>1, WorkStepInv, ServedStep
<1>4. AdminInv' /\ OrphanInv'
  BY <1>1, AdminStep, OrphanStep
<1> QED
  BY <1>2, <1>3, <1>4

\* The invariant the results below rest on.
THEOREM TenantInvariant == TenantSpec => []TenantIInv
BY TenantInitInv, TenantNextInv, PTL DEF TenantSpec

\* No request is resolved to a schema whose initial migration is not committed, however the
\* processor, the operators' calls and the cache interleave (tenant-provisioning.processor.ts:95).
THEOREM ServedAreBuilt == TenantSpec => []ServiceableIsBuilt
<1>1. TenantIInv => ServiceableIsBuilt
  BY DEF TenantIInv, ServedInv, Completed, Dark, ServiceableIsBuilt
<1> QED
  BY <1>1, TenantInvariant, PTL

\* The advisory lock of the schema keeps any number of job executions and deployments from
\* applying one migration twice (tenant-migration.service.ts:158).
THEOREM MigrationsOnce == TenantSpec => []NoDuplicateMigration
<1>1. TenantIInv => NoDuplicateMigration
  BY DEF TenantIInv, WorkInv, WorkAt, NoDuplicateMigration
<1> QED
  BY <1>1, TenantInvariant, PTL

\* The administrator a tenant was ordered with exists before the tenant serves
\* (tenant-provisioning.processor.ts:78).
THEOREM AdministratorFirst == TenantSpec => []AdminBeforeService
<1>1. TenantIInv => AdminBeforeService
  <2> SUFFICES ASSUME TenantIInv, asked, company.isActive, ~Excused PROVE "admin" \in built
    BY DEF AdminBeforeService, Excused
  <2>1. asked = TRUE /\ company.isActive = TRUE
    BY DEF TenantIInv, TenantTypeOK, Rows
  <2> QED
    BY <2>1 DEF TenantIInv, AdminInv
<1> QED
  BY <1>1, TenantInvariant, PTL

\* An ordered company is not forgotten: its creation or a job is under way, or one of the
\* four causes the code does not recover from is on record (tenants-admin.service.ts:219).
THEOREM OrphansAreExplained == TenantSpec => []NoSilentOrphan
<1>1. TenantIInv => NoSilentOrphan
  <2> SUFFICES ASSUME TenantIInv, company = Row("ACTIVE", FALSE), ~Lost, creating = "done"
               PROVE  \/ \E j \in ProvisionJobs : queued[j].st \in {"waiting", "active"}
                      \/ \E w \in Workers : work[w].pc # "idle"
    BY DEF NoSilentOrphan, Lost
  <2>1. Ordered
    BY DEF Row, Ordered
  <2>2. PICK j \in ProvisionJobs : queued[j].st # "none"
    BY <2>1 DEF TenantIInv, OrphanInv
  <2>3. queued[j].st \in {"none", "waiting", "active", "done", "failed"}
    BY DEF TenantIInv, TenantTypeOK, Jobs
  <2>4. queued[j].st \in {"done", "failed"} => \E w \in Workers : work[w].pc = "suspend"
    BY <2>1 DEF TenantIInv, OrphanInv
  <2> QED
    BY <2>2, <2>3, <2>4
<1> QED
  BY <1>1, TenantInvariant, PTL
=============================================================================
