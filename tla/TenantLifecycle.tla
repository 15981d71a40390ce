--------------------------- MODULE TenantLifecycle ---------------------------
(***************************************************************************)
(* The life of one company: TenantsAdminService creates the row and        *)
(* enqueues its provisioning, TenantProvisioningProcessor builds the       *)
(* schema and activates the row, the deploy CLI migrates existing schemas, *)
(* operators edit and suspend the row, and TenantMiddleware resolves       *)
(* requests through the cached row of TenantsService.                      *)
(*                                                                         *)
(* An operator's endpoint reads the whole row, and TypeORM's save writes   *)
(* every column that differs from the database when it is called: Begin    *)
(* and Save are two steps, and Save stores the columns that Begin read.    *)
(***************************************************************************)
EXTENDS Naturals, FiniteSets

CONSTANTS
    Workers,        \* executions of the provisioning queue
    Deployers,      \* runs of the tenant-migrations CLI
    Operators,      \* platform operators
    Visitors,       \* requests that resolve the subdomain
    Credentials,    \* whether create may be given an administrator's credentials
    ProvisionJobs,  \* bound on the jobs of the queue
    MigrationCount, \* length of TENANT_MIGRATIONS
    ProvisionAttempts, \* TENANT_PROVISIONING_JOB_OPTIONS.attempts
    MaxOperations,  \* bound on the operators' calls
    MaxTenantFaults \* bound on failed calls, stalls and crashes

ASSUME TenantAssumption ==
    /\ MigrationCount \in Nat \ {0} /\ ProvisionAttempts \in Nat \ {0}
    /\ MaxOperations \in Nat /\ MaxTenantFaults \in Nat
    /\ IsFiniteSet(ProvisionJobs) /\ Credentials \subseteq BOOLEAN
    /\ Workers \cap Deployers = {} /\ "free" \notin Workers \cup Deployers

VARIABLES
    company,   \* the row of public.companies, NoRow before its creation
    creating,  \* "idle", "plain" or "admin" while create runs, "done"
    asked,     \* create was given the credentials of an administrator
    built,     \* committed milestones of the tenant schema
    applied,   \* rows of its _tenant_migrations
    queued,    \* the provisioning jobs
    work,      \* the executions of jobs and of the CLI
    ddlLock,   \* holder of the advisory lock of the schema
    operation, \* the operators' calls in progress
    operations, \* number of calls so far
    subdomain, \* the cached company row
    lookup,    \* rows read from the database and not cached yet
    faults,    \* failures so far
    causes     \* what happened that the code does not recover from by itself

tenantVars == <<company, creating, asked, built, applied, queued, work, ddlLock,
                operation, operations, subdomain, lookup, faults, causes>>

NoRow == [status |-> "NONE", isActive |-> FALSE]
Row(status, isActive) == [status |-> status, isActive |-> isActive]
Statuses == {"ACTIVE", "SUSPENDED", "GRACE_PERIOD"}
Free == "free"
Executors == Workers \cup Deployers
Migrations == 1 .. MigrationCount
NoJob == [st |-> "none", creds |-> FALSE, made |-> 0, stalls |-> 0, by |-> Free]
NewJob(creds) == [NoJob EXCEPT !.st = "waiting", !.creds = creds]
AtRest == [pc |-> "idle", job |-> 0, todo |-> {}]
NoCall == [pc |-> "idle", kind |-> "none", row |-> NoRow]

TenantInit ==
    /\ company = NoRow /\ creating = "idle" /\ asked = FALSE
    /\ built = {} /\ applied = {}
    /\ queued = [j \in ProvisionJobs |-> NoJob]
    /\ work = [w \in Executors |-> AtRest] /\ ddlLock = Free
    /\ operation = [o \in Operators |-> NoCall] /\ operations = 0
    /\ subdomain = NoRow /\ lookup = [v \in Visitors |-> NoRow]
    /\ faults = 0 /\ causes = {}

Fault(c) == faults < MaxTenantFaults /\ faults' = faults + 1 /\ causes' = causes \cup c
NoFault == UNCHANGED <<faults, causes>>

-----------------------------------------------------------------------------
(* TenantsAdminService.create                                              *)

\* The row starts inactive; a taken subdomain, seen by the read or by the
\* UNIQUE constraint, ends the call with a 409 and changes nothing.
SaveCompany(creds) ==
    /\ company = NoRow
    /\ company' = Row("ACTIVE", FALSE)
    /\ creating' = IF creds THEN "admin" ELSE "plain"
    /\ asked' = creds
    /\ UNCHANGED <<built, applied, queued, work, ddlLock, operation, operations,
                   subdomain, lookup, faults, causes>>

AddJob(creds) ==
    \E j \in ProvisionJobs :
        queued[j] = NoJob /\ queued' = [queued EXCEPT ![j] = NewJob(creds)]

EnqueueProvisioning ==
    /\ creating \in {"plain", "admin"}
    /\ AddJob(creating = "admin")
    /\ creating' = "done"
    /\ UNCHANGED <<company, asked, built, applied, work, ddlLock, operation,
                   operations, subdomain, lookup, faults, causes>>

\* Mutant: the catch block only rethrows.
EnqueueFailsSilently ==
    /\ creating \in {"plain", "admin"} /\ Fault({})
    /\ creating' = "done"
    /\ UNCHANGED <<company, asked, built, applied, queued, work, ddlLock, operation,
                   operations, subdomain, lookup>>

\* Redis refuses the job: the row is suspended, so that updateStatus recovers it.
EnqueueFails ==
    /\ creating \in {"plain", "admin"} /\ Fault({})
    /\ company' = Row("SUSPENDED", FALSE)
    /\ creating' = "done"
    /\ UNCHANGED <<asked, built, applied, queued, work, ddlLock, operation, operations,
                   subdomain, lookup>>

\* The API process dies between the committed row and the enqueue.
CreateCrashes ==
    /\ creating \in {"plain", "admin"} /\ Fault({"crash"})
    /\ creating' = "done"
    /\ UNCHANGED <<company, asked, built, applied, queued, work, ddlLock, operation,
                   operations, subdomain, lookup>>

-----------------------------------------------------------------------------
(* TenantProvisioningProcessor and the migration runner                    *)

unchangedByWork == <<creating, asked, operation, operations, lookup>>

TakeJob(w, j) ==
    /\ work[w] = AtRest /\ queued[j].st = "waiting"
    /\ queued' = [queued EXCEPT ![j] = [@ EXCEPT !.st = "active", !.by = w]]
    /\ work' = [work EXCEPT ![w] = [AtRest EXCEPT !.pc = "schema", !.job = j]]
    /\ UNCHANGED <<company, built, applied, ddlLock, subdomain, faults, causes>>
    /\ UNCHANGED unchangedByWork

\* The deploy CLI visits the schema, and skips one that does not exist.
StartMigrations(w) ==
    /\ work[w] = AtRest /\ company # NoRow /\ "schema" \in built
    /\ work' = [work EXCEPT ![w].pc = "lock"]
    /\ UNCHANGED <<company, built, applied, queued, ddlLock, subdomain, faults, causes>>
    /\ UNCHANGED unchangedByWork

CreateTenantSchema(w) ==
    /\ work[w].pc = "schema"
    /\ built' = built \cup {"schema"}
    /\ work' = [work EXCEPT ![w].pc = "lock"]
    /\ UNCHANGED <<company, applied, queued, ddlLock, subdomain, faults, causes>>
    /\ UNCHANGED unchangedByWork

\* Mutant: runMigrations outside of withSchemaLock.
ReadMigrations(w) ==
    /\ work[w].pc = "lock"
    /\ work' = [work EXCEPT ![w] = [@ EXCEPT !.pc = "apply", !.todo = Migrations \ applied]]
    /\ UNCHANGED <<company, built, applied, queued, ddlLock, subdomain, faults, causes>>
    /\ UNCHANGED unchangedByWork

\* withSchemaLock, then the read of the applied ids.
LockAndReadMigrations(w) ==
    /\ work[w].pc = "lock" /\ ddlLock = Free
    /\ ddlLock' = w
    /\ work' = [work EXCEPT ![w] = [@ EXCEPT !.pc = "apply", !.todo = Migrations \ applied]]
    /\ UNCHANGED <<company, built, applied, queued, subdomain, faults, causes>>
    /\ UNCHANGED unchangedByWork

NextMigration(w) == CHOOSE m \in work[w].todo : \A k \in work[w].todo : m <= k

\* One migration and its marker row commit together.
ApplyMigration(w) ==
    /\ work[w].pc = "apply" /\ work[w].todo # {}
    /\ LET m == NextMigration(w) IN
        /\ m \notin applied
        /\ applied' = applied \cup {m}
        /\ work' = [work EXCEPT ![w].todo = @ \ {m}]
    /\ UNCHANGED <<company, built, queued, ddlLock, subdomain, faults, causes>>
    /\ UNCHANGED unchangedByWork

\* The lock is released and, for a job, the default role is seeded next.
Unlock(w) ==
    /\ work[w].pc = "apply" /\ work[w].todo = {}
    /\ ddlLock' = IF ddlLock = w THEN Free ELSE ddlLock
    /\ work' = [work EXCEPT ![w] = IF w \in Deployers THEN AtRest
                                   ELSE [@ EXCEPT !.pc = "role"]]
    /\ UNCHANGED <<company, built, applied, queued, subdomain, faults, causes>>
    /\ UNCHANGED unchangedByWork

\* Mutant: the company is activated before its administrator is created.
AfterRoleActivate(job) == "activate"
AfterRole(job) == IF job.creds THEN "admin" ELSE "activate"

SeedRole(w) ==
    /\ work[w].pc = "role"
    /\ built' = built \cup {"role"}
    /\ work' = [work EXCEPT ![w].pc = AfterRole(queued[work[w].job])]
    /\ UNCHANGED <<company, applied, queued, ddlLock, subdomain, faults, causes>>
    /\ UNCHANGED unchangedByWork

\* createSuperAdminInSchema: a user of that email is left as it is.
SeedAdmin(w) ==
    /\ work[w].pc = "admin"
    /\ built' = built \cup {"role", "admin"}
    /\ work' = [work EXCEPT ![w].pc = "activate"]
    /\ UNCHANGED <<company, applied, queued, ddlLock, subdomain, faults, causes>>
    /\ UNCHANGED unchangedByWork

Activate(w) ==
    /\ work[w].pc = "activate"
    /\ company' = [company EXCEPT !.isActive = TRUE]
    /\ work' = [work EXCEPT ![w].pc = "drop"]
    /\ UNCHANGED <<built, applied, queued, ddlLock, subdomain, faults, causes>>
    /\ UNCHANGED unchangedByWork

\* invalidateCompanyLookup is best effort. A worker that lost the job to a
\* stall cannot complete it.
DropLookup(w) ==
    /\ work[w].pc = "drop"
    /\ \/ subdomain' = NoRow /\ NoFault
       \/ Fault({}) /\ UNCHANGED subdomain
    /\ queued' = [queued EXCEPT ![work[w].job] =
                    IF @.st = "active" /\ @.by = w THEN [@ EXCEPT !.st = "done"] ELSE @]
    /\ work' = [work EXCEPT ![w] = AtRest]
    /\ UNCHANGED <<company, built, applied, ddlLock>>
    /\ UNCHANGED unchangedByWork

\* A step throws: BullMQ retries the job, and after the last attempt
\* handleFailed suspends the company.
AttemptFails(w) ==
    /\ w \in Workers /\ work[w].pc \in {"schema", "lock", "apply", "role", "admin", "activate"}
    /\ Fault({})
    /\ ddlLock' = IF ddlLock = w THEN Free ELSE ddlLock
    /\ LET job == queued[work[w].job]
           owner == job.st = "active" /\ job.by = w
           last == job.made + 1 >= ProvisionAttempts
       IN  /\ queued' = [queued EXCEPT ![work[w].job] =
                            IF ~owner THEN job
                            ELSE [job EXCEPT !.made = @ + 1,
                                             !.st = IF last THEN "failed" ELSE "waiting"]]
           /\ work' = [work EXCEPT ![w] = IF owner /\ last
                                          THEN [@ EXCEPT !.pc = "suspend", !.todo = {}]
                                          ELSE AtRest]
    /\ UNCHANGED <<company, built, applied, subdomain>>
    /\ UNCHANGED unchangedByWork

Suspend(w) ==
    /\ work[w].pc = "suspend"
    /\ company' = Row("SUSPENDED", FALSE)
    /\ work' = [work EXCEPT ![w].pc = "drop"]
    /\ UNCHANGED <<built, applied, queued, ddlLock, subdomain, faults, causes>>
    /\ UNCHANGED unchangedByWork

\* The update of handleFailed fails: nothing calls it again.
SuspendFails(w) ==
    /\ work[w].pc = "suspend"
    /\ causes' = causes \cup {"handler"}
    /\ work' = [work EXCEPT ![w] = AtRest]
    /\ UNCHANGED <<company, built, applied, queued, ddlLock, subdomain, faults>>
    /\ UNCHANGED unchangedByWork

\* BullMQ hands out a job whose worker missed its heartbeat, while that worker
\* may still be running; a job that stalls again fails with attempts left, for
\* which handleFailed returns at once.
Stall(j) ==
    /\ queued[j].st = "active"
    /\ IF queued[j].stalls = 0
       THEN /\ Fault({})
            /\ queued' = [queued EXCEPT ![j] = [@ EXCEPT !.st = "waiting", !.stalls = 1]]
       ELSE /\ Fault({"stall"})
            /\ queued' = [queued EXCEPT ![j].st = "failed"]
    /\ UNCHANGED <<company, built, applied, work, ddlLock, subdomain>>
    /\ UNCHANGED unchangedByWork

WorkStep(w) ==
    \/ CreateTenantSchema(w) \/ LockAndReadMigrations(w) \/ ApplyMigration(w)
    \/ Unlock(w) \/ SeedRole(w) \/ SeedAdmin(w) \/ Activate(w) \/ DropLookup(w)
    \/ Suspend(w)

-----------------------------------------------------------------------------
(* TenantsAdminService.updateStatus and update                             *)

unchangedByOperator == <<creating, asked, built, applied, work, ddlLock, lookup>>

Begin(o, kind) ==
    /\ operation[o] = NoCall /\ company # NoRow /\ operations < MaxOperations
    /\ operations' = operations + 1
    /\ operation' = [operation EXCEPT ![o] =
            [pc |-> IF kind = "ACTIVE" /\ ~company.isActive THEN "check" ELSE "save",
             kind |-> kind, row |-> company]]
    /\ UNCHANGED <<company, queued, subdomain, faults, causes>>
    /\ UNCHANGED unchangedByOperator

\* Mutant: an existing schema is taken for a provisioned one.
SchemaExists == "schema" \in built
Seeded == "schema" \in built /\ 1 \in applied

\* Reactivation of an unprovisioned tenant: a job without credentials and a 409.
Requeue(o) ==
    /\ operation[o].pc = "check" /\ ~Seeded
    /\ \/ AddJob(FALSE) /\ causes' = causes \cup {"requeue"} /\ UNCHANGED faults
       \/ Fault({}) /\ UNCHANGED queued
    /\ operation' = [operation EXCEPT ![o] = NoCall]
    /\ UNCHANGED <<company, operations, subdomain>>
    /\ UNCHANGED unchangedByOperator

Reactivate(o) ==
    /\ operation[o].pc = "check" /\ Seeded
    /\ operation' = [operation EXCEPT ![o] = [@ EXCEPT !.pc = "save", !.row.isActive = TRUE]]
    /\ causes' = causes \cup {"reactivate"}
    /\ UNCHANGED <<company, queued, operations, subdomain, faults>>
    /\ UNCHANGED unchangedByOperator

\* "edit" is the update of the descriptive columns, which are not modelled.
Save(o) ==
    /\ operation[o].pc = "save"
    /\ LET call == operation[o] IN
        /\ company' = Row(IF call.kind = "edit" THEN call.row.status ELSE call.kind,
                          call.row.isActive)
        /\ causes' = IF \/ company'.isActive # company.isActive /\ call.kind # "ACTIVE"
                        \/ company'.status # company.status /\ call.kind = "edit"
                     THEN causes \cup {"clobber"} ELSE causes
    /\ operation' = [operation EXCEPT ![o] = [NoCall EXCEPT !.pc = "drop"]]
    /\ UNCHANGED <<queued, operations, subdomain, faults>>
    /\ UNCHANGED unchangedByOperator

InvalidateSubdomain(o) ==
    /\ operation[o].pc = "drop"
    /\ \/ subdomain' = NoRow /\ NoFault
       \/ Fault({}) /\ UNCHANGED subdomain
    /\ operation' = [operation EXCEPT ![o] = NoCall]
    /\ UNCHANGED <<company, queued, operations>>
    /\ UNCHANGED unchangedByOperator

-----------------------------------------------------------------------------
(* TenantsService.findBySubdomain and TenantMiddleware                     *)

unchangedByVisitor == <<company, creating, asked, built, applied, queued, work,
                        ddlLock, operation, operations>>

\* A miss, or a bypassed read of the cache: the row comes from the database.
FindBySubdomain(v) ==
    /\ lookup[v] = NoRow /\ company.isActive
    /\ \/ subdomain = NoRow /\ NoFault
       \/ Fault({})
    /\ lookup' = [lookup EXCEPT ![v] = company]
    /\ UNCHANGED subdomain /\ UNCHANGED unchangedByVisitor

FillCache(v) ==
    /\ lookup[v] # NoRow
    /\ \/ subdomain' = lookup[v] /\ NoFault
       \/ Fault({}) /\ UNCHANGED subdomain
    /\ lookup' = [lookup EXCEPT ![v] = NoRow]
    /\ UNCHANGED unchangedByVisitor

\* Mutant: set without CACHE_TTL_MS.
NeverExpires == FALSE /\ UNCHANGED tenantVars
ExpireLookup ==
    /\ subdomain # NoRow /\ subdomain' = NoRow
    /\ UNCHANGED <<lookup, faults, causes>> /\ UNCHANGED unchangedByVisitor

\* TenantMiddleware.use lets a request of this row through.
Resolves(row) == row.isActive /\ row.status # "SUSPENDED"

TenantNext ==
    \/ \E creds \in Credentials : SaveCompany(creds)
    \/ EnqueueProvisioning \/ EnqueueFails \/ CreateCrashes
    \/ \E w \in Workers, j \in ProvisionJobs : TakeJob(w, j)
    \/ \E w \in Deployers : StartMigrations(w)
    \/ \E w \in Executors : WorkStep(w)
    \/ \E w \in Workers : AttemptFails(w) \/ SuspendFails(w)
    \/ \E j \in ProvisionJobs : Stall(j)
    \/ \E o \in Operators, kind \in Statuses \cup {"edit"} : Begin(o, kind)
    \/ \E o \in Operators : Requeue(o) \/ Reactivate(o) \/ Save(o) \/ InvalidateSubdomain(o)
    \/ \E v \in Visitors : FindBySubdomain(v) \/ FillCache(v)
    \/ ExpireLookup

\* BullMQ keeps a worker busy while jobs wait, a running job goes on, an HTTP
\* handler ends, and Redis drops an entry whose TTL is over.
TenantFairness ==
    /\ \A w \in Executors : WF_tenantVars(WorkStep(w))
    /\ \A w \in Workers : WF_tenantVars(\E j \in ProvisionJobs : TakeJob(w, j))
    /\ \A o \in Operators : WF_tenantVars(Reactivate(o) \/ Save(o) \/ InvalidateSubdomain(o))
    /\ \A v \in Visitors : WF_tenantVars(FillCache(v))
    /\ WF_tenantVars(ExpireLookup)

TenantSpec == TenantInit /\ [][TenantNext]_tenantVars /\ TenantFairness

-----------------------------------------------------------------------------
\* Whatever a request can be resolved with, the row itself, its cached copy or a
\* copy about to be cached, belongs to a schema whose initial migration has been
\* committed: neither the processor, nor a reactivation, nor an overlapping save
\* of a stale row makes a tenant serviceable before it is built
\* (tenant-provisioning.processor.ts:95, tenants-admin.service.ts:340).
ServiceableIsBuilt ==
    (\/ company.isActive \/ subdomain.isActive
     \/ \E v \in Visitors : lookup[v].isActive
     \/ \E o \in Operators : operation[o].row.isActive) => "schema" \in built /\ 1 \in applied

\* Two executions of one job after a stall, or a job beside the deploy CLI, never
\* try to apply one migration twice (schema.service.ts:47, tenant-migration.service.ts:158).
NoDuplicateMigration ==
    \A w \in Executors : work[w].pc = "apply" => work[w].todo \cap applied = {}

\* A tenant that was ordered with the credentials of an administrator is
\* serviceable only once that administrator exists, unless an operator reactivated
\* it in the middle of its provisioning or had the provisioning re-enqueued, which
\* forgets the credentials (tenant-provisioning.processor.ts:78).
AdminBeforeService ==
    asked /\ company.isActive =>
        "admin" \in built \/ causes \cap {"requeue", "reactivate"} # {}

\* A company that is ACTIVE but not serviceable has its create call or a job under
\* way; a process death, a second stall, a failed suspension and an operator's
\* save of a stale row are the only ways to lose one silently
\* (tenants-admin.service.ts:219).
NoSilentOrphan ==
    company = Row("ACTIVE", FALSE) =>
        \/ creating # "done"
        \/ \E j \in ProvisionJobs : queued[j].st \in {"waiting", "active"}
        \/ \E w \in Workers : work[w].pc # "idle"
        \/ causes \cap {"crash", "handler", "stall", "clobber"} # {}

\* A company that stays suspended is refused for good after a while, although a
\* lookup that was in flight may put its old row back into the cache after the
\* suspension dropped it (tenants.service.ts:18, tenant.middleware.ts:104).
SuspensionEnforced ==
    <>[](company.status = "SUSPENDED") => <>[](~Resolves(subdomain))
=============================================================================
