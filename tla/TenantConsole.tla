---------------------------- MODULE TenantConsole ----------------------------
(***************************************************************************)
(* The administrators of the tenants: TenantAdminsService and the reset of *)
(* TenantsAdminService on the server, the store tenant-admins and the page *)
(* admin/tenants with its TenantAdminsModal in the operators' browsers.    *)
(* User ids are unique across tenants; a service call runs in the schema   *)
(* of the tenant it names. Names, emails and passwords are left out.       *)
(***************************************************************************)
EXTENDS Naturals, FiniteSets

CONSTANTS
    Tenants, People,    \* tenants, and the users of all of them
    Consoles,           \* operators' browsers
    HomeOf,             \* the tenant a user belongs to
    FirstAdmins,        \* the administrators at the start
    MaxRequests         \* bound on the requests of the browsers

ASSUME ConsoleAssumption ==
    /\ IsFiniteSet(People) /\ HomeOf \in [People -> Tenants] /\ FirstAdmins \subseteq People
    /\ \A t \in Tenants : \E u \in FirstAdmins : HomeOf[u] = t
    /\ MaxRequests \in Nat

VARIABLES
    admins,     \* users with the role Super Administrador
    active,     \* users.is_active
    mustReset,  \* users.force_password_reset
    screen,     \* per browser: modal, list and selected row
    wire,       \* per browser: the mutating request in flight
    listing,    \* per browser: answers of fetchAdmins on their way
    requests,
    overlapped  \* a deletion counted the administrators while another was in progress

consoleVars == <<admins, active, mustReset, screen, wire, listing, requests, overlapped>>

NoTenant == "none"
Nothing == [op |-> "none", tenant |-> NoTenant, id |-> "none"]
ActiveAdmins(t) == {u \in admins \cap active : HomeOf[u] = t}
ClosedModal == [open |-> FALSE, tenant |-> NoTenant, rows |-> {}, editing |-> "none"]

ConsoleInit ==
    /\ admins = FirstAdmins /\ active = FirstAdmins /\ mustReset = {}
    /\ screen = [b \in Consoles |-> ClosedModal]
    /\ wire = [b \in Consoles |-> Nothing] /\ listing = [b \in Consoles |-> {}]
    /\ requests = 0 /\ overlapped = FALSE

accountVars == <<admins, active, mustReset>>

-----------------------------------------------------------------------------
(* TenantAdminsModal and the store                                         *)

\* The watcher of isOpen resets the form and fetches; the rows stay until the answer.
OpenAdminsModal(b, t) ==
    /\ ~screen[b].open /\ requests < MaxRequests /\ requests' = requests + 1
    /\ screen' = [screen EXCEPT ![b] = [@ EXCEPT !.open = TRUE, !.tenant = t, !.editing = "none"]]
    /\ listing' = [listing EXCEPT ![b] = @ \cup {[tenant |-> t, rows |-> ActiveAdmins(t)]}]
    /\ UNCHANGED <<wire, overlapped>> /\ UNCHANGED accountVars

CloseModal(b) ==
    /\ screen[b].open
    /\ screen' = [screen EXCEPT ![b].open = FALSE, ![b].editing = "none"]
    /\ UNCHANGED <<wire, listing, requests, overlapped>> /\ UNCHANGED accountVars

\* Answers are stored in the order in which they arrive, whatever is selected then.
FetchAdmins(b) ==
    /\ \E answer \in listing[b] :
        /\ screen' = [screen EXCEPT ![b].rows = answer.rows]
        /\ listing' = [listing EXCEPT ![b] = @ \ {answer}]
    /\ UNCHANGED <<wire, requests, overlapped>> /\ UNCHANGED accountVars

EditAdmin(b, u) ==
    /\ screen[b].open /\ u \in screen[b].rows
    /\ screen' = [screen EXCEPT ![b].editing = u]
    /\ UNCHANGED <<wire, listing, requests, overlapped>> /\ UNCHANGED accountVars

Send(b, op, u) ==
    /\ screen[b].open /\ wire[b] = Nothing /\ requests < MaxRequests
    /\ requests' = requests + 1
    /\ wire' = [wire EXCEPT ![b] = [op |-> op, tenant |-> screen[b].tenant, id |-> u]]
    /\ UNCHANGED <<screen, listing, overlapped>> /\ UNCHANGED accountVars

\* handleSubmit without a selected row creates; u is the id the row will get.
SubmitNew(b, u) ==
    screen[b].editing = "none" /\ u \notin admins /\ HomeOf[u] = screen[b].tenant
    /\ Send(b, "create", u)
SubmitEdit(b) == screen[b].editing # "none" /\ Send(b, "update", screen[b].editing)
HandlePasswordChange(b) == screen[b].editing # "none" /\ Send(b, "password", screen[b].editing)
ConfirmDeactivation(b, u) == u \in screen[b].rows /\ Send(b, "delete", u)
\* The credentials reset of the tenants API names a tenant and no user.
RequestReset(b) == Send(b, "reset", "none")

-----------------------------------------------------------------------------
(* The services                                                            *)

\* Success: the store fetches the tenant's list again.
Answered(b) ==
    /\ wire' = [wire EXCEPT ![b] = Nothing]
    /\ listing' = [listing EXCEPT ![b] =
            @ \cup {[tenant |-> wire[b].tenant,
                   rows |-> {u \in (admins \cap active)' : HomeOf[u] = wire[b].tenant}]}]
    /\ UNCHANGED <<screen, requests>>
Refused(b) ==
    /\ wire' = [wire EXCEPT ![b] = Nothing]
    /\ UNCHANGED <<screen, listing, requests, overlapped>> /\ UNCHANGED accountVars

\* insertSuperAdmin: an existing email is a 409, by the read or by the index.
CreateAdmin(b) ==
    /\ wire[b].op = "create"
    /\ IF wire[b].id \in admins THEN Refused(b)
       ELSE /\ admins' = admins \cup {wire[b].id} /\ active' = active \cup {wire[b].id}
            /\ mustReset' = mustReset \cup {wire[b].id}
            /\ Answered(b) /\ UNCHANGED overlapped

\* An active administrator of the schema, else a 404.
Found(b) == wire[b].id \in ActiveAdmins(wire[b].tenant)

UpdateAdmin(b) ==
    /\ wire[b].op = "update"
    /\ IF Found(b) THEN UNCHANGED accountVars /\ Answered(b) /\ UNCHANGED overlapped
                   ELSE Refused(b)

UpdateAdminPassword(b) ==
    /\ wire[b].op = "password"
    /\ IF Found(b) THEN /\ mustReset' = mustReset \cup {wire[b].id}
                        /\ wire' = [wire EXCEPT ![b] = Nothing]
                        /\ UNCHANGED <<admins, active, screen, listing, requests, overlapped>>
                   ELSE Refused(b)

\* Mutant: the last administrator is counted too.
MayCount(t) == Cardinality(ActiveAdmins(t)) > 0
Spare(t) == Cardinality(ActiveAdmins(t)) > 1

\* softDelete: the count, and later in the transaction the update. Nothing is
\* locked between them.
CountAdmins(b) ==
    /\ wire[b].op = "delete"
    /\ IF Spare(wire[b].tenant)
       THEN /\ wire' = [wire EXCEPT ![b].op = "deactivate"]
            /\ overlapped' = (overlapped \/ \E c \in Consoles \ {b} : wire[c].op = "deactivate")
            /\ UNCHANGED <<screen, listing, requests>> /\ UNCHANGED accountVars
       ELSE Refused(b)

Deactivates(b) == wire[b].id \in active /\ HomeOf[wire[b].id] = wire[b].tenant

SoftDelete(b) ==
    /\ wire[b].op = "deactivate"
    /\ IF Deactivates(b)
       THEN /\ active' = active \ {wire[b].id} /\ UNCHANGED <<admins, mustReset, overlapped>>
            /\ Answered(b)
       ELSE Refused(b)

\* Refuse rather than choose: the administrators are counted, inactive ones too.
ResetAdminCredentials(b) ==
    /\ wire[b].op = "reset"
    /\ LET all == {u \in admins : HomeOf[u] = wire[b].tenant} IN
        IF Cardinality(all) = 1
        THEN /\ mustReset' = mustReset \cup all
             /\ wire' = [wire EXCEPT ![b] = Nothing]
             /\ UNCHANGED <<admins, active, screen, listing, requests, overlapped>>
        ELSE Refused(b)

Serve(b) ==
    \/ CreateAdmin(b) \/ UpdateAdmin(b) \/ UpdateAdminPassword(b) \/ CountAdmins(b)
    \/ SoftDelete(b) \/ ResetAdminCredentials(b)

ConsoleNext ==
    \E b \in Consoles :
        \/ \E t \in Tenants : OpenAdminsModal(b, t)
        \/ CloseModal(b) \/ FetchAdmins(b) \/ SubmitEdit(b) \/ HandlePasswordChange(b)
        \/ RequestReset(b) \/ Serve(b)
        \/ \E u \in People : EditAdmin(b, u) \/ SubmitNew(b, u) \/ ConfirmDeactivation(b, u)

ConsoleSpec == ConsoleInit /\ [][ConsoleNext]_consoleVars

-----------------------------------------------------------------------------
\* "La empresa debe conservar al menos un administrador activo"
\* (tenant-admins.service.ts:356): no sequence of the console's operations, made on
\* stale lists or on the list of another tenant, leaves a tenant without an active
\* administrator, unless two deletions were between their count and their update
\* at the same time.
AdminKept == \A t \in Tenants : ActiveAdmins(t) # {} \/ overlapped
=============================================================================
