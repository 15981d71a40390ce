--------------------------- MODULE PlatformProofs ---------------------------
(***************************************************************************)
(* Proofs about what the platform keeps for a tenant: its administrators   *)
(* (TenantConsole), for any number of tenants, people and consoles; its    *)
(* PDF designs (PdfDesign), for any number of designs and designers; and   *)
(* its consumption (ConsumptionMetrics), for any tenants and months.       *)
(***************************************************************************)
EXTENDS TenantConsole, PdfDesign, ConsumptionMetrics, NumberFacts, FiniteSetTheorems, TLAPS

-----------------------------------------------------------------------------
(* The administrators.                                                     *)

Requests == [op : {"none", "create", "update", "password", "delete", "deactivate", "reset"},
             tenant : Tenants \cup {NoTenant}, id : People \cup {"none"}]
Modals == [open : BOOLEAN, tenant : Tenants \cup {NoTenant}, rows : SUBSET People,
           editing : People \cup {"none"}]
Lists == [tenant : Tenants \cup {NoTenant}, rows : SUBSET People]

ConsoleTypeOK ==
    /\ admins \in SUBSET People /\ active \in SUBSET People /\ mustReset \in SUBSET People
    /\ screen \in [Consoles -> Modals]
    /\ wire \in [Consoles -> Requests]
    /\ \A b \in Consoles : wire[b].op = "create" => wire[b].id \in People
    /\ listing \in [Consoles -> SUBSET Lists]
    /\ requests \in Nat /\ overlapped \in BOOLEAN

\* Until two deletions overlap, the one that has counted may still count on what it saw.
Counted ==
    ~overlapped =>
        /\ \A t \in Tenants : ActiveAdmins(t) # {}
        /\ \A b \in Consoles : wire[b].op = "deactivate" => Spare(wire[b].tenant)
        /\ \A b, c \in Consoles :
            wire[b].op = "deactivate" /\ wire[c].op = "deactivate" => b = c

ConsoleIInv == ConsoleTypeOK /\ Counted

LEMMA ListType ==
    ASSUME NEW S \in SUBSET People, NEW T \in SUBSET People, NEW t \in Tenants \cup {NoTenant}
    PROVE  [tenant |-> t, rows |-> {u \in (S \cap T) : HomeOf[u] = t}] \in Lists
<1>1. {u \in (S \cap T) : HomeOf[u] = t} \in SUBSET People
  OBVIOUS
<1> QED
  BY <1>1 DEF Lists

LEMMA SendType ==
    ASSUME ConsoleTypeOK, NEW b \in Consoles, NEW u \in People \cup {"none"},
           NEW op \in {"create", "update", "password", "delete", "reset"}, Send(b, op, u),
           op = "create" => u \in People
    PROVE  /\ ConsoleTypeOK' /\ UNCHANGED accountVars /\ overlapped' = overlapped
           /\ \A c \in Consoles : wire'[c].op = "deactivate" => wire'[c] = wire[c]
<1> DEFINE f == [op |-> op, tenant |-> screen[b].tenant, id |-> u]
<1>1. f \in Requests /\ f.op = op /\ f.id = u
  BY DEF ConsoleTypeOK, Requests, Modals
<1>2. wire' = [wire EXCEPT ![b] = f]
  BY DEF Send
<1> HIDE DEF f
<1>3. wire' \in [Consoles -> Requests] /\ wire'[b] = f
      /\ \A c \in Consoles \ {b} : wire'[c] = wire[c]
  BY <1>1, <1>2 DEF ConsoleTypeOK
<1>4. \A c \in Consoles : wire'[c].op = "deactivate" => wire'[c] = wire[c]
  BY <1>1, <1>3
<1>5. \A c \in Consoles : wire'[c].op = "create" => wire'[c].id \in People
  BY <1>1, <1>3 DEF ConsoleTypeOK
<1> QED
  BY <1>3, <1>4, <1>5 DEF Send, ConsoleTypeOK, accountVars

\* A request that ends, with an answer that lists the tenant or without one.
LEMMA EndType ==
    ASSUME ConsoleTypeOK, NEW b \in Consoles, wire' = [wire EXCEPT ![b] = Nothing]
    PROVE  /\ wire' \in [Consoles -> Requests]
           /\ \A c \in Consoles : wire'[c].op = "create" => wire'[c].id \in People
           /\ \A c \in Consoles : wire'[c].op = "deactivate" => c # b /\ wire'[c] = wire[c]
<1>1. Nothing \in Requests /\ Nothing.op = "none"
  BY DEF Nothing, Requests
<1>2. wire'[b] = Nothing /\ \A c \in Consoles \ {b} : wire'[c] = wire[c]
  BY DEF ConsoleTypeOK
<1>3. wire' \in [Consoles -> Requests]
  BY <1>1 DEF ConsoleTypeOK
<1>4. \A c \in Consoles : wire'[c].op = "create" => wire'[c].id \in People
  BY <1>1, <1>2 DEF ConsoleTypeOK
<1>5. \A c \in Consoles : wire'[c].op = "deactivate" => c # b /\ wire'[c] = wire[c]
  BY <1>1, <1>2
<1> QED
  BY <1>3, <1>4, <1>5

LEMMA AnsweredType ==
    ASSUME ConsoleTypeOK, NEW b \in Consoles, Answered(b),
           admins' \in SUBSET People, active' \in SUBSET People
    PROVE  listing' \in [Consoles -> SUBSET Lists]
<1> DEFINE g == [tenant |-> wire[b].tenant,
                 rows |-> {u \in (admins' \cap active') : HomeOf[u] = wire[b].tenant}]
<1>0. wire[b].tenant \in Tenants \cup {NoTenant}
  BY DEF ConsoleTypeOK, Requests
<1>1. g \in Lists
  BY <1>0, ListType
<1>2. listing' = [listing EXCEPT ![b] = @ \cup {g}]
  BY DEF Answered
<1> HIDE DEF g
<1> QED
  BY <1>1, <1>2 DEF ConsoleTypeOK

\* What a step of a console does to the accounts: one that is not the update of a
\* deletion takes nothing away, and only a count leads to such an update.
Harmless ==
    /\ admins \subseteq admins' /\ active \subseteq active' /\ overlapped' = overlapped
    /\ \A c \in Consoles : wire'[c].op = "deactivate" => wire'[c] = wire[c]

LEMMA ServeStep ==
    ASSUME ConsoleTypeOK, NEW b \in Consoles, Serve(b)
    PROVE  /\ ConsoleTypeOK'
           /\ \/ Harmless
              \/ CountAdmins(b) /\ Spare(wire[b].tenant)
              \/ SoftDelete(b) /\ Deactivates(b)
<1>1. CASE Refused(b)
  BY <1>1, EndType DEF Refused, ConsoleTypeOK, Harmless, accountVars
<1>2. CASE CreateAdmin(b) /\ ~Refused(b)
  <2>1. wire[b].id \in People
    BY <1>2 DEF CreateAdmin, ConsoleTypeOK
  <2>2. /\ admins' = admins \cup {wire[b].id} /\ active' = active \cup {wire[b].id}
        /\ mustReset' = mustReset \cup {wire[b].id} /\ Answered(b) /\ UNCHANGED overlapped
    BY <1>2 DEF CreateAdmin
  <2>3. admins' \in SUBSET People /\ active' \in SUBSET People /\ mustReset' \in SUBSET People
    BY <2>1, <2>2 DEF ConsoleTypeOK
  <2>4. listing' \in [Consoles -> SUBSET Lists]
    BY <2>2, <2>3, AnsweredType
  <2> QED
    BY <2>2, <2>3, <2>4, EndType DEF Answered, ConsoleTypeOK, Harmless
<1>3. CASE UpdateAdmin(b) /\ ~Refused(b)
  <2>1. UNCHANGED accountVars /\ Answered(b) /\ UNCHANGED overlapped
    BY <1>3 DEF UpdateAdmin
  <2>2. listing' \in [Consoles -> SUBSET Lists]
    BY <2>1, AnsweredType DEF accountVars, ConsoleTypeOK
  <2> QED
    BY <2>1, <2>2, EndType DEF Answered, ConsoleTypeOK, Harmless, accountVars
<1>4. CASE UpdateAdminPassword(b) /\ ~Refused(b)
  <2>1. wire[b].id \in People
    BY <1>4 DEF UpdateAdminPassword, Found, ActiveAdmins, ConsoleTypeOK
  <2> QED
    BY <1>4, <2>1, EndType DEF UpdateAdminPassword, ConsoleTypeOK, Harmless
<1>5. CASE CountAdmins(b) /\ ~Refused(b)
  <2>1. [wire[b] EXCEPT !.op = "deactivate"] \in Requests
    BY DEF ConsoleTypeOK, Requests
  <2>2. overlapped' \in BOOLEAN
    BY <1>5 DEF CountAdmins, ConsoleTypeOK
  <2>3. Spare(wire[b].tenant) /\ wire' = [wire EXCEPT ![b] = [wire[b] EXCEPT !.op = "deactivate"]]
    BY <1>5 DEF CountAdmins
  <2>4. [wire[b] EXCEPT !.op = "deactivate"].op = "deactivate"
    BY DEF ConsoleTypeOK, Requests
  <2>5. wire' \in [Consoles -> Requests]
        /\ \A c \in Consoles : wire'[c].op = "create" => wire'[c].id \in People
    BY <2>1, <2>3, <2>4 DEF ConsoleTypeOK
  <2>6. UNCHANGED <<screen, listing, requests, admins, active, mustReset>>
    BY <1>5 DEF CountAdmins, accountVars
  <2> QED
    BY <1>5, <2>2, <2>3, <2>5, <2>6 DEF ConsoleTypeOK
<1>6. CASE SoftDelete(b) /\ ~Refused(b)
  <2>1. /\ active' = active \ {wire[b].id} /\ UNCHANGED <<admins, mustReset, overlapped>>
        /\ Answered(b) /\ Deactivates(b)
    BY <1>6 DEF SoftDelete
  <2>2. admins' \in SUBSET People /\ active' \in SUBSET People
    BY <2>1 DEF ConsoleTypeOK
  <2>3. listing' \in [Consoles -> SUBSET Lists]
    BY <2>1, <2>2, AnsweredType
  <2> QED
    BY <1>6, <2>1, <2>2, <2>3, EndType DEF Answered, ConsoleTypeOK
<1>7. CASE ResetAdminCredentials(b) /\ ~Refused(b)
  <2>1. mustReset' \in SUBSET People
    BY <1>7 DEF ResetAdminCredentials, ConsoleTypeOK
  <2> QED
    BY <1>7, <2>1, EndType DEF ResetAdminCredentials, ConsoleTypeOK, Harmless
<1> QED
  BY <1>1, <1>2, <1>3, <1>4, <1>5, <1>6, <1>7 DEF Serve

LEMMA ScreenStep ==
    ASSUME ConsoleTypeOK, NEW b \in Consoles,
           \/ \E t \in Tenants : OpenAdminsModal(b, t)
           \/ CloseModal(b) \/ FetchAdmins(b) \/ SubmitEdit(b) \/ HandlePasswordChange(b)
           \/ RequestReset(b)
           \/ \E u \in People : EditAdmin(b, u) \/ SubmitNew(b, u) \/ ConfirmDeactivation(b, u)
    PROVE  ConsoleTypeOK' /\ Harmless
<1>0. screen[b] \in Modals
  BY DEF ConsoleTypeOK
<1>1. ASSUME NEW t \in Tenants, OpenAdminsModal(b, t) PROVE ConsoleTypeOK' /\ Harmless
  <2> DEFINE f == [screen[b] EXCEPT !.open = TRUE, !.tenant = t, !.editing = "none"]
             g == [tenant |-> t, rows |-> {u \in admins \cap active : HomeOf[u] = t}]
  <2>1. f \in Modals
    BY <1>0 DEF Modals
  <2>2. g \in Lists
    <3>1. {u \in admins \cap active : HomeOf[u] = t} \in SUBSET People
      BY DEF ConsoleTypeOK
    <3> QED
      BY <3>1 DEF Lists
  <2>3. /\ screen' = [screen EXCEPT ![b] = f]
        /\ listing' = [listing EXCEPT ![b] = @ \cup {g}]
    BY <1>1 DEF OpenAdminsModal, ActiveAdmins
  <2>4. requests' = requests + 1 /\ requests \in Nat
    BY <1>1 DEF OpenAdminsModal, ConsoleTypeOK
  <2>5. requests' \in Nat
    BY <2>4
  <2>6. UNCHANGED <<wire, overlapped, admins, active, mustReset>>
    BY <1>1 DEF OpenAdminsModal, accountVars
  <2> HIDE DEF f, g
  <2> QED
    BY <2>1, <2>2, <2>3, <2>5, <2>6 DEF ConsoleTypeOK, Harmless
<1>2. CASE CloseModal(b)
  <2> DEFINE f == [screen[b] EXCEPT !.open = FALSE, !.editing = "none"]
  <2>1. f \in Modals
    BY <1>0 DEF Modals
  <2>2. screen' = [screen EXCEPT ![b] = f]
    BY <1>2 DEF CloseModal, ConsoleTypeOK
  <2>3. UNCHANGED <<wire, listing, requests, overlapped, admins, active, mustReset>>
    BY <1>2 DEF CloseModal, accountVars
  <2> HIDE DEF f
  <2> QED
    BY <2>1, <2>2, <2>3 DEF ConsoleTypeOK, Harmless
<1>3. CASE FetchAdmins(b)
  <2>1. PICK answer \in listing[b] :
            /\ screen' = [screen EXCEPT ![b].rows = answer.rows]
            /\ listing' = [listing EXCEPT ![b] = @ \ {answer}]
    BY <1>3 DEF FetchAdmins
  <2> DEFINE f == [screen[b] EXCEPT !.rows = answer.rows]
  <2>2. answer.rows \in SUBSET People
    BY DEF ConsoleTypeOK, Lists
  <2>3. f \in Modals
    BY <1>0, <2>2 DEF Modals
  <2>4. screen' = [screen EXCEPT ![b] = f]
    BY <2>1
  <2>5. UNCHANGED <<wire, requests, overlapped, admins, active, mustReset>>
    BY <1>3 DEF FetchAdmins, accountVars
  <2> HIDE DEF f
  <2> QED
    BY <2>1, <2>3, <2>4, <2>5 DEF ConsoleTypeOK, Harmless
<1>4. ASSUME NEW u \in People, EditAdmin(b, u) PROVE ConsoleTypeOK' /\ Harmless
  <2> DEFINE f == [screen[b] EXCEPT !.editing = u]
  <2>1. f \in Modals
    BY <1>0 DEF Modals
  <2>2. screen' = [screen EXCEPT ![b] = f]
    BY <1>4 DEF EditAdmin
  <2>3. UNCHANGED <<wire, listing, requests, overlapped, admins, active, mustReset>>
    BY <1>4 DEF EditAdmin, accountVars
  <2> HIDE DEF f
  <2> QED
    BY <2>1, <2>2, <2>3 DEF ConsoleTypeOK, Harmless
<1>5. screen[b].editing \in People \cup {"none"}
  BY <1>0 DEF Modals
<1>6. CASE SubmitEdit(b) \/ HandlePasswordChange(b) \/ RequestReset(b)
  BY <1>5, <1>6, SendType DEF SubmitEdit, HandlePasswordChange, RequestReset, Harmless, accountVars
<1>7. ASSUME NEW u \in People, SubmitNew(b, u) \/ ConfirmDeactivation(b, u)
      PROVE  ConsoleTypeOK' /\ Harmless
  BY <1>7, SendType DEF SubmitNew, ConfirmDeactivation, Harmless, accountVars
<1> QED
  BY <1>1, <1>2, <1>3, <1>4, <1>6, <1>7

\* Two more than one are at least one more when one is gone.
LEMMA OneIsLeft ==
    ASSUME NEW S, IsFiniteSet(S), Cardinality(S) > 1, NEW x
    PROVE  S \ {x} # {}
<1>1. Cardinality(S) \in Nat
  BY FS_CardinalityType
<1>2. Cardinality(S \ {x}) >= Cardinality(S) - 1 /\ Cardinality(S \ {x}) \in Nat
  BY <1>1, FS_RemoveElement
<1>3. Cardinality(S \ {x}) # 0
  BY <1>1, <1>2
<1> QED
  BY <1>3, FS_EmptySet

\* A tenant does not lose its spare administrators when nobody is taken away.
LEMMA SpareGrows ==
    ASSUME ConsoleTypeOK', admins \subseteq admins', active \subseteq active', NEW t, Spare(t)
    PROVE  Spare(t)'
<1> DEFINE S == {u \in admins \cap active : HomeOf[u] = t}
           T == {u \in admins' \cap active' : HomeOf[u] = t}
<1>1. T \subseteq People /\ S \subseteq T
  BY DEF ConsoleTypeOK
<1>2. IsFiniteSet(T)
  BY <1>1, FS_Subset, ConsoleAssumption
<1>3. Cardinality(S) <= Cardinality(T) /\ Cardinality(T) \in Nat /\ Cardinality(S) \in Nat
  BY <1>1, <1>2, FS_Subset, FS_CardinalityType
<1>4. Cardinality(S) > 1
  BY DEF Spare, ActiveAdmins
<1>5. Cardinality(T) > 1
  BY <1>3, <1>4
<1> QED
  BY <1>5 DEF Spare, ActiveAdmins

LEMMA ConsoleStep == ConsoleIInv /\ [ConsoleNext]_consoleVars => ConsoleIInv'
<1> SUFFICES ASSUME ConsoleIInv, [ConsoleNext]_consoleVars PROVE ConsoleIInv'
  OBVIOUS
<1>0. ConsoleTypeOK /\ Counted
  BY DEF ConsoleIInv
<1>1. CASE UNCHANGED consoleVars
  BY <1>0, <1>1 DEF ConsoleIInv, ConsoleTypeOK, Counted, consoleVars, Spare, ActiveAdmins
<1>2. CASE ConsoleNext
  <2>1. PICK b \in Consoles :
            /\ ConsoleTypeOK'
            /\ \/ Harmless
               \/ CountAdmins(b) /\ Spare(wire[b].tenant)
               \/ SoftDelete(b) /\ Deactivates(b)
    BY <1>0, <1>2, ServeStep, ScreenStep DEF ConsoleNext
  <2>2. CASE Harmless
    <3>1. \A t : Spare(t) => Spare(t)'
      BY <2>1, <2>2, SpareGrows DEF Harmless
    <3>2. \A t : ActiveAdmins(t) \subseteq ActiveAdmins(t)'
      BY <2>2 DEF Harmless, ActiveAdmins
    <3>3. overlapped' = overlapped
          /\ \A c \in Consoles : wire'[c].op = "deactivate" => wire'[c] = wire[c]
      BY <2>2 DEF Harmless
    <3>4. ASSUME NEW c \in Consoles, ~overlapped', wire'[c].op = "deactivate"
          PROVE  (Spare(wire[c].tenant))'
      <4>1. wire'[c] = wire[c] /\ Spare(wire[c].tenant)
        BY <1>0, <3>3, <3>4 DEF Counted
      <4> QED
        BY <3>1, <4>1 DEF Spare, ActiveAdmins
    <3>5. Counted'
      <4> SUFFICES ASSUME ~overlapped' PROVE Counted'
        BY DEF Counted
      <4>1. \A t \in Tenants : ActiveAdmins(t)' # {}
        BY <1>0, <3>2, <3>3 DEF Counted
      <4>2. \A c, d \in Consoles : wire'[c].op = "deactivate" /\ wire'[d].op = "deactivate" => c = d
        BY <1>0, <3>3 DEF Counted
      <4> QED
        BY <3>4, <4>1, <4>2 DEF Counted
    <3> QED
      BY <2>1, <3>5 DEF ConsoleIInv
  <2>3. CASE CountAdmins(b) /\ Spare(wire[b].tenant)
    <3>1. /\ wire' = [wire EXCEPT ![b].op = "deactivate"]
          /\ overlapped' = (overlapped \/ \E c \in Consoles \ {b} : wire[c].op = "deactivate")
          /\ admins' = admins /\ active' = active
      BY <2>3 DEF CountAdmins, accountVars
    <3>2. wire'[b].tenant = wire[b].tenant /\ \A c \in Consoles \ {b} : wire'[c] = wire[c]
      BY <1>0, <3>1 DEF ConsoleTypeOK, Requests
    <3>3. ~overlapped' => ~overlapped /\ \A c \in Consoles \ {b} : wire[c].op # "deactivate"
      BY <3>1
    <3>4. Counted'
      <4> SUFFICES ASSUME ~overlapped' PROVE Counted'
        BY DEF Counted
      <4>1. \A t : ActiveAdmins(t)' = ActiveAdmins(t)
        BY <3>1 DEF ActiveAdmins
      <4>2. \A t \in Tenants : ActiveAdmins(t)' # {}
        BY <1>0, <3>3, <4>1 DEF Counted
      <4>3. \A c \in Consoles : wire'[c].op = "deactivate" => c = b
        BY <3>2, <3>3
      <4>4. (Spare(wire[b].tenant))'
        BY <2>3, <3>2, <4>1 DEF Spare
      <4> QED
        BY <4>2, <4>3, <4>4 DEF Counted
    <3> QED
      BY <2>1, <3>4 DEF ConsoleIInv
  <2>4. CASE SoftDelete(b) /\ Deactivates(b)
    <3>1. /\ wire[b].op = "deactivate" /\ wire' = [wire EXCEPT ![b] = Nothing]
          /\ active' = active \ {wire[b].id} /\ admins' = admins /\ overlapped' = overlapped
          /\ HomeOf[wire[b].id] = wire[b].tenant
      BY <2>4 DEF SoftDelete, Answered, Deactivates
    <3>2. \A c \in Consoles : wire'[c].op = "deactivate" => c # b /\ wire'[c] = wire[c]
      BY <1>0, <3>1, EndType
    <3>3. SUFFICES ASSUME ~overlapped' PROVE Counted'
      BY <2>1 DEF ConsoleIInv, Counted
    <3>4. ~overlapped /\ Spare(wire[b].tenant)
      BY <1>0, <3>1, <3>3 DEF Counted
    <3>5. \A c \in Consoles : wire'[c].op # "deactivate"
      BY <1>0, <3>1, <3>2, <3>4 DEF Counted
    <3>6. ASSUME NEW t \in Tenants PROVE ActiveAdmins(t)' # {}
      <4>1. CASE t # wire[b].tenant
        BY <1>0, <3>1, <3>4, <4>1 DEF Counted, ActiveAdmins
      <4>2. CASE t = wire[b].tenant
        <5>1. IsFiniteSet(ActiveAdmins(t)) /\ Cardinality(ActiveAdmins(t)) > 1
          BY <1>0, <3>4, <4>2, FS_Subset, ConsoleAssumption DEF ActiveAdmins, ConsoleTypeOK, Spare
        <5>2. ActiveAdmins(t) \ {wire[b].id} # {}
          BY <5>1, OneIsLeft
        <5> QED
          BY <3>1, <5>2 DEF ActiveAdmins
      <4> QED
        BY <4>1, <4>2
    <3> QED
      BY <3>5, <3>6 DEF Counted
  <2> QED
    BY <2>1, <2>2, <2>3, <2>4
<1> QED
  BY <1>1, <1>2

\* Every reachable state satisfies the invariant, whatever the consoles send.
THEOREM ConsoleInvariant == ConsoleSpec => []ConsoleIInv
<1>1. ConsoleInit => ConsoleIInv
  <2> SUFFICES ASSUME ConsoleInit PROVE ConsoleIInv
    OBVIOUS
  <2>1. ClosedModal \in Modals /\ Nothing \in Requests /\ Nothing.op = "none"
    BY DEF ClosedModal, Modals, Nothing, Requests
  <2>2. ConsoleTypeOK
    BY <2>1, ConsoleAssumption DEF ConsoleInit, ConsoleTypeOK
  <2>3. Counted
    BY <2>1, ConsoleAssumption DEF ConsoleInit, Counted, ActiveAdmins
  <2> QED
    BY <2>2, <2>3 DEF ConsoleIInv
<1> QED
  BY <1>1, ConsoleStep, PTL DEF ConsoleSpec

\* softDelete's count keeps an active administrator in every tenant
\* (tenant-admins.service.ts:356), unless two deletions overlapped between it and
\* their update.
THEOREM AdministratorKept == ConsoleSpec => []AdminKept
<1>1. ConsoleIInv => AdminKept
  BY DEF ConsoleIInv, Counted, AdminKept
<1> QED
  BY <1>1, ConsoleInvariant, PTL

-----------------------------------------------------------------------------
(* The PDF designs.                                                        *)

StepNames == {"create", "update", "upload", "grid"}
DesignRows == DesignRow \cup {NoDesign}
Forms == [view : {"list", "new", "edit"}, id : Designs, look : Looks, size : Looks,
          slot : {"text", "data", "url"}, isDefault : BOOLEAN, file : Banners,
          grid : BOOLEAN, touched : BOOLEAN, basis : Looks \cup {"gone"}, steps : Seq(StepNames)]
ServiceCalls == [op : StepNames \cup {"none", "remove", "delete"}, id : Designs,
                 stage : {"read", "work", "save"}, row : DesignRows,
                 cleared : SUBSET Designs, locks : SUBSET Designs]

DesignTypeOK ==
    /\ designs \in [Designs -> DesignRows]
    /\ assets \in SUBSET (Designs \X (Banners \cup {"grid"}))
    /\ used \in SUBSET Designs /\ minted \in SUBSET Designs
    /\ panel \in [Designers -> Forms]
    /\ call \in [Designers -> ServiceCalls]
    /\ disturbed \in BOOLEAN /\ clicks \in Nat

\* A call of a submission runs until the form has heard of it.
Submitting == \A e \in Designers : call[e].op \in StepNames => panel[e].steps # << >>

\* A field that was loaded and not touched shows what was loaded.
Shows(f) == f.view = "edit" /\ ~f.touched /\ f.basis # "gone" => f.look = f.basis
Showing == \A e \in Designers : Shows(panel[e])

\* What a call that is not a create works on was stored when it was read.
Founded ==
    \A e \in Designers :
        Busy(e) /\ call[e].stage # "read" /\ call[e].op # "create" => call[e].row # NoDesign

OneIndexed ==
    \A d1, d2 \in Designs : designs[d1].isDefault /\ designs[d2].isDefault => d1 = d2

\* A call that nothing disturbed is alone, and works on the committed row.
Alone ==
    ~disturbed =>
        /\ \A e, f \in Designers : Busy(e) /\ Busy(f) => e = f
        /\ \A e \in Designers :
            Busy(e) /\ call[e].stage # "read" => call[e].row = designs[call[e].id]
        /\ \A e \in Designers :
            Busy(e) /\ call[e].stage = "save" => call[e].cleared = UnsetCurrentDefault(e)

Removes(e, d) ==
    Busy(e) /\ call[e].id = d /\ call[e].stage = "save" /\ call[e].op \in {"remove", "delete"}

\* S3 is ahead of the row: an upload is there before the row names it, and an image is
\* gone before the row forgets it.
Uploaded ==
    ~disturbed =>
        /\ \A d \in Designs : designs[d].banner # "none" =>
            <<d, designs[d].banner>> \in assets \/ \E e \in Designers : Removes(e, d)
        /\ \A e \in Designers : call[e].op = "upload" /\ call[e].stage = "save" =>
            <<call[e].id, panel[e].file>> \in assets

DesignIInv ==
    DesignTypeOK /\ Submitting /\ Showing /\ Founded /\ OneIndexed /\ Alone /\ Uploaded

-----------------------------------------------------------------------------
\* A set of designs has at most one member exactly when all its members are equal.
LEMMA AtMostOne ==
    ASSUME NEW S \in SUBSET Designs
    PROVE  Cardinality(S) <= 1 <=> \A x, y \in S : x = y
<1>1. IsFiniteSet(S) /\ Cardinality(S) \in Nat
  BY FS_Subset, FS_CardinalityType, DesignAssumption
<1>2. ASSUME Cardinality(S) <= 1, NEW x \in S, NEW y \in S PROVE x = y
  <2>1. Cardinality(S) # 0
    BY <1>1, FS_EmptySet
  <2>2. Cardinality(S) = 1
    BY <1>1, <1>2, <2>1
  <2> QED
    BY <1>1, <2>2, FS_Singleton
<1>3. ASSUME \A x, y \in S : x = y PROVE Cardinality(S) <= 1
  <2>1. CASE S = {}
    BY <2>1, FS_EmptySet
  <2>2. ASSUME NEW x \in S PROVE Cardinality(S) <= 1
    <3>1. S = {x}
      BY <1>3
    <3> QED
      BY <3>1, FS_Singleton
  <2> QED
    BY <2>1, <2>2
<1> QED
  BY <1>2, <1>3

LEMMA IndexMeans ==
    ASSUME NEW rows
    PROVE  DefaultIndex(rows) <=>
              \A d1, d2 \in Designs : rows[d1].isDefault /\ rows[d2].isDefault => d1 = d2
BY AtMostOne DEF DefaultIndex

-----------------------------------------------------------------------------
(* Forms.                                                                  *)

LEMMA BlankType ==
    ASSUME NEW view \in {"list", "new", "edit"}, NEW d \in Designs
    PROVE  /\ BlankForm(view, d) \in Forms /\ Shows(BlankForm(view, d))
           /\ BlankForm(view, d).steps = << >>
BY DEF BlankForm, Forms, Shows, Looks, Banners

LEMMA LoadType ==
    ASSUME DesignTypeOK, NEW d \in Designs
    PROVE  LoadForm(d) \in Forms /\ Shows(LoadForm(d)) /\ LoadForm(d).steps = << >>
<1>1. CASE Stored(d)
  <2>1. designs[d] \in DesignRow
    BY <1>1 DEF Stored, DesignTypeOK, DesignRows
  <2>2. BlankForm("edit", d) \in Forms /\ BlankForm("edit", d).steps = << >>
    BY BlankType
  <2> QED
    BY <1>1, <2>1, <2>2 DEF LoadForm, Forms, DesignRow, Shows
<1>2. CASE ~Stored(d)
  BY <1>2, BlankType DEF LoadForm
<1> QED
  BY <1>1, <1>2

LEMMA FillType ==
    ASSUME NEW f \in Forms, Shows(f),
           NEW g \in InputFields(f) \cup TypographyFields(f) \cup GeneralFields(f)
                     \cup FilePickers(f) \cup HeaderZones(f)
    PROVE  g \in Forms /\ Shows(g) /\ g.steps = f.steps
<1>1. CASE g \in InputFields(f)
  BY <1>1 DEF InputFields, Forms, Shows
<1>2. CASE g \in TypographyFields(f)
  BY <1>2 DEF TypographyFields, Forms, Shows
<1>3. CASE g \in GeneralFields(f)
  BY <1>3 DEF GeneralFields, Forms, Shows
<1>4. CASE g \in FilePickers(f)
  BY <1>4 DEF FilePickers, Forms, Shows, Banners
<1>5. CASE g \in HeaderZones(f)
  BY <1>5 DEF HeaderZones, Forms, Shows
<1> QED
  BY <1>1, <1>2, <1>3, <1>4, <1>5

LEMMA StepsType ==
    ASSUME NEW f
    PROVE  EditSteps(f) \in Seq(StepNames) /\ CreateSteps(f) \in Seq(StepNames)
<1>1. /\ << "grid" >> \in Seq(StepNames) /\ << "update" >> \in Seq(StepNames)
      /\ << "upload" >> \in Seq(StepNames) /\ << "create" >> \in Seq(StepNames)
      /\ << >> \in Seq(StepNames)
  BY DEF StepNames
<1>2. \A a, b \in Seq(StepNames) : a \o b \in Seq(StepNames)
  OBVIOUS
<1>3. EditSteps(f) \in Seq(StepNames)
  <2>1. (IF f.grid /\ f.slot = "data" THEN << "grid" >> ELSE << >>) \in Seq(StepNames)
        /\ (IF f.file # "none" THEN << "upload" >> ELSE << >>) \in Seq(StepNames)
    BY <1>1
  <2> QED
    BY <1>1, <1>2, <2>1 DEF EditSteps
<1>4. CreateSteps(f) \in Seq(StepNames)
  <2>1. (IF f.slot = "data" THEN << "grid" >> ELSE << >>) \in Seq(StepNames)
        /\ (IF f.file # "none" THEN << "upload" >> ELSE << >>) \in Seq(StepNames)
    BY <1>1
  <2>2. (IF f.slot = "data" THEN << "grid" >> ELSE << >>) \o << "update" >> \in Seq(StepNames)
    BY <1>1, <1>2, <2>1
  <2>3. (IF f.grid THEN (IF f.slot = "data" THEN << "grid" >> ELSE << >>) \o << "update" >>
                   ELSE << >>) \in Seq(StepNames)
    BY <1>1, <2>2
  <2> QED
    BY <1>1, <1>2, <2>1, <2>3 DEF CreateSteps
<1> QED
  BY <1>3, <1>4

\* A step of a form leaves the calls alone, and the form of a submission under way.
LEMMA FormStep ==
    ASSUME DesignIInv, NEW e \in Designers,
           OpenCreate(e) \/ OpenEdit(e) \/ Cancel(e) \/ Fill(e) \/ HandleSubmit(e)
    PROVE  \E f \in Forms :
              /\ SetPanel(e, f) /\ clicks' \in Nat /\ Shows(f) /\ call[e].op \notin StepNames
<1>0. /\ panel[e] \in Forms /\ panel[e].id \in Designs /\ Shows(panel[e])
      /\ minted \in SUBSET Designs
      /\ call[e].op \in StepNames => panel[e].steps # << >>
  BY DEF DesignIInv, DesignTypeOK, Forms, Showing, Submitting
<1>1. clicks' \in Nat
  <2>1. clicks' = clicks + 1 /\ clicks \in Nat
    BY DEF OpenCreate, OpenEdit, Cancel, Fill, HandleSubmit, DesignClick, DesignIInv, DesignTypeOK
  <2> QED
    BY <2>1
<1>2. ~Busy(e) => call[e].op \notin StepNames
  BY DEF Busy, StepNames
<1>3. CASE OpenCreate(e)
  BY <1>0, <1>1, <1>2, <1>3, BlankType DEF OpenCreate
<1>4. CASE OpenEdit(e)
  BY <1>0, <1>1, <1>2, <1>4, LoadType DEF OpenEdit, DesignIInv
<1>5. CASE Cancel(e)
  BY <1>0, <1>1, <1>2, <1>5, BlankType DEF Cancel, ListView, Idle
<1>6. CASE Fill(e)
  <2>1. PICK f \in InputFields(panel[e]) \cup TypographyFields(panel[e])
                   \cup GeneralFields(panel[e]) \cup FilePickers(panel[e])
                   \cup HeaderZones(panel[e]) : SetPanel(e, f)
    BY <1>6 DEF Fill
  <2>2. f \in Forms /\ Shows(f)
    BY <1>0, FillType
  <2> QED
    BY <1>0, <1>1, <1>6, <2>1, <2>2 DEF Fill
<1>7. CASE HandleSubmit(e)
  <2> DEFINE s == IF panel[e].view = "edit" THEN EditSteps(panel[e]) ELSE CreateSteps(panel[e])
             f == [panel[e] EXCEPT !.steps = s]
  <2>1. s \in Seq(StepNames)
    BY StepsType
  <2>2. SetPanel(e, f)
    BY <1>7 DEF HandleSubmit
  <2> HIDE DEF s
  <2>3. f \in Forms /\ Shows(f)
    BY <1>0, <2>1 DEF Forms, Shows
  <2> HIDE DEF f
  <2> QED
    BY <1>1, <1>2, <1>7, <2>2, <2>3 DEF HandleSubmit, Idle
<1> QED
  BY <1>3, <1>4, <1>5, <1>6, <1>7

LEMMA FormInv ==
    ASSUME DesignIInv, NEW e \in Designers,
           OpenCreate(e) \/ OpenEdit(e) \/ Cancel(e) \/ Fill(e) \/ HandleSubmit(e)
    PROVE  DesignIInv'
<1>1. PICK f \in Forms :
        SetPanel(e, f) /\ clicks' \in Nat /\ Shows(f) /\ call[e].op \notin StepNames
  BY FormStep
<1>2. /\ panel' = [panel EXCEPT ![e] = f] /\ panel \in [Designers -> Forms]
      /\ UNCHANGED <<designs, assets, used, minted, call, disturbed>>
  BY <1>1 DEF SetPanel, DesignIInv, DesignTypeOK
<1>3. panel' \in [Designers -> Forms] /\ panel'[e] = f
      /\ \A o \in Designers : call[o].op \in StepNames => panel'[o] = panel[o]
  BY <1>1, <1>2
<1>4. DesignTypeOK'
  BY <1>1, <1>2, <1>3 DEF DesignIInv, DesignTypeOK
<1>5. Submitting' /\ Founded' /\ OneIndexed'
  BY <1>2, <1>3 DEF DesignIInv, Submitting, Founded, OneIndexed, Busy
<1>6. Showing'
  BY <1>1, <1>2, <1>3 DEF DesignIInv, Showing
<1>7. \A o \in Designers : UnsetCurrentDefault(o)' = UnsetCurrentDefault(o)
  BY <1>2, <1>3 DEF UnsetCurrentDefault, BecomesDefault, Defaults, StepNames
<1>8. Alone'
  BY <1>2, <1>7 DEF DesignIInv, Alone, Busy
<1>9. \A o \in Designers, d \in Designs : Removes(o, d) => Removes(o, d)'
  BY <1>2 DEF Removes, Busy
<1>10. Uploaded'
  BY <1>2, <1>3, <1>9 DEF DesignIInv, Uploaded, StepNames
<1> QED
  BY <1>4, <1>5, <1>6, <1>8, <1>10 DEF DesignIInv

-----------------------------------------------------------------------------
(* Calls.                                                                  *)

\* A call begins: it is alone, or the calls are disturbed from now on.
LEMMA BeginInv ==
    ASSUME DesignIInv, NEW e \in Designers, NEW d \in Designs, clicks' \in Nat,
           NEW op \in StepNames \cup {"remove", "delete"}, StartCall(e, op, d),
           op \in StepNames => panel[e].steps # << >>,
           panel' = panel \/ panel' = [panel EXCEPT ![e].id = d]
    PROVE  DesignIInv'
<1> DEFINE g == [NoDesignCall EXCEPT !.op = op, !.id = d]
<1>1. g \in ServiceCalls /\ g.op = op /\ g.stage = "read"
  <2>1. (CHOOSE x \in Designs : TRUE) \in Designs
    BY DesignAssumption
  <2> QED
    BY <2>1 DEF NoDesignCall, ServiceCalls, StepNames, DesignRows
<1>2. /\ call' = [call EXCEPT ![e] = g] /\ ~Busy(e)
      /\ disturbed' = (disturbed \/ Overlaps(e))
      /\ UNCHANGED <<designs, assets, used, minted>>
  BY DEF StartCall
<1> HIDE DEF g
<1>3. call' \in [Designers -> ServiceCalls] /\ call'[e] = g
      /\ \A o \in Designers \ {e} : call'[o] = call[o]
  BY <1>1, <1>2 DEF DesignIInv, DesignTypeOK
<1>4. panel' \in [Designers -> Forms]
      /\ \A o \in Designers : panel'[o].steps = panel[o].steps /\ (Shows(panel[o]) => Shows(panel'[o]))
  <2>1. panel[e] \in Forms /\ panel \in [Designers -> Forms]
    BY DEF DesignIInv, DesignTypeOK
  <2>2. /\ [panel[e] EXCEPT !.id = d] \in Forms
        /\ [panel[e] EXCEPT !.id = d].steps = panel[e].steps
        /\ Shows(panel[e]) => Shows([panel[e] EXCEPT !.id = d])
    BY <2>1 DEF Forms, Shows
  <2> QED
    BY <2>1, <2>2
<1>5. DesignTypeOK'
  <2>1. disturbed' \in BOOLEAN
    BY <1>2 DEF DesignIInv, DesignTypeOK
  <2> QED
    BY <1>2, <1>3, <1>4, <2>1 DEF DesignIInv, DesignTypeOK
<1>6. Submitting' /\ Founded' /\ OneIndexed'
  <2>1. Submitting'
    BY <1>1, <1>3, <1>4 DEF DesignIInv, Submitting
  <2>2. Founded'
    BY <1>1, <1>3 DEF DesignIInv, Founded, Busy
  <2> QED
    BY <1>2, <2>1, <2>2 DEF DesignIInv, OneIndexed
<1>7. Showing'
  BY <1>4 DEF DesignIInv, Showing
<1>8. ~disturbed' => ~disturbed /\ \A o \in Designers \ {e} : ~Busy(o) /\ ~Busy(o)'
  BY <1>2, <1>3 DEF Overlaps, Busy
<1>9. Alone'
  BY <1>1, <1>3, <1>8 DEF Alone, Busy
<1>10. Uploaded'
  <2> SUFFICES ASSUME ~disturbed' PROVE Uploaded'
    BY DEF Uploaded
  <2>1. \A o \in Designers, x \in Designs : ~Removes(o, x)
    BY <1>2, <1>8 DEF Removes
  <2>2. \A o \in Designers : ~(call'[o].op = "upload" /\ call'[o].stage = "save")
    BY <1>1, <1>3, <1>8 DEF Busy
  <2> QED
    BY <1>2, <1>8, <2>1, <2>2 DEF DesignIInv, Uploaded
<1> QED
  BY <1>5, <1>6, <1>7, <1>9, <1>10 DEF DesignIInv

LEMMA StartInv ==
    ASSUME DesignIInv, NEW e \in Designers, SendStep(e) \/ RemoveImage(e) \/ ConfirmDelete(e)
    PROVE  DesignIInv'
<1>0. panel[e] \in Forms /\ minted \in SUBSET Designs /\ clicks \in Nat
  BY DEF DesignIInv, DesignTypeOK
<1>1. panel[e].id \in Designs /\ panel[e].steps \in Seq(StepNames)
  BY <1>0 DEF Forms
<1>2. CASE SendStep(e)
  <2>1. Head(panel[e].steps) \in StepNames
    BY <1>1, <1>2 DEF SendStep
  <2>2. PICK d \in Designs : StartCall(e, Head(panel[e].steps), d)
                             /\ (panel' = panel \/ panel' = [panel EXCEPT ![e].id = d])
    BY <1>1, <1>2 DEF SendStep
  <2> QED
    BY <1>0, <1>2, <2>1, <2>2, BeginInv DEF SendStep
<1>3. CASE RemoveImage(e) \/ ConfirmDelete(e)
  <2>1. PICK d \in Designs, op \in {"remove", "delete"} : StartCall(e, op, d)
    BY <1>0, <1>1, <1>3 DEF RemoveImage, ConfirmDelete
  <2>2. clicks' = clicks + 1 /\ panel' = panel
    BY <1>3 DEF RemoveImage, ConfirmDelete, DesignClick
  <2>3. clicks' \in Nat
    BY <1>0, <2>2
  <2> QED
    BY <2>1, <2>2, <2>3, BeginInv DEF StepNames
<1> QED
  BY <1>2, <1>3

\* A call that ends without its save: either it had not touched S3, or it disturbs.
LEMMA RefusedInv ==
    ASSUME DesignIInv, NEW e \in Designers, DesignRefused(e),
           disturbed' = TRUE \/ (disturbed' = disturbed /\ call[e].stage # "save")
    PROVE  DesignIInv'
<1> DEFINE f == [panel[e] EXCEPT !.steps = << >>]
<1>1. NoDesignCall \in ServiceCalls /\ NoDesignCall.op = "none"
  <2>1. (CHOOSE x \in Designs : TRUE) \in Designs
    BY DesignAssumption
  <2> QED
    BY <2>1 DEF NoDesignCall, ServiceCalls, DesignRows
<1>2. /\ call' = [call EXCEPT ![e] = NoDesignCall] /\ panel' = [panel EXCEPT ![e] = f]
      /\ UNCHANGED <<designs, assets, used, minted, clicks>>
  BY DEF DesignRefused
<1>3. f \in Forms /\ (Shows(panel[e]) => Shows(f))
  <2>1. panel[e] \in Forms /\ << >> \in Seq(StepNames)
    BY DEF DesignIInv, DesignTypeOK
  <2> QED
    BY <2>1 DEF Forms, Shows
<1> HIDE DEF f
<1>4. call' \in [Designers -> ServiceCalls] /\ call'[e] = NoDesignCall
      /\ panel' \in [Designers -> Forms] /\ panel'[e] = f
      /\ \A o \in Designers \ {e} : call'[o] = call[o] /\ panel'[o] = panel[o]
  BY <1>1, <1>2, <1>3 DEF DesignIInv, DesignTypeOK
<1>5. DesignTypeOK'
  <2>1. disturbed' \in BOOLEAN
    BY DEF DesignIInv, DesignTypeOK
  <2> QED
    BY <1>2, <1>4, <2>1 DEF DesignIInv, DesignTypeOK
<1>6. Submitting' /\ Founded' /\ OneIndexed'
  <2>1. Submitting'
    BY <1>1, <1>4 DEF DesignIInv, Submitting, StepNames
  <2>2. Founded'
    BY <1>1, <1>4 DEF DesignIInv, Founded, Busy
  <2> QED
    BY <1>2, <2>1, <2>2 DEF DesignIInv, OneIndexed
<1>7. Showing'
  BY <1>3, <1>4 DEF DesignIInv, Showing
<1>8. ~disturbed' => ~disturbed /\ call[e].stage # "save"
  OBVIOUS
<1>9. \A o \in Designers \ {e} : UnsetCurrentDefault(o)' = UnsetCurrentDefault(o)
  BY <1>2, <1>4 DEF UnsetCurrentDefault, BecomesDefault, Defaults
<1>10. Alone'
  BY <1>1, <1>2, <1>4, <1>8, <1>9 DEF DesignIInv, Alone, Busy
<1>11. Uploaded'
  <2>1. \A o \in Designers, d \in Designs : ~disturbed' /\ Removes(o, d) => Removes(o, d)'
    BY <1>4, <1>8 DEF Removes, Busy
  <2> QED
    BY <1>1, <1>2, <1>4, <1>8, <2>1 DEF DesignIInv, Uploaded
<1> QED
  BY <1>5, <1>6, <1>7, <1>10, <1>11 DEF DesignIInv

LEMMA ReadInv ==
    ASSUME DesignIInv, NEW e \in Designers, ReadDesign(e)
    PROVE  DesignIInv'
<1>1. CASE DesignRefused(e) /\ UNCHANGED disturbed
  BY <1>1, RefusedInv DEF ReadDesign
<1>2. CASE ~(DesignRefused(e) /\ UNCHANGED disturbed)
  <2> DEFINE g == [call[e] EXCEPT !.stage = "work", !.row = designs[call[e].id]]
  <2>1. /\ call' = [call EXCEPT ![e] = g] /\ Busy(e) /\ call[e].stage = "read"
        /\ call[e].op # "create" => Stored(call[e].id)
        /\ UNCHANGED <<designs, assets, used, minted, panel, disturbed, clicks>>
    BY <1>2 DEF ReadDesign
  <2>2. /\ g \in ServiceCalls /\ g.stage = "work" /\ g.op = call[e].op /\ g.id = call[e].id
        /\ g.row = designs[call[e].id]
    BY DEF DesignIInv, DesignTypeOK, ServiceCalls
  <2> HIDE DEF g
  <2>3. call' \in [Designers -> ServiceCalls] /\ call'[e] = g
        /\ \A o \in Designers \ {e} : call'[o] = call[o]
    BY <2>1, <2>2 DEF DesignIInv, DesignTypeOK
  <2>4. DesignTypeOK' /\ Showing' /\ OneIndexed'
    BY <2>1, <2>3 DEF DesignIInv, DesignTypeOK, Showing, OneIndexed
  <2>5. Submitting' /\ Founded'
    BY <2>1, <2>2, <2>3 DEF DesignIInv, Submitting, Founded, Stored, Busy
  <2>6. \A o \in Designers \ {e} : UnsetCurrentDefault(o)' = UnsetCurrentDefault(o)
    BY <2>1, <2>3 DEF UnsetCurrentDefault, BecomesDefault, Defaults
  <2>7. Alone'
    BY <2>1, <2>2, <2>3, <2>6 DEF DesignIInv, Alone, Busy
  <2>8. \A o \in Designers, d \in Designs : Removes(o, d) => Removes(o, d)'
    BY <2>1, <2>3 DEF Removes, Busy
  <2>9. Uploaded'
    BY <2>1, <2>2, <2>3, <2>8 DEF DesignIInv, Uploaded
  <2> QED
    BY <2>4, <2>5, <2>7, <2>9 DEF DesignIInv
<1> QED
  BY <1>1, <1>2

LEMMA WorkInv ==
    ASSUME DesignIInv, NEW e \in Designers, WorkDesign(e)
    PROVE  DesignIInv'
<1>1. CASE DesignRefused(e) /\ UNCHANGED disturbed
  BY <1>1, RefusedInv DEF WorkDesign
<1>2. CASE ~(DesignRefused(e) /\ UNCHANGED disturbed)
  <2> DEFINE cleared == UnsetCurrentDefault(e)
             g == [call[e] EXCEPT !.stage = "save", !.cleared = cleared,
                                  !.locks = cleared \ LockedByOthers(e)]
  <2>1. /\ call' = [call EXCEPT ![e] = g] /\ Busy(e) /\ call[e].stage = "work"
        /\ assets' = MovedAssets(e)
        /\ UNCHANGED <<designs, used, minted, panel, disturbed, clicks>>
    BY <1>2 DEF WorkDesign
  <2>2. cleared \in SUBSET Designs
    BY DEF UnsetCurrentDefault, Defaults
  <2> HIDE DEF cleared
  <2>3. /\ g \in ServiceCalls /\ g.stage = "save" /\ g.op = call[e].op /\ g.id = call[e].id
        /\ g.row = call[e].row /\ g.cleared = cleared
    BY <2>2 DEF DesignIInv, DesignTypeOK, ServiceCalls
  <2> HIDE DEF g
  <2>4. call' \in [Designers -> ServiceCalls] /\ call'[e] = g
        /\ \A o \in Designers \ {e} : call'[o] = call[o]
    BY <2>1, <2>3 DEF DesignIInv, DesignTypeOK
  <2>5. /\ call[e].id \in Designs /\ panel[e].file \in Banners
        /\ call[e].op \in StepNames \cup {"remove", "delete"}
    BY <2>1 DEF DesignIInv, DesignTypeOK, ServiceCalls, Forms, Busy
  <2>6. MovedAssets(e) \in SUBSET (Designs \X (Banners \cup {"grid"}))
    BY <2>5 DEF MovedAssets, DesignIInv, DesignTypeOK
  <2>7. DesignTypeOK' /\ Showing' /\ OneIndexed'
    BY <2>1, <2>4, <2>6 DEF DesignIInv, DesignTypeOK, Showing, OneIndexed
  <2>8. Submitting' /\ Founded'
    BY <2>1, <2>3, <2>4 DEF DesignIInv, Submitting, Founded, Busy
  <2>9. \A o \in Designers : UnsetCurrentDefault(o)' = UnsetCurrentDefault(o)
    BY <2>1, <2>3, <2>4 DEF UnsetCurrentDefault, BecomesDefault, Defaults
  <2>10. Alone'
    BY <2>1, <2>3, <2>4, <2>9 DEF DesignIInv, Alone, Busy, cleared
  <2>11. Uploaded'
    <3> SUFFICES ASSUME ~disturbed' PROVE Uploaded'
      BY DEF Uploaded
    <3>1. ~disturbed /\ \A o \in Designers \ {e} : ~Busy(o)
      BY <2>1 DEF DesignIInv, Alone
    <3>2. \A o \in Designers, d \in Designs : ~Removes(o, d)
      BY <2>1, <3>1 DEF Removes
    <3>3. ASSUME NEW d \in Designs, designs'[d].banner # "none"
          PROVE  <<d, designs'[d].banner>> \in assets' \/ Removes(e, d)'
      <4>1. <<d, designs[d].banner>> \in assets /\ designs'[d] = designs[d]
        BY <2>1, <3>1, <3>2, <3>3 DEF DesignIInv, Uploaded
      <4>2. CASE call[e].op \in {"remove", "delete"}
        <5>1. CASE d = call[e].id
          BY <2>1, <2>3, <2>4, <4>2, <5>1 DEF Removes, Busy
        <5>2. CASE d # call[e].id
          BY <2>1, <2>5, <4>1, <4>2, <5>2 DEF MovedAssets
        <5> QED
          BY <5>1, <5>2
      <4>3. CASE call[e].op \notin {"remove", "delete"}
        BY <2>1, <4>1, <4>3 DEF MovedAssets
      <4> QED
        BY <4>2, <4>3
    <3>4. ASSUME NEW o \in Designers, call'[o].op = "upload", call'[o].stage = "save"
          PROVE  <<call'[o].id, panel'[o].file>> \in assets'
      <4>1. o = e
        BY <2>4, <3>1, <3>4 DEF Busy
      <4> QED
        BY <2>1, <2>3, <2>4, <3>4, <4>1 DEF MovedAssets
    <3> QED
      BY <3>3, <3>4 DEF Uploaded
  <2> QED
    BY <2>7, <2>8, <2>10, <2>11 DEF DesignIInv
<1> QED
  BY <1>1, <1>2

\* The row a save writes is a row, and it is no default unless the form or the row
\* that was read was one.
LEMMA AssignedType ==
    ASSUME DesignTypeOK, Founded, NEW e \in Designers, Busy(e), call[e].stage = "save",
           call[e].op # "grid"
    PROVE  Assigned(e) \in DesignRows
<1>1. /\ panel[e] \in Forms /\ call[e].row \in DesignRows
      /\ call[e].op \in {"create", "update", "upload", "remove", "delete"}
      /\ call[e].op # "create" => call[e].row \in DesignRow
  BY DEF DesignTypeOK, ServiceCalls, StepNames, Busy, Founded, DesignRows
<1>2. call[e].row.banner \in Banners
  BY <1>1 DEF DesignRows, DesignRow, NoDesign, Banners
<1>3. CASE call[e].op \in {"create", "update"}
  BY <1>1, <1>2, <1>3 DEF Assigned, DesignRows, DesignRow, Forms
<1>4. CASE call[e].op = "upload"
  BY <1>1, <1>4 DEF Assigned, DesignRows, DesignRow, Forms
<1>5. CASE call[e].op = "remove"
  BY <1>1, <1>5 DEF Assigned, DesignRows, DesignRow, Banners
<1>6. CASE call[e].op = "delete"
  BY <1>6 DEF Assigned, DesignRows
<1> QED
  BY <1>1, <1>3, <1>4, <1>5, <1>6

LEMMA TableType ==
    ASSUME DesignTypeOK, Founded, NEW e \in Designers, Busy(e), call[e].stage = "save"
    PROVE  TableAfter(e) \in [Designs -> DesignRows]
<1> SUFFICES ASSUME NEW d \in Designs
             PROVE  (IF d = call[e].id /\ call[e].op # "grid" THEN Assigned(e)
                     ELSE IF d \in call[e].cleared /\ Stored(d)
                     THEN [designs[d] EXCEPT !.isDefault = FALSE]
                     ELSE designs[d]) \in DesignRows
  BY DEF TableAfter
<1>1. designs[d] \in DesignRows
  BY DEF DesignTypeOK
<1>2. Stored(d) => [designs[d] EXCEPT !.isDefault = FALSE] \in DesignRows
  BY <1>1 DEF Stored, DesignRows, DesignRow
<1> QED
  BY <1>1, <1>2, AssignedType

\* The index never has to refuse the save of a call that nothing disturbed.
LEMMA SaveFits ==
    ASSUME DesignIInv, ~disturbed, NEW e \in Designers, Busy(e), call[e].stage = "save"
    PROVE  DefaultIndex(TableAfter(e))
<1> DEFINE c == call[e]
<1>1. /\ c.row = designs[c.id] /\ c.cleared = UnsetCurrentDefault(e) /\ c.id \in Designs
      /\ c.op \in {"create", "update", "upload", "grid", "remove", "delete"}
  BY DEF DesignIInv, Alone, DesignTypeOK, ServiceCalls, StepNames, Busy
<1>2. \A d \in Designs : designs[d] \in DesignRows
  BY DEF DesignIInv, DesignTypeOK
<1>3. ASSUME NEW d \in Designs, d # c.id \/ c.op = "grid", TableAfter(e)[d].isDefault
      PROVE  designs[d].isDefault /\ ~BecomesDefault(e)
  <2>1. CASE d \in c.cleared /\ Stored(d)
    <3>1. TableAfter(e)[d] = [designs[d] EXCEPT !.isDefault = FALSE]
      BY <1>3, <2>1 DEF TableAfter
    <3>2. designs[d] \in DesignRow
      BY <1>2, <2>1 DEF Stored, DesignRows
    <3> QED
      BY <1>3, <3>1, <3>2 DEF DesignRow
  <2>2. CASE ~(d \in c.cleared /\ Stored(d))
    <3>1. TableAfter(e)[d] = designs[d]
      BY <1>3, <2>2 DEF TableAfter
    <3>2. designs[d].isDefault /\ Stored(d)
      BY <1>3, <3>1 DEF Stored, NoDesign
    <3>3. d \notin c.cleared
      BY <2>2, <3>2
    <3> QED
      BY <1>1, <3>2, <3>3 DEF UnsetCurrentDefault, Defaults
  <2> QED
    BY <2>1, <2>2
<1>4. ASSUME c.op # "grid", TableAfter(e)[c.id].isDefault
      PROVE  BecomesDefault(e) \/ designs[c.id].isDefault
  <2>1. TableAfter(e)[c.id] = Assigned(e)
    BY <1>1, <1>4 DEF TableAfter
  <2>2. CASE c.op \in {"create", "update"}
    <3>1. Assigned(e).isDefault = panel[e].isDefault
      BY <2>2 DEF Assigned
    <3> QED
      BY <1>1, <1>4, <2>1, <2>2, <3>1 DEF BecomesDefault
  <2>3. CASE c.op \in {"upload", "remove"}
    <3>1. c.row \in DesignRow
      BY <1>1, <1>2, <2>3 DEF DesignIInv, Founded, DesignRows
    <3>2. Assigned(e).isDefault = c.row.isDefault
      BY <2>3, <3>1 DEF Assigned, DesignRow
    <3> QED
      BY <1>1, <1>4, <2>1, <3>2
  <2>4. CASE c.op = "delete"
    BY <1>4, <2>1, <2>4 DEF Assigned, NoDesign
  <2> QED
    BY <1>1, <1>4, <2>2, <2>3, <2>4
<1>5. ASSUME NEW d1 \in Designs, NEW d2 \in Designs,
             TableAfter(e)[d1].isDefault, TableAfter(e)[d2].isDefault
      PROVE  d1 = d2
  <2>1. OneIndexed
    BY DEF DesignIInv
  <2> HIDE DEF c
  <2> QED
    BY <1>1, <1>3, <1>4, <1>5, <2>1 DEF OneIndexed
<1> QED
  BY <1>5, IndexMeans

LEMMA AnsweredForm ==
    ASSUME DesignTypeOK, Submitting, NEW e \in Designers, Busy(e)
    PROVE  DesignAnswered(e) \in Forms /\ (Shows(panel[e]) => Shows(DesignAnswered(e)))
<1> DEFINE f == panel[e]
<1>1. /\ f \in Forms /\ call[e].op \in StepNames \cup {"remove", "delete"}
      /\ call[e].op \in StepNames => f.steps # << >>
      /\ f.steps \in Seq(StepNames) /\ f.id \in Designs
  BY DEF DesignTypeOK, Forms, ServiceCalls, Busy, Submitting
<1>2. call[e].op \in StepNames => Tail(f.steps) \in Seq(StepNames)
  BY <1>1
<1> HIDE DEF f
<1>3. CASE call[e].op = "remove"
  <2>1. DesignAnswered(e) = [f EXCEPT !.file = "none"]
    BY <1>3 DEF DesignAnswered, f
  <2>2. [f EXCEPT !.file = "none"] \in Forms
    BY <1>1 DEF Forms, Banners
  <2>3. Shows(f) => Shows([f EXCEPT !.file = "none"])
    BY <1>1 DEF Forms, Shows
  <2> QED
    BY <2>1, <2>2, <2>3 DEF f
<1>4. CASE call[e].op = "delete"
  BY <1>1, <1>4 DEF DesignAnswered, f
<1>5. ASSUME NEW t \in Seq(StepNames)
      PROVE  /\ [f EXCEPT !.steps = t] \in Forms /\ [f EXCEPT !.slot = "url", !.steps = t] \in Forms
             /\ Shows(f) => Shows([f EXCEPT !.steps = t])
                            /\ Shows([f EXCEPT !.slot = "url", !.steps = t])
  BY <1>1 DEF Forms, Shows
<1>6. CASE call[e].op = "grid"
  <2>1. DesignAnswered(e) = [f EXCEPT !.slot = "url", !.steps = Tail(f.steps)]
    BY <1>6 DEF DesignAnswered, f
  <2> QED
    BY <1>2, <1>5, <1>6, <2>1 DEF f, StepNames
<1>7. CASE call[e].op \in StepNames /\ call[e].op # "grid" /\ Len(f.steps) = 1
  BY <1>1, <1>7, BlankType DEF DesignAnswered, ListView, StepNames, f
<1>8. CASE call[e].op \in StepNames /\ call[e].op # "grid" /\ Len(f.steps) # 1
  <2>1. DesignAnswered(e) = [f EXCEPT !.steps = Tail(f.steps)]
    BY <1>8 DEF DesignAnswered, StepNames, f
  <2> QED
    BY <1>2, <1>5, <1>8, <2>1 DEF f
<1> QED
  BY <1>1, <1>3, <1>4, <1>6, <1>7, <1>8

LEMMA SaveInv ==
    ASSUME DesignIInv, NEW e \in Designers, SaveDesign(e)
    PROVE  DesignIInv'
<1>1. CASE ~DefaultIndex(TableAfter(e))
  BY <1>1, RefusedInv DEF SaveDesign
<1>2. CASE DefaultIndex(TableAfter(e))
  <2>1. /\ Busy(e) /\ call[e].stage = "save"
        /\ designs' = TableAfter(e) /\ minted' = minted \cup {call[e].id}
        /\ call' = [call EXCEPT ![e] = NoDesignCall]
        /\ panel' = [panel EXCEPT ![e] = DesignAnswered(e)]
        /\ UNCHANGED <<assets, disturbed, clicks>>
    BY <1>2 DEF SaveDesign
  <2>2. used' \in SUBSET Designs
    BY <1>2 DEF SaveDesign, DesignIInv, DesignTypeOK
  <2>3. NoDesignCall \in ServiceCalls /\ NoDesignCall.op = "none"
    <3>1. (CHOOSE x \in Designs : TRUE) \in Designs
      BY DesignAssumption
    <3> QED
      BY <3>1 DEF NoDesignCall, ServiceCalls, DesignRows
  <2>4. DesignAnswered(e) \in Forms /\ (Shows(panel[e]) => Shows(DesignAnswered(e)))
    BY <2>1, AnsweredForm DEF DesignIInv
  <2>5. call' \in [Designers -> ServiceCalls] /\ call'[e] = NoDesignCall
        /\ panel' \in [Designers -> Forms] /\ panel'[e] = DesignAnswered(e)
        /\ \A o \in Designers \ {e} : call'[o] = call[o] /\ panel'[o] = panel[o]
    BY <2>1, <2>3, <2>4 DEF DesignIInv, DesignTypeOK
  <2>6. /\ call[e].id \in Designs /\ call[e].op \in StepNames \cup {"remove", "delete"}
        /\ call[e].row \in DesignRows
    BY <2>1 DEF DesignIInv, DesignTypeOK, ServiceCalls, Busy
  <2>7. DesignTypeOK'
    <3>1. designs' \in [Designs -> DesignRows]
      BY <2>1, TableType DEF DesignIInv
    <3> QED
      BY <2>1, <2>2, <2>5, <2>6, <3>1 DEF DesignIInv, DesignTypeOK
  <2>8. Submitting' /\ Founded'
    <3>1. Submitting'
      BY <2>3, <2>5 DEF DesignIInv, Submitting, StepNames
    <3>2. Founded'
      BY <2>3, <2>5 DEF DesignIInv, Founded, Busy
    <3> QED
      BY <3>1, <3>2
  <2>9. Showing'
    BY <2>4, <2>5 DEF DesignIInv, Showing
  <2>10. OneIndexed'
    BY <1>2, <2>1, IndexMeans DEF OneIndexed
  <2>11. ~disturbed' => ~disturbed /\ \A o \in Designers : ~Busy(o)' /\ (o # e => ~Busy(o))
    BY <2>1, <2>3, <2>5 DEF DesignIInv, Alone, Busy
  <2>12. Alone'
    BY <2>11 DEF Alone, Busy
  <2>13. Uploaded'
    <3> SUFFICES ASSUME ~disturbed' PROVE Uploaded'
      BY DEF Uploaded
    <3>1. \A o \in Designers : call'[o].op # "upload"
      BY <2>11 DEF Busy
    <3>2. call[e].row = designs[call[e].id]
      BY <2>1, <2>11 DEF DesignIInv, Alone
    <3>3. \A o \in Designers, d \in Designs : Removes(o, d) => o = e
      BY <2>11 DEF Removes
    <3>4. ASSUME NEW d \in Designs, designs'[d].banner # "none"
          PROVE  <<d, designs'[d].banner>> \in assets
      <4>1. CASE d = call[e].id /\ call[e].op # "grid"
        <5>1. designs'[d] = Assigned(e)
          BY <2>1, <4>1 DEF TableAfter
        <5>2. CASE call[e].op \in {"create", "update"}
          <6>1. designs'[d].banner = designs[d].banner
            BY <3>2, <4>1, <5>1, <5>2 DEF Assigned
          <6>2. ~ \E o \in Designers : Removes(o, d)
            BY <3>3, <5>2 DEF Removes
          <6> QED
            BY <2>11, <3>4, <6>1, <6>2 DEF DesignIInv, Uploaded
        <5>3. CASE call[e].op = "upload"
          <6>1. call[e].row \in DesignRow
            BY <2>1, <2>6, <5>3 DEF DesignIInv, Founded, DesignRows
          <6>2. designs'[d].banner = panel[e].file
            BY <5>1, <5>3, <6>1 DEF Assigned, DesignRow
          <6> QED
            BY <2>1, <2>11, <4>1, <5>3, <6>2 DEF DesignIInv, Uploaded
        <5>4. CASE call[e].op = "remove"
          <6>1. call[e].row \in DesignRow
            BY <2>1, <2>6, <5>4 DEF DesignIInv, Founded, DesignRows
          <6> QED
            BY <3>4, <5>1, <5>4, <6>1 DEF Assigned, DesignRow
        <5>5. CASE call[e].op = "delete"
          BY <3>4, <5>1, <5>5 DEF Assigned, NoDesign
        <5> QED
          BY <2>6, <4>1, <5>2, <5>3, <5>4, <5>5 DEF StepNames
      <4>2. CASE ~(d = call[e].id /\ call[e].op # "grid")
        <5>1. designs'[d].banner = designs[d].banner
          <6>1. CASE d \in call[e].cleared /\ Stored(d)
            <7>1. designs'[d] = [designs[d] EXCEPT !.isDefault = FALSE]
              BY <2>1, <4>2, <6>1 DEF TableAfter
            <7>2. designs[d] \in DesignRow
              BY <6>1 DEF DesignIInv, DesignTypeOK, DesignRows, Stored
            <7> QED
              BY <7>1, <7>2 DEF DesignRow
          <6>2. CASE ~(d \in call[e].cleared /\ Stored(d))
            BY <2>1, <4>2, <6>2 DEF TableAfter
          <6> QED
            BY <6>1, <6>2
        <5>2. ~ \E o \in Designers : Removes(o, d)
          BY <3>3, <4>2 DEF Removes
        <5> QED
          BY <2>11, <3>4, <5>1, <5>2 DEF DesignIInv, Uploaded
      <4> QED
        BY <4>1, <4>2
    <3> QED
      BY <2>1, <3>1, <3>4 DEF Uploaded
  <2> QED
    BY <2>7, <2>8, <2>9, <2>10, <2>12, <2>13 DEF DesignIInv
<1> QED
  BY <1>1, <1>2

LEMMA DesignStep == DesignIInv /\ [DesignNext]_designVars => DesignIInv'
<1> SUFFICES ASSUME DesignIInv, [DesignNext]_designVars PROVE DesignIInv'
  OBVIOUS
<1>1. CASE UNCHANGED designVars
  <2>1. DesignTypeOK' /\ Submitting' /\ Showing' /\ Founded' /\ OneIndexed'
    BY <1>1 DEF DesignIInv, designVars, DesignTypeOK, Submitting, Showing, Founded, OneIndexed, Busy
  <2>2. Alone'
    BY <1>1 DEF DesignIInv, designVars, Alone, Busy, UnsetCurrentDefault, BecomesDefault, Defaults
  <2>3. Uploaded'
    BY <1>1 DEF DesignIInv, designVars, Uploaded, Removes, Busy
  <2> QED
    BY <2>1, <2>2, <2>3 DEF DesignIInv
<1>2. CASE UseDesign
  <2>1. /\ UNCHANGED <<designs, assets, minted, panel, call, disturbed>>
        /\ used' \in SUBSET Designs /\ clicks' = clicks + 1 /\ clicks \in Nat
    BY <1>2 DEF UseDesign, DesignClick, DesignIInv, DesignTypeOK
  <2>2. clicks' \in Nat
    BY <2>1
  <2>3. DesignTypeOK' /\ Submitting' /\ Showing' /\ Founded' /\ OneIndexed'
    BY <2>1, <2>2 DEF DesignIInv, DesignTypeOK, Submitting, Showing, Founded, OneIndexed, Busy
  <2>4. Alone'
    BY <2>1 DEF DesignIInv, Alone, Busy, UnsetCurrentDefault, BecomesDefault, Defaults
  <2>5. Uploaded'
    BY <2>1 DEF DesignIInv, Uploaded, Removes, Busy
  <2> QED
    BY <2>3, <2>4, <2>5 DEF DesignIInv
<1>3. ASSUME NEW e \in Designers, CallFails(e) PROVE DesignIInv'
  BY <1>3, RefusedInv DEF CallFails
<1> QED
  BY <1>1, <1>2, <1>3, FormInv, StartInv, ReadInv, WorkInv, SaveInv DEF DesignNext

\* Every reachable state satisfies the invariant, for any designs and designers.
THEOREM DesignInvariant == DesignSpec => []DesignIInv
<1>1. DesignInit => DesignIInv
  <2> SUFFICES ASSUME DesignInit PROVE DesignIInv
    OBVIOUS
  <2>1. (CHOOSE x \in Designs : TRUE) \in Designs
    BY DesignAssumption
  <2>2. /\ NoDesignCall \in ServiceCalls /\ NoDesignCall.op = "none"
        /\ ListView(CHOOSE x \in Designs : TRUE) \in Forms
        /\ Shows(ListView(CHOOSE x \in Designs : TRUE))
    BY <2>1, BlankType DEF NoDesignCall, ServiceCalls, DesignRows, ListView
  <2>3. designs = FirstDesigns /\ FirstDesigns \in [Designs -> DesignRows]
    BY DesignAssumption DEF DesignInit, DesignRows
  <2>4. \A d \in Designs : designs[d].banner \in Banners
    BY <2>3 DEF DesignRows, DesignRow, NoDesign, Banners
  <2>5. assets \in SUBSET (Designs \X (Banners \cup {"grid"}))
    BY <2>3, <2>4 DEF DesignInit
  <2>6. /\ used = {} /\ minted \in SUBSET Designs /\ disturbed = FALSE /\ clicks = 0
        /\ panel = [e \in Designers |-> ListView(CHOOSE x \in Designs : TRUE)]
        /\ call = [e \in Designers |-> NoDesignCall]
    BY DEF DesignInit
  <2>7. DesignTypeOK
    BY <2>2, <2>3, <2>5, <2>6 DEF DesignTypeOK
  <2>8. Submitting /\ Showing /\ Founded /\ Alone
    BY <2>2, <2>6 DEF Submitting, Showing, Founded, Alone, Busy, StepNames
  <2>9. OneIndexed
    BY <2>3, DesignAssumption DEF OneIndexed
  <2>10. Uploaded
    <3>1. \A d \in Designs : designs[d].banner # "none" => <<d, designs[d].banner>> \in assets
      BY <2>3 DEF DesignInit
    <3> QED
      BY <2>2, <2>6, <3>1 DEF Uploaded
  <2> QED
    BY <2>7, <2>8, <2>9, <2>10 DEF DesignIInv
<1> QED
  BY <1>1, DesignStep, PTL DEF DesignSpec

\* At most one design is the default whatever calls overlap, and without an overlap
\* or a failure the calls themselves see to it, not the index
\* (pdf-design.service.ts: unsetCurrentDefault).
THEOREM DefaultIsUnique == DesignSpec => []OneDefault
<1>1. DesignIInv => OneDefault
  <2> SUFFICES ASSUME DesignIInv PROVE OneDefault
    OBVIOUS
  <2>1. Cardinality(Defaults) <= 1
    BY AtMostOne DEF DesignIInv, OneIndexed, Defaults
  <2> QED
    BY <2>1, SaveFits DEF OneDefault
<1> QED
  BY <1>1, DesignInvariant, PTL

\* An image url that is stored has its S3 object, through replacements, removals and
\* deletions, unless calls overlapped or one failed.
THEOREM UrlsResolve == DesignSpec => []UrlHasObject
<1>1. DesignIInv => UrlHasObject
  BY DEF DesignIInv, Uploaded, Removes, UrlHasObject
<1> QED
  BY <1>1, DesignInvariant, PTL

\* An update leaves alone what its designer did not touch.
THEOREM UpdatesKeepUntouched == DesignSpec => UntouchedKept
<1>1. ASSUME DesignIInv, [DesignNext]_designVars, NEW e \in Designers,
             call[e].op = "update", call[e].stage = "save",
             ~panel[e].touched, panel[e].view = "edit",
             call[e].row = designs[call[e].id], panel[e].basis = designs[call[e].id].look,
             designs' # designs, call'[e].op = "none"
      PROVE  /\ designs'[call[e].id].look = designs[call[e].id].look
             /\ designs'[call[e].id].banner = designs[call[e].id].banner
  <2>1. PICK o \in Designers : SaveDesign(o) /\ DefaultIndex(TableAfter(o))
    BY <1>1 DEF DesignNext, designVars, OpenCreate, OpenEdit, Cancel, Fill, HandleSubmit,
          SetPanel, SendStep, RemoveImage, ConfirmDelete, StartCall, ReadDesign, WorkDesign,
          SaveDesign, CallFails, DesignRefused, UseDesign
  <2>2. designs' = TableAfter(o) /\ call' = [call EXCEPT ![o] = NoDesignCall]
    BY <2>1 DEF SaveDesign
  <2>3. o = e
    BY <1>1, <2>2 DEF DesignIInv, DesignTypeOK
  <2>4. call[e].id \in Designs /\ call[e].row \in DesignRow
    BY <1>1 DEF DesignIInv, DesignTypeOK, ServiceCalls, Founded, DesignRows, Busy
  <2>5. designs'[call[e].id] = Assigned(e)
    BY <1>1, <2>2, <2>3, <2>4 DEF TableAfter
  <2>6. Assigned(e).look = panel[e].look /\ Assigned(e).banner = call[e].row.banner
    BY <1>1 DEF Assigned
  <2>7. panel[e].basis # "gone"
    BY <1>1, <2>4 DEF DesignRow, Looks
  <2>8. panel[e].look = panel[e].basis
    BY <1>1, <2>7 DEF DesignIInv, Showing, Shows
  <2> QED
    BY <1>1, <2>5, <2>6, <2>8
<1>2. DesignIInv /\ [DesignNext]_designVars =>
        [\A e \in Designers :
           LET d == call[e].id IN
           (/\ call[e].op = "update" /\ call[e].stage = "save"
            /\ ~panel[e].touched /\ panel[e].view = "edit"
            /\ call[e].row = designs[d] /\ panel[e].basis = designs[d].look
            /\ designs' # designs /\ call'[e].op = "none")
           => /\ designs'[d].look = designs[d].look
              /\ designs'[d].banner = designs[d].banner
        ]_designVars
  BY <1>1
<1> QED
  BY <1>2, DesignInvariant, PTL DEF DesignSpec, UntouchedKept

-----------------------------------------------------------------------------
(* What the dashboard reports of the consumption of the tenants.           *)

MetricRows == [client : Clients, metric : Metrics, value : Nat]
Figures == Nat \cup {NoMetric}
Runs == [month : Months, todo : SUBSET Clients, rows : SUBSET MetricRows]

MetricsTypeOK ==
    /\ hour \in Hours
    /\ uses \in [Clients -> [Hours -> Nat]]
    /\ users \in [Clients -> Nat] /\ peak \in [Clients -> Nat]
    /\ paying \in SUBSET Clients
    /\ stored \in [Clients -> [Metrics -> [Months -> Figures]]]
    /\ collector \in [Replicas -> Runs]

\* A measured number is no more than there is, and stays so.
Truthful(c, metric, month, value) ==
    /\ metric = "questions" => value <= UsedIn(c, HoursOf(month))
    /\ metric = "users" => value <= peak[c]

MetricsIInv ==
    /\ MetricsTypeOK
    /\ \A c \in Clients : users[c] <= peak[c]
    /\ \A p \in Replicas : \A row \in collector[p].rows :
          Truthful(row.client, row.metric, collector[p].month, row.value)
    /\ \A c \in Clients, metric \in Metrics, month \in Months :
          stored[c][metric][month] # NoMetric =>
             Truthful(c, metric, month, stored[c][metric][month])

-----------------------------------------------------------------------------
LEMMA MonthFacts ==
    /\ IsFiniteSet(Hours) /\ IsFiniteSet(Months) /\ 0 \in Months
    /\ \A h \in Hours : Month(h) \in Months
    /\ \E n \in Nat : Months \subseteq 0 .. n
<1>1. MaxHour \in Nat /\ HoursPerMonth \in Nat \ {0}
  BY MetricsAssumption
<1>2. IsFiniteSet(Hours)
  BY <1>1, FS_Interval DEF Hours
<1>3. \A h \in Hours : Month(h) \in Months /\ Month(h) \in Nat /\ Month(h) <= h
  BY <1>1 DEF Hours, Month, Months
<1>4. IsFiniteSet(Months)
  <2>1. IsFiniteSet({Month(h) : h \in Hours})
    <3> DEFINE f == [h \in Hours |-> Month(h)]
    <3>1. f \in Surjection(Hours, Months)
      BY DEF Surjection, Months
    <3> QED
      BY <1>2, <3>1, FS_Surjection DEF Months
  <2> QED
    BY <2>1 DEF Months
<1>5. 0 \in Months
  <2>1. 0 \in Hours /\ Month(0) = 0
    BY <1>1 DEF Hours, Month
  <2> QED
    BY <1>3, <2>1
<1>6. Months \subseteq 0 .. MaxHour
  BY <1>1, <1>3 DEF Months, Hours
<1> QED
  BY <1>1, <1>2, <1>3, <1>4, <1>5, <1>6

LEMMA HoursFinite ==
    ASSUME NEW month
    PROVE  IsFiniteSet(HoursOf(month)) /\ HoursOf(month) \in SUBSET Hours
<1>1. HoursOf(month) \in SUBSET Hours
  BY DEF HoursOf
<1> QED
  BY <1>1, MonthFacts, FS_Subset

LEMMA UsedTotal ==
    ASSUME NEW c, NEW H
    PROVE  UsedIn(c, H) = Total(uses[c], H)
<1> QED
  BY DEF UsedIn, Total

LEMMA UsedTotalNext ==
    ASSUME NEW c, NEW H
    PROVE  UsedIn(c, H)' = Total(uses'[c], H)
<1> QED
  BY DEF UsedIn, Total, MapThenSumSet, MapThenFoldSet

LEMMA UsedNumber ==
    ASSUME MetricsTypeOK, NEW c \in Clients, NEW H \in SUBSET Hours
    PROVE  UsedIn(c, H) \in Nat
<1>1. IsFiniteSet(H) /\ \A h \in H : uses[c][h] \in Nat
  BY MonthFacts, FS_Subset DEF MetricsTypeOK
<1> QED
  BY <1>1, UsedTotal, TotalType

-----------------------------------------------------------------------------
\* Uses are only added.
LEMMA UsesGrow ==
    ASSUME MetricsTypeOK, MetricsTypeOK', NEW c \in Clients,
           \A h \in Hours : uses[c][h] <= uses'[c][h],
           NEW H \in SUBSET Hours
    PROVE  UsedIn(c, H) <= UsedIn(c, H)'
<1> DEFINE before == uses[c]
           after == uses'[c]
<1>1. IsFiniteSet(H)
  BY MonthFacts, FS_Subset
<1>2. \A h \in H : before[h] \in Nat /\ after[h] \in Nat /\ before[h] <= after[h]
  BY DEF MetricsTypeOK
<1>3. UsedIn(c, H) = Total(before, H) /\ UsedIn(c, H)' = Total(after, H)
  BY UsedTotal, UsedTotalNext
<1> HIDE DEF before, after
<1>4. Total(before, H) <= Total(after, H)
  BY <1>1, <1>2, TotalMonotone
<1> QED
  BY <1>3, <1>4

\* What was truthful stays so when uses and peaks grow.
LEMMA TruthStays ==
    ASSUME MetricsTypeOK, MetricsTypeOK', NEW c \in Clients,
           \A h \in Hours : uses[c][h] <= uses'[c][h], peak[c] <= peak'[c],
           NEW metric, NEW month, NEW value \in Nat, Truthful(c, metric, month, value)
    PROVE  Truthful(c, metric, month, value)'
<1>1. HoursOf(month) \in SUBSET Hours /\ HoursOf(month)' = HoursOf(month)
  BY HoursFinite DEF HoursOf
<1>2. UsedIn(c, HoursOf(month)) <= UsedIn(c, HoursOf(month))'
  BY <1>1, UsesGrow
<1>3. UsedIn(c, HoursOf(month)) \in Nat
  BY <1>1, UsedNumber
<1>4. UsedIn(c, HoursOf(month))' \in Nat
  <2>1. \A h \in HoursOf(month) : uses'[c][h] \in Nat
    BY <1>1 DEF MetricsTypeOK
  <2>2. UsedIn(c, HoursOf(month))' = Total(uses'[c], HoursOf(month))
    BY UsedTotalNext
  <2> DEFINE after == uses'[c]
  <2> HIDE DEF after
  <2>3. Total(after, HoursOf(month)) \in Nat
    BY <2>1, HoursFinite, TotalType DEF after
  <2> QED
    BY <2>2, <2>3 DEF after
<1>5. peak[c] \in Nat /\ peak'[c] \in Nat
  BY DEF MetricsTypeOK
<1>6. metric = "questions" => value <= UsedIn(c, HoursOf(month))'
  BY <1>2, <1>3, <1>4 DEF Truthful
<1>7. metric = "users" => value <= peak'[c]
  BY <1>5 DEF Truthful
<1> QED
  BY <1>6, <1>7 DEF Truthful

\* A step of the world: the collectors and their table stand still.
LEMMA WorldStep ==
    ASSUME MetricsIInv, MetricsTypeOK', collector' = collector, stored' = stored,
           \A c \in Clients : \A h \in Hours : uses[c][h] <= uses'[c][h],
           \A c \in Clients : peak[c] <= peak'[c] /\ users'[c] <= peak'[c]
    PROVE  MetricsIInv'
<1>1. ASSUME NEW p \in Replicas, NEW row \in collector[p].rows
      PROVE  Truthful(row.client, row.metric, collector[p].month, row.value)'
  <2>1. row.client \in Clients /\ row.value \in Nat
    BY DEF MetricsIInv, MetricsTypeOK, Runs, MetricRows
  <2>2. Truthful(row.client, row.metric, collector[p].month, row.value)
    BY DEF MetricsIInv
  <2> DEFINE m == collector[p].month
  <2>3. m' = m
    OBVIOUS
  <2> HIDE DEF m
  <2>4. ASSUME NEW month, month = m PROVE Truthful(row.client, row.metric, month, row.value)'
    BY <2>1, <2>2, <2>4, TruthStays DEF m, MetricsIInv
  <2> QED
    BY <2>3, <2>4 DEF m, Truthful, UsedIn, HoursOf
<1>2. ASSUME NEW c \in Clients, NEW metric \in Metrics, NEW month \in Months,
             stored[c][metric][month] # NoMetric
      PROVE  Truthful(c, metric, month, stored[c][metric][month])'
  <2>1. stored[c][metric][month] \in Nat
    BY <1>2 DEF MetricsIInv, MetricsTypeOK, Figures
  <2>2. Truthful(c, metric, month, stored[c][metric][month])
    BY <1>2 DEF MetricsIInv
  <2>3. ASSUME NEW value \in Nat, value = stored[c][metric][month] PROVE Truthful(c, metric, month, value)'
    BY <2>2, <2>3, TruthStays DEF MetricsIInv
  <2> QED
    BY <2>1, <2>3
<1> QED
  BY <1>1, <1>2 DEF MetricsIInv

-----------------------------------------------------------------------------
(* The steps of the world.                                                 *)

LEMMA UseQuestionInv ==
    ASSUME MetricsIInv, NEW c \in Clients, UseQuestion(c)
    PROVE  MetricsIInv'
<1> DEFINE u == [uses[c] EXCEPT ![hour] = @ + 1]
<1>1. uses[c] \in [Hours -> Nat] /\ hour \in Hours
  BY DEF MetricsIInv, MetricsTypeOK
<1>2. u \in [Hours -> Nat] /\ \A h \in Hours : uses[c][h] <= u[h]
  BY <1>1
<1>3. uses' = [uses EXCEPT ![c] = u] /\ UNCHANGED <<hour, users, peak, paying, stored, collector>>
  BY DEF UseQuestion
<1> HIDE DEF u
<1>4. /\ uses' \in [Clients -> [Hours -> Nat]]
      /\ \A d \in Clients : \A h \in Hours : uses[d][h] <= uses'[d][h]
  BY <1>2, <1>3 DEF MetricsIInv, MetricsTypeOK
<1>5. MetricsTypeOK' /\ \A d \in Clients : peak[d] <= peak'[d] /\ users'[d] <= peak'[d]
  BY <1>3, <1>4 DEF MetricsIInv, MetricsTypeOK
<1> QED
  BY <1>3, <1>4, <1>5, WorldStep

LEMMA SetUsersInv ==
    ASSUME MetricsIInv, NEW c \in Clients, SetUsers(c)
    PROVE  MetricsIInv'
<1>1. PICK n \in 1 .. MaxUsers :
        /\ users' = [users EXCEPT ![c] = n]
        /\ peak' = [peak EXCEPT ![c] = IF n > @ THEN n ELSE @]
        /\ UNCHANGED <<hour, uses, paying, stored, collector>>
  BY DEF SetUsers
<1>2. n \in Nat
  BY MetricsAssumption
<1>3. users \in [Clients -> Nat] /\ peak \in [Clients -> Nat] /\ \A d \in Clients : users[d] <= peak[d]
  BY DEF MetricsIInv, MetricsTypeOK
<1>4. /\ users' \in [Clients -> Nat] /\ peak' \in [Clients -> Nat]
      /\ \A d \in Clients : peak[d] <= peak'[d] /\ users'[d] <= peak'[d]
  BY <1>1, <1>2, <1>3
<1>5. MetricsTypeOK' /\ \A d \in Clients : \A h \in Hours : uses[d][h] <= uses'[d][h]
  BY <1>1, <1>4 DEF MetricsIInv, MetricsTypeOK
<1> QED
  BY <1>1, <1>4, <1>5, WorldStep

\* The hour strikes, a company is suspended or activated again.
LEMMA QuietInv ==
    ASSUME MetricsIInv, hour' \in Hours, paying' \in SUBSET Clients,
           UNCHANGED <<uses, users, peak, stored, collector>>
    PROVE  MetricsIInv'
<1>1. /\ MetricsTypeOK' /\ \A d \in Clients : \A h \in Hours : uses[d][h] <= uses'[d][h]
      /\ \A d \in Clients : peak[d] <= peak'[d] /\ users'[d] <= peak'[d]
  BY DEF MetricsIInv, MetricsTypeOK
<1> QED
  BY <1>1, WorldStep

-----------------------------------------------------------------------------
(* The steps of the collectors.                                            *)

LEMMA TruthSame ==
    ASSUME uses' = uses, peak' = peak, NEW c, NEW metric, NEW month, NEW value,
           Truthful(c, metric, month, value)
    PROVE  Truthful(c, metric, month, value)'
<1>1. UsedIn(c, HoursOf(month))' = UsedIn(c, HoursOf(month))
  BY UsedTotal, UsedTotalNext
<1> QED
  BY <1>1 DEF Truthful

LEMMA CollectorStep ==
    ASSUME MetricsIInv, NEW p \in Replicas, NEW run \in Runs,
           collector' = [collector EXCEPT ![p] = run],
           \A row \in run.rows : Truthful(row.client, row.metric, run.month, row.value),
           stored' \in [Clients -> [Metrics -> [Months -> Figures]]],
           \A c \in Clients, metric \in Metrics, month \in Months :
              \/ stored'[c][metric][month] = stored[c][metric][month]
              \/ Truthful(c, metric, month, stored'[c][metric][month]),
           UNCHANGED <<hour, uses, users, peak, paying>>
    PROVE  MetricsIInv'
<1>1. MetricsTypeOK'
  BY DEF MetricsIInv, MetricsTypeOK
<1>2. ASSUME NEW q \in Replicas, NEW row \in collector'[q].rows
      PROVE  Truthful(row.client, row.metric, collector'[q].month, row.value)
  <2>1. CASE q = p
    BY <1>2, <2>1 DEF MetricsIInv, MetricsTypeOK
  <2>2. CASE q # p
    BY <1>2, <2>2 DEF MetricsIInv, MetricsTypeOK
  <2> QED
    BY <2>1, <2>2
<1>3. \A c \in Clients, metric \in Metrics, month \in Months :
        stored'[c][metric][month] # NoMetric => Truthful(c, metric, month, stored'[c][metric][month])
  BY DEF MetricsIInv
<1>4. \A c, metric, month, value : Truthful(c, metric, month, value) => Truthful(c, metric, month, value)'
  BY TruthSame
<1>5. \A q \in Replicas : \A row \in collector'[q].rows :
        Truthful(row.client, row.metric, collector[q].month, row.value)'
  BY <1>2, UsedTotalNext, UsedTotal DEF Truthful
<1>6. \A c \in Clients, metric \in Metrics, month \in Months :
        stored'[c][metric][month] # NoMetric => Truthful(c, metric, month, stored[c][metric][month])'
  BY <1>3, UsedTotalNext, UsedTotal DEF Truthful
<1>7. \A d \in Clients : users'[d] <= peak'[d]
  BY DEF MetricsIInv
<1> QED
  BY <1>1, <1>5, <1>6, <1>7 DEF MetricsIInv

LEMMA CollectorType ==
    ASSUME MetricsIInv, NEW p \in Replicas
    PROVE  /\ collector[p] \in Runs /\ collector[p].month \in Months
           /\ collector[p].todo \in SUBSET Clients /\ collector[p].rows \in SUBSET MetricRows
           /\ \A row \in collector[p].rows :
                Truthful(row.client, row.metric, collector[p].month, row.value)
<1> QED
  BY DEF MetricsIInv, MetricsTypeOK, Runs

LEMMA RestingType == Resting \in Runs /\ Resting.rows = {}
<1> QED
  BY MonthFacts DEF Resting, Runs

LEMMA RunEndType ==
    ASSUME NEW run \in Runs
    PROVE  EndIfDone(run) \in Runs /\ EndIfDone(run).rows = run.rows
                                   /\ (run.rows # {} => EndIfDone(run).month = run.month)
<1> QED
  BY RestingType DEF EndIfDone

LEMMA HandleCronInv ==
    ASSUME MetricsIInv, NEW p \in Replicas, HandleCron(p)
    PROVE  MetricsIInv'
<1> DEFINE run == [month |-> Month(hour), todo |-> paying, rows |-> {}]
<1>1. collector' = [collector EXCEPT ![p] = run] /\ UNCHANGED <<hour, uses, users, peak, paying, stored>>
  BY DEF HandleCron
<1>2. run \in Runs /\ run.rows = {}
  BY MonthFacts DEF Runs, MetricsIInv, MetricsTypeOK
<1>3. stored' \in [Clients -> [Metrics -> [Months -> Figures]]]
  BY <1>1 DEF MetricsIInv, MetricsTypeOK
<1> HIDE DEF run
<1> QED
  BY <1>1, <1>2, <1>3, CollectorStep

LEMMA MeasuredTruthful ==
    ASSUME MetricsIInv, NEW c \in Clients, NEW month \in Months
    PROVE  /\ Measured(c, month) \in SUBSET MetricRows
           /\ \A row \in Measured(c, month) : Truthful(row.client, row.metric, month, row.value)
<1>1. UsedIn(c, HoursOf(month)) \in Nat
  BY HoursFinite, UsedNumber DEF MetricsIInv
<1>2. users[c] \in Nat /\ users[c] <= peak[c]
  BY DEF MetricsIInv, MetricsTypeOK
<1> DEFINE n == UsedIn(c, HoursOf(month))
           q == [client |-> c, metric |-> "questions", value |-> n]
           u == [client |-> c, metric |-> "users", value |-> users[c]]
<1>3. Measured(c, month) = {q, u}
  BY DEF Measured
<1>4. q \in MetricRows /\ u \in MetricRows
  BY <1>1, <1>2 DEF MetricRows, Metrics
<1>5. Truthful(c, "questions", month, n) /\ Truthful(c, "users", month, users[c])
  BY <1>1, <1>2 DEF Truthful
<1>6. Truthful(q.client, q.metric, month, q.value) /\ Truthful(u.client, u.metric, month, u.value)
  <2> HIDE DEF n
  <2> QED
    BY <1>5
<1> HIDE DEF q, u
<1> QED
  BY <1>3, <1>4, <1>6

LEMMA CollectInv ==
    ASSUME MetricsIInv, NEW p \in Replicas, NEW c \in Clients, CollectForTenant(p, c)
    PROVE  MetricsIInv'
<1> DEFINE m == collector[p].month
           T == collector[p].todo
           R == collector[p].rows
           rest == [month |-> m, todo |-> T \ {c}, rows |-> R]
           more == [month |-> m, todo |-> T \ {c}, rows |-> R \cup Measured(c, m)]
<1>1. /\ m \in Months /\ T \in SUBSET Clients /\ R \in SUBSET MetricRows
      /\ \A row \in R : Truthful(row.client, row.metric, m, row.value)
  BY CollectorType
<1>2. collector[p] = [month |-> m, todo |-> T, rows |-> R]
  BY CollectorType DEF Runs
<1>3. /\ UNCHANGED <<hour, uses, users, peak, paying, stored>>
      /\ \/ collector' = [collector EXCEPT ![p] = more]
         \/ collector' = [collector EXCEPT ![p] = EndIfDone(rest)]
  <2>1. [collector[p] EXCEPT !.todo = @ \ {c}] = rest
    BY <1>2
  <2>2. [rest EXCEPT !.rows = @ \cup Measured(c, m)] = more
    <3> HIDE DEF m, T, R
    <3> QED
      OBVIOUS
  <2>3. \/ collector' = [collector EXCEPT ![p] =
                            [[collector[p] EXCEPT !.todo = @ \ {c}] EXCEPT !.rows = @ \cup Measured(c, m)]]
        \/ collector' = [collector EXCEPT ![p] = EndIfDone([collector[p] EXCEPT !.todo = @ \ {c}])]
    BY DEF CollectForTenant
  <2>4. UNCHANGED <<hour, uses, users, peak, paying, stored>>
    BY DEF CollectForTenant
  <2> QED
    BY <2>1, <2>2, <2>3, <2>4
<1>4. rest \in Runs /\ rest.rows = R /\ rest.month = m
  BY <1>1 DEF Runs
<1>5. /\ Measured(c, m) \in SUBSET MetricRows
      /\ \A row \in Measured(c, m) : Truthful(row.client, row.metric, m, row.value)
  BY <1>1, MeasuredTruthful
<1>6. more \in Runs /\ more.month = m /\ more.rows = R \cup Measured(c, m)
  BY <1>1, <1>5 DEF Runs
<1>7. stored' \in [Clients -> [Metrics -> [Months -> Figures]]]
  BY <1>3 DEF MetricsIInv, MetricsTypeOK
<1>8. /\ EndIfDone(rest) \in Runs
      /\ \A row \in EndIfDone(rest).rows :
            Truthful(row.client, row.metric, EndIfDone(rest).month, row.value)
  <2>1. /\ EndIfDone(rest) \in Runs /\ EndIfDone(rest).rows = R
        /\ (R # {} => EndIfDone(rest).month = m)
    BY <1>4, RunEndType
  <2> HIDE DEF rest, m, R
  <2> QED
    BY <1>1, <2>1
<1>9. \A row \in more.rows : Truthful(row.client, row.metric, more.month, row.value)
  <2> HIDE DEF more, m, R
  <2> QED
    BY <1>1, <1>5, <1>6
<1> HIDE DEF m, T, R, rest, more
<1>10. CASE collector' = [collector EXCEPT ![p] = more]
  BY <1>3, <1>6, <1>7, <1>9, <1>10, CollectorStep
<1>11. CASE collector' = [collector EXCEPT ![p] = EndIfDone(rest)]
  <2> DEFINE run == EndIfDone(rest)
  <2>1. run \in Runs /\ \A row \in run.rows : Truthful(row.client, row.metric, run.month, row.value)
    BY <1>8
  <2>2. collector' = [collector EXCEPT ![p] = run]
    BY <1>11
  <2> HIDE DEF run
  <2> QED
    BY <1>3, <1>7, <2>1, <2>2, CollectorStep
<1> QED
  BY <1>3, <1>10, <1>11

LEMMA UpsertMetricInv ==
    ASSUME MetricsIInv, NEW p \in Replicas, NEW row \in collector[p].rows, UpsertMetric(p, row)
    PROVE  MetricsIInv'
<1> DEFINE m == collector[p].month
           T == collector[p].todo
           R == collector[p].rows
           rest == [month |-> m, todo |-> T, rows |-> R \ {row}]
           run == EndIfDone(rest)
<1>1. /\ m \in Months /\ T \in SUBSET Clients /\ R \in SUBSET MetricRows
      /\ \A x \in R : Truthful(x.client, x.metric, m, x.value)
  BY CollectorType
<1>2. collector[p] = [month |-> m, todo |-> T, rows |-> R]
  BY CollectorType DEF Runs
<1>3. row.client \in Clients /\ row.metric \in Metrics /\ row.value \in Nat
  BY <1>1 DEF MetricRows
<1>4. /\ UNCHANGED <<hour, uses, users, peak, paying>>
      /\ collector' = [collector EXCEPT ![p] = run]
      /\ stored' = [stored EXCEPT ![row.client][row.metric][m] = row.value]
  <2>1. [collector[p] EXCEPT !.rows = @ \ {row}] = rest
    BY <1>2
  <2> QED
    BY <2>1 DEF UpsertMetric, Overwritten
<1>5. rest \in Runs /\ rest.rows = R \ {row} /\ rest.month = m
  BY <1>1 DEF Runs
<1>6. run \in Runs /\ \A x \in run.rows : Truthful(x.client, x.metric, run.month, x.value)
  <2>1. run \in Runs /\ run.rows = R \ {row} /\ (R \ {row} # {} => run.month = m)
    BY <1>5, RunEndType
  <2> HIDE DEF run, m, R
  <2> QED
    BY <1>1, <2>1
<1> DEFINE k == row.client
           g == row.metric
           v == row.value
<1>7. k \in Clients /\ g \in Metrics /\ v \in Nat /\ m \in Months /\ Truthful(k, g, m, v)
  BY <1>1, <1>3
<1>8. stored' = [stored EXCEPT ![k][g][m] = v]
  BY <1>4
<1> HIDE DEF m, run, k, g, v
<1>9. stored \in [Clients -> [Metrics -> [Months -> Figures]]]
  BY DEF MetricsIInv, MetricsTypeOK
<1>10. stored' \in [Clients -> [Metrics -> [Months -> Figures]]]
  BY <1>7, <1>8, <1>9 DEF Figures
<1>11. \A c \in Clients, metric \in Metrics, month \in Months :
          \/ stored'[c][metric][month] = stored[c][metric][month]
          \/ c = k /\ metric = g /\ month = m /\ stored'[c][metric][month] = v
  BY <1>7, <1>8, <1>9
<1>12. \A c \in Clients, metric \in Metrics, month \in Months :
          \/ stored'[c][metric][month] = stored[c][metric][month]
          \/ Truthful(c, metric, month, stored'[c][metric][month])
  BY <1>7, <1>11
<1> QED
  BY <1>4, <1>6, <1>10, <1>12, CollectorStep

LEMMA CrashCollectorInv ==
    ASSUME MetricsIInv, NEW p \in Replicas, CrashCollector(p)
    PROVE  MetricsIInv'
<1>1. collector' = [collector EXCEPT ![p] = Resting] /\ UNCHANGED <<hour, uses, users, peak, paying, stored>>
  BY DEF CrashCollector
<1>2. stored' \in [Clients -> [Metrics -> [Months -> Figures]]]
  BY <1>1 DEF MetricsIInv, MetricsTypeOK
<1> QED
  BY <1>1, <1>2, RestingType, CollectorStep

-----------------------------------------------------------------------------
LEMMA MetricsInitInv == MetricsInit => MetricsIInv
<1> SUFFICES ASSUME MetricsInit PROVE MetricsIInv
  OBVIOUS
<1>1. hour \in Hours
  BY MetricsAssumption DEF MetricsInit, Hours
<1>2. \A p \in Replicas : collector[p] = Resting
  BY DEF MetricsInit
<1>3. collector \in [Replicas -> Runs]
  BY RestingType DEF MetricsInit
<1>4. stored \in [Clients -> [Metrics -> [Months -> Figures]]]
  BY DEF MetricsInit, Figures
<1>5. MetricsTypeOK
  BY <1>1, <1>3, <1>4 DEF MetricsInit, MetricsTypeOK
<1>6. \A c \in Clients, metric \in Metrics, month \in Months : stored[c][metric][month] = NoMetric
  BY DEF MetricsInit
<1>7. \A c \in Clients : users[c] <= peak[c]
  BY DEF MetricsInit
<1>8. \A p \in Replicas : collector[p].rows = {}
  BY <1>2, RestingType
<1> QED
  BY <1>5, <1>6, <1>7, <1>8 DEF MetricsIInv

\* The inductive invariant of the consumption: whatever the collectors hold and whatever
\* they have stored was consumed in the month it is kept under.
THEOREM MetricsInvariant == MetricsSpec => []MetricsIInv
<1>1. MetricsIInv /\ [MetricsNext]_metricVars => MetricsIInv'
  <2> SUFFICES ASSUME MetricsIInv, [MetricsNext]_metricVars PROVE MetricsIInv'
    OBVIOUS
  <2>0. hour \in Hours /\ paying \in SUBSET Clients
    BY DEF MetricsIInv, MetricsTypeOK
  <2>1. CASE Strike
    <3>1. hour' \in Hours
      BY <2>0, <2>1, MetricsAssumption DEF Strike, Hours
    <3> QED
      BY <2>0, <2>1, <3>1, QuietInv DEF Strike
  <2>2. ASSUME NEW c \in Clients, UseQuestion(c) \/ SetUsers(c) \/ SetPaying(c) PROVE MetricsIInv'
    <3>1. CASE SetPaying(c)
      <4>1. paying' \in SUBSET Clients
        BY <2>0, <3>1 DEF SetPaying
      <4> QED
        BY <2>0, <3>1, <4>1, QuietInv DEF SetPaying
    <3> QED
      BY <2>2, <3>1, UseQuestionInv, SetUsersInv
  <2>3. ASSUME NEW p \in Replicas,
               \/ HandleCron(p) \/ CrashCollector(p)
               \/ \E c \in Clients : CollectForTenant(p, c)
               \/ \E row \in collector[p].rows : UpsertMetric(p, row)
        PROVE  MetricsIInv'
    BY <2>3, HandleCronInv, CrashCollectorInv, CollectInv, UpsertMetricInv
  <2>4. CASE UNCHANGED metricVars
    BY <2>0, <2>4, QuietInv DEF metricVars
  <2> QED
    BY <2>1, <2>2, <2>3, <2>4 DEF MetricsNext
<1> QED
  BY <1>1, MetricsInitInv, PTL DEF MetricsSpec

-----------------------------------------------------------------------------
(* What the dashboard adds up.                                             *)

\* The sums of the dashboard are totals of functions.
LEMMA UsedByClients ==
    ASSUME NEW H, NEW S, IsFiniteSet(S)
    PROVE  MapThenSumSet(LAMBDA c : UsedIn(c, H), S) = Total([c \in S |-> UsedIn(c, H)], S)
<1> DEFINE f == [c \in S |-> UsedIn(c, H)]
           A(g) == g = [s \in SUBSET S |-> IF s = {} THEN 0 ELSE UsedIn(First(s), H) + g[s \ {First(s)}]]
           x == CHOOSE g : A(g)
           y == CHOOSE g : Adds(g, f, S)
<1>1. MapThenSumSet(LAMBDA c : UsedIn(c, H), S) = x[S]
  BY DEF MapThenSumSet, MapThenFoldSet, First
<1>2. Total(f, S) = y[S]
  BY TotalIsAdded
<1>3. ASSUME NEW s \in SUBSET S, s # {} PROVE f[First(s)] = UsedIn(First(s), H)
  BY <1>3, FirstIn
<1>4. ASSUME NEW g PROVE Adds(g, f, S) <=> A(g)
  BY <1>3 DEF Adds
<1>5. Adds(y, f, S)
  BY AddsExists
<1> HIDE DEF f, y
<1>6. A(x)
  <2>1. A(y)
    BY <1>4, <1>5
  <2> HIDE DEF A
  <2> QED
    BY <2>1
<1>7. Adds(x, f, S)
  BY <1>4, <1>6
<1> HIDE DEF x
<1>8. x = y
  BY <1>5, <1>7, AddsUnique
<1> QED
  BY <1>1, <1>2, <1>8 DEF f

LEMMA SumsOfClients ==
    ASSUME NEW months, NEW S, IsFiniteSet(S)
    PROVE  MapThenSumSet(LAMBDA c : SumAcrossBuckets(c, "questions", months), S) = Total([c \in S |-> SumAcrossBuckets(c, "questions", months)], S)
<1> DEFINE f == [c \in S |-> SumAcrossBuckets(c, "questions", months)]
           A(g) == g = [s \in SUBSET S |-> IF s = {} THEN 0 ELSE SumAcrossBuckets(First(s), "questions", months) + g[s \ {First(s)}]]
           x == CHOOSE g : A(g)
           y == CHOOSE g : Adds(g, f, S)
<1>1. MapThenSumSet(LAMBDA c : SumAcrossBuckets(c, "questions", months), S) = x[S]
  BY DEF MapThenSumSet, MapThenFoldSet, First
<1>2. Total(f, S) = y[S]
  BY TotalIsAdded
<1>3. ASSUME NEW s \in SUBSET S, s # {} PROVE f[First(s)] = SumAcrossBuckets(First(s), "questions", months)
  BY <1>3, FirstIn
<1>4. ASSUME NEW g PROVE Adds(g, f, S) <=> A(g)
  BY <1>3 DEF Adds
<1>5. Adds(y, f, S)
  BY AddsExists
<1> HIDE DEF f, y
<1>6. A(x)
  <2>1. A(y)
    BY <1>4, <1>5
  <2> HIDE DEF A
  <2> QED
    BY <2>1
<1>7. Adds(x, f, S)
  BY <1>4, <1>6
<1> HIDE DEF x
<1>8. x = y
  BY <1>5, <1>7, AddsUnique
<1> QED
  BY <1>1, <1>2, <1>8 DEF f

LEMMA LatestOfClients ==
    ASSUME NEW months, NEW S, IsFiniteSet(S)
    PROVE  MapThenSumSet(LAMBDA c : LatestBucket(c, "users", months), S) = Total([c \in S |-> LatestBucket(c, "users", months)], S)
<1> DEFINE f == [c \in S |-> LatestBucket(c, "users", months)]
           A(g) == g = [s \in SUBSET S |-> IF s = {} THEN 0 ELSE LatestBucket(First(s), "users", months) + g[s \ {First(s)}]]
           x == CHOOSE g : A(g)
           y == CHOOSE g : Adds(g, f, S)
<1>1. MapThenSumSet(LAMBDA c : LatestBucket(c, "users", months), S) = x[S]
  BY DEF MapThenSumSet, MapThenFoldSet, First
<1>2. Total(f, S) = y[S]
  BY TotalIsAdded
<1>3. ASSUME NEW s \in SUBSET S, s # {} PROVE f[First(s)] = LatestBucket(First(s), "users", months)
  BY <1>3, FirstIn
<1>4. ASSUME NEW g PROVE Adds(g, f, S) <=> A(g)
  BY <1>3 DEF Adds
<1>5. Adds(y, f, S)
  BY AddsExists
<1> HIDE DEF f, y
<1>6. A(x)
  <2>1. A(y)
    BY <1>4, <1>5
  <2> HIDE DEF A
  <2> QED
    BY <2>1
<1>7. Adds(x, f, S)
  BY <1>4, <1>6
<1> HIDE DEF x
<1>8. x = y
  BY <1>5, <1>7, AddsUnique
<1> QED
  BY <1>1, <1>2, <1>8 DEF f

\* What a client is reported to have used was used in the months asked for.
LEMMA QuestionsTruthful ==
    ASSUME MetricsIInv, NEW c \in Clients, NEW months \in SUBSET Months
    PROVE  /\ SumAcrossBuckets(c, "questions", months) \in Nat
           /\ UsedIn(c, UNION {HoursOf(m) : m \in months}) \in Nat
           /\ SumAcrossBuckets(c, "questions", months) <= UsedIn(c, UNION {HoursOf(m) : m \in months})
<1> DEFINE R == RowsIn(c, "questions", months)
           f == stored[c]["questions"]
           g == uses[c]
           part == [m \in months |-> HoursOf(m)]
           H == UNION {HoursOf(m) : m \in months}
<1>1. R \in SUBSET months /\ IsFiniteSet(R) /\ IsFiniteSet(Hours)
  BY MonthFacts, FS_Subset DEF RowsIn
<1>2. \A m \in R : part[m] = HoursOf(m)
  BY <1>1
<1>3. \A m \in R : part[m] \subseteq Hours
  BY <1>2 DEF HoursOf
<1>4. \A m, n \in R : m # n => part[m] \cap part[n] = {}
  BY <1>2 DEF HoursOf
<1>5. \A h \in Hours : g[h] \in Nat
  BY DEF MetricsIInv, MetricsTypeOK
<1>6. \A m \in R : f[m] \in Nat /\ f[m] <= Total(g, part[m])
  <2> SUFFICES ASSUME NEW m \in R PROVE f[m] \in Nat /\ f[m] <= Total(g, part[m])
    OBVIOUS
  <2>1. m \in Months /\ stored[c]["questions"][m] # NoMetric /\ "questions" \in Metrics
    BY <1>1 DEF RowsIn, Metrics
  <2>2. f[m] \in Nat
    BY <2>1 DEF MetricsIInv, MetricsTypeOK, Figures
  <2>3. f[m] <= UsedIn(c, HoursOf(m))
    BY <2>1 DEF MetricsIInv, Truthful
  <2>4. UsedIn(c, HoursOf(m)) = Total(g, part[m])
    BY <1>2, UsedTotal
  <2> HIDE DEF f, g, part
  <2> QED
    BY <2>2, <2>3, <2>4
<1>7. SumAcrossBuckets(c, "questions", months) = Total(f, R)
  BY DEF SumAcrossBuckets, Total
<1>8. H \in SUBSET Hours
  BY DEF HoursOf
<1>9. UsedIn(c, H) = Total(g, H) /\ UsedIn(c, H) \in Nat
  <2> HIDE DEF H
  <2> QED
    BY <1>8, UsedTotal, UsedNumber DEF MetricsIInv
<1>10. UNION {part[m] : m \in R} \in SUBSET H
  BY <1>1
<1> HIDE DEF R, f, g, part, H
<1>11. Total(f, R) <= Total(g, UNION {part[m] : m \in R})
  BY <1>1, <1>3, <1>4, <1>5, <1>6, TotalCovered
<1> DEFINE K == UNION {part[m] : m \in R}
<1>12. Total(g, K) <= Total(g, H)
  <2> HIDE DEF K
  <2>1. K \in SUBSET H /\ IsFiniteSet(H) /\ \A h \in H : g[h] \in Nat
    BY <1>1, <1>5, <1>8, <1>10, FS_Subset DEF K
  <2>2. \A h \in K : g[h] <= g[h]
    BY <2>1
  <2> QED
    BY <2>1, <2>2, TotalMonotone
<1>13. Total(f, R) \in Nat
  BY <1>1, <1>6, TotalType
<1>14. Total(g, K) \in Nat
  <2>1. K \in SUBSET Hours
    BY <1>8, <1>10
  <2> HIDE DEF K
  <2>2. IsFiniteSet(K) /\ \A h \in K : g[h] \in Nat
    BY <1>1, <1>5, <2>1, FS_Subset
  <2> QED
    BY <2>2, TotalType
<1> DEFINE x == Total(f, R)
           y == Total(g, K)
           z == Total(g, H)
<1>15. x \in Nat /\ y \in Nat /\ z \in Nat /\ x <= y /\ y <= z
  BY <1>9, <1>11, <1>12, <1>13, <1>14
<1>16. x <= z
  <2> HIDE DEF x, y, z
  <2> QED
    BY <1>15
<1> QED
  BY <1>7, <1>9, <1>13, <1>16 DEF H

\* The last month that is reported of a client shows no more users than it ever had.
LEMMA UsersTruthful ==
    ASSUME MetricsIInv, NEW c \in Clients, NEW months \in SUBSET Months
    PROVE  /\ LatestBucket(c, "users", months) \in Nat
           /\ LatestBucket(c, "users", months) <= peak[c]
<1> DEFINE R == RowsIn(c, "users", months)
<1>1. R \in SUBSET Months /\ \A m \in R : stored[c]["users"][m] # NoMetric
  BY DEF RowsIn
<1>2. peak[c] \in Nat
  BY DEF MetricsIInv, MetricsTypeOK
<1>3. CASE R = {}
  BY <1>2, <1>3 DEF LatestBucket
<1>4. CASE R # {}
  <2>1. PICK n \in Nat : Months \subseteq 0 .. n
    BY MonthFacts
  <2> HIDE DEF R
  <2>2. Max(R) \in R
    <3>1. R \in SUBSET (0 .. n)
      BY <1>1, <2>1
    <3> QED
      BY <1>4, <3>1, GreatestNumber
  <2>3. LatestBucket(c, "users", months) = stored[c]["users"][Max(R)]
    BY <1>4 DEF LatestBucket, R
  <2>4. "users" \in Metrics
    BY DEF Metrics
  <2>5. ASSUME NEW m \in R PROVE stored[c]["users"][m] \in Nat /\ stored[c]["users"][m] <= peak[c]
    BY <1>1, <2>4, <2>5 DEF MetricsIInv, MetricsTypeOK, Truthful, Figures
  <2> QED
    BY <2>2, <2>3, <2>5
<1> QED
  BY <1>3, <1>4

LEMMA BucketsAreMonths ==
    ASSUME MetricsIInv, NEW starts, NEW ends
    PROVE  ResolveMonthBuckets(starts, ends) \in SUBSET Months
<1>1. Month(hour) \in Months
  BY MonthFacts DEF MetricsIInv, MetricsTypeOK
<1> QED
  BY <1>1 DEF ResolveMonthBuckets

LEMMA ReportTruthful ==
    ASSUME MetricsIInv, NEW months \in SUBSET Months, NEW clients \in SUBSET Clients
    PROVE  LET report == GetMetrics(clients, months)
           IN /\ report.questions <=
                   MapThenSumSet(LAMBDA c : UsedIn(c, UNION {HoursOf(m) : m \in months}), clients)
              /\ report.users <= MapThenSumSet(LAMBDA c : peak[c], clients)
<1> DEFINE H == UNION {HoursOf(m) : m \in months}
           s == [c \in clients |-> SumAcrossBuckets(c, "questions", months)]
           u == [c \in clients |-> UsedIn(c, H)]
           l == [c \in clients |-> LatestBucket(c, "users", months)]
<1>0. IsFiniteSet(clients)
  BY MetricsAssumption, FS_Subset
<1>1. \A c \in clients : s[c] \in Nat /\ u[c] \in Nat /\ s[c] <= u[c]
  BY QuestionsTruthful
<1>2. \A c \in clients : l[c] \in Nat /\ peak[c] \in Nat /\ l[c] <= peak[c]
  BY UsersTruthful DEF MetricsIInv, MetricsTypeOK
<1>3. GetMetrics(clients, months).questions = Total(s, clients)
  BY <1>0, SumsOfClients DEF GetMetrics
<1>4. GetMetrics(clients, months).users = Total(l, clients)
  BY <1>0, LatestOfClients DEF GetMetrics
<1>5. MapThenSumSet(LAMBDA c : UsedIn(c, UNION {HoursOf(m) : m \in months}), clients) = Total(u, clients)
  BY <1>0, UsedByClients
<1>6. MapThenSumSet(LAMBDA c : peak[c], clients) = Total(peak, clients)
  BY DEF Total
<1> HIDE DEF s, u, l
<1>7. Total(s, clients) <= Total(u, clients)
  BY <1>0, <1>1, TotalMonotone
<1>8. Total(l, clients) <= Total(peak, clients)
  BY <1>0, <1>2, TotalMonotone
<1> QED
  BY <1>3, <1>4, <1>5, <1>6, <1>7, <1>8

\* The dashboard overstates nothing, whatever range and tenants it is asked for.
THEOREM DashboardStaysTruthful == MetricsSpec => []DashboardTruthful
<1>1. MetricsIInv => DashboardTruthful
  <2> SUFFICES ASSUME MetricsIInv, NEW starts \in Ranges, NEW ends \in Ranges, NEW clients \in Scopes
               PROVE  LET months == ResolveMonthBuckets(starts, ends)
                          report == GetMetrics(clients, months)
                      IN /\ report.questions <=
                              MapThenSumSet(LAMBDA c : UsedIn(c, UNION {HoursOf(m) : m \in months}), clients)
                         /\ report.users <= MapThenSumSet(LAMBDA c : peak[c], clients)
    BY DEF DashboardTruthful
  <2>1. clients \in SUBSET Clients
    BY DEF Scopes
  <2> QED
    BY <2>1, BucketsAreMonths, ReportTruthful
<1> QED
  BY <1>1, MetricsInvariant, PTL
=============================================================================
