----------------------------- MODULE MCTenants -----------------------------
(***************************************************************************)
(* The platform and what belongs to a tenant, in one run: the life of a    *)
(* tenant, the console of the tenants' administrators, the consumption     *)
(* metrics and a tenant's PDF designs. No state of one module is read by   *)
(* another, so a behaviour picks one of them at the start and the others   *)
(* stand still: the run explores the sum of their states. No fair action   *)
(* is enabled in an initial state.                                         *)
(***************************************************************************)
EXTENDS TenantLifecycle, TenantConsole, ConsumptionMetrics, PdfDesign

CONSTANTS w1, w2, cli, o1, v1, c1, c2, e1, e2

MCHomeOf == [u \in People |-> IF u = "b1" THEN "B" ELSE "A"]

MCFirstDesigns ==
  [d \in Designs |-> IF d = "d1"
                     THEN [look |-> "own", size |-> "own", slot |-> "url", isDefault |-> TRUE,
                           banner |-> "png"]
                     ELSE NoDesign]

VARIABLE focus

MCInit ==
  /\ focus \in {"tenants", "console", "metrics", "designs"}
  /\ TenantInit /\ ConsoleInit /\ MetricsInit /\ DesignInit

MCNext ==
  /\ UNCHANGED focus
  /\ \/ focus = "tenants" /\ TenantNext /\ UNCHANGED <<consoleVars, metricVars, designVars>>
     \/ focus = "console" /\ ConsoleNext /\ UNCHANGED <<tenantVars, metricVars, designVars>>
     \/ focus = "metrics" /\ MetricsNext /\ UNCHANGED <<tenantVars, consoleVars, designVars>>
     \/ focus = "designs" /\ DesignNext /\ UNCHANGED <<tenantVars, consoleVars, metricVars>>

MCVars == <<focus, tenantVars, consoleVars, metricVars, designVars>>
MCSpec == MCInit /\ [][MCNext]_MCVars /\ TenantFairness
=============================================================================
