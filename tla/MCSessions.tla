----------------------------- MODULE MCSessions -----------------------------
(***************************************************************************)
(* Who may do what, in one run: the sessions of an account and the graph   *)
(* of the roles. No state of one module is read by the other, so a         *)
(* behaviour picks one of them at the start and the other stands still. No *)
(* fair action is enabled in an initial state. The sessions are looked at  *)
(* twice: with failures, every process, and one change of the account      *)
(* beside the logouts; and with none, over one process, with MaxVersion-1  *)
(* changes, so that the revocations of two of them overlap.                *)
(***************************************************************************)
EXTENDS WebSession, RoleGraph

CONSTANTS s1, p1, p2, c1, c2

\* The clerk may edit roles; the other user holds a role that inherits the clerk's; the
\* root role may do everything.
MCFirstPermissions == [r \in RoleIds |-> CASE r = "sys" -> {"manage", "tenants"}
                                           [] r = "r1" -> {"manage", "review"} [] OTHER -> {}]
MCFirstHolds == [u \in Members |-> IF u = "clerk" THEN {"r1"} ELSE {"r2"}]

MCFirstInherits == [r \in RoleIds |-> IF r = "r2" THEN {"r1"} ELSE {}]

VARIABLE focus

\* The account is changed once, by its user, who ends a hold, or by a deactivation.
OneChange == \/ account'.version = account.version
             \/ account'.version < 3 /\ (account'.hold => ~account'.active)
\* It is changed by its user and by resets of the password.
OneProcess == /\ authFaults = 0 /\ account.active
              /\ \A s \in Sessions : call[s].at \in {"none", p1}

MCInit ==
  /\ focus \in {"processes", "changes", "roles"} /\ WebInit /\ RoleInit
  /\ account.hold => focus = "processes"

MCNext ==
  /\ UNCHANGED focus
  /\ \/ focus = "processes" /\ WebNext /\ OneChange /\ UNCHANGED roleVars
     \/ focus = "changes" /\ WebNext /\ OneProcess' /\ UNCHANGED roleVars
     \/ focus = "roles" /\ RoleNext /\ UNCHANGED webVars

MCSpec == MCInit /\ [][MCNext]_<<focus, webVars, roleVars>> /\ WebFairness
=============================================================================
