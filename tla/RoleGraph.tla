------------------------------ MODULE RoleGraph ------------------------------
(***************************************************************************)
(* RolesService: the roles of a tenant, their inheritance and their        *)
(* assignment. A call checks what it grants, opens its transaction, reads  *)
(* the role, takes the advisory lock when it submits an inheritance, reads *)
(* the holders, saves and, after the commit, revokes the holders' tokens.  *)
(*                                                                         *)
(* TypeORM's save writes every column and relation of the entity that      *)
(* differs from the database: what the payload leaves out is written back  *)
(* as it was read.                                                         *)
(***************************************************************************)
EXTENDS Naturals, FiniteSets

CONSTANTS
    RoleIds, System,    \* roles of the tenant and the system default role
    Members, Managers,  \* users, and those with MANAGE_ROLES and MANAGE_USERS
    Grants,             \* permissions
    Calls,              \* concurrent calls of the service
    PermissionSets,     \* permission lists a payload may submit
    ParentSets,         \* inheritance lists a payload may submit
    FirstRoles, FirstPermissions, FirstHolds, FirstInherits,   \* the graph at the start
    MaxCalls            \* bound on the calls

ASSUME RoleAssumption ==
    /\ System \in FirstRoles /\ FirstRoles \subseteq RoleIds /\ IsFiniteSet(RoleIds)
    /\ Managers \subseteq Members /\ MaxCalls \in Nat
    /\ PermissionSets \subseteq SUBSET Grants /\ ParentSets \subseteq SUBSET RoleIds
    /\ "omitted" \notin RoleIds \cup Grants /\ "unlocked" \notin Calls

\* The recursive CTEs walk from a set of roles to the parents; UNION drops what was
\* reached before, so the walk ends on a cycle as well.
AncestorsIn(graph, seeds) ==
    LET Climb(reached) == reached \cup UNION {graph[r] : r \in reached}
        walk[n \in 0 .. Cardinality(RoleIds)] == IF n = 0 THEN seeds ELSE Climb(walk[n - 1])
    IN walk[Cardinality(RoleIds)]

\* Only rows refer to rows, and no role inherits itself.
ASSUME FirstGraph ==
    /\ FirstPermissions \in [RoleIds -> SUBSET Grants]
    /\ FirstHolds \in [Members -> SUBSET FirstRoles]
    /\ FirstInherits \in [RoleIds -> SUBSET FirstRoles]
    /\ \A r \in RoleIds \ FirstRoles : FirstPermissions[r] = {} /\ FirstInherits[r] = {}
    /\ \A r \in RoleIds : r \notin AncestorsIn(FirstInherits, FirstInherits[r])

VARIABLES
    roles,      \* ids with a row
    unused,     \* ids never given to a role
    perms,      \* roles.permissions
    inherits,   \* role_inheritance: the parents of a role
    holds,      \* user_roles
    edit,       \* the calls in progress
    inheritanceLock,    \* holder of the advisory lock
    calls,      \* number of calls so far
    commits,    \* number of committed changes
    writtenBack,\* fields that a save changed although its payload left them out
    cached      \* permissions of a manager that a tier of AuthService may still answer

graphVars == <<roles, unused, perms, inherits, holds, edit, inheritanceLock, calls, commits,
               writtenBack>>
roleVars == <<graphVars, cached>>

Unlocked == "unlocked"
\* A field a payload leaves out.
Omitted == {"omitted"}
NoEdit == [pc |-> "idle", by |-> "none", role |-> "none", perms |-> Omitted,
           parents |-> Omitted, row |-> {}, up |-> {}, hit |-> {}, at |-> 0]

Ancestors(seeds) == AncestorsIn(inherits, seeds)
EffectivePermissions(seeds) == UNION {perms[r] : r \in Ancestors(seeds)}
PermissionsOf(u) == EffectivePermissions(holds[u])
\* Mutant: only the users who hold the role itself.
DirectHolders(r) == {u \in Members : r \in holds[u]}
DependentRoleHolders(r) == {u \in Members : r \in Ancestors(holds[u])}

RoleInit ==
    /\ roles = FirstRoles /\ unused = RoleIds \ FirstRoles
    /\ perms = FirstPermissions /\ holds = FirstHolds
    /\ inherits = FirstInherits
    /\ edit = [c \in Calls |-> NoEdit] /\ inheritanceLock = Unlocked
    /\ calls = 0 /\ commits = 0 /\ writtenBack = {}
    /\ cached = [u \in Managers |-> {}]

\* A request of a manager fills the tiers of AuthService. An entry outlives a change of
\* the graph: a fill may straddle it, and its drop is best effort.
LoadAuthState(u) ==
    /\ cached' = [cached EXCEPT ![u] = PermissionsOf(u)]
    /\ UNCHANGED graphVars

graphRest == <<roles, perms, inherits, holds, commits, writtenBack, cached>>
Start(c, pc, u, r, ps, up) ==
    /\ edit[c] = NoEdit /\ calls < MaxCalls /\ calls' = calls + 1
    /\ edit' = [edit EXCEPT ![c] = [NoEdit EXCEPT !.pc = pc, !.by = u, !.role = r,
                                                  !.perms = ps, !.parents = up]]
    /\ unused' = unused \ {r}
    /\ UNCHANGED graphRest /\ UNCHANGED inheritanceLock

\* Mutant: the permissions of the inherited roles are not counted.
DirectlyGranted(ps, up) == ps \ Omitted
GrantedPermissions(ps, up) == (ps \ Omitted) \cup EffectivePermissions(up \ Omitted)

\* assertCanGrant: what the actor holds is what a tier of AuthService or the database says.
CanGrant(u, granted) == \E held \in {cached[u], PermissionsOf(u)} : granted \subseteq held

\* update and create: assertCanGrant on what the payload confers. A role about to be
\* created gets an id that no role had before.
Author(c, u, r, ps, up) ==
    /\ CanGrant(u, GrantedPermissions(ps, up))
    /\ r \in (roles \ ({System} \cup up)) \cup unused
    /\ Start(c, IF r \in roles THEN "read" ELSE "create", u, r, ps, up)

CreateRole(c) ==
    /\ edit[c].pc = "create"
    /\ roles' = roles \cup {edit[c].role}
    /\ perms' = [perms EXCEPT ![edit[c].role] = edit[c].perms \ Omitted]
    /\ inherits' = [inherits EXCEPT ![edit[c].role] = (edit[c].parents \ Omitted) \cap roles]
    /\ commits' = commits + 1
    /\ edit' = [edit EXCEPT ![c] = NoEdit]
    /\ UNCHANGED <<unused, holds, inheritanceLock, calls, writtenBack, cached>>

\* findOneWith: a role that is gone is a 404.
FindOne(c) ==
    /\ edit[c].pc = "read"
    /\ edit' = [edit EXCEPT ![c] = IF edit[c].role \notin roles THEN NoEdit
            ELSE [@ EXCEPT !.pc = IF edit[c].parents = Omitted THEN "holders" ELSE "lock",
                           !.row = perms[edit[c].role], !.up = inherits[edit[c].role]]]
    /\ UNCHANGED graphRest /\ UNCHANGED <<unused, inheritanceLock, calls>>

ClosesCycle(c) == edit[c].role \in Ancestors(edit[c].parents)

\* Mutant: the cycle guard without lockRoleInheritance.
GuardUnlocked(c) ==
    /\ edit[c].pc = "lock"
    /\ edit' = [edit EXCEPT ![c] = IF ClosesCycle(c) THEN NoEdit
                    ELSE [@ EXCEPT !.pc = "holders", !.up = edit[c].parents \cap roles]]
    /\ UNCHANGED graphRest /\ UNCHANGED <<unused, inheritanceLock, calls>>

\* The lock, the cycle guard and the read of the parents; the lock stays until
\* the transaction ends.
LockAndGuard(c) ==
    /\ edit[c].pc = "lock" /\ inheritanceLock = Unlocked
    /\ IF ClosesCycle(c)
       THEN edit' = [edit EXCEPT ![c] = NoEdit] /\ UNCHANGED inheritanceLock
       ELSE /\ edit' = [edit EXCEPT ![c] = [@ EXCEPT !.pc = "holders", !.up = edit[c].parents \cap roles]]
            /\ inheritanceLock' = c
    /\ UNCHANGED graphRest /\ UNCHANGED <<unused, calls>>

FindHolders(c) ==
    /\ edit[c].pc = "holders"
    /\ edit' = [edit EXCEPT ![c] = [@ EXCEPT !.pc = "save", !.at = commits,
                                            !.hit = DependentRoleHolders(edit[c].role)]]
    /\ UNCHANGED graphRest /\ UNCHANGED <<unused, inheritanceLock, calls>>

Unlocks(c) == inheritanceLock' = IF inheritanceLock = c THEN Unlocked ELSE inheritanceLock

\* A parent that is gone breaks the foreign key and the transaction; a role that
\* is gone is inserted again.
SaveRole(c) ==
    /\ edit[c].pc = "save" /\ Unlocks(c)
    /\ LET e == edit[c] IN
        IF e.up \subseteq roles
        THEN /\ roles' = roles \cup {e.role}
             /\ perms' = [perms EXCEPT ![e.role] = IF e.perms = Omitted THEN e.row ELSE e.perms]
             /\ inherits' = [inherits EXCEPT ![e.role] = e.up]
             /\ writtenBack' = writtenBack
                    \cup {f \in {"permissions"} : e.perms = Omitted /\ e.row # perms[e.role]}
                    \cup {f \in {"inheritance"} : e.parents = Omitted /\ e.up # inherits[e.role]}
             /\ commits' = commits + 1
             /\ edit' = [edit EXCEPT ![c] = [e EXCEPT !.pc = "revoke"]]
        ELSE edit' = [edit EXCEPT ![c] = NoEdit] /\ UNCHANGED graphRest
    /\ UNCHANGED <<unused, holds, calls, cached>>

\* invalidateUsers: one revocation per holder, each on its own (AuthState).
InvalidateUsers(c) ==
    /\ edit[c].pc = "revoke"
    /\ edit' = [edit EXCEPT ![c] = NoEdit]
    /\ UNCHANGED graphRest /\ UNCHANGED <<unused, inheritanceLock, calls>>

AssignRoles(c, u, target, rs) ==
    /\ CanGrant(u, EffectivePermissions(rs))
    /\ Start(c, "assign", u, target, Omitted, rs)

ReplaceAssignments(c) ==
    /\ edit[c].pc = "assign"
    /\ IF edit[c].parents \subseteq roles
       THEN /\ holds' = [holds EXCEPT ![edit[c].role] = edit[c].parents]
            /\ commits' = commits + 1
            /\ edit' = [edit EXCEPT ![c] = [@ EXCEPT !.pc = "revoke", !.hit = {edit[c].role},
                                                    !.at = commits]]
       ELSE edit' = [edit EXCEPT ![c] = NoEdit] /\ UNCHANGED <<holds, commits>>
    /\ UNCHANGED <<roles, unused, perms, inherits, inheritanceLock, calls, writtenBack, cached>>

\* The foreign keys restrict: a role that is held or inherited is a 409.
RemoveRole(c) ==
    /\ edit[c] = NoEdit /\ calls < MaxCalls
    /\ \E r \in roles \ {System} :
        /\ \A u \in Members : r \notin holds[u]
        /\ \A x \in roles : r \notin inherits[x]
        /\ roles' = roles \ {r}
        /\ perms' = [perms EXCEPT ![r] = {}] /\ inherits' = [inherits EXCEPT ![r] = {}]
    /\ calls' = calls + 1 /\ commits' = commits + 1
    /\ UNCHANGED <<unused, holds, edit, inheritanceLock, writtenBack, cached>>

RoleNext ==
    \/ \E c \in Calls, u \in Managers, r \in RoleIds, ps \in PermissionSets \cup {Omitted},
          up \in ParentSets \cup {Omitted} : Author(c, u, r, ps, up)
    \/ \E u \in Managers : LoadAuthState(u)
    \/ \E c \in Calls, u \in Managers, t \in Members, rs \in ParentSets : AssignRoles(c, u, t, rs)
    \/ \E c \in Calls :
        \/ CreateRole(c) \/ FindOne(c) \/ LockAndGuard(c) \/ FindHolders(c) \/ SaveRole(c)
        \/ InvalidateUsers(c) \/ ReplaceAssignments(c) \/ RemoveRole(c)

RoleSpec == RoleInit /\ [][RoleNext]_roleVars

-----------------------------------------------------------------------------
\* Managers never obtain a permission that none of them held, by authoring or
\* removing roles, by inheriting from them or by assigning them, in whatever order
\* the checks and the saves of their calls interleave, and although a check may go by
\* permissions the actor no longer has; the one way around it is a save that writes back
\* what another call has taken from the role (roles.service.ts:101).
Confined ==
    writtenBack = {} =>
    LET held == AncestorsIn(FirstInherits, UNION {FirstHolds[u] : u \in Managers})
        ceiling == UNION {FirstPermissions[r] : r \in held}
    IN  \A u \in Managers : PermissionsOf(u) \subseteq ceiling

\* Every user whose effective permissions a committed change alters is among those
\* whose tokens the call goes on to revoke, holders of inheriting roles included,
\* unless another change committed between the read of the holders and the save
\* (roles.service.ts:349).
RevocationCovers ==
    [][\A c \in Calls :
        edit[c].pc # "revoke" /\ edit'[c].pc = "revoke" /\ edit'[c].at = commits =>
            \A u \in Members : PermissionsOf(u)' # PermissionsOf(u) => u \in edit'[c].hit]_roleVars

Cyclic == \E r \in RoleIds : r \in Ancestors(inherits[r])

\* The advisory lock and the guard keep the inheritance acyclic against concurrent
\* updates; the one way around them is a save that writes back an inheritance its
\* payload did not submit (roles.service.ts:323).
NoInheritanceCycle == Cyclic => "inheritance" \in writtenBack
=============================================================================
