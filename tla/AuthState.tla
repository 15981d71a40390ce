------------------------------ MODULE AuthState ------------------------------
(***************************************************************************)
(* The authorization state of one account: AuthService with its two cache  *)
(* tiers (Redis and a Map per API process), JwtAuthGuard and               *)
(* PasswordResetGuard, and the chain commit, stamp, drop that every        *)
(* revocation runs through (revokeUserTokens).                             *)
(*                                                                         *)
(* Time is counted in ticks, PerSecond of them to a second, of one clock   *)
(* that every API process reads. "version" stands for what the account's   *)
(* password and permissions are. A cache entry leaves its tier when its    *)
(* TTL is over, which is a step that must happen and not a date.           *)
(***************************************************************************)
EXTENDS Naturals

CONSTANTS
    Sessions,       \* browsers the user signs in with
    Processes,      \* API processes
    AdminChanges,   \* what others do to the account: "reset", "role", "deactivate"
    PerSecond,      \* ticks of a second
    MaxTicks,       \* bound on the clock
    MaxVersion,     \* bound on the changes of the account
    MaxAuthFaults   \* bound on bypassed cache accesses, failed stamps and reads, lost answers

ASSUME AuthAssumption ==
    /\ PerSecond \in Nat \ {0} /\ MaxTicks \in Nat /\ MaxVersion \in Nat
    /\ MaxAuthFaults \in Nat /\ AdminChanges \subseteq {"reset", "role", "deactivate"}

VARIABLES
    now,        \* the clock of the processes, in ticks
    account,    \* the committed row of users, with its roles
    redis,      \* auth:permissions:<company>:<user> in Redis
    local,      \* the same key of localAuthStateCache, per process
    token,      \* the jwt cookie of a session; basis is what the login read of the account,
                \* current what the account was when the token was signed
    signing,    \* a login between validateUser and generateToken
    call,       \* the request of a session in progress
    revoking,   \* a change of the account between its commit and the cache drop
    instant,    \* what its new Date() answered, until it is committed
    latest,     \* history: the latest instant that was committed to tokens_valid_after
    authFaults

serverVars == <<now, account, redis, local, token, signing, call, revoking, instant, latest,
                authFaults>>

Sec(t) == t \div PerSecond
Absent == [version |-> 0, hold |-> FALSE, validAfter |-> 0]
NoToken == [iat |-> 0, basis |-> 0, current |-> 0]
Idle == [pc |-> "idle", route |-> "none", at |-> "none", seen |-> Absent]
Changers == Sessions \cup {"admin"}

\* What getUserAuthState computes from the database; 0 is a null tokens_valid_after.
Computed == [version |-> account.version, hold |-> account.hold,
             validAfter |-> account.validAfter]

ServerInit ==
    /\ now = 1 /\ authFaults = 0
    /\ \E held \in BOOLEAN :
        account = [active |-> TRUE, version |-> 1, hold |-> held, validAfter |-> 0]
    /\ redis = Absent /\ local = [p \in Processes |-> Absent]
    /\ token = [s \in Sessions |-> NoToken] /\ signing = [s \in Sessions |-> Absent]
    /\ call = [s \in Sessions |-> Idle]
    /\ revoking = [c \in Changers |-> "no"] /\ instant = [c \in Changers |-> 0] /\ latest = 0

Bypassed == authFaults < MaxAuthFaults /\ authFaults' = authFaults + 1
NotBypassed == UNCHANGED authFaults

-----------------------------------------------------------------------------
(* Login: validateUser reads the row and compares the password, the        *)
(* controller signs the token afterwards, which replaces whatever cookie   *)
(* the browser has. A browser has one request in flight.                   *)

ValidateUser(s) ==
    /\ signing[s] = Absent /\ call[s] = Idle /\ account.active
    /\ signing' = [signing EXCEPT ![s] = Computed]
    /\ UNCHANGED <<now, account, redis, local, token, call, revoking, instant, latest, authFaults>>

GenerateToken(s) ==
    /\ signing[s] # Absent
    /\ token' = [token EXCEPT ![s] = [iat |-> now, basis |-> signing[s].version,
                                        current |-> account.version]]
    /\ signing' = [signing EXCEPT ![s] = Absent]
    /\ UNCHANGED <<now, account, redis, local, call, revoking, instant, latest, authFaults>>

-----------------------------------------------------------------------------
(* A request: getUserAuthState, then the guards, then the handler.         *)

\* A hit of Redis, else of the process's Map, else the database. A bypassed
\* read of Redis goes on to the other two; the guard answers a failure of the
\* database with 401.
Ask(s, p, route) ==
    /\ token[s] # NoToken /\ call[s] = Idle /\ signing[s] = Absent
    /\ LET next(pc, entry) ==
              call' = [call EXCEPT ![s] = [pc |-> pc, route |-> route, at |-> p, seen |-> entry]]
           miss == IF local[p] # Absent THEN next("decide", local[p])
                                        ELSE next("fill", Computed)
       IN  \/ redis # Absent /\ next("decide", redis) /\ NotBypassed
           \/ redis = Absent /\ miss /\ NotBypassed
           \/ miss /\ Bypassed
           \/ local[p] = Absent /\ next("401", Absent) /\ Bypassed
    /\ UNCHANGED <<now, account, redis, local, token, signing, revoking, instant, latest>>

\* What was computed is written to both tiers, whatever happened meanwhile.
Fill(s) ==
    /\ call[s].pc = "fill"
    /\ \/ redis' = call[s].seen /\ NotBypassed
       \/ Bypassed /\ UNCHANGED redis
    /\ local' = [local EXCEPT ![call[s].at] = call[s].seen]
    /\ call' = [call EXCEPT ![s].pc = "decide"]
    /\ UNCHANGED <<now, account, token, signing, revoking, instant, latest>>

\* Mutant: the ticks of tokens_valid_after are compared as they are.
AcceptsByTick(entry, t) == Sec(t.iat) * PerSecond >= entry.validAfter
Accepts(entry, t) == Sec(t.iat) >= Sec(entry.validAfter)

\* Mutant: no route is marked @AllowDuringPasswordReset.
BlockedEverywhere(entry, route) == entry.hold
\* PasswordResetGuard: only me, logout and change-password pass a hold.
Blocked(entry, route) == entry.hold /\ route = "work"

Answer(s) == IF ~Accepts(call[s].seen, token[s]) THEN "401"
             ELSE IF Blocked(call[s].seen, call[s].route) THEN "403"
             ELSE IF call[s].route # "work" /\ ~account.active THEN "401" ELSE "200"

Rejected(s) ==
    /\ call[s].pc = "decide" /\ Answer(s) # "200"
    /\ call' = [call EXCEPT ![s].pc = Answer(s)]
    /\ UNCHANGED <<now, account, redis, local, token, signing, revoking, instant, latest, authFaults>>

\* A handler that changes nothing here; me answers with the row it reads.
Handle(s) ==
    /\ call[s].pc = "decide" /\ Answer(s) = "200" /\ call[s].route # "change"
    /\ call' = [call EXCEPT ![s].pc = "200", ![s].seen = Computed]
    /\ UNCHANGED <<now, account, redis, local, token, signing, revoking, instant, latest, authFaults>>

ChangePassword(s) ==
    /\ call[s].pc = "decide" /\ Answer(s) = "200" /\ call[s].route = "change"
    /\ account.version < MaxVersion
    /\ account' = [account EXCEPT !.version = @ + 1, !.hold = FALSE]
    /\ revoking' = [revoking EXCEPT ![s] = "stamp"]
    /\ call' = [call EXCEPT ![s].pc = "handling"]
    /\ UNCHANGED <<now, redis, local, token, signing, instant, latest, authFaults>>

\* A wrong current password, or a new one that is the same or too weak.
RefuseChange(s) ==
    /\ call[s].pc = "decide" /\ Answer(s) = "200" /\ call[s].route = "change"
    /\ call' = [call EXCEPT ![s].pc = "400"]
    /\ UNCHANGED <<now, account, redis, local, token, signing, revoking, instant, latest, authFaults>>

\* Logout is public: a token that verifies is enough to revoke.
Logout(s) ==
    /\ token[s] # NoToken /\ call[s] = Idle /\ signing[s] = Absent
    /\ revoking' = [revoking EXCEPT ![s] = "stamp"]
    /\ \E p \in Processes : call' = [call EXCEPT ![s] =
            [pc |-> "handling", route |-> "logout", at |-> p, seen |-> Absent]]
    /\ UNCHANGED <<now, account, redis, local, token, signing, instant, latest, authFaults>>

\* An administrator or an operator edits the account: password reset, roles,
\* deactivation.
AdminChange(kind) ==
    /\ revoking["admin"] = "no" /\ account.version < MaxVersion
    /\ account' = [account EXCEPT !.version = @ + 1,
                                  !.hold = @ \/ kind = "reset",
                                  !.active = @ /\ kind # "deactivate"]
    /\ revoking' = [revoking EXCEPT !["admin"] = "stamp"]
    /\ UNCHANGED <<now, redis, local, token, signing, call, instant, latest, authFaults>>

-----------------------------------------------------------------------------
(* revokeUserTokens: the clock is read before the UPDATE waits for the row *)
(* and commits, so two revocations may commit in the other order.          *)

ReadClock(c) ==
    /\ revoking[c] = "stamp" /\ revoking' = [revoking EXCEPT ![c] = "stamping"]
    /\ instant' = [instant EXCEPT ![c] = now]
    /\ UNCHANGED <<now, account, redis, local, token, signing, call, latest, authFaults>>

\* Mutant: the caches are dropped, but tokens_valid_after stays as it was.
DropOnly(c) ==
    /\ revoking[c] = "stamping" /\ revoking' = [revoking EXCEPT ![c] = "drop"]
    /\ UNCHANGED <<now, account, redis, local, token, signing, call, instant, latest, authFaults>>
\* The caller logs a failed stamp and answers as usual, without a cache drop.
Stamp(c) ==
    /\ revoking[c] = "stamping"
    /\ \/ /\ account' = [account EXCEPT !.validAfter = instant[c]]
          /\ latest' = IF latest < instant[c] THEN instant[c] ELSE latest
          /\ revoking' = [revoking EXCEPT ![c] = "drop"] /\ NotBypassed
       \/ /\ revoking' = [revoking EXCEPT ![c] = "done"]
          /\ Bypassed /\ UNCHANGED <<account, latest>>
    /\ instant' = [instant EXCEPT ![c] = 0]
    /\ UNCHANGED <<now, redis, local, token, signing, call>>

InvalidateUserPermissions(c) ==
    /\ revoking[c] = "drop"
    /\ \E p \in Processes : (c \in Sessions => p = call[c].at)
                            /\ local' = [local EXCEPT ![p] = Absent]
    /\ \/ redis' = Absent /\ NotBypassed
       \/ Bypassed /\ UNCHANGED redis
    /\ revoking' = [revoking EXCEPT ![c] = "done"]
    /\ UNCHANGED <<now, account, token, signing, call, instant, latest>>

Finish(s) ==
    /\ call[s].pc = "handling" /\ revoking[s] = "done"
    /\ call' = [call EXCEPT ![s].pc = "204"]
    /\ revoking' = [revoking EXCEPT ![s] = "no"]
    /\ UNCHANGED <<now, account, redis, local, token, signing, instant, latest, authFaults>>

AdminFinish ==
    /\ revoking["admin"] = "done"
    /\ revoking' = [revoking EXCEPT !["admin"] = "no"]
    /\ UNCHANGED <<now, account, redis, local, token, signing, call, instant, latest, authFaults>>

Tick ==
    /\ now < MaxTicks /\ now' = now + 1
    /\ UNCHANGED <<account, redis, local, token, signing, call, revoking, instant, latest, authFaults>>

\* Mutant: the entry is set without a TTL.
RedisKeeps == FALSE /\ UNCHANGED serverVars
ExpireRedis ==
    /\ redis # Absent /\ redis' = Absent
    /\ UNCHANGED <<now, account, local, token, signing, call, revoking, instant, latest, authFaults>>

\* LOCAL_CACHE_TTL_MS, or the eviction of the oldest of the entries.
ExpireLocal(p) ==
    /\ local[p] # Absent /\ local' = [local EXCEPT ![p] = Absent]
    /\ UNCHANGED <<now, account, redis, token, signing, call, revoking, instant, latest, authFaults>>

Progress(s) == Fill(s) \/ Rejected(s) \/ Handle(s) \/ ChangePassword(s)
               \/ RefuseChange(s) \/ Finish(s)
Revoke(c) == ReadClock(c) \/ Stamp(c) \/ InvalidateUserPermissions(c)

-----------------------------------------------------------------------------
\* Every state a request may still be decided with.
Served == {redis} \cup {local[p] : p \in Processes} \cup {call[s].seen : s \in Sessions}

\* The token of a session was minted in a second before the last revocation.
Revoked(s) == token[s] # NoToken /\ token[s].iat \div PerSecond < account.validAfter \div PerSecond

\* A token that was revoked is refused for good after a while, although a lookup
\* that read the account before may fill both tiers after the revocation dropped
\* them, and the drop itself may be bypassed (auth.service.ts:562).
RevocationTakesEffect ==
    \A s \in Sessions : <>[]Revoked(s) =>
        <>[](\A entry \in Served \ {Absent} : ~Accepts(entry, token[s]))

\* A token minted at or after every revocation so far is not refused, in whichever
\* tier the request finds its state: signing in right after a logout works, in the
\* same second too (auth.guard.ts:80).
NoFalseReject ==
    \A s \in Sessions, entry \in Served :
        token[s] # NoToken /\ token[s].iat >= latest => Accepts(entry, token[s])

\* "A changed password must invalidate every session minted under the old one"
\* (auth.service.ts:460): once no change is in progress and none failed to stamp, a token
\* that a login read and signed before the last change is not newer than tokens_valid_after.
EveryChangeEndsSessions ==
    authFaults = 0 /\ (\A c \in Changers : revoking[c] = "no") =>
        \A s \in Sessions :
            token[s].basis = token[s].current /\ token[s].basis # account.version =>
                token[s].iat <= account.validAfter

\* The same, but while the row holds an older instant than one committed before: a
\* revocation that read its clock early and commits late sets tokens_valid_after back
\* (auth.service.ts:567). Two more exceptions: a login that had read the account before
\* the change and signed after it, and, for the guard, a token of the stamp's second.
PasswordChangeEndsSessions == account.validAfter = latest => EveryChangeEndsSessions
=============================================================================
