------------------------------ MODULE WebSession ------------------------------
(***************************************************************************)
(* The session of the web client over AuthState: the Pinia auth store, the *)
(* route middleware auth.global, the interceptor of plugins/api and the    *)
(* login and change-password pages. The user holds the permission of some  *)
(* landing route.                                                          *)
(***************************************************************************)
EXTENDS AuthState

VARIABLE web    \* per session: the store, the page, whether the session is to be read
                \* next, and whether the last fetchMe got no answer of the server's own

webVars == <<now, account, redis, local, token, signing, call, revoking, instant, latest,
             authFaults, web>>

SignedOut == [auth |-> FALSE, hold |-> FALSE, page |-> "login", then |-> "stay",
              unserved |-> FALSE]
Loading(then) == [SignedOut EXCEPT !.page = "loading", !.then = then]

WebInit == ServerInit /\ web = [s \in Sessions |-> SignedOut]

\* The middleware: where a navigation to a landing route ends.
Landing(auth, hold) == IF ~auth THEN "login" ELSE IF hold THEN "change" ELSE "app"
Signed(auth, hold) == [auth |-> auth, hold |-> hold, page |-> Landing(auth, hold),
                       then |-> "stay", unserved |-> FALSE]

Settle(s) == call' = [call EXCEPT ![s] = Idle]
serverRest == <<now, account, redis, local, token, signing, revoking, instant, latest>>

HandleLogin(s) == web[s].page = "login" /\ ValidateUser(s) /\ UNCHANGED web

\* The answer of the login is stored and the page pushes its landing route.
LoginAnswered(s) ==
    /\ GenerateToken(s)
    /\ web' = [web EXCEPT ![s] = Signed(TRUE, signing[s].hold)]

\* The first navigation after a load of the page, a cookie being there.
Reload(s, p) ==
    /\ Ask(s, p, "me")
    /\ web' = [web EXCEPT ![s] = Loading("stay")]

Work(s, p) == web[s].page = "app" /\ Ask(s, p, "work") /\ UNCHANGED web

\* A 403 of the hold marks the store and navigates; a 401 goes to the caller alone.
WorkAnswered(s) ==
    /\ call[s].route = "work" /\ call[s].pc \in {"200", "401", "403"}
    /\ web' = [web EXCEPT ![s] = IF call[s].pc = "403" THEN Signed(TRUE, TRUE) ELSE @]
    /\ Settle(s) /\ UNCHANGED <<serverRest, authFaults>>

HandleSubmit(s, p) == web[s].page = "change" /\ Ask(s, p, "change") /\ UNCHANGED web

SubmitRefused(s) ==
    /\ call[s].route = "change" /\ call[s].pc \in {"400", "401"}
    /\ Settle(s) /\ UNCHANGED <<serverRest, authFaults>> /\ UNCHANGED web

\* A change whose answer is lost is an unknown failure to the page, which stays.
SubmitLost(s) ==
    /\ call[s].route = "change" /\ call[s].pc = "204" /\ Bypassed
    /\ Settle(s) /\ UNCHANGED <<serverRest, web>>

\* 204: the store reads the session again before the page navigates.
SubmitAnswered(s) ==
    /\ call[s].route = "change" /\ call[s].pc = "204"
    /\ web' = [web EXCEPT ![s].then = "read"]
    /\ Settle(s) /\ UNCHANGED <<serverRest, authFaults>>

ReadSessionAgain(s, p) ==
    /\ web[s].then = "read" /\ call[s] = Idle
    /\ Ask(s, p, "me") /\ UNCHANGED web

\* fetchMe: whatever is not a user signs the store out.
FetchMeAnswered(s) ==
    /\ call[s].route = "me" /\ call[s].pc \in {"200", "401", "403"}
    /\ LET ok == call[s].pc = "200"
       IN  web' = [web EXCEPT ![s] = [Signed(ok, ok /\ call[s].seen.hold)
                                        EXCEPT !.unserved = (call[s].seen = Absent)]]
    /\ Settle(s) /\ UNCHANGED <<serverRest, authFaults>>

FetchMeLost(s) ==
    /\ call[s].route = "me" /\ call[s].pc = "200" /\ Bypassed
    /\ web' = [web EXCEPT ![s] = [SignedOut EXCEPT !.unserved = TRUE]]
    /\ Settle(s) /\ UNCHANGED serverRest

\* logout clears the store and loads the page anew when the request is over.
MayLeave(s) == web[s].page \in {"app", "change"} /\ web[s].then = "stay"

SignOut(s) == MayLeave(s) /\ Logout(s) /\ web' = [web EXCEPT ![s] = Loading("stay")]

\* The answer takes the cookie, and fetchMe finds nobody.
SignOutAnswered(s) ==
    /\ call[s].route = "logout" /\ call[s].pc = "204"
    /\ token' = [token EXCEPT ![s] = NoToken] /\ web' = [web EXCEPT ![s] = SignedOut]
    /\ Settle(s)
    /\ UNCHANGED <<now, account, redis, local, signing, revoking, instant, latest, authFaults>>

\* Before the server or after it: the cookie stays, and fetchMe asks for its session.
SignOutLost(s) ==
    /\ \/ MayLeave(s) /\ call[s] = Idle
       \/ call[s].route = "logout" /\ call[s].pc = "204"
    /\ Bypassed /\ web' = [web EXCEPT ![s] = Loading("read")]
    /\ Settle(s) /\ UNCHANGED serverRest

ClientStep(s) ==
    \/ LoginAnswered(s) \/ WorkAnswered(s) \/ SubmitRefused(s) \/ SubmitAnswered(s)
    \/ FetchMeAnswered(s) \/ SignOutAnswered(s)
    \/ \E p \in Processes : ReadSessionAgain(s, p)

WebNext ==
    \/ \E s \in Sessions : ClientStep(s) \/ HandleLogin(s) \/ SubmitLost(s) \/ FetchMeLost(s)
                         \/ SignOut(s) \/ SignOutLost(s)
    \/ \E s \in Sessions, p \in Processes :
        (web[s].then = "stay" /\ (Reload(s, p) \/ Work(s, p) \/ HandleSubmit(s, p)))
    \/ (\E s \in Sessions : Progress(s)) /\ UNCHANGED web
    \/ (\E c \in Changers : Revoke(c)) /\ UNCHANGED web
    \/ AdminFinish /\ UNCHANGED web
    \/ (\E kind \in AdminChanges : AdminChange(kind)) /\ UNCHANGED web
    \/ Tick /\ UNCHANGED web
    \/ ExpireRedis /\ UNCHANGED web
    \/ (\E p \in Processes : ExpireLocal(p)) /\ UNCHANGED web

\* Handlers and promises run on, and an entry whose TTL is over is gone.
WebFairness ==
    /\ \A s \in Sessions : WF_webVars(ClientStep(s)) /\ WF_webVars(Progress(s) /\ UNCHANGED web)
    /\ \A c \in Changers : WF_webVars(Revoke(c) /\ UNCHANGED web)
    /\ WF_webVars(ExpireRedis /\ UNCHANGED web)
    /\ \A p \in Processes : WF_webVars(ExpireLocal(p) /\ UNCHANGED web)

WebSpec == WebInit /\ [][WebNext]_webVars /\ WebFairness

-----------------------------------------------------------------------------
\* A browser that still has its cookie is sent to the login page only when the token is
\* older than a revocation or the account inactive: neither a hold, nor a stale entry of
\* a cache tier, nor a failed stamp or cache access signs anyone out. The exception is a
\* fetchMe that no decision of the server answered, its answer lost or the guard's read
\* of the database failed: the store takes it for a refusal (auth.store.ts:126,
\* auth.guard.ts:116, auth.global.ts:47).
SignedOutOnlyWhenRevoked ==
    \A s \in Sessions :
        web[s].page = "login" /\ token[s] # NoToken =>
            Sec(token[s].iat) < Sec(latest) \/ ~account.active \/ web[s].unserved
=============================================================================
