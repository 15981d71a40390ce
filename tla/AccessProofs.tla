---------------------------- MODULE AccessProofs ----------------------------
(***************************************************************************)
(* Proofs about who may do what: the session of a browser, in AuthState    *)
(* and WebSession, for any number of browsers and API processes, any clock *)
(* and any number of changes of the account; and RoleGraph, for every set  *)
(* of roles, users and calls.  The ancestors of a set of roles are the     *)
(* least set that contains them and is closed under inheritance            *)
(* (AncestorsClosed, AncestorsLeast); everything about the graph follows   *)
(* from these two facts.                                                   *)
(***************************************************************************)
EXTENDS WebSession, RoleGraph, NumberFacts, FiniteSetTheorems, TLAPS

Entries == [version : Nat, hold : BOOLEAN, validAfter : Nat]
Accounts == [active : BOOLEAN, version : Nat, hold : BOOLEAN, validAfter : Nat]
Tokens == [iat : Nat, basis : Nat, current : Nat]
Routes == {"none", "me", "work", "change", "logout"}
Requests == [pc : {"idle", "fill", "decide", "handling", "200", "204", "400", "401", "403"},
             route : Routes, at : Processes \cup {"none"}, seen : Entries]
Stores == [auth : BOOLEAN, hold : BOOLEAN, page : {"login", "loading", "change", "app"},
           then : {"stay", "read"}, unserved : BOOLEAN]
Chain == {"no", "stamp", "stamping", "drop", "done"}

SessionTypeOK ==
    /\ now \in Nat /\ account \in Accounts
    /\ redis \in Entries /\ local \in [Processes -> Entries]
    /\ token \in [Sessions -> Tokens] /\ signing \in [Sessions -> Entries]
    /\ call \in [Sessions -> Requests]
    /\ revoking \in [Changers -> Chain] /\ instant \in [Changers -> Nat]
    /\ latest \in Nat /\ authFaults \in Nat
    /\ web \in [Sessions -> Stores]

\* No tier and no request knows a revocation later than the latest one, and neither
\* that one, nor one on its way, nor a token is ahead of the clock.
Behind(entry) == entry.validAfter <= latest
NothingAhead ==
    /\ Behind(redis) /\ \A p \in Processes : Behind(local[p])
    /\ \A s \in Sessions : Behind(call[s].seen)
    /\ account.validAfter <= latest /\ latest <= now
    /\ \A c \in Changers : instant[c] <= now
    /\ \A s \in Sessions : token[s].iat <= now

\* A stamp that will not be older than the token is still to come.
Pending(c, t) == \/ revoking[c] = "stamp"
                 \/ revoking[c] = "stamping" /\ t.iat <= instant[c]

\* A token signed before a change is older than the stamp of a change, or that stamp
\* is still to come.
StampDue ==
    authFaults = 0 =>
        \A s \in Sessions : token[s].current # account.version =>
            token[s].iat <= latest \/ \E c \in Changers : Pending(c, token[s])

\* A browser that is signing in has no request.
SigningAlone == \A s \in Sessions : signing[s] # Absent => call[s] = Idle

\* The token is older than a revocation, or the account inactive.
Doomed(s) == Sec(token[s].iat) < Sec(latest) \/ ~account.active

\* A fetchMe is refused for that reason, or the guard could not read the database.
Heard(s) ==
    call[s].route = "me" =>
        call[s].pc # "403" /\ (call[s].pc = "401" => Doomed(s) \/ call[s].seen = Absent)

SentToLogin(s) ==
    web[s].page = "login" /\ token[s] # NoToken => Doomed(s) \/ web[s].unserved

SessionIInv ==
    /\ SessionTypeOK /\ NothingAhead /\ StampDue /\ SigningAlone
    /\ \A s \in Sessions : Heard(s) /\ SentToLogin(s)

-----------------------------------------------------------------------------
\* Later ticks are in the same second or a later one.
LEMMA SecondsPass ==
    ASSUME NEW a \in Nat, NEW b \in Nat, a <= b
    PROVE  Sec(a) <= Sec(b) /\ Sec(a) \in Nat /\ Sec(b) \in Nat
<1>1. PerSecond \in Nat /\ PerSecond > 0
  BY AuthAssumption
<1>2. a \div PerSecond \in Nat /\ b \div PerSecond \in Nat
  BY <1>1
<1>3. a \div PerSecond <= b \div PerSecond
  BY <1>1, <1>2
<1> QED
  BY <1>2, <1>3 DEF Sec

\* What refuses a token knows of a revocation it is older than.
LEMMA RefusalIsRevocation ==
    ASSUME SessionTypeOK, NEW t \in Tokens, NEW e \in Entries, Behind(e), ~Accepts(e, t)
    PROVE  Sec(t.iat) < Sec(latest)
<1>1. /\ Sec(e.validAfter) <= Sec(latest) /\ Sec(e.validAfter) \in Nat /\ Sec(latest) \in Nat
      /\ Sec(t.iat) \in Nat
  BY SecondsPass DEF Entries, Tokens, SessionTypeOK, Behind
<1> QED
  BY <1>1 DEF Accepts

LEMMA SessionLiterals ==
    /\ Absent \in Entries /\ Absent.validAfter = 0 /\ NoToken \in Tokens /\ NoToken.iat = 0
    /\ Idle \in Requests /\ Idle.pc = "idle" /\ Idle.route = "none" /\ Idle.seen = Absent
    /\ SignedOut \in Stores
    /\ SessionTypeOK => Computed \in Entries /\ Computed.validAfter = account.validAfter
BY DEF Absent, Entries, NoToken, Tokens, Idle, Requests, Routes, SignedOut, Stores, Computed,
       SessionTypeOK, Accounts

LEMMA SignedType ==
    ASSUME NEW a \in BOOLEAN, NEW h \in BOOLEAN
    PROVE  /\ Signed(a, h) \in Stores /\ (a => Signed(a, h).page # "login")
           /\ \A u \in BOOLEAN : LET w == [Signed(a, h) EXCEPT !.unserved = u]
                                 IN  w \in Stores /\ w.page = Signed(a, h).page /\ w.unserved = u
BY DEF Signed, Landing, Stores

LEMMA LoadingType ==
    ASSUME NEW then \in {"stay", "read"}
    PROVE  Loading(then) \in Stores /\ Loading(then).page = "loading"
BY DEF Loading, SignedOut, Stores

-----------------------------------------------------------------------------
\* A step that changes a request, the caches and the page of one browser.
LEMMA RequestStep ==
    ASSUME SessionIInv, NEW s \in Sessions, NEW f \in Requests,
           UNCHANGED <<now, account, token, signing, instant, latest>>,
           revoking' \in [Changers -> Chain],
           \A c \in Changers : revoking[c] \in {"stamp", "stamping"} =>
                                    revoking'[c] \in {revoking[c], "stamp"},
           authFaults' \in Nat, authFaults' >= authFaults,
           call' = [call EXCEPT ![s] = f], Behind(f.seen),
           signing[s] = Absent \/ f = Idle,
           redis' \in Entries, redis'.validAfter <= latest,
           local' \in [Processes -> Entries],
           \A p \in Processes : local'[p].validAfter <= latest,
           f.route = "me" => f.pc # "403" /\ (f.pc = "401" => Doomed(s) \/ f.seen = Absent),
           NEW w \in Stores, web' = [web EXCEPT ![s] = w],
           w.page = "login" /\ token[s] # NoToken => Doomed(s) \/ w.unserved
    PROVE  SessionIInv'
<1>1. SessionTypeOK /\ NothingAhead /\ StampDue /\ SigningAlone
  BY DEF SessionIInv
<1>2. /\ call' \in [Sessions -> Requests] /\ call'[s] = f
      /\ web' \in [Sessions -> Stores] /\ web'[s] = w
      /\ \A o \in Sessions \ {s} : call'[o] = call[o] /\ web'[o] = web[o]
  BY <1>1 DEF SessionTypeOK
<1>3. SessionTypeOK'
  BY <1>1, <1>2 DEF SessionTypeOK
<1>4. NothingAhead'
  BY <1>1, <1>2 DEF NothingAhead, Behind
<1>5. authFaults' = 0 => authFaults = 0
  BY <1>1 DEF SessionTypeOK
<1>6. StampDue'
  BY <1>1, <1>5 DEF StampDue, Pending
<1>7. SigningAlone'
  BY <1>1, <1>2 DEF SigningAlone
<1>8. \A o \in Sessions : Doomed(o)' <=> Doomed(o)
  BY DEF Doomed
<1>9. \A o \in Sessions : Heard(o)'
  BY <1>2, <1>8 DEF SessionIInv, Heard
<1>10. \A o \in Sessions : SentToLogin(o)'
  BY <1>2, <1>8 DEF SessionIInv, SentToLogin
<1> QED
  BY <1>3, <1>4, <1>6, <1>7, <1>9, <1>10 DEF SessionIInv

\* The faults a step may add.
LEMMA FaultCount ==
    ASSUME SessionTypeOK, Bypassed \/ NotBypassed
    PROVE  authFaults' \in Nat /\ authFaults' >= authFaults /\ (Bypassed => authFaults' > 0)
<1>1. authFaults \in Nat /\ (authFaults' = authFaults \/ authFaults' = authFaults + 1)
  BY DEF SessionTypeOK, Bypassed, NotBypassed
<1>2. Bypassed => authFaults' = authFaults + 1
  BY DEF Bypassed
<1> QED
  BY <1>1, <1>2

LEMMA AskStep ==
    ASSUME SessionIInv, NEW s \in Sessions, NEW p \in Processes,
           NEW route \in {"me", "work", "change"}, Ask(s, p, route),
           NEW w \in Stores, web' = [web EXCEPT ![s] = w],
           w.page = "login" => w = web[s]
    PROVE  SessionIInv'
<1>1. SessionTypeOK /\ NothingAhead /\ SigningAlone
  BY DEF SessionIInv
<1>2. PICK pc \in {"fill", "decide", "401"}, entry \in {redis, local[p], Computed, Absent} :
        /\ call' = [call EXCEPT ![s] = [pc |-> pc, route |-> route, at |-> p, seen |-> entry]]
        /\ pc = "401" => entry = Absent
  BY DEF Ask
<1> DEFINE f == [pc |-> pc, route |-> route, at |-> p, seen |-> entry]
<1>3. entry \in Entries /\ Behind(entry)
  <2>1. Behind(Computed) /\ Behind(Absent)
    BY <1>1, SessionLiterals DEF Behind, SessionTypeOK, NothingAhead
  <2> QED
    BY <1>1, <2>1, SessionLiterals DEF SessionTypeOK, NothingAhead
<1>4. f \in Requests /\ f.seen = entry /\ f.route = route /\ f.pc = pc
  BY <1>3 DEF Requests, Routes
<1>5. /\ UNCHANGED <<now, account, redis, local, token, signing, revoking, instant, latest>>
      /\ call' = [call EXCEPT ![s] = f] /\ signing[s] = Absent
      /\ Bypassed \/ NotBypassed
  BY <1>2 DEF Ask
<1> HIDE DEF f
<1>6. w.page = "login" /\ token[s] # NoToken => Doomed(s) \/ w.unserved
  BY DEF SessionIInv, SentToLogin
<1>7. /\ redis' \in Entries /\ redis'.validAfter <= latest
      /\ local' \in [Processes -> Entries]
      /\ \A q \in Processes : local'[q].validAfter <= latest
  BY <1>1, <1>5 DEF SessionTypeOK, NothingAhead, Behind
<1>8. authFaults' \in Nat /\ authFaults' >= authFaults
  BY <1>1, <1>5, FaultCount
<1>9. revoking' \in [Changers -> Chain]
  BY <1>1, <1>5 DEF SessionTypeOK
<1> QED
  BY <1>2, <1>3, <1>4, <1>5, <1>6, <1>7, <1>8, <1>9, RequestStep

\* The steps of a request that leave the account alone.
LEMMA DecisionStep ==
    ASSUME SessionIInv, NEW s \in Sessions,
           Fill(s) \/ Rejected(s) \/ Handle(s) \/ RefuseChange(s), UNCHANGED web
    PROVE  SessionIInv'
<1>1. SessionTypeOK /\ NothingAhead /\ SigningAlone /\ Heard(s) /\ SentToLogin(s)
  BY DEF SessionIInv
<1>2. call[s] \in Requests /\ web[s] \in Stores /\ call[s].seen \in Entries /\ Behind(call[s].seen)
  BY <1>1 DEF SessionTypeOK, Requests, NothingAhead
<1>3. signing[s] = Absent
  BY <1>1, SessionLiterals DEF SigningAlone, Fill, Rejected, Handle, RefuseChange
<1>4. UNCHANGED <<now, account, token, signing, revoking, instant, latest>> /\ (Bypassed \/ NotBypassed)
      /\ web' = [web EXCEPT ![s] = web[s]]
  <2>1. web' = [web EXCEPT ![s] = web[s]]
    BY <1>1 DEF SessionTypeOK
  <2> QED
    BY <2>1 DEF Fill, Rejected, Handle, RefuseChange, NotBypassed
<1>5. /\ authFaults' \in Nat /\ authFaults' >= authFaults
      /\ revoking' \in [Changers -> Chain]
  BY <1>1, <1>4, FaultCount DEF SessionTypeOK
<1>6. web[s].page = "login" /\ token[s] # NoToken => Doomed(s) \/ web[s].unserved
  BY <1>1 DEF SentToLogin
<1>7. \A p \in Processes : local[p].validAfter <= latest
  BY <1>1 DEF NothingAhead, Behind
<1>8. CASE Fill(s)
  <2> DEFINE f == [call[s] EXCEPT !.pc = "decide"]
  <2>1. /\ f \in Requests /\ f.seen = call[s].seen /\ f.pc = "decide"
        /\ call' = [call EXCEPT ![s] = f]
    BY <1>2, <1>8 DEF Requests, Fill
  <2> HIDE DEF f
  <2>2. redis' \in Entries /\ redis'.validAfter <= latest
    BY <1>1, <1>2, <1>8 DEF Fill, SessionTypeOK, NothingAhead, Behind
  <2>3. /\ local' \in [Processes -> Entries]
        /\ \A p \in Processes : local'[p].validAfter <= latest
    BY <1>1, <1>2, <1>7, <1>8 DEF Fill, SessionTypeOK, Behind
  <2> QED
    BY <1>2, <1>3, <1>4, <1>5, <1>6, <2>1, <2>2, <2>3, RequestStep
<1>9. CASE ~Fill(s)
  <2>1. UNCHANGED <<redis, local>>
    BY <1>9 DEF Rejected, Handle, RefuseChange
  <2>2. /\ redis' \in Entries /\ redis'.validAfter <= latest
        /\ local' \in [Processes -> Entries]
        /\ \A p \in Processes : local'[p].validAfter <= latest
    BY <1>1, <1>7, <2>1 DEF SessionTypeOK, NothingAhead, Behind
  <2>3. CASE Rejected(s)
    <3> DEFINE a == Answer(s)
               f == [call[s] EXCEPT !.pc = a]
    <3>1. a \in {"401", "403"}
      BY <2>3 DEF Rejected, Answer
    <3>2. a = "403" => call[s].route = "work"
      BY DEF Answer, Blocked
    <3>3. a = "401" /\ call[s].route = "me" => Doomed(s)
      <4>1. ~Accepts(call[s].seen, token[s]) => Sec(token[s].iat) < Sec(latest)
        BY <1>1, <1>2, RefusalIsRevocation DEF SessionTypeOK
      <4> QED
        BY <4>1 DEF Answer, Doomed
    <3>4. call' = [call EXCEPT ![s] = f]
      BY <2>3 DEF Rejected
    <3> HIDE DEF a
    <3>5. f \in Requests /\ f.seen = call[s].seen /\ f.route = call[s].route /\ f.pc = a
      BY <1>2, <3>1 DEF Requests
    <3>6. f.route = "me" => f.pc # "403" /\ (f.pc = "401" => Doomed(s) \/ f.seen = Absent)
      BY <3>2, <3>3, <3>5
    <3> HIDE DEF f
    <3> QED
      BY <1>2, <1>3, <1>4, <1>5, <1>6, <2>2, <3>4, <3>5, <3>6, RequestStep
  <2>4. CASE Handle(s)
    <3> DEFINE f == [call[s] EXCEPT !.pc = "200", !.seen = Computed]
    <3>1. Computed \in Entries /\ Behind(Computed)
      BY <1>1, SessionLiterals DEF Behind, NothingAhead
    <3>2. f \in Requests /\ f.seen = Computed /\ f.pc = "200" /\ call' = [call EXCEPT ![s] = f]
      BY <1>2, <2>4, <3>1 DEF Requests, Handle
    <3> HIDE DEF f
    <3> QED
      BY <1>2, <1>3, <1>4, <1>5, <1>6, <2>2, <3>1, <3>2, RequestStep
  <2>5. CASE RefuseChange(s)
    <3> DEFINE f == [call[s] EXCEPT !.pc = "400"]
    <3>1. /\ f \in Requests /\ f.seen = call[s].seen /\ f.pc = "400"
          /\ call' = [call EXCEPT ![s] = f]
      BY <1>2, <2>5 DEF Requests, RefuseChange
    <3> HIDE DEF f
    <3> QED
      BY <1>2, <1>3, <1>4, <1>5, <1>6, <2>2, <3>1, RequestStep
  <2> QED
    BY <1>9, <2>3, <2>4, <2>5
<1> QED
  BY <1>8, <1>9

\* The answers the browser hears, or waits for in vain.
LEMMA AnswerStep ==
    ASSUME SessionIInv, NEW s \in Sessions,
           \/ WorkAnswered(s) \/ SubmitRefused(s) \/ SubmitLost(s) \/ SubmitAnswered(s)
           \/ FetchMeAnswered(s) \/ FetchMeLost(s) \/ SignOutLost(s)
    PROVE  SessionIInv'
<1>1. SessionTypeOK /\ NothingAhead /\ Heard(s) /\ SentToLogin(s)
  BY DEF SessionIInv
<1>2. call[s] \in Requests /\ web[s] \in Stores /\ call[s].seen \in Entries
  BY <1>1 DEF SessionTypeOK, Requests
<1>3. /\ UNCHANGED <<now, account, redis, local, token, signing, revoking, instant, latest>>
      /\ call' = [call EXCEPT ![s] = Idle] /\ (Bypassed \/ NotBypassed)
  BY DEF WorkAnswered, SubmitRefused, SubmitLost, SubmitAnswered, FetchMeAnswered, FetchMeLost,
         SignOutLost, Settle, serverRest, NotBypassed
<1>4. /\ authFaults' \in Nat /\ authFaults' >= authFaults
      /\ revoking' \in [Changers -> Chain]
  BY <1>1, <1>3, FaultCount DEF SessionTypeOK
<1>5. /\ redis' \in Entries /\ redis'.validAfter <= latest
      /\ local' \in [Processes -> Entries]
      /\ \A p \in Processes : local'[p].validAfter <= latest
  BY <1>1, <1>3 DEF SessionTypeOK, NothingAhead, Behind
<1>6. Behind(Idle.seen)
  BY <1>1, SessionLiterals DEF Behind, SessionTypeOK
<1>7. \E w \in Stores : /\ web' = [web EXCEPT ![s] = w]
                        /\ w.page = "login" /\ token[s] # NoToken => Doomed(s) \/ w.unserved
  <2>1. web[s].page = "login" /\ token[s] # NoToken => Doomed(s) \/ web[s].unserved
    BY <1>1 DEF SentToLogin
  <2>2. web = [web EXCEPT ![s] = web[s]]
    BY <1>1 DEF SessionTypeOK
  <2>3. CASE WorkAnswered(s)
    <3>1. CASE call[s].pc = "403"
      <4>1. web' = [web EXCEPT ![s] = Signed(TRUE, TRUE)]
        BY <2>3, <3>1 DEF WorkAnswered
      <4> QED
        BY <4>1, SignedType
    <3>2. CASE call[s].pc # "403"
      BY <1>2, <2>1, <2>2, <2>3, <3>2 DEF WorkAnswered
    <3> QED
      BY <3>1, <3>2
  <2>4. CASE SubmitRefused(s) \/ SubmitLost(s)
    BY <1>2, <2>1, <2>2, <2>4 DEF SubmitRefused, SubmitLost
  <2>5. CASE SubmitAnswered(s)
    <3> DEFINE w == [web[s] EXCEPT !.then = "read"]
    <3>1. /\ w \in Stores /\ w.page = web[s].page /\ w.unserved = web[s].unserved
          /\ web' = [web EXCEPT ![s] = w]
      BY <1>2, <2>5 DEF SubmitAnswered, Stores
    <3> HIDE DEF w
    <3> QED
      BY <2>1, <3>1
  <2>6. CASE FetchMeAnswered(s)
    <3> DEFINE ok == call[s].pc = "200"
               hold == ok /\ call[s].seen.hold
               lost == call[s].seen = Absent
               w == [Signed(ok, hold) EXCEPT !.unserved = lost]
    <3>1. ok \in BOOLEAN /\ hold \in BOOLEAN /\ lost \in BOOLEAN
      BY <1>2 DEF Entries
    <3>2. web' = [web EXCEPT ![s] = w]
      BY <2>6 DEF FetchMeAnswered
    <3>3. ~ok => Doomed(s) \/ lost
      BY <1>1, <2>6 DEF FetchMeAnswered, Heard
    <3> HIDE DEF ok, hold, lost
    <3>4. w \in Stores /\ (ok => w.page # "login") /\ w.unserved = lost
      BY <3>1, SignedType
    <3> HIDE DEF w
    <3> QED
      BY <3>2, <3>3, <3>4
  <2>7. CASE FetchMeLost(s)
    <3> DEFINE w == [SignedOut EXCEPT !.unserved = TRUE]
    <3>1. w \in Stores /\ w.unserved /\ web' = [web EXCEPT ![s] = w]
      BY <2>7 DEF FetchMeLost, SignedOut, Stores
    <3> HIDE DEF w
    <3> QED
      BY <3>1
  <2>8. CASE SignOutLost(s)
    BY <2>8, LoadingType DEF SignOutLost
  <2> QED
    BY <2>3, <2>4, <2>5, <2>6, <2>7, <2>8
<1> QED
  BY <1>3, <1>4, <1>5, <1>6, <1>7, RequestStep, SessionLiterals

\* A logout takes the cookie.
LEMMA SignOutAnsweredStep ==
    ASSUME SessionIInv, NEW s \in Sessions, SignOutAnswered(s)
    PROVE  SessionIInv'
<1>1. SessionTypeOK /\ NothingAhead /\ StampDue /\ SigningAlone
  BY DEF SessionIInv
<1>2. /\ token' = [token EXCEPT ![s] = NoToken] /\ web' = [web EXCEPT ![s] = SignedOut]
      /\ call' = [call EXCEPT ![s] = Idle]
      /\ UNCHANGED <<now, account, redis, local, signing, revoking, instant, latest, authFaults>>
  BY DEF SignOutAnswered, Settle
<1>3. /\ token' \in [Sessions -> Tokens] /\ token'[s] = NoToken
      /\ web' \in [Sessions -> Stores] /\ call' \in [Sessions -> Requests] /\ call'[s] = Idle
      /\ \A o \in Sessions \ {s} : /\ token'[o] = token[o] /\ web'[o] = web[o]
                                   /\ call'[o] = call[o]
  BY <1>1, <1>2, SessionLiterals DEF SessionTypeOK
<1>4. SessionTypeOK'
  BY <1>1, <1>2, <1>3 DEF SessionTypeOK
<1>5. latest \in Nat /\ now \in Nat /\ 0 <= latest /\ 0 <= now
  BY <1>1 DEF SessionTypeOK
<1>6. NothingAhead' /\ StampDue' /\ SigningAlone'
  <2>1. NothingAhead'
    BY <1>1, <1>2, <1>3, <1>5, SessionLiterals DEF NothingAhead, Behind
  <2>2. StampDue'
    BY <1>1, <1>2, <1>3, <1>5, SessionLiterals DEF StampDue, Pending
  <2>3. SigningAlone'
    BY <1>1, <1>2, <1>3 DEF SigningAlone
  <2> QED
    BY <2>1, <2>2, <2>3
<1>7. \A o \in Sessions : Heard(o)' /\ SentToLogin(o)'
  <2>1. Heard(s)' /\ SentToLogin(s)'
    BY <1>3, SessionLiterals DEF Heard, SentToLogin
  <2>2. ASSUME NEW o \in Sessions \ {s} PROVE Heard(o)' /\ SentToLogin(o)'
    BY <1>2, <1>3 DEF SessionIInv, Heard, SentToLogin, Doomed
  <2> QED
    BY <2>1, <2>2
<1> QED
  BY <1>4, <1>6, <1>7 DEF SessionIInv

-----------------------------------------------------------------------------
\* A login reads the account, and later signs a token for what it is then.
LEMMA LoginStep ==
    ASSUME SessionIInv, NEW s \in Sessions, HandleLogin(s) \/ LoginAnswered(s)
    PROVE  SessionIInv'
<1>1. SessionTypeOK /\ NothingAhead /\ StampDue /\ SigningAlone
  BY DEF SessionIInv
<1>2. account \in Accounts /\ now \in Nat
  BY <1>1 DEF SessionTypeOK
<1>3. \A o \in Sessions : token'[o] = token[o] => (Doomed(o)' <=> Doomed(o))
  BY DEF HandleLogin, ValidateUser, LoginAnswered, GenerateToken, Doomed
<1>4. CASE HandleLogin(s)
  <2>1. /\ signing' = [signing EXCEPT ![s] = Computed] /\ call[s] = Idle
        /\ UNCHANGED <<now, account, redis, local, token, call, revoking, instant, latest,
                       authFaults, web>>
    BY <1>4 DEF HandleLogin, ValidateUser
  <2>2. Computed \in Entries
    BY <1>1, SessionLiterals
  <2>3. SessionTypeOK' /\ NothingAhead' /\ StampDue'
    BY <1>1, <2>1, <2>2 DEF SessionTypeOK, NothingAhead, Behind, StampDue, Pending
  <2>4. SigningAlone'
    BY <1>1, <2>1 DEF SigningAlone, SessionTypeOK
  <2>5. \A o \in Sessions : Heard(o)' /\ SentToLogin(o)'
    BY <1>3, <2>1 DEF SessionIInv, Heard, SentToLogin
  <2> QED
    BY <2>3, <2>4, <2>5 DEF SessionIInv
<1>5. CASE LoginAnswered(s)
  <2> DEFINE t == [iat |-> now, basis |-> signing[s].version, current |-> account.version]
             w == Signed(TRUE, signing[s].hold)
  <2>1. /\ signing[s] # Absent /\ signing' = [signing EXCEPT ![s] = Absent]
        /\ token' = [token EXCEPT ![s] = t] /\ web' = [web EXCEPT ![s] = w]
        /\ UNCHANGED <<now, account, redis, local, call, revoking, instant, latest, authFaults>>
    BY <1>5 DEF LoginAnswered, GenerateToken
  <2>2. call[s] = Idle
    BY <1>1, <2>1 DEF SigningAlone
  <2>3. t \in Tokens /\ t.iat = now /\ t.current = account.version
    BY <1>1, <1>2 DEF Tokens, SessionTypeOK, Entries, Accounts
  <2>4. w \in Stores /\ w.page # "login"
    BY <1>1, SignedType DEF SessionTypeOK, Entries
  <2> HIDE DEF t, w
  <2>5. /\ token' \in [Sessions -> Tokens] /\ token'[s] = t
        /\ web' \in [Sessions -> Stores] /\ web'[s] = w
        /\ signing' \in [Sessions -> Entries] /\ signing'[s] = Absent
        /\ \A o \in Sessions \ {s} : /\ token'[o] = token[o] /\ web'[o] = web[o]
                                     /\ signing'[o] = signing[o]
    BY <1>1, <2>1, <2>3, <2>4, SessionLiterals DEF SessionTypeOK
  <2>6. SessionTypeOK'
    BY <1>1, <2>1, <2>5 DEF SessionTypeOK
  <2>7. NothingAhead'
    BY <1>1, <1>2, <2>1, <2>3, <2>5 DEF NothingAhead, Behind
  <2>8. StampDue'
    BY <1>1, <2>1, <2>3, <2>5 DEF StampDue, Pending
  <2>9. SigningAlone'
    BY <1>1, <2>1, <2>5 DEF SigningAlone
  <2>10. \A o \in Sessions : Heard(o)' /\ SentToLogin(o)'
    <3>1. Heard(s)' /\ SentToLogin(s)'
      BY <2>1, <2>2, <2>4, <2>5, SessionLiterals DEF Heard, SentToLogin
    <3>2. ASSUME NEW o \in Sessions \ {s} PROVE Heard(o)' /\ SentToLogin(o)'
      BY <1>3, <2>1, <2>5 DEF SessionIInv, Heard, SentToLogin
    <3> QED
      BY <3>1, <3>2
  <2> QED
    BY <2>6, <2>7, <2>8, <2>9, <2>10 DEF SessionIInv
<1> QED
  BY <1>4, <1>5

\* A step that leaves tokens, pages and what was heard alone, moves the account on, and
\* leaves a stamp due when it changes the version.
LEMMA AccountStep ==
    ASSUME SessionIInv, SessionTypeOK', UNCHANGED <<token, signing, web>>,
           now' >= now, latest <= latest', latest' <= now', account'.validAfter <= latest',
           \A c \in Changers : instant'[c] <= now',
           account'.active => account.active,
           redis' = redis \/ redis' = Absent,
           \A p \in Processes : local'[p] = local[p] \/ local'[p] = Absent,
           \A s \in Sessions :
              \/ call'[s] = call[s]
              \/ call'[s].pc = "handling" /\ call[s].pc # "idle" /\ Behind(call'[s].seen),
           StampDue'
    PROVE  SessionIInv'
<1>1. SessionTypeOK /\ NothingAhead /\ SigningAlone
  BY DEF SessionIInv
<1>2. /\ now \in Nat /\ now' \in Nat /\ latest \in Nat /\ latest' \in Nat
      /\ redis \in Entries /\ redis' \in Entries
      /\ \A p \in Processes : local[p] \in Entries /\ local'[p] \in Entries
      /\ \A s \in Sessions : /\ call[s] \in Requests /\ call'[s] \in Requests
                             /\ token[s] \in Tokens /\ token'[s] = token[s] /\ web'[s] = web[s]
  BY <1>1 DEF SessionTypeOK
<1>3. /\ redis.validAfter \in Nat /\ \A p \in Processes : local[p].validAfter \in Nat
      /\ \A s \in Sessions : /\ call[s].seen.validAfter \in Nat /\ call'[s].seen.validAfter \in Nat
                             /\ token[s].iat \in Nat
  BY <1>2 DEF Entries, Requests, Tokens
<1>4. NothingAhead'
  <2>1. redis'.validAfter <= latest'
    BY <1>1, <1>2, <1>3, SessionLiterals DEF NothingAhead, Behind
  <2>2. \A p \in Processes : local'[p].validAfter <= latest'
    BY <1>1, <1>2, <1>3, SessionLiterals DEF NothingAhead, Behind
  <2>3. \A s \in Sessions : call'[s].seen.validAfter <= latest'
    BY <1>1, <1>2, <1>3 DEF NothingAhead, Behind
  <2>4. \A s \in Sessions : token'[s].iat <= now'
    BY <1>1, <1>2, <1>3 DEF NothingAhead
  <2> QED
    BY <2>1, <2>2, <2>3, <2>4 DEF NothingAhead, Behind
<1>5. SigningAlone'
  BY <1>1, <1>2, SessionLiterals DEF SigningAlone
<1>6. \A s \in Sessions : Doomed(s) => Doomed(s)'
  <2> SUFFICES ASSUME NEW s \in Sessions, Sec(token[s].iat) < Sec(latest)
               PROVE  Sec(token'[s].iat) < Sec(latest')
    BY <1>2 DEF Doomed
  <2>1. Sec(latest) <= Sec(latest') /\ Sec(latest) \in Nat /\ Sec(latest') \in Nat
    BY <1>2, SecondsPass
  <2>2. Sec(token[s].iat) \in Nat
    BY <1>3, SecondsPass
  <2> QED
    BY <1>2, <2>1, <2>2
<1>7. \A s \in Sessions : Heard(s)'
  BY <1>2, <1>6 DEF SessionIInv, Heard
<1>8. \A s \in Sessions : SentToLogin(s)'
  BY <1>2, <1>6 DEF SessionIInv, SentToLogin
<1> QED
  BY <1>4, <1>5, <1>7, <1>8 DEF SessionIInv

\* The account changes: whoever changed it still has to stamp.
LEMMA ChangeStep ==
    ASSUME SessionIInv,
           \/ \E s \in Sessions : ChangePassword(s)
           \/ \E kind \in AdminChanges : AdminChange(kind),
           UNCHANGED web
    PROVE  SessionIInv'
<1>1. SessionTypeOK /\ NothingAhead
  BY DEF SessionIInv
<1>2. account \in Accounts /\ account.version + 1 \in Nat
  BY <1>1 DEF SessionTypeOK, Accounts
<1>3. /\ UNCHANGED <<now, redis, local, token, signing, instant, latest, authFaults>>
      /\ account'.validAfter = account.validAfter /\ account' \in Accounts
      /\ (account'.active => account.active)
  <2>1. ASSUME NEW s \in Sessions, ChangePassword(s)
        PROVE  account' = [account EXCEPT !.version = account.version + 1, !.hold = FALSE]
    BY <2>1 DEF ChangePassword
  <2>2. ASSUME NEW kind \in AdminChanges, AdminChange(kind)
        PROVE  \E h, a \in BOOLEAN :
                  /\ a => account.active
                  /\ account' = [account EXCEPT !.version = account.version + 1,
                                                !.hold = h, !.active = a]
    <3> DEFINE h == account.hold \/ kind = "reset"
               a == account.active /\ kind # "deactivate"
    <3>1. h \in BOOLEAN /\ a \in BOOLEAN /\ (a => account.active)
      BY <1>2 DEF Accounts
    <3>2. account' = [account EXCEPT !.version = account.version + 1, !.hold = h, !.active = a]
      BY <2>2 DEF AdminChange
    <3> HIDE DEF h, a
    <3> QED
      BY <3>1, <3>2
  <2>3. UNCHANGED <<now, redis, local, token, signing, instant, latest, authFaults>>
    BY DEF ChangePassword, AdminChange
  <2> QED
    BY <1>2, <2>1, <2>2, <2>3 DEF Accounts
<1>4. PICK c \in Changers : revoking' = [revoking EXCEPT ![c] = "stamp"]
  BY DEF ChangePassword, AdminChange, Changers
<1>5. revoking' \in [Changers -> Chain] /\ revoking'[c] = "stamp"
  BY <1>1, <1>4 DEF SessionTypeOK, Chain
<1>6. /\ call' \in [Sessions -> Requests]
      /\ \A s \in Sessions :
            \/ call'[s] = call[s]
            \/ call'[s].pc = "handling" /\ call[s].pc # "idle" /\ Behind(call'[s].seen)
  <2>1. CASE \E kind \in AdminChanges : AdminChange(kind)
    BY <1>1, <2>1 DEF AdminChange, SessionTypeOK
  <2>2. ASSUME NEW s \in Sessions, ChangePassword(s)
        PROVE  <1>6!1 /\ <1>6!2
    <3> DEFINE f == [call[s] EXCEPT !.pc = "handling"]
    <3>1. call' = [call EXCEPT ![s] = f] /\ call[s].pc = "decide"
      BY <2>2 DEF ChangePassword
    <3>2. f \in Requests /\ f.pc = "handling" /\ f.seen = call[s].seen
      BY <1>1 DEF SessionTypeOK, Requests
    <3> HIDE DEF f
    <3> QED
      BY <1>1, <3>1, <3>2 DEF SessionTypeOK, NothingAhead, Behind
  <2> QED
    BY <2>1, <2>2
<1>7. SessionTypeOK'
  BY <1>1, <1>3, <1>5, <1>6 DEF SessionTypeOK
<1>8. StampDue'
  BY <1>5 DEF StampDue, Pending
<1>9. /\ now' >= now /\ latest <= latest' /\ latest' <= now' /\ account'.validAfter <= latest'
      /\ \A d \in Changers : instant'[d] <= now'
  BY <1>1, <1>3 DEF SessionTypeOK, NothingAhead
<1> QED
  BY <1>3, <1>6, <1>7, <1>8, <1>9, AccountStep

LEMMA SignOutStep ==
    ASSUME SessionIInv, NEW s \in Sessions, SignOut(s)
    PROVE  SessionIInv'
<1>1. SessionTypeOK /\ NothingAhead
  BY DEF SessionIInv
<1>2. /\ revoking' = [revoking EXCEPT ![s] = "stamp"] /\ signing[s] = Absent
      /\ UNCHANGED <<now, account, redis, local, token, signing, instant, latest, authFaults>>
      /\ web' = [web EXCEPT ![s] = Loading("stay")]
  BY DEF SignOut, Logout
<1>3. PICK p \in Processes : call' = [call EXCEPT ![s] =
            [pc |-> "handling", route |-> "logout", at |-> p, seen |-> Absent]]
  BY DEF SignOut, Logout
<1> DEFINE f == [pc |-> "handling", route |-> "logout", at |-> p, seen |-> Absent]
<1>4. f \in Requests /\ f.pc = "handling" /\ f.route = "logout" /\ Behind(f.seen)
  BY <1>1, SessionLiterals DEF Requests, Routes, Behind, SessionTypeOK
<1>5. call' = [call EXCEPT ![s] = f]
  BY <1>3
<1> HIDE DEF f
<1>6. /\ revoking' \in [Changers -> Chain]
      /\ \A c \in Changers : revoking'[c] \in {revoking[c], "stamp"}
  BY <1>1, <1>2 DEF SessionTypeOK, Changers, Chain
<1>7. /\ redis' \in Entries /\ redis'.validAfter <= latest
      /\ local' \in [Processes -> Entries]
      /\ \A q \in Processes : local'[q].validAfter <= latest
      /\ authFaults' \in Nat /\ authFaults' >= authFaults
  BY <1>1, <1>2 DEF SessionTypeOK, NothingAhead, Behind
<1> QED
  BY <1>2, <1>4, <1>5, <1>6, <1>7, LoadingType, RequestStep

\* The end of a change by the user.
LEMMA FinishStep ==
    ASSUME SessionIInv, NEW s \in Sessions, Finish(s), UNCHANGED web
    PROVE  SessionIInv'
<1>1. SessionTypeOK /\ NothingAhead /\ SigningAlone /\ SentToLogin(s)
  BY DEF SessionIInv
<1> DEFINE f == [call[s] EXCEPT !.pc = "204"]
<1>2. /\ call[s].pc = "handling" /\ revoking[s] = "done"
      /\ call' = [call EXCEPT ![s] = f] /\ revoking' = [revoking EXCEPT ![s] = "no"]
      /\ UNCHANGED <<now, account, redis, local, token, signing, instant, latest, authFaults>>
  BY DEF Finish
<1>3. f \in Requests /\ f.pc = "204" /\ Behind(f.seen)
  BY <1>1 DEF SessionTypeOK, Requests, NothingAhead
<1> HIDE DEF f
<1>4. signing[s] = Absent
  BY <1>1, <1>2, SessionLiterals DEF SigningAlone
<1>5. /\ revoking' \in [Changers -> Chain]
      /\ \A c \in Changers : revoking[c] \in {"stamp", "stamping"} => revoking'[c] = revoking[c]
  BY <1>1, <1>2 DEF SessionTypeOK, Changers, Chain
<1>6. web[s] \in Stores /\ web' = [web EXCEPT ![s] = web[s]]
  BY <1>1 DEF SessionTypeOK
<1>7. /\ redis' \in Entries /\ redis'.validAfter <= latest
      /\ local' \in [Processes -> Entries]
      /\ \A q \in Processes : local'[q].validAfter <= latest
      /\ authFaults' \in Nat /\ authFaults' >= authFaults
  BY <1>1, <1>2 DEF SessionTypeOK, NothingAhead, Behind
<1>8. web[s].page = "login" /\ token[s] # NoToken => Doomed(s) \/ web[s].unserved
  BY <1>1 DEF SentToLogin
<1> QED
  BY <1>2, <1>3, <1>4, <1>5, <1>6, <1>7, <1>8, RequestStep

\* revokeUserTokens: the instant is not older than any token of before, and none comes
\* later than the clock.
LEMMA RevokeStep ==
    ASSUME SessionIInv, NEW c \in Changers,
           ReadClock(c) \/ Stamp(c) \/ InvalidateUserPermissions(c),
           UNCHANGED web
    PROVE  SessionIInv'
<1>1. SessionTypeOK /\ NothingAhead /\ StampDue
  BY DEF SessionIInv
<1>2. /\ account \in Accounts /\ latest \in Nat /\ now \in Nat /\ authFaults \in Nat
      /\ instant \in [Changers -> Nat]
  BY <1>1 DEF SessionTypeOK
<1>3. UNCHANGED <<now, token, signing, call>> /\ (Bypassed \/ NotBypassed)
  BY DEF ReadClock, Stamp, InvalidateUserPermissions, NotBypassed
<1>4. /\ authFaults' \in Nat /\ authFaults' >= authFaults /\ (Bypassed => authFaults' > 0)
      /\ authFaults' = 0 => authFaults = 0
  BY <1>1, <1>2, <1>3, FaultCount
<1>5. CASE ReadClock(c)
  <2>1. /\ revoking[c] = "stamp" /\ revoking' = [revoking EXCEPT ![c] = "stamping"]
        /\ instant' = [instant EXCEPT ![c] = now]
        /\ UNCHANGED <<account, redis, local, latest>>
    BY <1>5 DEF ReadClock
  <2>2. /\ revoking' \in [Changers -> Chain] /\ revoking'[c] = "stamping"
        /\ instant' \in [Changers -> Nat] /\ instant'[c] = now
        /\ \A d \in Changers \ {c} : revoking'[d] = revoking[d] /\ instant'[d] = instant[d]
    BY <1>1, <1>2, <2>1 DEF SessionTypeOK, Chain
  <2>3. SessionTypeOK'
    BY <1>1, <1>3, <1>4, <2>1, <2>2 DEF SessionTypeOK
  <2>4. StampDue'
    <3> SUFFICES ASSUME NEW s \in Sessions PROVE \E d \in Changers : Pending(d, token[s])'
      BY <1>3 DEF StampDue
    <3>1. Pending(c, token[s])'
      BY <1>1, <1>3, <2>2 DEF Pending, NothingAhead
    <3> QED
      BY <3>1
  <2>5. /\ latest <= latest' /\ latest' <= now' /\ account'.validAfter <= latest' /\ now' >= now
        /\ \A d \in Changers : instant'[d] <= now'
    BY <1>1, <1>2, <1>3, <2>1, <2>2 DEF NothingAhead
  <2> QED
    BY <1>3, <2>1, <2>3, <2>4, <2>5, AccountStep
<1>6. CASE Stamp(c)
  <2> DEFINE i == instant[c]
  <2>1. /\ UNCHANGED <<redis, local>> /\ instant' = [instant EXCEPT ![c] = 0]
        /\ revoking[c] = "stamping"
        /\ \/ /\ account' = [account EXCEPT !.validAfter = i] /\ NotBypassed
              /\ latest' = IF latest < i THEN i ELSE latest
              /\ revoking' = [revoking EXCEPT ![c] = "drop"]
           \/ /\ UNCHANGED <<account, latest>> /\ Bypassed
              /\ revoking' = [revoking EXCEPT ![c] = "done"]
    BY <1>6 DEF Stamp
  <2>2. i \in Nat /\ i <= now /\ account.validAfter \in Nat /\ account.validAfter <= latest
    BY <1>1, <1>2 DEF NothingAhead, Accounts
  <2>3. /\ account' \in Accounts /\ account'.active = account.active
        /\ account'.version = account.version /\ account'.validAfter \in {i, account.validAfter}
        /\ account'.validAfter # account.validAfter => i <= latest'
    BY <1>2, <2>1, <2>2 DEF Accounts
  <2>4. latest' \in Nat /\ latest <= latest' /\ latest' <= now /\ (~Bypassed => i <= latest')
    BY <1>1, <1>2, <2>1, <2>2 DEF NothingAhead
  <2>5. /\ revoking' \in [Changers -> Chain]
        /\ \A d \in Changers \ {c} : revoking'[d] = revoking[d]
    BY <1>1, <2>1 DEF SessionTypeOK, Chain
  <2>6. /\ instant' \in [Changers -> Nat] /\ instant'[c] = 0
        /\ \A d \in Changers \ {c} : instant'[d] = instant[d]
    BY <1>2, <2>1
  <2>7. SessionTypeOK'
    BY <1>1, <1>3, <1>4, <2>1, <2>3, <2>4, <2>5, <2>6 DEF SessionTypeOK
  <2>8. StampDue'
    <3> SUFFICES ASSUME authFaults' = 0, NEW s \in Sessions, token[s].current # account.version
                 PROVE  token[s].iat <= latest' \/ \E d \in Changers : Pending(d, token[s])'
      BY <1>3, <2>3 DEF StampDue
    <3>1. token[s].iat \in Nat
      BY <1>1 DEF SessionTypeOK, Tokens
    <3>2. CASE token[s].iat <= latest
      BY <1>2, <2>4, <3>1, <3>2
    <3>3. CASE \E d \in Changers : Pending(d, token[s])
      <4>1. PICK d \in Changers : Pending(d, token[s])
        BY <3>3
      <4>2. CASE d = c
        <5>1. token[s].iat <= i /\ i <= latest'
          BY <1>4, <2>1, <2>4, <4>1, <4>2 DEF Pending
        <5> QED
          BY <2>2, <2>4, <3>1, <5>1
      <4>3. CASE d # c
        BY <1>3, <2>5, <2>6, <4>1, <4>3 DEF Pending
      <4> QED
        BY <4>2, <4>3
    <3> QED
      BY <1>1, <1>4, <3>2, <3>3 DEF StampDue
  <2>9. account'.validAfter <= latest' /\ \A d \in Changers : instant'[d] <= now'
    BY <1>1, <1>2, <1>3, <2>2, <2>3, <2>4, <2>6 DEF NothingAhead
  <2> QED
    BY <1>2, <1>3, <2>1, <2>3, <2>4, <2>7, <2>8, <2>9, AccountStep
<1>7. CASE InvalidateUserPermissions(c)
  <2>1. /\ revoking[c] = "drop" /\ revoking' = [revoking EXCEPT ![c] = "done"]
        /\ redis' = redis \/ redis' = Absent
        /\ \E p \in Processes : local' = [local EXCEPT ![p] = Absent]
        /\ UNCHANGED <<account, instant, latest>>
    BY <1>7 DEF InvalidateUserPermissions
  <2>2. /\ local' \in [Processes -> Entries]
        /\ \A p \in Processes : local'[p] = local[p] \/ local'[p] = Absent
    BY <1>1, <2>1, SessionLiterals DEF SessionTypeOK
  <2>3. /\ revoking' \in [Changers -> Chain]
        /\ \A d \in Changers : revoking[d] \in {"stamp", "stamping"} => revoking'[d] = revoking[d]
    BY <1>1, <2>1 DEF SessionTypeOK, Chain
  <2>4. SessionTypeOK'
    BY <1>1, <1>3, <1>4, <2>1, <2>2, <2>3, SessionLiterals DEF SessionTypeOK
  <2>5. StampDue'
    BY <1>1, <1>3, <1>4, <2>1, <2>3 DEF StampDue, Pending
  <2>6. /\ latest <= latest' /\ latest' <= now' /\ account'.validAfter <= latest' /\ now' >= now
        /\ \A d \in Changers : instant'[d] <= now'
    BY <1>1, <1>2, <1>3, <2>1 DEF NothingAhead
  <2> QED
    BY <1>3, <2>1, <2>2, <2>4, <2>5, <2>6, AccountStep
<1> QED
  BY <1>5, <1>6, <1>7

\* What happens to the account and its caches without a request.
LEMMA BackgroundStep ==
    ASSUME SessionIInv,
           \/ AdminFinish \/ Tick \/ ExpireRedis
           \/ \E p \in Processes : ExpireLocal(p),
           UNCHANGED web
    PROVE  SessionIInv'
<1>1. SessionTypeOK /\ NothingAhead /\ StampDue
  BY DEF SessionIInv
<1>2. /\ UNCHANGED <<account, token, signing, call, instant, latest, authFaults>>
      /\ redis' = redis \/ redis' = Absent
      /\ now' = now \/ now' = now + 1
  BY DEF AdminFinish, Tick, ExpireRedis, ExpireLocal
<1>3. now \in Nat /\ latest \in Nat
  BY <1>1 DEF SessionTypeOK
<1>4. /\ local' \in [Processes -> Entries]
      /\ \A p \in Processes : local'[p] = local[p] \/ local'[p] = Absent
  BY <1>1, SessionLiterals DEF AdminFinish, Tick, ExpireRedis, ExpireLocal, SessionTypeOK
<1>5. /\ revoking' \in [Changers -> Chain]
      /\ \A d \in Changers : revoking[d] \in {"stamp", "stamping"} => revoking'[d] = revoking[d]
  BY <1>1 DEF AdminFinish, Tick, ExpireRedis, ExpireLocal, SessionTypeOK, Changers, Chain
<1>6. now' \in Nat /\ now' >= now
  BY <1>2, <1>3
<1>7. SessionTypeOK'
  BY <1>1, <1>2, <1>4, <1>5, <1>6, SessionLiterals DEF SessionTypeOK
<1>8. StampDue'
  BY <1>1, <1>2, <1>5 DEF StampDue, Pending
<1>9. /\ latest <= latest' /\ latest' <= now' /\ account'.validAfter <= latest'
      /\ \A c \in Changers : instant'[c] <= now'
  <2>1. \A c \in Changers : instant[c] \in Nat
    BY <1>1 DEF SessionTypeOK
  <2> QED
    BY <1>1, <1>2, <1>3, <1>6, <2>1 DEF NothingAhead
<1> QED
  BY <1>2, <1>4, <1>6, <1>7, <1>8, <1>9, AccountStep

LEMMA SessionStep == SessionIInv /\ [WebNext]_webVars => SessionIInv'
<1> SUFFICES ASSUME SessionIInv, [WebNext]_webVars PROVE SessionIInv'
  OBVIOUS
<1>1. CASE UNCHANGED webVars
  BY <1>1 DEF SessionIInv, webVars, SessionTypeOK, NothingAhead, Behind, StampDue, SigningAlone,
       Heard, SentToLogin, Doomed, Pending
<1>2. ASSUME NEW s \in Sessions, NEW p \in Processes,
             \/ Reload(s, p) \/ Work(s, p) \/ HandleSubmit(s, p) \/ ReadSessionAgain(s, p)
      PROVE  SessionIInv'
  <2>1. web \in [Sessions -> Stores] /\ web[s] \in Stores
    BY DEF SessionIInv, SessionTypeOK
  <2>2. CASE Reload(s, p)
    BY <2>2, LoadingType, AskStep DEF Reload
  <2>3. CASE Work(s, p) \/ HandleSubmit(s, p) \/ ReadSessionAgain(s, p)
    <3>1. web' = [web EXCEPT ![s] = web[s]]
      BY <2>1, <2>3 DEF Work, HandleSubmit, ReadSessionAgain
    <3> QED
      BY <2>1, <2>3, <3>1, AskStep DEF Work, HandleSubmit, ReadSessionAgain
  <2> QED
    BY <1>2, <2>2, <2>3
<1>3. ASSUME NEW s \in Sessions, \/ ClientStep(s) \/ HandleLogin(s) \/ SubmitLost(s) \/ FetchMeLost(s)
                              \/ SignOut(s) \/ SignOutLost(s)
      PROVE  SessionIInv'
  BY <1>2, <1>3, AnswerStep, SignOutAnsweredStep, LoginStep, SignOutStep DEF ClientStep
<1>4. ASSUME NEW s \in Sessions, Progress(s), UNCHANGED web
      PROVE  SessionIInv'
  BY <1>4, DecisionStep, ChangeStep, FinishStep DEF Progress
<1>5. CASE (\E c \in Changers : Revoke(c)) /\ UNCHANGED web
  BY <1>5, RevokeStep DEF Revoke
<1> QED
  BY <1>1, <1>2, <1>3, <1>4, <1>5, ChangeStep, BackgroundStep DEF WebNext

\* Every reachable state satisfies the invariant, for any browsers and processes.
THEOREM SessionInvariant == WebSpec => []SessionIInv
<1>1. WebInit => SessionIInv
  <2> SUFFICES ASSUME WebInit PROVE SessionIInv
    OBVIOUS
  <2>1. PICK held \in BOOLEAN :
          account = [active |-> TRUE, version |-> 1, hold |-> held, validAfter |-> 0]
    BY DEF WebInit, ServerInit
  <2>2. /\ now = 1 /\ authFaults = 0 /\ redis = Absent /\ local = [p \in Processes |-> Absent]
        /\ token = [s \in Sessions |-> NoToken] /\ signing = [s \in Sessions |-> Absent]
        /\ call = [s \in Sessions |-> Idle] /\ revoking = [c \in Changers |-> "no"]
        /\ instant = [c \in Changers |-> 0] /\ latest = 0
        /\ web = [s \in Sessions |-> SignedOut]
    BY DEF WebInit, ServerInit
  <2>3. account \in Accounts /\ account.validAfter = 0
    BY <2>1 DEF Accounts
  <2>4. SessionTypeOK
    BY <2>2, <2>3, SessionLiterals DEF SessionTypeOK, Chain
  <2>5. NothingAhead /\ StampDue /\ SigningAlone
    BY <2>2, <2>3, SessionLiterals DEF NothingAhead, Behind, StampDue, SigningAlone
  <2>6. \A s \in Sessions : Heard(s) /\ SentToLogin(s)
    BY <2>2, SessionLiterals DEF Heard, SentToLogin
  <2> QED
    BY <2>4, <2>5, <2>6 DEF SessionIInv
<1> QED
  BY <1>1, SessionStep, PTL DEF WebSpec

\* No tier and no request ever refuses a token that was minted at or after every
\* revocation (auth.guard.ts:80).
THEOREM FreshTokensPass == WebSpec => []NoFalseReject
<1>1. SessionIInv => NoFalseReject
  <2> SUFFICES ASSUME SessionIInv, NEW s \in Sessions, NEW entry \in Served,
                      token[s].iat >= latest
               PROVE  Accepts(entry, token[s])
    BY DEF NoFalseReject
  <2>1. entry \in Entries /\ Behind(entry)
    BY DEF SessionIInv, SessionTypeOK, NothingAhead, Served, Requests
  <2>2. token[s].iat \in Nat /\ latest \in Nat /\ entry.validAfter \in Nat
    BY <2>1 DEF SessionIInv, SessionTypeOK, Tokens, Entries
  <2>3. entry.validAfter <= token[s].iat
    BY <2>1, <2>2 DEF Behind
  <2> QED
    BY <2>2, <2>3, SecondsPass DEF Accepts
<1> QED
  BY <1>1, SessionInvariant, PTL

\* A token signed for the account as it was before its last change is not newer than
\* the row's stamp, unless the row holds an older instant than one committed before
\* (auth.service.ts:460).
THEOREM ChangesEndSessions == WebSpec => []PasswordChangeEndsSessions
<1>1. SessionIInv => PasswordChangeEndsSessions
  BY DEF SessionIInv, StampDue, Pending, PasswordChangeEndsSessions, EveryChangeEndsSessions
<1> QED
  BY <1>1, SessionInvariant, PTL

\* A browser with a cookie that is sent to the login page has a token older than a
\* revocation, an inactive account, or a fetchMe that nobody decided (auth.store.ts:117).
THEOREM SignedOutForAReason == WebSpec => []SignedOutOnlyWhenRevoked
<1>1. SessionIInv => SignedOutOnlyWhenRevoked
  BY DEF SessionIInv, SentToLogin, Doomed, SignedOutOnlyWhenRevoked
<1> QED
  BY <1>1, SessionInvariant, PTL

-----------------------------------------------------------------------------
(* The graph of the roles.                                                 *)

Graph == [RoleIds -> SUBSET RoleIds]
Closed(graph, S) == \A r \in S : graph[r] \subseteq S

-----------------------------------------------------------------------------
\* One more round of the recursive CTE.
Climb(graph, reached) == reached \cup UNION {graph[r] : r \in reached}

\* The walk up a graph exists: the equation that defines it has a solution for every
\* number of rounds.
LEMMA WalkExists ==
    ASSUME NEW graph, NEW seeds, NEW N \in Nat
    PROVE  \E w : w = [n \in 0 .. N |-> IF n = 0 THEN seeds ELSE Climb(graph, w[n - 1])]
<1> DEFINE Solves(w, n) == w = [i \in 0 .. n |-> IF i = 0 THEN seeds ELSE Climb(graph, w[i - 1])]
           S == {n \in Nat : \E w : Solves(w, n)}
<1>1. 0 \in S
  <2>1. Solves([i \in 0 .. 0 |-> seeds], 0)
    OBVIOUS
  <2> QED
    BY <2>1
<1>2. ASSUME NEW n \in Nat, n \in S PROVE n + 1 \in S
  <2>1. PICK w : Solves(w, n)
    BY <1>2
  <2> DEFINE v == [i \in 0 .. n + 1 |-> IF i = n + 1 THEN Climb(graph, w[n]) ELSE w[i]]
  <2> HIDE DEF Climb
  <2>2. \A i \in 0 .. n + 1 : v[i] = IF i = 0 THEN seeds ELSE Climb(graph, v[i - 1])
    <3> SUFFICES ASSUME NEW i \in 0 .. n + 1
                 PROVE  v[i] = IF i = 0 THEN seeds ELSE Climb(graph, v[i - 1])
      OBVIOUS
    <3>1. CASE i = n + 1
      <4>1. v[i] = Climb(graph, w[n]) /\ i # 0 /\ i - 1 = n
        BY <3>1
      <4>2. v[n] = w[n]
        OBVIOUS
      <4> QED
        BY <4>1, <4>2
    <3>2. CASE i # n + 1
      <4>1. i \in 0 .. n /\ v[i] = w[i]
        BY <3>2
      <4>2. w[i] = IF i = 0 THEN seeds ELSE Climb(graph, w[i - 1])
        BY <2>1, <4>1
      <4>3. i # 0 => v[i - 1] = w[i - 1]
        BY <4>1
      <4> QED
        BY <4>1, <4>2, <4>3
    <3> QED
      BY <3>1, <3>2
  <2>3. v = [i \in 0 .. n + 1 |-> v[i]]
    OBVIOUS
  <2> HIDE DEF v
  <2>4. Solves(v, n + 1)
    BY <2>2, <2>3
  <2> QED
    BY <2>4
<1>3. Nat \subseteq S
  BY <1>1, <1>2, SetInduction
<1> QED
  BY <1>3

\* The ancestors are the last round of that walk, and there are as many rounds as roles.
LEMMA AncestorsWalk ==
    ASSUME NEW graph, NEW seeds
    PROVE  LET N == Cardinality(RoleIds) IN
           /\ N \in Nat
           /\ \E w : /\ w = [n \in 0 .. N |-> IF n = 0 THEN seeds ELSE Climb(graph, w[n - 1])]
                     /\ AncestorsIn(graph, seeds) = w[N]
<1> DEFINE N == Cardinality(RoleIds)
           W == CHOOSE w : w = [n \in 0 .. N |-> IF n = 0 THEN seeds ELSE Climb(graph, w[n - 1])]
<1>1. N \in Nat
  BY RoleAssumption, FS_CardinalityType
<1>2. W = [n \in 0 .. N |-> IF n = 0 THEN seeds ELSE Climb(graph, W[n - 1])]
  BY <1>1, WalkExists
<1>3. AncestorsIn(graph, seeds) = W[N]
  BY DEF AncestorsIn, Climb
<1> QED
  BY <1>1, <1>2, <1>3

-----------------------------------------------------------------------------
\* The ancestors of a set contain it, are roles, and are closed under inheritance: a
\* walk that is not closed yet has met a new role in every round, and there are no more
\* rounds than roles.
LEMMA AncestorsClosed ==
    ASSUME NEW graph \in Graph, NEW seeds \in SUBSET RoleIds
    PROVE  /\ seeds \subseteq AncestorsIn(graph, seeds)
           /\ AncestorsIn(graph, seeds) \subseteq RoleIds
           /\ Closed(graph, AncestorsIn(graph, seeds))
<1> DEFINE N == Cardinality(RoleIds)
<1>1. N \in Nat /\ IsFiniteSet(RoleIds)
  BY AncestorsWalk, RoleAssumption
<1>2. PICK w : /\ w = [n \in 0 .. N |-> IF n = 0 THEN seeds ELSE Climb(graph, w[n - 1])]
               /\ AncestorsIn(graph, seeds) = w[N]
  BY AncestorsWalk
<1> HIDE DEF N
<1>3. w[0] = seeds /\ \A n \in Nat : n + 1 <= N => w[n + 1] = Climb(graph, w[n])
  <2>1. w[0] = seeds
    BY <1>1, <1>2
  <2>2. ASSUME NEW n \in Nat, n + 1 <= N PROVE w[n + 1] = Climb(graph, w[n])
    <3>1. n + 1 \in 0 .. N /\ n + 1 # 0 /\ (n + 1) - 1 = n
      BY <1>1, <2>2
    <3> QED
      BY <1>2, <3>1
  <2> QED
    BY <2>1, <2>2
<1> DEFINE Grown(S, n) == /\ seeds \subseteq S
                          /\ S \subseteq RoleIds
                          /\ Closed(graph, S) \/ Cardinality(S) >= n
           M == {n \in Nat : n <= N => Grown(w[n], n)}
<1>4. 0 \in M
  <2>1. IsFiniteSet(seeds) /\ Cardinality(seeds) \in Nat
    BY <1>1, FS_Subset, FS_CardinalityType
  <2> QED
    BY <1>3, <2>1
<1>5. ASSUME NEW n \in Nat, n \in M PROVE n + 1 \in M
  <2> SUFFICES ASSUME n + 1 <= N PROVE Grown(w[n + 1], n + 1)
    OBVIOUS
  <2>1. Grown(w[n], n) /\ w[n + 1] = Climb(graph, w[n])
    BY <1>1, <1>3, <1>5
  <2>2. w[n] \subseteq w[n + 1] /\ w[n + 1] \subseteq RoleIds
    BY <2>1 DEF Climb, Graph
  <2>3. CASE Closed(graph, w[n])
    <3>1. w[n + 1] = w[n]
      BY <2>1, <2>3 DEF Climb, Closed
    <3> QED
      BY <2>1, <2>3, <3>1
  <2>4. CASE ~Closed(graph, w[n])
    <3>1. w[n + 1] # w[n]
      BY <2>1, <2>4 DEF Climb, Closed
    <3>2. IsFiniteSet(w[n + 1])
      BY <1>1, <2>2, FS_Subset
    <3>3. /\ Cardinality(w[n]) <= Cardinality(w[n + 1])
          /\ Cardinality(w[n]) # Cardinality(w[n + 1])
          /\ IsFiniteSet(w[n])
      BY <2>2, <3>1, <3>2, FS_Subset
    <3>4. Cardinality(w[n]) \in Nat /\ Cardinality(w[n + 1]) \in Nat
      BY <3>2, <3>3, FS_CardinalityType
    <3>5. Cardinality(w[n + 1]) >= n + 1
      BY <2>1, <2>4, <3>3, <3>4
    <3> QED
      BY <2>1, <2>2, <3>5
  <2> QED
    BY <2>3, <2>4
<1>6. Grown(w[N], N)
  <2>1. N \in M
    <3> HIDE DEF M
    <3> QED
      BY <1>1, <1>4, <1>5, SetInduction
  <2> QED
    BY <1>1, <2>1
<1>7. Closed(graph, w[N])
  <2> SUFFICES ASSUME Cardinality(w[N]) >= N PROVE Closed(graph, w[N])
    BY <1>6
  <2>1. Cardinality(w[N]) <= N /\ Cardinality(w[N]) \in Nat
    BY <1>1, <1>6, FS_Subset, FS_CardinalityType DEF N
  <2>2. w[N] = RoleIds
    BY <1>1, <1>6, <2>1, FS_Subset DEF N
  <2> QED
    BY <2>2 DEF Closed, Graph
<1> QED
  BY <1>2, <1>6, <1>7

\* They are the least such set.
LEMMA AncestorsLeast ==
    ASSUME NEW graph, NEW seeds, NEW T, seeds \subseteq T, Closed(graph, T)
    PROVE  AncestorsIn(graph, seeds) \subseteq T
<1> DEFINE N == Cardinality(RoleIds)
<1>1. N \in Nat
  BY AncestorsWalk
<1>2. PICK w : /\ w = [n \in 0 .. N |-> IF n = 0 THEN seeds ELSE Climb(graph, w[n - 1])]
               /\ AncestorsIn(graph, seeds) = w[N]
  BY AncestorsWalk
<1> HIDE DEF N
<1> DEFINE M == {n \in Nat : n <= N => w[n] \subseteq T}
<1>3. 0 \in M
  BY <1>1, <1>2
<1>4. ASSUME NEW n \in Nat, n \in M PROVE n + 1 \in M
  <2> SUFFICES ASSUME n + 1 <= N PROVE w[n + 1] \subseteq T
    OBVIOUS
  <2>1. n + 1 \in 0 .. N /\ n + 1 # 0 /\ (n + 1) - 1 = n
    BY <1>1
  <2>2. w[n + 1] = Climb(graph, w[n])
    BY <1>2, <2>1
  <2>3. w[n] \subseteq T
    BY <1>1, <1>4
  <2> QED
    BY <2>2, <2>3 DEF Climb, Closed
<1>5. N \in M
  <2> HIDE DEF M
  <2> QED
    BY <1>1, <1>3, <1>4, SetInduction
<1> QED
  BY <1>1, <1>2, <1>5

-----------------------------------------------------------------------------
Acyclic(graph) == \A r \in RoleIds : r \notin AncestorsIn(graph, graph[r])

\* More seeds have more ancestors.
LEMMA AncestorsMonotone ==
    ASSUME NEW graph \in Graph, NEW S \in SUBSET RoleIds, NEW T \in SUBSET S
    PROVE  AncestorsIn(graph, T) \subseteq AncestorsIn(graph, S)
<1>1. S \subseteq AncestorsIn(graph, S) /\ Closed(graph, AncestorsIn(graph, S))
  BY AncestorsClosed
<1> QED
  BY <1>1, AncestorsLeast

\* A change of one role's parents is seen by those only who reach that role.
LEMMA AncestorsUntouched ==
    ASSUME NEW graph \in Graph, NEW other \in Graph, NEW role,
           \A r \in RoleIds \ {role} : other[r] = graph[r],
           NEW seeds \in SUBSET RoleIds, role \notin AncestorsIn(graph, seeds)
    PROVE  AncestorsIn(other, seeds) = AncestorsIn(graph, seeds)
<1> DEFINE A == AncestorsIn(graph, seeds)
           B == AncestorsIn(other, seeds)
<1>1. seeds \subseteq A /\ A \subseteq RoleIds /\ Closed(graph, A)
  BY AncestorsClosed
<1>2. seeds \subseteq B /\ B \subseteq RoleIds /\ Closed(other, B)
  BY AncestorsClosed
<1>3. B \subseteq A
  <2>1. Closed(other, A)
    BY <1>1 DEF Closed
  <2> QED
    BY <1>1, <2>1, AncestorsLeast
<1>4. A \subseteq B
  <2>1. Closed(graph, B)
    BY <1>2, <1>3 DEF Closed
  <2> QED
    BY <1>2, <2>1, AncestorsLeast
<1> QED
  BY <1>3, <1>4

\* The cycle guard is sound: parents that do not reach the role may be given to it.
LEMMA GuardSound ==
    ASSUME NEW graph \in Graph, Acyclic(graph), NEW role \in RoleIds,
           NEW parents \in SUBSET RoleIds, role \notin AncestorsIn(graph, parents)
    PROVE  Acyclic([graph EXCEPT ![role] = parents])
<1> DEFINE other == [graph EXCEPT ![role] = parents]
           A == AncestorsIn(graph, parents)
<1>1. other \in Graph /\ other[role] = parents
  BY DEF Graph
<1>2. \A r \in RoleIds \ {role} : other[r] = graph[r]
  BY DEF Graph
<1>3. parents \subseteq A /\ A \subseteq RoleIds /\ Closed(graph, A)
  BY AncestorsClosed
<1> HIDE DEF other
<1>4. Closed(other, A)
  BY <1>2, <1>3 DEF Closed
<1>5. ASSUME NEW r \in RoleIds PROVE r \notin AncestorsIn(other, other[r])
  <2>1. CASE r = role
    BY <1>1, <1>3, <1>4, <2>1, AncestorsLeast
  <2>2. CASE r # role
    <3> DEFINE B == AncestorsIn(graph, graph[r])
    <3>1. graph[r] \in SUBSET RoleIds
      BY DEF Graph
    <3>2. graph[r] \subseteq B /\ B \subseteq RoleIds /\ Closed(graph, B) /\ r \notin B
      BY <3>1, AncestorsClosed DEF Acyclic
    <3>3. CASE role \notin B
      BY <1>1, <1>2, <2>2, <3>1, <3>2, <3>3, AncestorsUntouched
    <3>4. CASE role \in B
      <4>1. Closed(other, A \cup B)
        BY <1>1, <1>2, <1>3, <3>2 DEF Closed
      <4>2. AncestorsIn(other, other[r]) \subseteq A \cup B
        BY <1>2, <2>2, <3>2, <4>1, AncestorsLeast
      <4>3. r \notin A
        <5> SUFFICES ASSUME r \in A PROVE role \in A
          OBVIOUS
        <5>1. B \subseteq A
          BY <1>3, AncestorsLeast DEF Closed
        <5> QED
          BY <3>4, <5>1
      <4> QED
        BY <3>2, <4>2, <4>3
    <3> QED
      BY <3>3, <3>4
  <2> QED
    BY <2>1, <2>2
<1> QED
  BY <1>5 DEF Acyclic, other

\* Taking parents away closes no cycle.
LEMMA AncestorsReduced ==
    ASSUME NEW graph \in Graph, NEW other \in Graph,
           \A r \in RoleIds : other[r] \subseteq graph[r],
           NEW S \in SUBSET RoleIds, NEW T \in SUBSET S
    PROVE  AncestorsIn(other, T) \subseteq AncestorsIn(graph, S)
<1>1. S \subseteq AncestorsIn(graph, S) /\ AncestorsIn(graph, S) \subseteq RoleIds
  BY AncestorsClosed
<1>2. Closed(other, AncestorsIn(graph, S))
  BY <1>1, AncestorsClosed DEF Closed
<1> QED
  BY <1>1, <1>2, AncestorsLeast

\* A role that nobody inherits and that is not a seed is not among the ancestors.
LEMMA UnreferencedApart ==
    ASSUME NEW graph \in Graph, NEW role, \A r \in RoleIds : role \notin graph[r],
           NEW seeds \in SUBSET RoleIds, role \notin seeds
    PROVE  role \notin AncestorsIn(graph, seeds)
<1>1. Closed(graph, RoleIds \ {role})
  BY DEF Closed, Graph
<1>2. seeds \subseteq RoleIds \ {role}
  OBVIOUS
<1> QED
  BY <1>1, <1>2, AncestorsLeast

-----------------------------------------------------------------------------
Edits == [pc : {"idle", "create", "read", "lock", "holders", "save", "revoke", "assign"},
          by : Managers \cup {"none"}, role : RoleIds \cup Members \cup {"none"},
          perms : (SUBSET Grants) \cup {Omitted}, parents : (SUBSET RoleIds) \cup {Omitted},
          row : SUBSET Grants, up : SUBSET RoleIds, hit : SUBSET Members, at : Nat]

RoleTypeOK ==
    /\ roles \subseteq RoleIds /\ unused \subseteq RoleIds
    /\ perms \in [RoleIds -> SUBSET Grants]
    /\ inherits \in Graph
    /\ holds \in [Members -> SUBSET RoleIds]
    /\ edit \in [Calls -> Edits]
    /\ inheritanceLock \in Calls \cup {Unlocked}
    /\ calls \in Nat /\ commits \in Nat
    /\ cached \in [Managers -> SUBSET Grants]

\* The steps of an update of a role.
Updating == {"read", "lock", "holders", "save"}

\* What the step a call has reached says of its role and of the lock.
ShapeAt(c) ==
    /\ edit[c].pc \in Updating \cup {"create"} => edit[c].role \in RoleIds
    /\ edit[c].pc = "assign" => edit[c].role \in Members /\ edit[c].parents \in SUBSET RoleIds
    /\ edit[c].pc = "lock" => edit[c].parents # Omitted
    /\ edit[c].pc \in {"holders", "save"} /\ edit[c].parents # Omitted
          => edit[c].up \subseteq edit[c].parents
    /\ inheritanceLock = c
          <=> edit[c].pc \in {"holders", "save"} /\ edit[c].parents # Omitted
Shape == \A c \in Calls : ShapeAt(c)

\* The fields of a call in progress, one by one.
LEMMA EditType ==
    ASSUME RoleTypeOK, NEW c \in Calls
    PROVE  /\ edit[c] \in Edits
           /\ edit[c].perms \ Omitted \in SUBSET Grants
           /\ edit[c].parents \ Omitted \in SUBSET RoleIds
           /\ edit[c].perms # Omitted => edit[c].perms \in SUBSET Grants
           /\ edit[c].parents # Omitted => edit[c].parents \in SUBSET RoleIds
           /\ edit[c].up \in SUBSET RoleIds /\ edit[c].row \in SUBSET Grants
<1>1. edit[c] \in Edits
  BY DEF RoleTypeOK
<1>2. /\ edit[c].perms \in (SUBSET Grants) \cup {Omitted}
      /\ edit[c].parents \in (SUBSET RoleIds) \cup {Omitted}
      /\ edit[c].up \in SUBSET RoleIds /\ edit[c].row \in SUBSET Grants
  BY <1>1 DEF Edits
<1> QED
  BY <1>1, <1>2

\* What a step of a call writes into its record, and that the call is over.
LEMMA NoEditType == NoEdit \in Edits
BY DEF NoEdit, Edits

LEMMA EditStep ==
    ASSUME NEW e \in Edits, NEW pc \in {"holders", "save", "lock", "revoke"},
           NEW row \in SUBSET Grants, NEW up \in SUBSET RoleIds,
           NEW hit \in SUBSET Members, NEW at \in Nat
    PROVE  /\ [e EXCEPT !.pc = pc] \in Edits
           /\ [e EXCEPT !.pc = pc, !.row = row, !.up = up] \in Edits
           /\ [e EXCEPT !.pc = pc, !.up = up] \in Edits
           /\ [e EXCEPT !.pc = pc, !.at = at, !.hit = hit] \in Edits
           /\ [e EXCEPT !.pc = pc, !.hit = hit, !.at = at] \in Edits
<1>1. [e EXCEPT !.pc = pc] \in Edits
  BY DEF Edits
<1>2. [e EXCEPT !.pc = pc, !.row = row, !.up = up] \in Edits
  BY DEF Edits
<1>3. [e EXCEPT !.pc = pc, !.up = up] \in Edits
  BY DEF Edits
<1>4. [e EXCEPT !.pc = pc, !.at = at, !.hit = hit] \in Edits
  BY DEF Edits
<1>5. [e EXCEPT !.pc = pc, !.hit = hit, !.at = at] \in Edits
  BY DEF Edits
<1> QED
  BY <1>1, <1>2, <1>3, <1>4, <1>5

LEMMA StartType ==
    ASSUME RoleTypeOK, NEW c \in Calls, NEW pc \in {"create", "read", "assign"},
           NEW u \in Managers, NEW r \in RoleIds \cup Members,
           NEW ps \in (SUBSET Grants) \cup {Omitted}, NEW up \in (SUBSET RoleIds) \cup {Omitted},
           Start(c, pc, u, r, ps, up)
    PROVE  RoleTypeOK'
<1>1. [NoEdit EXCEPT !.pc = pc, !.by = u, !.role = r, !.perms = ps, !.parents = up] \in Edits
  BY DEF NoEdit, Edits
<1> QED
  BY <1>1, RoleAssumption DEF Start, RoleTypeOK, graphRest, Graph

\* What a user may do is a set of permissions.
LEMMA PermissionsType ==
    ASSUME RoleTypeOK, NEW u \in Members
    PROVE  PermissionsOf(u) \in SUBSET Grants
<1>1. Ancestors(holds[u]) \subseteq RoleIds
  BY AncestorsClosed DEF RoleTypeOK, Ancestors
<1> QED
  BY <1>1 DEF RoleTypeOK, PermissionsOf, EffectivePermissions

\* Every step keeps every variable in its type.
LEMMA RoleTypeStep ==
    ASSUME RoleTypeOK, Shape, [RoleNext]_roleVars
    PROVE  RoleTypeOK'
<1> USE NoEditType
<1>1. ASSUME NEW c \in Calls, NEW u \in Managers, NEW r \in RoleIds,
             NEW ps \in PermissionSets \cup {Omitted}, NEW up \in ParentSets \cup {Omitted},
             Author(c, u, r, ps, up)
      PROVE  RoleTypeOK'
  <2>1. /\ ps \in (SUBSET Grants) \cup {Omitted} /\ up \in (SUBSET RoleIds) \cup {Omitted}
        /\ (IF r \in roles THEN "read" ELSE "create") \in {"create", "read", "assign"}
    BY RoleAssumption
  <2> QED
    BY <1>1, <2>1, StartType DEF Author
<1>2. ASSUME NEW c \in Calls, NEW u \in Managers, NEW t \in Members, NEW rs \in ParentSets,
             AssignRoles(c, u, t, rs)
      PROVE  RoleTypeOK'
  <2>1. rs \in (SUBSET RoleIds) \cup {Omitted} /\ Omitted \in (SUBSET Grants) \cup {Omitted}
    BY RoleAssumption
  <2> QED
    BY <1>2, <2>1, StartType DEF AssignRoles
<1>3. ASSUME NEW c \in Calls, CreateRole(c) PROVE RoleTypeOK'
  <2>1. edit[c].role \in RoleIds
    BY <1>3 DEF CreateRole, Shape, ShapeAt
  <2>2. edit[c].perms \ Omitted \in SUBSET Grants /\ (edit[c].parents \ Omitted) \cap roles \in SUBSET RoleIds
    BY EditType
  <2> QED
    BY <1>3, <2>1, <2>2 DEF CreateRole, RoleTypeOK, Graph
<1>4. ASSUME NEW c \in Calls, FindOne(c) PROVE RoleTypeOK'
  <2>1. edit[c].role \in RoleIds
    BY <1>4 DEF FindOne, Shape, ShapeAt, Updating
  <2>2. perms[edit[c].role] \in SUBSET Grants /\ inherits[edit[c].role] \in SUBSET RoleIds
    BY <2>1 DEF RoleTypeOK, Graph
  <2>3. edit' \in [Calls -> Edits]
    <3> DEFINE step == IF edit[c].parents = Omitted THEN "holders" ELSE "lock"
               f == [edit[c] EXCEPT !.pc = step, !.row = perms[edit[c].role],
                                    !.up = inherits[edit[c].role]]
    <3>1. edit[c] \in Edits /\ step \in {"holders", "save", "lock", "revoke"}
      BY EditType
    <3>2. f \in Edits
      <4> HIDE DEF step
      <4> QED
        BY <2>2, <3>1, EditStep
    <3>3. edit' = [edit EXCEPT ![c] = IF edit[c].role \notin roles THEN NoEdit ELSE f]
      BY <1>4 DEF FindOne
    <3> HIDE DEF f
    <3> QED
      BY <3>2, <3>3 DEF RoleTypeOK
  <2> QED
    BY <1>4, <2>3 DEF FindOne, RoleTypeOK, graphRest
<1>5. ASSUME NEW c \in Calls, LockAndGuard(c) PROVE RoleTypeOK'
  <2>1. edit[c].parents \cap roles \in SUBSET RoleIds
    BY DEF RoleTypeOK
  <2>2. edit' \in [Calls -> Edits]
    <3> DEFINE f == [edit[c] EXCEPT !.pc = "holders", !.up = edit[c].parents \cap roles]
    <3>1. f \in Edits
      BY <2>1, EditType, EditStep
    <3>2. edit' = [edit EXCEPT ![c] = f] \/ edit' = [edit EXCEPT ![c] = NoEdit]
      BY <1>5 DEF LockAndGuard
    <3> HIDE DEF f
    <3> QED
      BY <3>1, <3>2 DEF RoleTypeOK
  <2> QED
    BY <1>5, <2>2 DEF LockAndGuard, RoleTypeOK, graphRest
<1>6. ASSUME NEW c \in Calls, FindHolders(c) PROVE RoleTypeOK'
  <2>1. DependentRoleHolders(edit[c].role) \in SUBSET Members
    BY DEF DependentRoleHolders
  <2>2. edit' \in [Calls -> Edits]
    <3> DEFINE f == [edit[c] EXCEPT !.pc = "save", !.at = commits,
                                    !.hit = DependentRoleHolders(edit[c].role)]
    <3>1. f \in Edits
      <4>1. edit[c] \in Edits /\ commits \in Nat
        BY EditType DEF RoleTypeOK
      <4> QED
        BY <2>1, <4>1, EditStep
    <3>2. edit' = [edit EXCEPT ![c] = f]
      BY <1>6 DEF FindHolders
    <3> HIDE DEF f
    <3> QED
      BY <3>1, <3>2 DEF RoleTypeOK
  <2> QED
    BY <1>6, <2>2 DEF FindHolders, RoleTypeOK, graphRest
<1>7. ASSUME NEW c \in Calls, SaveRole(c) PROVE RoleTypeOK'
  <2>1. edit[c].role \in RoleIds
    BY <1>7 DEF SaveRole, Shape, ShapeAt, Updating
  <2>2. edit' \in [Calls -> Edits]
    <3> DEFINE f == [edit[c] EXCEPT !.pc = "revoke"]
    <3>1. f \in Edits
      BY EditType, EditStep
    <3>2. edit' = [edit EXCEPT ![c] = f] \/ edit' = [edit EXCEPT ![c] = NoEdit]
      BY <1>7 DEF SaveRole
    <3> HIDE DEF f
    <3> QED
      BY <3>1, <3>2 DEF RoleTypeOK
  <2>3. (IF edit[c].perms = Omitted THEN edit[c].row ELSE edit[c].perms) \in SUBSET Grants
    BY EditType
  <2>4. edit[c].up \in SUBSET RoleIds
    BY EditType
  <2>5. inheritanceLock' \in Calls \cup {Unlocked}
    BY <1>7 DEF SaveRole, Unlocks, RoleTypeOK
  <2> QED
    BY <1>7, <2>1, <2>2, <2>3, <2>4, <2>5 DEF SaveRole, RoleTypeOK, graphRest, Graph
<1>8. ASSUME NEW c \in Calls, InvalidateUsers(c) PROVE RoleTypeOK'
  BY <1>8 DEF InvalidateUsers, RoleTypeOK, graphRest
<1>9. ASSUME NEW c \in Calls, ReplaceAssignments(c) PROVE RoleTypeOK'
  <2>1. edit[c].role \in Members /\ edit[c].parents \in SUBSET RoleIds
    BY <1>9 DEF ReplaceAssignments, Shape, ShapeAt
  <2>2. edit' \in [Calls -> Edits]
    <3> DEFINE f == [edit[c] EXCEPT !.pc = "revoke", !.hit = {edit[c].role}, !.at = commits]
    <3>1. f \in Edits
      <4>1. edit[c] \in Edits /\ {edit[c].role} \in SUBSET Members /\ commits \in Nat
        BY <2>1, EditType DEF RoleTypeOK
      <4> QED
        BY <4>1, EditStep
    <3>2. edit' = [edit EXCEPT ![c] = f] \/ edit' = [edit EXCEPT ![c] = NoEdit]
      BY <1>9 DEF ReplaceAssignments
    <3> HIDE DEF f
    <3> QED
      BY <3>1, <3>2 DEF RoleTypeOK
  <2> QED
    BY <1>9, <2>1, <2>2 DEF ReplaceAssignments, RoleTypeOK
<1>10. ASSUME NEW c \in Calls, RemoveRole(c) PROVE RoleTypeOK'
  BY <1>10 DEF RemoveRole, RoleTypeOK, Graph
<1>11. ASSUME NEW u \in Managers, LoadAuthState(u) PROVE RoleTypeOK'
  <2>1. PermissionsOf(u) \in SUBSET Grants
    BY PermissionsType, RoleAssumption
  <2> QED
    BY <1>11, <2>1 DEF LoadAuthState, RoleTypeOK, graphVars, Graph
<1>12. CASE UNCHANGED roleVars
  BY <1>12 DEF roleVars, graphVars, RoleTypeOK
<1> QED
  BY <1>1, <1>2, <1>3, <1>4, <1>5, <1>6, <1>7, <1>8, <1>9, <1>10, <1>11, <1>12 DEF RoleNext

-----------------------------------------------------------------------------
\* What a call was asked for stays in its record.
SameRequest(c) ==
    /\ edit'[c].role = edit[c].role
    /\ edit'[c].perms = edit[c].perms
    /\ edit'[c].parents = edit[c].parents
OthersKept(c) == \A d \in Calls \ {c} : edit'[d] = edit[d]

\* What each step does to the record of its call.
LEMMA StartEdit ==
    ASSUME RoleTypeOK, NEW c \in Calls, NEW pc, NEW u, NEW r, NEW ps, NEW up,
           Start(c, pc, u, r, ps, up)
    PROVE  /\ edit'[c].pc = pc /\ edit'[c].role = r /\ edit'[c].perms = ps
           /\ edit'[c].parents = up /\ edit'[c].up = {} /\ edit'[c].at = 0
           /\ edit[c].pc = "idle"
           /\ OthersKept(c)
BY DEF Start, NoEdit, OthersKept, RoleTypeOK

LEMMA EditSteps ==
    ASSUME RoleTypeOK, NEW c \in Calls
    PROVE  /\ CreateRole(c) \/ InvalidateUsers(c) => edit'[c] = NoEdit /\ OthersKept(c)
           /\ FindOne(c) =>
                /\ OthersKept(c)
                /\ \/ edit'[c] = NoEdit
                   \/ /\ SameRequest(c) /\ edit[c].role \in roles
                      /\ edit'[c].pc = IF edit[c].parents = Omitted THEN "holders" ELSE "lock"
                      /\ edit'[c].row = perms[edit[c].role] /\ edit'[c].up = inherits[edit[c].role]
                      /\ edit'[c].at = edit[c].at
           /\ LockAndGuard(c) =>
                /\ OthersKept(c)
                /\ \/ edit'[c] = NoEdit /\ inheritanceLock' = inheritanceLock
                   \/ /\ SameRequest(c) /\ edit'[c].pc = "holders" /\ ~ClosesCycle(c)
                      /\ edit'[c].up = edit[c].parents \cap roles
                      /\ edit'[c].at = edit[c].at /\ inheritanceLock' = c
           /\ FindHolders(c) =>
                /\ OthersKept(c) /\ SameRequest(c) /\ edit'[c].pc = "save"
                /\ edit'[c].up = edit[c].up /\ edit'[c].at = commits
                /\ edit'[c].hit = DependentRoleHolders(edit[c].role)
           /\ SaveRole(c) =>
                /\ OthersKept(c)
                /\ \/ edit'[c] = NoEdit
                   \/ /\ SameRequest(c) /\ edit'[c].pc = "revoke" /\ edit'[c].up = edit[c].up
                      /\ edit'[c].at = edit[c].at /\ edit'[c].hit = edit[c].hit
           /\ ReplaceAssignments(c) =>
                /\ OthersKept(c)
                /\ \/ edit'[c] = NoEdit
                   \/ /\ SameRequest(c) /\ edit'[c].pc = "revoke" /\ edit'[c].up = edit[c].up
                      /\ edit'[c].at = commits /\ edit'[c].hit = {edit[c].role}
<1> DEFINE e == edit[c]
<1>0. e \in Edits /\ edit \in [Calls -> Edits]
  BY DEF RoleTypeOK
<1>1. CreateRole(c) \/ InvalidateUsers(c) => edit'[c] = NoEdit /\ OthersKept(c)
  BY <1>0 DEF CreateRole, InvalidateUsers, OthersKept
<1>2. ASSUME NEW f, edit' = [edit EXCEPT ![c] = f] PROVE edit'[c] = f /\ OthersKept(c)
  BY <1>0, <1>2 DEF OthersKept
<1>3. ASSUME FindOne(c), edit'[c] # NoEdit
      PROVE  LET pc == IF e.parents = Omitted THEN "holders" ELSE "lock" IN
             /\ edit'[c] = [e EXCEPT !.pc = pc, !.row = perms[e.role], !.up = inherits[e.role]]
             /\ e.role \in roles
  BY <1>0, <1>3 DEF FindOne
<1>4. ASSUME LockAndGuard(c), edit'[c] # NoEdit
      PROVE  /\ edit'[c] = [e EXCEPT !.pc = "holders", !.up = e.parents \cap roles]
             /\ ~ClosesCycle(c) /\ inheritanceLock' = c
  BY <1>0, <1>4 DEF LockAndGuard
<1>5. ASSUME FindHolders(c)
      PROVE  edit'[c] = [e EXCEPT !.pc = "save", !.at = commits, !.hit = DependentRoleHolders(e.role)]
  BY <1>0, <1>5 DEF FindHolders
<1>6. ASSUME SaveRole(c), edit'[c] # NoEdit PROVE edit'[c] = [e EXCEPT !.pc = "revoke"]
  BY <1>0, <1>6 DEF SaveRole
<1>7. ASSUME ReplaceAssignments(c), edit'[c] # NoEdit
      PROVE  edit'[c] = [e EXCEPT !.pc = "revoke", !.hit = {e.role}, !.at = commits]
  BY <1>0, <1>7 DEF ReplaceAssignments
<1>8. FindOne(c) \/ LockAndGuard(c) \/ FindHolders(c) \/ SaveRole(c) \/ ReplaceAssignments(c)
        => OthersKept(c)
  BY <1>0 DEF FindOne, LockAndGuard, FindHolders, SaveRole, ReplaceAssignments, OthersKept
<1>9. LockAndGuard(c) /\ edit'[c] = NoEdit => inheritanceLock' = inheritanceLock
  <2> DEFINE f == [e EXCEPT !.pc = "holders", !.up = e.parents \cap roles]
  <2>1. f.pc = "holders" /\ NoEdit.pc = "idle"
    BY <1>0 DEF NoEdit, Edits
  <2> SUFFICES ASSUME LockAndGuard(c), edit'[c] = NoEdit, ~ClosesCycle(c) PROVE FALSE
    BY DEF LockAndGuard
  <2>2. edit' = [edit EXCEPT ![c] = f]
    BY DEF LockAndGuard
  <2> HIDE DEF f
  <2>3. edit'[c] = f
    BY <1>2, <2>2
  <2> QED
    BY <2>1, <2>3
<1>10. FindOne(c) /\ edit'[c] # NoEdit =>
         /\ SameRequest(c) /\ e.role \in roles
         /\ edit'[c].pc = IF e.parents = Omitted THEN "holders" ELSE "lock"
         /\ edit'[c].row = perms[e.role] /\ edit'[c].up = inherits[e.role] /\ edit'[c].at = e.at
  BY <1>0, <1>3 DEF SameRequest, Edits
<1>11. LockAndGuard(c) /\ edit'[c] # NoEdit =>
         /\ SameRequest(c) /\ edit'[c].pc = "holders" /\ ~ClosesCycle(c)
         /\ edit'[c].up = e.parents \cap roles /\ edit'[c].at = e.at /\ inheritanceLock' = c
  BY <1>0, <1>4 DEF SameRequest, Edits
<1>12. FindHolders(c) =>
         /\ SameRequest(c) /\ edit'[c].pc = "save" /\ edit'[c].up = e.up
         /\ edit'[c].at = commits /\ edit'[c].hit = DependentRoleHolders(e.role)
  BY <1>0, <1>5 DEF SameRequest, Edits
<1>13. SaveRole(c) /\ edit'[c] # NoEdit =>
         /\ SameRequest(c) /\ edit'[c].pc = "revoke" /\ edit'[c].up = e.up
         /\ edit'[c].at = e.at /\ edit'[c].hit = e.hit
  BY <1>0, <1>6 DEF SameRequest, Edits
<1>14. ReplaceAssignments(c) /\ edit'[c] # NoEdit =>
         /\ SameRequest(c) /\ edit'[c].pc = "revoke" /\ edit'[c].up = e.up
         /\ edit'[c].at = commits /\ edit'[c].hit = {e.role}
  BY <1>0, <1>7 DEF SameRequest, Edits
<1> QED
  BY <1>1, <1>8, <1>9, <1>10, <1>11, <1>12, <1>13, <1>14

-----------------------------------------------------------------------------
\* A step of one call keeps what is known of the others when it leaves their records
\* and their hold on the lock alone.
LEMMA ShapeOthers ==
    ASSUME Shape, NEW c \in Calls, OthersKept(c), ShapeAt(c)',
           \A d \in Calls \ {c} : inheritanceLock' = d <=> inheritanceLock = d
    PROVE  Shape'
<1>1. ASSUME NEW d \in Calls \ {c} PROVE ShapeAt(d)'
  BY <1>1 DEF Shape, ShapeAt, OthersKept
<1> QED
  BY <1>1 DEF Shape

LEMMA ShapeStep ==
    ASSUME RoleTypeOK, Shape, [RoleNext]_roleVars
    PROVE  Shape'
<1>0. ASSUME NEW c \in Calls, edit'[c].pc \in {"idle", "revoke"}, edit[c].pc \in {"idle", "create", "read", "revoke", "assign"},
             OthersKept(c), inheritanceLock' = inheritanceLock
      PROVE  Shape'
  <2>1. ShapeAt(c)'
    BY <1>0 DEF Shape, ShapeAt, Updating
  <2> QED
    BY <1>0, <2>1, ShapeOthers
<1>1. ASSUME NEW c \in Calls, NEW u \in Managers, NEW r \in RoleIds,
             NEW ps \in PermissionSets \cup {Omitted}, NEW up \in ParentSets \cup {Omitted},
             Author(c, u, r, ps, up)
      PROVE  Shape'
  <2> DEFINE pc == IF r \in roles THEN "read" ELSE "create"
  <2>1. Start(c, pc, u, r, ps, up) /\ pc \in {"read", "create"}
    BY <1>1 DEF Author
  <2> HIDE DEF pc
  <2>2. edit'[c].pc = pc /\ edit'[c].role = r /\ edit[c].pc = "idle" /\ OthersKept(c)
    BY <2>1, StartEdit
  <2>3. inheritanceLock' = inheritanceLock
    BY <2>1 DEF Start
  <2>4. ShapeAt(c)'
    BY <2>1, <2>2, <2>3 DEF Shape, ShapeAt, Updating
  <2> QED
    BY <2>2, <2>3, <2>4, ShapeOthers
<1>2. ASSUME NEW c \in Calls, NEW u \in Managers, NEW t \in Members, NEW rs \in ParentSets,
             AssignRoles(c, u, t, rs)
      PROVE  Shape'
  <2>1. Start(c, "assign", u, t, Omitted, rs)
    BY <1>2 DEF AssignRoles
  <2>2. /\ edit'[c].pc = "assign" /\ edit'[c].role = t /\ edit'[c].parents = rs
        /\ edit[c].pc = "idle" /\ OthersKept(c)
    BY <2>1, StartEdit
  <2>3. inheritanceLock' = inheritanceLock
    BY <2>1 DEF Start
  <2>4. ShapeAt(c)'
    BY <2>2, <2>3, RoleAssumption DEF Shape, ShapeAt, Updating
  <2> QED
    BY <2>2, <2>3, <2>4, ShapeOthers
<1>3. ASSUME NEW c \in Calls, CreateRole(c) \/ InvalidateUsers(c) PROVE Shape'
  BY <1>0, <1>3, EditSteps DEF CreateRole, InvalidateUsers, NoEdit
<1>4. ASSUME NEW c \in Calls, FindOne(c) PROVE Shape'
  <2>1. edit[c].pc = "read" /\ inheritanceLock' = inheritanceLock
    BY <1>4 DEF FindOne
  <2>2. CASE edit'[c] = NoEdit
    BY <1>0, <1>4, <2>1, <2>2, EditSteps DEF NoEdit
  <2>3. CASE edit'[c] # NoEdit
    <3>1. /\ OthersKept(c) /\ SameRequest(c)
          /\ edit'[c].pc = IF edit[c].parents = Omitted THEN "holders" ELSE "lock"
      BY <1>4, <2>3, EditSteps
    <3>2. ShapeAt(c)'
      BY <2>1, <3>1 DEF Shape, ShapeAt, Updating, SameRequest
    <3> QED
      BY <2>1, <3>1, <3>2, ShapeOthers
  <2> QED
    BY <2>2, <2>3
<1>5. ASSUME NEW c \in Calls, LockAndGuard(c) PROVE Shape'
  <2>1. edit[c].pc = "lock" /\ inheritanceLock = Unlocked /\ Unlocked \notin Calls
    BY <1>5, RoleAssumption DEF LockAndGuard, Unlocked
  <2>2. CASE edit'[c] = NoEdit /\ inheritanceLock' = inheritanceLock
    <3>1. ShapeAt(c)'
      BY <2>1, <2>2 DEF ShapeAt, NoEdit, Updating
    <3> QED
      BY <1>5, <2>2, <3>1, ShapeOthers, EditSteps
  <2>3. CASE /\ SameRequest(c) /\ edit'[c].pc = "holders"
             /\ edit'[c].up = edit[c].parents \cap roles /\ inheritanceLock' = c
    <3>1. ShapeAt(c)'
      BY <2>1, <2>3 DEF Shape, ShapeAt, Updating, SameRequest
    <3>2. \A d \in Calls \ {c} : inheritanceLock' = d <=> inheritanceLock = d
      BY <2>1, <2>3
    <3> QED
      BY <1>5, <3>1, <3>2, ShapeOthers, EditSteps
  <2> QED
    BY <1>5, <2>2, <2>3, EditSteps
<1>6. ASSUME NEW c \in Calls, FindHolders(c) PROVE Shape'
  <2>1. edit[c].pc = "holders" /\ inheritanceLock' = inheritanceLock
    BY <1>6 DEF FindHolders
  <2>2. OthersKept(c) /\ SameRequest(c) /\ edit'[c].pc = "save" /\ edit'[c].up = edit[c].up
    BY <1>6, EditSteps
  <2>3. ShapeAt(c)'
    BY <2>1, <2>2 DEF Shape, ShapeAt, Updating, SameRequest
  <2> QED
    BY <2>1, <2>2, <2>3, ShapeOthers
<1>7. ASSUME NEW c \in Calls, SaveRole(c) PROVE Shape'
  <2>1. inheritanceLock' = IF inheritanceLock = c THEN Unlocked ELSE inheritanceLock
    BY <1>7 DEF SaveRole, Unlocks
  <2>2. Unlocked \notin Calls
    BY RoleAssumption DEF Unlocked
  <2>3. OthersKept(c) /\ edit'[c].pc \in {"idle", "revoke"}
    BY <1>7, EditSteps DEF NoEdit
  <2>4. ShapeAt(c)'
    BY <2>1, <2>2, <2>3 DEF ShapeAt, Updating
  <2>5. \A d \in Calls \ {c} : inheritanceLock' = d <=> inheritanceLock = d
    BY <2>1, <2>2
  <2> QED
    BY <2>3, <2>4, <2>5, ShapeOthers
<1>8. ASSUME NEW c \in Calls, ReplaceAssignments(c) PROVE Shape'
  <2>1. edit[c].pc = "assign" /\ inheritanceLock' = inheritanceLock
    BY <1>8 DEF ReplaceAssignments
  <2>2. OthersKept(c) /\ edit'[c].pc \in {"idle", "revoke"}
    BY <1>8, EditSteps DEF NoEdit
  <2> QED
    BY <1>0, <2>1, <2>2
<1>9. ASSUME NEW c \in Calls, RemoveRole(c) PROVE Shape'
  BY <1>9 DEF RemoveRole, Shape, ShapeAt
<1>10. CASE UNCHANGED graphVars
  BY <1>10 DEF graphVars, Shape, ShapeAt
<1> QED
  BY <1>1, <1>2, <1>3, <1>4, <1>5, <1>6, <1>7, <1>8, <1>9, <1>10
  DEF RoleNext, LoadAuthState, roleVars

-----------------------------------------------------------------------------
\* The foreign keys: only rows are inherited and held, and what has no row has no
\* permissions and no parents.
ForeignKeys ==
    /\ \A x \in RoleIds : inherits[x] \subseteq roles
    /\ \A x \in RoleIds \ roles : inherits[x] = {} /\ perms[x] = {}

\* An id that is about to get its row is in no call but the one that creates it.
Unseen(r, D) ==
    /\ r \notin roles
    /\ \A d \in D : /\ r \notin edit[d].up
                    /\ edit[d].pc \in Updating \cup {"create"} => edit[d].role # r
FreshApart ==
    /\ \A r \in unused : Unseen(r, Calls)
    /\ \A c \in Calls : edit[c].pc = "create" => Unseen(edit[c].role, Calls \ {c})

LEMMA ForeignKeysStep ==
    ASSUME RoleTypeOK, Shape, ForeignKeys, [RoleNext]_roleVars
    PROVE  ForeignKeys'
<1>1. ASSUME NEW c \in Calls, CreateRole(c) PROVE ForeignKeys'
  <2>1. edit[c].role \in RoleIds
    BY <1>1 DEF CreateRole, Shape, ShapeAt
  <2> QED
    BY <1>1, <2>1 DEF CreateRole, ForeignKeys, RoleTypeOK, Graph
<1>2. ASSUME NEW c \in Calls, SaveRole(c) PROVE ForeignKeys'
  <2>1. CASE edit[c].up \subseteq roles
    <3>1. edit[c].role \in RoleIds
      BY <1>2 DEF SaveRole, Shape, ShapeAt, Updating
    <3>2. /\ roles' = roles \cup {edit[c].role}
          /\ inherits' = [inherits EXCEPT ![edit[c].role] = edit[c].up]
          /\ \A x \in RoleIds \ {edit[c].role} : perms'[x] = perms[x]
      BY <1>2, <2>1, <3>1 DEF SaveRole, RoleTypeOK
    <3> QED
      BY <2>1, <3>1, <3>2 DEF ForeignKeys, RoleTypeOK, Graph
  <2>2. CASE ~(edit[c].up \subseteq roles)
    BY <1>2, <2>2 DEF SaveRole, ForeignKeys, graphRest
  <2> QED
    BY <2>1, <2>2
<1>3. ASSUME NEW c \in Calls, RemoveRole(c) PROVE ForeignKeys'
  <2>1. PICK r \in roles : /\ \A x \in roles : r \notin inherits[x]
                           /\ roles' = roles \ {r}
                           /\ perms' = [perms EXCEPT ![r] = {}]
                           /\ inherits' = [inherits EXCEPT ![r] = {}]
    BY <1>3 DEF RemoveRole
  <2>2. \A x \in RoleIds : r \notin inherits[x]
    BY <2>1 DEF ForeignKeys
  <2> QED
    BY <2>1, <2>2 DEF ForeignKeys, RoleTypeOK, Graph
<1>4. (UNCHANGED <<roles, perms, inherits>>) => ForeignKeys'
  BY DEF ForeignKeys
<1> QED
  BY <1>1, <1>2, <1>3, <1>4 DEF RoleNext, Author, AssignRoles, Start, FindOne, LockAndGuard,
     FindHolders, InvalidateUsers, ReplaceAssignments, LoadAuthState, graphRest, graphVars,
     roleVars

\* A step of a call that has asked for its role already: it reads rows only, and the
\* only row it can add is its role.
LEMMA FreshOthers ==
    ASSUME FreshApart, NEW c \in Calls, OthersKept(c), unused' = unused,
           roles' \subseteq roles \cup {edit[c].role},
           edit[c].pc \in Updating \cup {"create"} \/ roles' = roles,
           edit'[c].pc # "create",
           edit'[c].up \subseteq edit[c].up \cup roles,
           edit'[c].pc \in Updating =>
                edit[c].pc \in Updating /\ edit'[c].role = edit[c].role
    PROVE  FreshApart'
<1>1. ASSUME NEW r \in unused PROVE Unseen(r, Calls)'
  <2>1. Unseen(r, Calls)
    BY DEF FreshApart
  <2> QED
    BY <2>1 DEF Unseen, OthersKept
<1>2. ASSUME NEW d \in Calls, edit'[d].pc = "create" PROVE Unseen(edit[d].role, Calls \ {d})'
  <2>1. d # c /\ edit'[d] = edit[d]
    BY <1>2 DEF OthersKept
  <2>2. Unseen(edit[d].role, Calls \ {d})
    BY <1>2, <2>1 DEF FreshApart
  <2>3. edit[d].role \notin roles'
    BY <2>1, <2>2 DEF Unseen
  <2>4. ASSUME NEW x \in Calls \ {d}
        PROVE  /\ edit[d].role \notin edit'[x].up
               /\ edit'[x].pc \in Updating \cup {"create"} => edit'[x].role # edit[d].role
    BY <2>1, <2>2 DEF Unseen, OthersKept
  <2> QED
    BY <2>1, <2>3, <2>4 DEF Unseen
<1> QED
  BY <1>1, <1>2 DEF FreshApart

LEMMA FreshApartStep ==
    ASSUME RoleTypeOK, Shape, ForeignKeys, FreshApart, [RoleNext]_roleVars
    PROVE  FreshApart'
<1>1. ASSUME NEW c \in Calls, NEW u \in Managers, NEW r \in RoleIds,
             NEW ps \in PermissionSets \cup {Omitted}, NEW up \in ParentSets \cup {Omitted},
             Author(c, u, r, ps, up)
      PROVE  FreshApart'
  <2> DEFINE pc == IF r \in roles THEN "read" ELSE "create"
  <2>1. Start(c, pc, u, r, ps, up) /\ r \in roles \cup unused
    BY <1>1 DEF Author
  <2> HIDE DEF pc
  <2>2. /\ edit'[c].pc = pc /\ edit'[c].role = r /\ edit'[c].up = {}
        /\ edit[c].pc = "idle" /\ OthersKept(c)
    BY <2>1, StartEdit
  <2>3. unused' = unused \ {r} /\ roles' = roles
    BY <2>1 DEF Start, graphRest
  <2>4. ASSUME NEW x \in unused' PROVE Unseen(x, Calls)'
    <3>1. Unseen(x, Calls) /\ x # r
      BY <2>3 DEF FreshApart
    <3> QED
      BY <2>2, <2>3, <3>1 DEF Unseen, OthersKept
  <2>5. ASSUME NEW d \in Calls, edit'[d].pc = "create" PROVE Unseen(edit[d].role, Calls \ {d})'
    <3>1. CASE d = c
      <4>1. r \in unused
        BY <2>1, <2>2, <2>5, <3>1 DEF pc
      <4>2. Unseen(r, Calls)
        BY <4>1 DEF FreshApart
      <4> QED
        BY <2>2, <2>3, <3>1, <4>2 DEF Unseen, OthersKept
    <3>2. CASE d # c
      <4>1. edit'[d] = edit[d]
        BY <2>2, <3>2 DEF OthersKept
      <4>2. Unseen(edit[d].role, Calls \ {d})
        BY <2>5, <4>1 DEF FreshApart
      <4>3. r # edit[d].role
        <5>1. r \in roles => r # edit[d].role
          BY <4>2 DEF Unseen
        <5>2. r \in unused => r # edit[d].role
          BY <2>5, <4>1 DEF FreshApart, Unseen
        <5> QED
          BY <2>1, <5>1, <5>2
      <4>4. ASSUME NEW x \in Calls \ {d}
            PROVE  /\ edit[d].role \notin edit'[x].up
                   /\ edit'[x].pc \in Updating \cup {"create"} => edit'[x].role # edit[d].role
        BY <2>2, <4>2, <4>3 DEF Unseen, OthersKept
      <4> QED
        BY <2>3, <4>1, <4>2, <4>4 DEF Unseen
    <3> QED
      BY <3>1, <3>2
  <2> QED
    BY <2>4, <2>5 DEF FreshApart
<1>2. ASSUME NEW c \in Calls, NEW u \in Managers, NEW t \in Members, NEW rs \in ParentSets,
             AssignRoles(c, u, t, rs)
      PROVE  FreshApart'
  <2>1. Start(c, "assign", u, t, Omitted, rs)
    BY <1>2 DEF AssignRoles
  <2>2. edit'[c].pc = "assign" /\ edit'[c].up = {} /\ edit[c].pc = "idle" /\ OthersKept(c)
    BY <2>1, StartEdit
  <2>3. unused' \subseteq unused /\ roles' = roles
    BY <2>1 DEF Start, graphRest
  <2>4. ASSUME NEW x \in unused' PROVE Unseen(x, Calls)'
    <3>1. Unseen(x, Calls)
      BY <2>3 DEF FreshApart
    <3> QED
      BY <2>2, <2>3, <3>1 DEF Unseen, OthersKept, Updating
  <2>5. ASSUME NEW d \in Calls, edit'[d].pc = "create" PROVE Unseen(edit[d].role, Calls \ {d})'
    <3>1. edit'[d] = edit[d]
      BY <2>2, <2>5 DEF OthersKept
    <3>2. Unseen(edit[d].role, Calls \ {d})
      BY <2>5, <3>1 DEF FreshApart
    <3> QED
      BY <2>2, <2>3, <3>1, <3>2 DEF Unseen, OthersKept, Updating
  <2> QED
    BY <2>4, <2>5 DEF FreshApart
<1>3. ASSUME NEW c \in Calls, CreateRole(c) PROVE FreshApart'
  <2>1. edit'[c].pc = "idle" /\ edit'[c].up = {} /\ OthersKept(c)
    BY <1>3, EditSteps DEF NoEdit
  <2> QED
    BY <1>3, <2>1, FreshOthers DEF CreateRole, Updating
<1>4. ASSUME NEW c \in Calls, InvalidateUsers(c) \/ ReplaceAssignments(c) PROVE FreshApart'
  <2>1. OthersKept(c) /\ edit'[c].pc \in {"idle", "revoke"} /\ edit'[c].up \subseteq edit[c].up
    BY <1>4, EditSteps DEF NoEdit
  <2> QED
    BY <1>4, <2>1, FreshOthers DEF InvalidateUsers, ReplaceAssignments, graphRest, Updating
<1>5. ASSUME NEW c \in Calls, FindOne(c) PROVE FreshApart'
  <2>1. edit[c].pc = "read" /\ edit[c].role \in RoleIds
    BY <1>5 DEF FindOne, Shape, ShapeAt, Updating
  <2>2. inherits[edit[c].role] \subseteq roles
    BY <2>1 DEF ForeignKeys
  <2>3. /\ OthersKept(c) /\ edit'[c].up \subseteq roles /\ edit'[c].pc # "create"
        /\ edit'[c].pc \in Updating => edit'[c].role = edit[c].role
    BY <1>5, <2>2, EditSteps DEF NoEdit, SameRequest, Updating
  <2> QED
    BY <1>5, <2>1, <2>3, FreshOthers DEF FindOne, graphRest, Updating
<1>6. ASSUME NEW c \in Calls, LockAndGuard(c) PROVE FreshApart'
  <2>1. edit[c].pc = "lock"
    BY <1>6 DEF LockAndGuard
  <2>2. /\ OthersKept(c) /\ edit'[c].up \subseteq roles /\ edit'[c].pc # "create"
        /\ edit'[c].pc \in Updating => edit'[c].role = edit[c].role
    BY <1>6, EditSteps DEF NoEdit, SameRequest, Updating
  <2> QED
    BY <1>6, <2>1, <2>2, FreshOthers DEF LockAndGuard, graphRest, Updating
<1>7. ASSUME NEW c \in Calls, FindHolders(c) PROVE FreshApart'
  <2>1. edit[c].pc = "holders" /\ OthersKept(c) /\ edit'[c].up = edit[c].up
        /\ edit'[c].pc = "save" /\ edit'[c].role = edit[c].role
    BY <1>7, EditSteps DEF FindHolders, SameRequest
  <2> QED
    BY <1>7, <2>1, FreshOthers DEF FindHolders, graphRest, Updating
<1>8. ASSUME NEW c \in Calls, SaveRole(c) PROVE FreshApart'
  <2>1. /\ edit[c].pc = "save" /\ OthersKept(c) /\ edit'[c].up \subseteq edit[c].up
        /\ edit'[c].pc \in {"idle", "revoke"}
    BY <1>8, EditSteps DEF SaveRole, NoEdit
  <2>2. roles' \subseteq roles \cup {edit[c].role} /\ unused' = unused
    BY <1>8 DEF SaveRole, graphRest
  <2> QED
    BY <2>1, <2>2, FreshOthers DEF Updating
<1>9. ASSUME NEW c \in Calls, RemoveRole(c) PROVE FreshApart'
  BY <1>9 DEF RemoveRole, FreshApart, Unseen
<1>10. CASE UNCHANGED graphVars
  BY <1>10 DEF graphVars, FreshApart, Unseen
<1> QED
  BY <1>1, <1>2, <1>3, <1>4, <1>5, <1>6, <1>7, <1>8, <1>9, <1>10
  DEF RoleNext, LoadAuthState, roleVars

-----------------------------------------------------------------------------
\* No cycle, and none is closed by the save of a call that has passed the guard: from
\* the guard to its save the call holds the lock, so no other call adds a parent.
CycleInv ==
    "inheritance" \notin writtenBack =>
        /\ Acyclic(inherits)
        /\ \A c \in Calls :
            edit[c].pc \in {"holders", "save"} /\ edit[c].parents # Omitted
                => edit[c].role \notin AncestorsIn(inherits, edit[c].up)

\* A step that leaves the inheritance alone and lets no call past the guard.
LEMMA CycleKept ==
    ASSUME CycleInv, NEW c \in Calls, OthersKept(c), UNCHANGED <<inherits, writtenBack>>,
           edit'[c].pc \in {"holders", "save"} /\ edit'[c].parents # Omitted
             => edit'[c].role \notin AncestorsIn(inherits, edit'[c].up)
    PROVE  CycleInv'
<1>1. ASSUME NEW d \in Calls \ {c} PROVE edit'[d] = edit[d]
  BY DEF OthersKept
<1> QED
  BY <1>1 DEF CycleInv

LEMMA CycleStep ==
    ASSUME RoleTypeOK, Shape, ForeignKeys, FreshApart, CycleInv, [RoleNext]_roleVars
    PROVE  CycleInv'
<1>1. ASSUME NEW c \in Calls, NEW u \in Managers, NEW r \in RoleIds,
             NEW ps \in PermissionSets \cup {Omitted}, NEW up \in ParentSets \cup {Omitted},
             Author(c, u, r, ps, up)
      PROVE  CycleInv'
  <2> DEFINE pc == IF r \in roles THEN "read" ELSE "create"
  <2>1. Start(c, pc, u, r, ps, up) /\ pc \notin {"holders", "save"}
    BY <1>1 DEF Author
  <2> HIDE DEF pc
  <2>2. edit'[c].pc = pc /\ OthersKept(c)
    BY <2>1, StartEdit
  <2> QED
    BY <2>1, <2>2, CycleKept DEF Start, graphRest
<1>2. ASSUME NEW c \in Calls, NEW u \in Managers, NEW t \in Members, NEW rs \in ParentSets,
             AssignRoles(c, u, t, rs)
      PROVE  CycleInv'
  <2>1. Start(c, "assign", u, t, Omitted, rs)
    BY <1>2 DEF AssignRoles
  <2>2. edit'[c].pc = "assign" /\ OthersKept(c)
    BY <2>1, StartEdit
  <2> QED
    BY <2>1, <2>2, CycleKept DEF Start, graphRest
<1>3. ASSUME NEW c \in Calls, CreateRole(c) PROVE CycleInv'
  <2> DEFINE r == edit[c].role
             parents == (edit[c].parents \ Omitted) \cap roles
  <2>1. /\ r \in RoleIds /\ parents \in SUBSET RoleIds
        /\ r \notin roles /\ \A d \in Calls \ {c} : r \notin edit[d].up
    <3>1. r \in RoleIds /\ Unseen(r, Calls \ {c})
      BY <1>3 DEF CreateRole, Shape, ShapeAt, FreshApart
    <3> QED
      BY <3>1 DEF Unseen, RoleTypeOK
  <2>2. \A x \in RoleIds : r \notin inherits[x]
    BY <2>1 DEF ForeignKeys
  <2>3. r \notin AncestorsIn(inherits, parents)
    BY <2>1, <2>2, UnreferencedApart DEF RoleTypeOK
  <2>4. edit'[c].pc = "idle" /\ OthersKept(c)
    BY <1>3, EditSteps DEF NoEdit
  <2>5. inherits' = [inherits EXCEPT ![r] = parents] /\ writtenBack' = writtenBack
    BY <1>3 DEF CreateRole
  <2> SUFFICES ASSUME "inheritance" \notin writtenBack' PROVE CycleInv'
    BY DEF CycleInv
  <2>6. Acyclic(inherits) /\ inherits \in Graph
    BY <2>5 DEF CycleInv, RoleTypeOK
  <2> HIDE DEF r, parents
  <2>7. Acyclic(inherits')
    BY <2>1, <2>3, <2>5, <2>6, GuardSound
  <2>8. ASSUME NEW d \in Calls, edit'[d].pc \in {"holders", "save"}, edit'[d].parents # Omitted
        PROVE  edit'[d].role \notin AncestorsIn(inherits', edit'[d].up)
    <3>1. d \in Calls \ {c} /\ edit'[d] = edit[d] /\ edit[d].up \in SUBSET RoleIds
      BY <2>4, <2>8, EditType DEF OthersKept
    <3>2. r \notin AncestorsIn(inherits, edit[d].up)
      BY <2>1, <2>2, <2>6, <3>1, UnreferencedApart
    <3>3. inherits' \in Graph /\ \A x \in RoleIds \ {r} : inherits'[x] = inherits[x]
      BY <2>1, <2>5, <2>6 DEF Graph
    <3>4. AncestorsIn(inherits', edit[d].up) = AncestorsIn(inherits, edit[d].up)
      BY <2>6, <3>1, <3>2, <3>3, AncestorsUntouched
    <3> QED
      BY <2>5, <2>8, <3>1, <3>4 DEF CycleInv
  <2> QED
    BY <2>7, <2>8 DEF CycleInv
<1>4. ASSUME NEW c \in Calls, InvalidateUsers(c) \/ ReplaceAssignments(c) PROVE CycleInv'
  <2>1. OthersKept(c) /\ edit'[c].pc \in {"idle", "revoke"}
    BY <1>4, EditSteps DEF NoEdit
  <2> QED
    BY <1>4, <2>1, CycleKept DEF InvalidateUsers, ReplaceAssignments, graphRest
<1>5. ASSUME NEW c \in Calls, FindOne(c) PROVE CycleInv'
  <2>1. /\ OthersKept(c)
        /\ edit'[c].pc = "holders" => edit'[c].parents = Omitted
        /\ edit'[c].pc \in {"idle", "holders", "lock"}
    BY <1>5, EditSteps DEF NoEdit, SameRequest
  <2> QED
    BY <1>5, <2>1, CycleKept DEF FindOne, graphRest
<1>6. ASSUME NEW c \in Calls, LockAndGuard(c) PROVE CycleInv'
  <2>1. UNCHANGED <<inherits, writtenBack>> /\ edit[c].parents # Omitted
    BY <1>6 DEF LockAndGuard, graphRest, Shape, ShapeAt
  <2>2. CASE edit'[c] = NoEdit
    BY <1>6, <2>1, <2>2, CycleKept, EditSteps DEF NoEdit
  <2>3. CASE edit'[c] # NoEdit
    <3>1. /\ OthersKept(c) /\ SameRequest(c)
          /\ edit[c].role \notin AncestorsIn(inherits, edit[c].parents)
          /\ edit'[c].up \subseteq edit[c].parents
      BY <1>6, <2>3, EditSteps DEF ClosesCycle, Ancestors
    <3>2. edit[c].parents \in SUBSET RoleIds /\ inherits \in Graph
      BY <2>1, EditType DEF RoleTypeOK
    <3>3. AncestorsIn(inherits, edit'[c].up) \subseteq AncestorsIn(inherits, edit[c].parents)
      BY <3>1, <3>2, AncestorsMonotone
    <3> QED
      BY <2>1, <3>1, <3>3, CycleKept DEF SameRequest
  <2> QED
    BY <2>2, <2>3
<1>7. ASSUME NEW c \in Calls, FindHolders(c) PROVE CycleInv'
  <2>1. /\ edit[c].pc = "holders" /\ OthersKept(c) /\ SameRequest(c) /\ edit'[c].up = edit[c].up
        /\ UNCHANGED <<inherits, writtenBack>>
    BY <1>7, EditSteps DEF FindHolders, graphRest
  <2>2. \/ "inheritance" \in writtenBack
        \/ edit'[c].parents # Omitted => edit'[c].role \notin AncestorsIn(inherits, edit'[c].up)
    BY <2>1 DEF CycleInv, SameRequest
  <2>3. CASE "inheritance" \in writtenBack
    BY <2>1, <2>3 DEF CycleInv
  <2> QED
    BY <2>1, <2>2, <2>3, CycleKept
<1>8. ASSUME NEW c \in Calls, SaveRole(c) PROVE CycleInv'
  <2> DEFINE e == edit[c]
  <2>1. OthersKept(c) /\ edit'[c].pc \in {"idle", "revoke"} /\ e.pc = "save"
    BY <1>8, EditSteps DEF NoEdit, SaveRole
  <2>2. e.role \in RoleIds /\ e.up \in SUBSET RoleIds /\ inherits \in Graph
    BY <2>1, EditType DEF Shape, ShapeAt, Updating, RoleTypeOK
  <2>3. CASE ~(e.up \subseteq roles)
    BY <1>8, <2>1, <2>3, CycleKept DEF SaveRole, graphRest
  <2>4. CASE e.up \subseteq roles
    <3>1. /\ inherits' = [inherits EXCEPT ![e.role] = e.up]
          /\ writtenBack \subseteq writtenBack'
          /\ e.parents = Omitted /\ e.up # inherits[e.role] => "inheritance" \in writtenBack'
      BY <1>8, <2>4 DEF SaveRole
    <3> SUFFICES ASSUME "inheritance" \notin writtenBack' PROVE CycleInv'
      BY DEF CycleInv
    <3>2. "inheritance" \notin writtenBack
      BY <3>1
    <3>3. CASE e.parents = Omitted
      <4>1. inherits' = inherits
        BY <2>2, <3>1, <3>3 DEF Graph
      <4> QED
        BY <2>1, <3>2, <4>1 DEF CycleInv, OthersKept
    <3>4. CASE e.parents # Omitted
      <4>1. Acyclic(inherits) /\ e.role \notin AncestorsIn(inherits, e.up)
        BY <2>1, <3>2, <3>4 DEF CycleInv
      <4>2. Acyclic(inherits')
        BY <2>2, <3>1, <4>1, GuardSound
      <4>3. inheritanceLock = c
        BY <2>1, <3>4 DEF Shape, ShapeAt
      <4>4. ASSUME NEW d \in Calls, edit'[d].pc \in {"holders", "save"}, edit'[d].parents # Omitted
            PROVE  FALSE
        <5>1. d # c /\ edit'[d] = edit[d]
          BY <2>1, <4>4 DEF OthersKept
        <5>2. inheritanceLock = d
          BY <4>4, <5>1 DEF Shape, ShapeAt
        <5> QED
          BY <4>3, <5>1, <5>2
      <4> QED
        BY <4>2, <4>4 DEF CycleInv
    <3> QED
      BY <3>3, <3>4
  <2> QED
    BY <2>3, <2>4
<1>9. ASSUME NEW c \in Calls, RemoveRole(c) PROVE CycleInv'
  <2>1. PICK r \in roles : inherits' = [inherits EXCEPT ![r] = {}]
    BY <1>9 DEF RemoveRole
  <2>2. edit' = edit /\ writtenBack' = writtenBack /\ inherits \in Graph
    BY <1>9 DEF RemoveRole, RoleTypeOK
  <2>3. inherits' \in Graph /\ \A x \in RoleIds : inherits'[x] \subseteq inherits[x]
    BY <2>1, <2>2 DEF Graph
  <2> SUFFICES ASSUME "inheritance" \notin writtenBack PROVE CycleInv'
    BY <2>2 DEF CycleInv
  <2>4. ASSUME NEW x \in RoleIds PROVE x \notin AncestorsIn(inherits', inherits'[x])
    <3>1. inherits[x] \in SUBSET RoleIds /\ inherits'[x] \in SUBSET inherits[x]
      BY <2>2, <2>3 DEF Graph
    <3>2. AncestorsIn(inherits', inherits'[x]) \subseteq AncestorsIn(inherits, inherits[x])
      BY <2>2, <2>3, <3>1, AncestorsReduced
    <3> QED
      BY <3>2 DEF CycleInv, Acyclic
  <2>5. ASSUME NEW d \in Calls, edit[d].pc \in {"holders", "save"}, edit[d].parents # Omitted
        PROVE  edit[d].role \notin AncestorsIn(inherits', edit[d].up)
    <3>1. edit[d].up \in SUBSET RoleIds
      BY EditType
    <3>2. AncestorsIn(inherits', edit[d].up) \subseteq AncestorsIn(inherits, edit[d].up)
      BY <2>2, <2>3, <3>1, AncestorsReduced
    <3> QED
      BY <2>5, <3>2 DEF CycleInv
  <2> QED
    BY <2>2, <2>4, <2>5 DEF CycleInv, Acyclic
<1>10. CASE UNCHANGED graphVars
  BY <1>10 DEF graphVars, CycleInv
<1> QED
  BY <1>1, <1>2, <1>3, <1>4, <1>5, <1>6, <1>7, <1>8, <1>9, <1>10
  DEF RoleNext, LoadAuthState, roleVars

-----------------------------------------------------------------------------
\* The holders a call has read are still the holders when nothing was committed since.
HitInv ==
    \A c \in Calls :
        /\ edit[c].at <= commits
        /\ edit[c].pc = "save" /\ edit[c].at = commits
             => edit[c].hit = DependentRoleHolders(edit[c].role)

\* A commit makes every earlier read old.
LEMMA HitCommit ==
    ASSUME RoleTypeOK, HitInv, NEW c \in Calls, commits' = commits + 1, OthersKept(c),
           edit'[c].at \in 0 .. commits
    PROVE  HitInv'
<1>1. ASSUME NEW d \in Calls PROVE edit'[d].at \in 0 .. commits
  <2>1. edit[d].at \in Nat /\ edit[d].at <= commits /\ commits \in Nat
    BY EditType DEF HitInv, Edits, RoleTypeOK
  <2> QED
    BY <2>1 DEF OthersKept
<1> QED
  BY <1>1 DEF HitInv, RoleTypeOK

\* A step that commits nothing changes neither the graph nor the assignments.
LEMMA HitKept ==
    ASSUME HitInv, NEW c \in Calls, UNCHANGED <<commits, inherits, holds>>, OthersKept(c),
           edit'[c].at <= commits,
           edit'[c].pc # "save" \/ edit'[c].hit = DependentRoleHolders(edit'[c].role)
    PROVE  HitInv'
<1>1. ASSUME NEW r PROVE DependentRoleHolders(r)' = DependentRoleHolders(r)
  BY DEF DependentRoleHolders, Ancestors
<1>2. ASSUME NEW d \in Calls
      PROVE  /\ edit'[d].at <= commits
             /\ edit'[d].pc = "save" /\ edit'[d].at = commits
                  => edit'[d].hit = DependentRoleHolders(edit'[d].role)
  BY DEF HitInv, OthersKept
<1> QED
  BY <1>1, <1>2 DEF HitInv, DependentRoleHolders, Ancestors

LEMMA HitStep ==
    ASSUME RoleTypeOK, HitInv, [RoleNext]_roleVars
    PROVE  HitInv'
<1>0. commits \in Nat
  BY DEF RoleTypeOK
<1>1. ASSUME NEW c \in Calls, NEW pc \in {"read", "create", "assign"}, NEW u, NEW r, NEW ps, NEW up,
             Start(c, pc, u, r, ps, up)
      PROVE  HitInv'
  <2>1. edit'[c].pc # "save" /\ edit'[c].at = 0 /\ OthersKept(c)
    BY <1>1, StartEdit
  <2> QED
    BY <1>0, <1>1, <2>1, HitKept DEF Start, graphRest
<1>2. ASSUME NEW c \in Calls, CreateRole(c) PROVE HitInv'
  <2>1. OthersKept(c) /\ edit'[c] = NoEdit /\ commits' = commits + 1
    BY <1>2, EditSteps DEF CreateRole
  <2>2. edit'[c].at = 0
    BY <2>1 DEF NoEdit
  <2> QED
    BY <1>0, <2>1, <2>2, HitCommit
<1>3. ASSUME NEW c \in Calls, InvalidateUsers(c) PROVE HitInv'
  <2>1. OthersKept(c) /\ edit'[c].at = 0 /\ edit'[c].pc = "idle"
    BY <1>3, EditSteps DEF NoEdit
  <2> QED
    BY <1>0, <1>3, <2>1, HitKept DEF InvalidateUsers, graphRest
<1>4. ASSUME NEW c \in Calls, FindOne(c) \/ LockAndGuard(c) PROVE HitInv'
  <2>1. OthersKept(c) /\ edit'[c].pc # "save" /\ edit'[c].at \in {0, edit[c].at}
    BY <1>4, EditSteps DEF NoEdit
  <2>2. edit'[c].at <= commits
    BY <1>0, <2>1 DEF HitInv
  <2> QED
    BY <1>4, <2>1, <2>2, HitKept DEF FindOne, LockAndGuard, graphRest
<1>5. ASSUME NEW c \in Calls, FindHolders(c) PROVE HitInv'
  <2>1. /\ OthersKept(c) /\ edit'[c].at = commits
        /\ edit'[c].hit = DependentRoleHolders(edit'[c].role)
    BY <1>5, EditSteps DEF SameRequest
  <2> QED
    BY <1>0, <1>5, <2>1, HitKept DEF FindHolders, graphRest
<1>6. ASSUME NEW c \in Calls, SaveRole(c) PROVE HitInv'
  <2>1. OthersKept(c) /\ edit'[c].pc # "save" /\ edit'[c].at \in {0, edit[c].at}
    BY <1>6, EditSteps DEF NoEdit
  <2>2. edit[c].at \in Nat /\ edit[c].at <= commits
    BY EditType DEF HitInv, Edits
  <2>3. commits' = commits + 1 \/ UNCHANGED <<commits, inherits, holds>>
    BY <1>6 DEF SaveRole, graphRest
  <2>4. edit'[c].at \in 0 .. commits
    BY <1>0, <2>1, <2>2
  <2>5. commits' = commits + 1 => HitInv'
    BY <2>1, <2>4, HitCommit
  <2>6. (UNCHANGED <<commits, inherits, holds>>) => HitInv'
    BY <1>0, <2>1, <2>4, HitKept
  <2> QED
    BY <2>3, <2>5, <2>6
<1>7. ASSUME NEW c \in Calls, ReplaceAssignments(c) PROVE HitInv'
  <2>1. OthersKept(c) /\ edit'[c].pc # "save" /\ edit'[c].at \in {0, commits}
    BY <1>7, EditSteps DEF NoEdit
  <2>2. commits' = commits + 1 \/ UNCHANGED <<commits, inherits, holds>>
    BY <1>7 DEF ReplaceAssignments
  <2>3. commits' = commits + 1 => HitInv'
    BY <1>0, <2>1, HitCommit
  <2>4. (UNCHANGED <<commits, inherits, holds>>) => HitInv'
    BY <1>0, <2>1, HitKept
  <2> QED
    BY <2>2, <2>3, <2>4
<1>8. ASSUME NEW c \in Calls, RemoveRole(c) PROVE HitInv'
  <2>1. commits' = commits + 1 /\ OthersKept(c) /\ edit'[c] = edit[c] /\ edit[c] = NoEdit
    BY <1>8 DEF RemoveRole, OthersKept
  <2> QED
    BY <1>0, <2>1, HitCommit DEF NoEdit
<1>9. CASE UNCHANGED graphVars
  BY <1>9 DEF graphVars, HitInv, DependentRoleHolders, Ancestors
<1> QED
  BY <1>1, <1>2, <1>3, <1>4, <1>5, <1>6, <1>7, <1>8, <1>9
  DEF RoleNext, Author, AssignRoles, LoadAuthState, roleVars

-----------------------------------------------------------------------------
Held == AncestorsIn(FirstInherits, UNION {FirstHolds[u] : u \in Managers})
Ceiling == UNION {FirstPermissions[r] : r \in Held}

\* A set of roles that the managers may reach: it is closed under inheritance, its
\* permissions stay under the ceiling, and neither what the managers hold or are said to
\* hold by a tier of AuthService nor what a call of theirs is about to write leads out.
Within(G) ==
    /\ G \in SUBSET RoleIds /\ Closed(inherits, G)
    /\ \A r \in G : perms[r] \subseteq Ceiling
    /\ \A u \in Managers : holds[u] \subseteq G /\ cached[u] \subseteq Ceiling
    /\ \A c \in Calls : /\ edit[c].parents \ Omitted \subseteq G
                        /\ edit[c].perms \ Omitted \subseteq Ceiling
ConfinedInv == writtenBack = {} => \E G \in SUBSET RoleIds : Within(G)

\* What the managers may do is under the ceiling.
LEMMA PermissionsWithin ==
    ASSUME RoleTypeOK, NEW G \in SUBSET RoleIds, Within(G), NEW u \in Managers
    PROVE  PermissionsOf(u) \subseteq Ceiling
<1>1. AncestorsIn(inherits, holds[u]) \subseteq G
  BY AncestorsLeast DEF Within, RoleTypeOK
<1> QED
  BY <1>1 DEF PermissionsOf, EffectivePermissions, Ancestors, Within

\* What a manager may grant leads to roles under the ceiling, and they join the set.
LEMMA GrantWithin ==
    ASSUME RoleTypeOK, NEW G \in SUBSET RoleIds, Within(G), NEW u \in Managers,
           NEW S \in SUBSET RoleIds, NEW granted, CanGrant(u, granted),
           EffectivePermissions(S) \subseteq granted
    PROVE  /\ granted \subseteq Ceiling
           /\ \E H \in SUBSET RoleIds : S \subseteq H /\ Within(H)
<1> DEFINE A == AncestorsIn(inherits, S)
           H == G \cup A
<1>1. inherits \in Graph /\ perms \in [RoleIds -> SUBSET Grants]
  BY DEF RoleTypeOK
<1>2. S \subseteq A /\ A \subseteq RoleIds /\ Closed(inherits, A)
  BY <1>1, AncestorsClosed
<1>3. granted \subseteq Ceiling
  BY PermissionsWithin DEF Within, CanGrant
<1>4. \A r \in A : perms[r] \subseteq Ceiling
  BY <1>3 DEF EffectivePermissions, Ancestors
<1>5. H \in SUBSET RoleIds /\ S \subseteq H /\ Within(H)
  <2> HIDE DEF A
  <2> QED
    BY <1>2, <1>4 DEF Within, Closed
<1> HIDE DEF H
<1> QED
  BY <1>3, <1>5

\* A step that writes only what a call was granted stays within the set.
LEMMA WriteWithin ==
    ASSUME RoleTypeOK, RoleTypeOK', NEW G \in SUBSET RoleIds, Within(G),
           \A r \in RoleIds : perms'[r] \subseteq perms[r] \cup Ceiling,
           \A r \in RoleIds : inherits'[r] \subseteq inherits[r] \cup G,
           \A u \in Managers : holds'[u] \subseteq holds[u] \cup G, cached' = cached,
           \A c \in Calls : /\ edit'[c].parents \ Omitted \subseteq edit[c].parents \cup G
                            /\ edit'[c].perms \ Omitted \subseteq edit[c].perms \cup Ceiling
    PROVE  Within(G)'
<1>1. \A r \in G : perms'[r] \subseteq Ceiling
  BY DEF Within
<1>2. Closed(inherits', G)
  BY DEF Within, Closed
<1>3. \A u \in Managers : holds'[u] \subseteq G /\ cached'[u] \subseteq Ceiling
  BY DEF Within
<1>4. \A c \in Calls : /\ edit'[c].parents \ Omitted \subseteq G
                       /\ edit'[c].perms \ Omitted \subseteq Ceiling
  BY DEF Within
<1> QED
  BY <1>1, <1>2, <1>3, <1>4 DEF Within

\* What the steps after the check do to the record of their call.
RequestKept == \A c \in Calls : /\ edit'[c].parents \ Omitted \subseteq edit[c].parents
                                /\ edit'[c].perms \ Omitted \subseteq edit[c].perms

LEMMA StepsKeepRequest ==
    ASSUME RoleTypeOK, NEW c \in Calls,
           \/ CreateRole(c) \/ FindOne(c) \/ LockAndGuard(c) \/ FindHolders(c) \/ SaveRole(c)
           \/ InvalidateUsers(c) \/ ReplaceAssignments(c) \/ RemoveRole(c)
    PROVE  RequestKept
<1>1. ASSUME OthersKept(c), edit'[c] = NoEdit \/ SameRequest(c) PROVE RequestKept
  BY <1>1 DEF RequestKept, OthersKept, SameRequest, NoEdit
<1>2. ASSUME RemoveRole(c) PROVE RequestKept
  BY <1>2 DEF RemoveRole, RequestKept
<1>3. ~RemoveRole(c) => OthersKept(c) /\ (edit'[c] = NoEdit \/ SameRequest(c))
  BY EditSteps
<1> QED
  BY <1>1, <1>2, <1>3

LEMMA ConfinedStep ==
    ASSUME RoleTypeOK, RoleTypeOK', Shape, ConfinedInv, [RoleNext]_roleVars
    PROVE  ConfinedInv'
<1> SUFFICES ASSUME writtenBack' = {} PROVE \E H \in SUBSET RoleIds : Within(H)'
  BY DEF ConfinedInv
<1>1. writtenBack \subseteq writtenBack'
  BY DEF RoleNext, roleVars, Author, AssignRoles, Start, CreateRole, FindOne, LockAndGuard,
     FindHolders, SaveRole, InvalidateUsers, ReplaceAssignments, RemoveRole, LoadAuthState,
     graphRest, graphVars
<1>2. PICK G \in SUBSET RoleIds : Within(G)
  BY <1>1 DEF ConfinedInv
<1>3. ASSUME NEW c \in Calls, NEW pc \in {"read", "create", "assign"}, NEW u \in Managers, NEW r,
             NEW ps, NEW up, Start(c, pc, u, r, ps, up), up \ Omitted \in SUBSET RoleIds,
             NEW granted, CanGrant(u, granted),
             EffectivePermissions(up \ Omitted) \subseteq granted, ps \ Omitted \subseteq granted
      PROVE  \E H \in SUBSET RoleIds : Within(H)'
  <2>0. granted \subseteq Ceiling
    BY <1>2, <1>3, GrantWithin
  <2>1. PICK H \in SUBSET RoleIds : up \ Omitted \subseteq H /\ Within(H)
    BY <1>2, <1>3, GrantWithin
  <2>2. edit'[c].perms = ps /\ edit'[c].parents = up /\ OthersKept(c)
    BY <1>3, StartEdit
  <2>3. UNCHANGED <<perms, inherits, holds, cached>>
    BY <1>3 DEF Start, graphRest
  <2>4. \A d \in Calls : /\ edit'[d].parents \ Omitted \subseteq edit[d].parents \cup H
                         /\ edit'[d].perms \ Omitted \subseteq edit[d].perms \cup Ceiling
    BY <1>3, <2>0, <2>1, <2>2 DEF OthersKept
  <2>5. Within(H)'
    BY <2>1, <2>3, <2>4, WriteWithin
  <2> QED
    BY <2>1, <2>5
<1>4. ASSUME NEW c \in Calls, NEW u \in Managers, NEW r \in RoleIds,
             NEW ps \in PermissionSets \cup {Omitted}, NEW up \in ParentSets \cup {Omitted},
             Author(c, u, r, ps, up)
      PROVE  \E H \in SUBSET RoleIds : Within(H)'
  <2> DEFINE pc == IF r \in roles THEN "read" ELSE "create"
  <2>1. /\ Start(c, pc, u, r, ps, up) /\ pc \in {"read", "create", "assign"}
        /\ CanGrant(u, GrantedPermissions(ps, up))
        /\ EffectivePermissions(up \ Omitted) \subseteq GrantedPermissions(ps, up)
        /\ ps \ Omitted \subseteq GrantedPermissions(ps, up)
    BY <1>4 DEF Author, GrantedPermissions
  <2> HIDE DEF pc
  <2>2. up \ Omitted \in SUBSET RoleIds
    BY RoleAssumption
  <2> QED
    BY <1>3, <2>1, <2>2
<1>5. ASSUME NEW c \in Calls, NEW u \in Managers, NEW t \in Members, NEW rs \in ParentSets,
             AssignRoles(c, u, t, rs)
      PROVE  \E H \in SUBSET RoleIds : Within(H)'
  <2>1. Start(c, "assign", u, t, Omitted, rs) /\ CanGrant(u, EffectivePermissions(rs))
    BY <1>5 DEF AssignRoles
  <2>2. rs \ Omitted = rs /\ rs \in SUBSET RoleIds /\ Omitted \ Omitted = {}
    BY RoleAssumption DEF Omitted
  <2> QED
    BY <1>3, <2>1, <2>2
<1>6. ASSUME NEW c \in Calls, CreateRole(c) PROVE Within(G)'
  <2>1. RequestKept /\ edit[c].role \in RoleIds /\ UNCHANGED <<holds, cached>>
    BY <1>6, StepsKeepRequest DEF CreateRole, Shape, ShapeAt
  <2>2. edit[c].parents \ Omitted \subseteq G /\ edit[c].perms \ Omitted \subseteq Ceiling
    BY <1>2 DEF Within
  <2>3. \A r \in RoleIds : perms'[r] \subseteq perms[r] \cup Ceiling
    BY <1>6, <2>1, <2>2 DEF CreateRole, RoleTypeOK
  <2>4. \A r \in RoleIds : inherits'[r] \subseteq inherits[r] \cup G
    BY <1>6, <2>1, <2>2 DEF CreateRole, RoleTypeOK, Graph
  <2> QED
    BY <1>2, <2>1, <2>3, <2>4, WriteWithin DEF RequestKept
<1>7. ASSUME NEW c \in Calls, SaveRole(c) PROVE Within(G)'
  <2> DEFINE e == edit[c]
  <2>1. RequestKept /\ e.role \in RoleIds
    BY <1>7, StepsKeepRequest DEF SaveRole, Shape, ShapeAt, Updating
  <2>2. CASE ~(e.up \subseteq roles)
    <3>1. UNCHANGED <<perms, inherits, holds, cached>>
      BY <1>7, <2>2 DEF SaveRole, graphRest
    <3> QED
      BY <1>2, <2>1, <3>1, WriteWithin DEF RequestKept
  <2>3. CASE e.up \subseteq roles
    <3> DEFINE ps == IF e.perms = Omitted THEN e.row ELSE e.perms
    <3>1. /\ perms' = [perms EXCEPT ![e.role] = ps]
          /\ inherits' = [inherits EXCEPT ![e.role] = e.up]
          /\ e.perms = Omitted => e.row = perms[e.role]
          /\ e.parents = Omitted => e.up = inherits[e.role]
          /\ UNCHANGED <<holds, cached>>
      BY <1>7, <2>3 DEF SaveRole
    <3>2. e.perms # Omitted => e.perms \subseteq Ceiling
      <4>1. e.perms # Omitted => e.perms \ Omitted = e.perms
        BY EditType, RoleAssumption DEF Omitted
      <4> QED
        BY <1>2, <4>1 DEF Within
    <3>3. e.parents # Omitted => e.up \subseteq G
      <4>1. e.parents # Omitted => e.parents \ Omitted = e.parents
        BY EditType, RoleAssumption DEF Omitted
      <4>2. e.parents # Omitted => e.up \subseteq e.parents
        BY <1>7 DEF SaveRole, Shape, ShapeAt
      <4> QED
        BY <1>2, <4>1, <4>2 DEF Within
    <3>4. ps \subseteq perms[e.role] \cup Ceiling /\ e.up \subseteq inherits[e.role] \cup G
      BY <3>1, <3>2, <3>3
    <3> HIDE DEF ps
    <3>5. \A r \in RoleIds : perms'[r] \subseteq perms[r] \cup Ceiling
      BY <2>1, <3>1, <3>4 DEF RoleTypeOK
    <3>6. \A r \in RoleIds : inherits'[r] \subseteq inherits[r] \cup G
      BY <2>1, <3>1, <3>4 DEF RoleTypeOK, Graph
    <3> QED
      BY <1>2, <2>1, <3>1, <3>5, <3>6, WriteWithin DEF RequestKept
  <2> QED
    BY <2>2, <2>3
<1>8. ASSUME NEW c \in Calls, ReplaceAssignments(c) PROVE Within(G)'
  <2>1. RequestKept /\ UNCHANGED <<perms, inherits, cached>> /\ edit[c].parents \in SUBSET RoleIds
    BY <1>8, StepsKeepRequest DEF ReplaceAssignments, Shape, ShapeAt
  <2>2. edit[c].parents \ Omitted = edit[c].parents
    BY <2>1, RoleAssumption DEF Omitted
  <2>3. edit[c].parents \subseteq G
    BY <1>2, <2>2 DEF Within
  <2>4. \A u \in Managers : holds'[u] \subseteq holds[u] \cup G
    BY <1>8, <2>3, RoleAssumption DEF ReplaceAssignments, RoleTypeOK
  <2> QED
    BY <1>2, <2>1, <2>4, WriteWithin DEF RequestKept
<1>9. ASSUME NEW c \in Calls, RemoveRole(c) PROVE Within(G)'
  <2>1. RequestKept /\ UNCHANGED <<holds, cached>>
    BY <1>9, StepsKeepRequest DEF RemoveRole
  <2>2. \A r \in RoleIds : perms'[r] \subseteq perms[r] /\ inherits'[r] \subseteq inherits[r]
    BY <1>9 DEF RemoveRole, RoleTypeOK, Graph
  <2> QED
    BY <1>2, <2>1, <2>2, WriteWithin DEF RequestKept
<1>10. ASSUME NEW c \in Calls,
              FindOne(c) \/ LockAndGuard(c) \/ FindHolders(c) \/ InvalidateUsers(c)
       PROVE  Within(G)'
  <2>1. RequestKept /\ UNCHANGED <<perms, inherits, holds, cached>>
    BY <1>10, StepsKeepRequest DEF FindOne, LockAndGuard, FindHolders, InvalidateUsers, graphRest
  <2> QED
    BY <1>2, <2>1, WriteWithin DEF RequestKept
<1>11. ASSUME NEW u \in Managers, LoadAuthState(u) PROVE Within(G)'
  <2>1. PermissionsOf(u) \subseteq Ceiling
    BY <1>2, PermissionsWithin
  <2>2. \A x \in Managers : cached'[x] \subseteq cached[x] \cup Ceiling
    BY <1>11, <2>1 DEF LoadAuthState, RoleTypeOK
  <2> QED
    BY <1>2, <1>11, <2>2 DEF LoadAuthState, graphVars, Within, Closed
<1>12. CASE UNCHANGED roleVars
  BY <1>2, <1>12 DEF roleVars, graphVars, Within, Closed
<1> QED
  BY <1>4, <1>5, <1>6, <1>7, <1>8, <1>9, <1>10, <1>11, <1>12 DEF RoleNext

-----------------------------------------------------------------------------
IInv == /\ RoleTypeOK /\ Shape /\ ForeignKeys /\ FreshApart
        /\ CycleInv /\ HitInv /\ ConfinedInv

LEMMA InitInv == RoleInit => IInv
<1> SUFFICES ASSUME RoleInit PROVE IInv
  OBVIOUS
<1>1. RoleTypeOK
  BY FirstGraph, RoleAssumption, NoEditType DEF RoleInit, RoleTypeOK, Graph
<1>2. \A c \in Calls : edit[c] = NoEdit
  BY DEF RoleInit
<1>3. Shape
  BY <1>2, RoleAssumption DEF RoleInit, Shape, ShapeAt, NoEdit, Updating, Unlocked
<1>4. ForeignKeys /\ FreshApart
  <2>1. ForeignKeys
    BY FirstGraph DEF RoleInit, ForeignKeys
  <2>2. FreshApart
    BY <1>2 DEF RoleInit, FreshApart, Unseen, NoEdit, Updating
  <2> QED
    BY <2>1, <2>2
<1>5. CycleInv
  BY <1>2, FirstGraph DEF RoleInit, CycleInv, Acyclic, NoEdit
<1>6. HitInv
  BY <1>2 DEF RoleInit, HitInv, NoEdit
<1>7. ConfinedInv
  <2> DEFINE seeds == UNION {FirstHolds[u] : u \in Managers}
  <2>1. seeds \in SUBSET RoleIds /\ FirstInherits \in Graph
    BY FirstGraph, RoleAssumption DEF Graph
  <2>2. seeds \subseteq Held /\ Held \in SUBSET RoleIds /\ Closed(FirstInherits, Held)
    BY <2>1, AncestorsClosed DEF Held
  <2>3. \A c \in Calls : edit[c].parents \ Omitted = {} /\ edit[c].perms \ Omitted = {}
    BY <1>2 DEF NoEdit
  <2>4. \A r \in Held : perms[r] \subseteq Ceiling
    BY DEF RoleInit, Ceiling
  <2>5. \A u \in Managers : holds[u] \subseteq Held /\ cached[u] \subseteq Ceiling
    BY <2>2 DEF RoleInit
  <2>6. Within(Held)
    BY <2>2, <2>3, <2>4, <2>5 DEF RoleInit, Within
  <2> QED
    BY <2>2, <2>6 DEF ConfinedInv
<1> QED
  BY <1>1, <1>3, <1>4, <1>5, <1>6, <1>7 DEF IInv

LEMMA NextInv == IInv /\ [RoleNext]_roleVars => IInv'
<1> SUFFICES ASSUME IInv, [RoleNext]_roleVars PROVE IInv'
  OBVIOUS
<1> USE DEF IInv
<1>1. RoleTypeOK' /\ Shape' /\ ForeignKeys' /\ FreshApart'
  BY RoleTypeStep, ShapeStep, ForeignKeysStep, FreshApartStep
<1>2. CycleInv' /\ HitInv'
  BY CycleStep, HitStep
<1>3. ConfinedInv'
  BY <1>1, ConfinedStep
<1> QED
  BY <1>1, <1>2, <1>3

\* The invariant the results below rest on.
THEOREM RolesInvariant == RoleSpec => []IInv
BY InitInv, NextInv, PTL DEF RoleSpec

\* The lock and the guard keep the inheritance acyclic for any number of roles and of
\* concurrent updates, but for a save that writes back an inheritance its payload left
\* out (roles.service.ts:323).
THEOREM InheritanceStaysAcyclic == RoleSpec => []NoInheritanceCycle
<1>1. IInv => NoInheritanceCycle
  BY DEF IInv, CycleInv, Acyclic, NoInheritanceCycle, Cyclic, Ancestors
<1> QED
  BY <1>1, RolesInvariant, PTL

\* However the checks and the saves of the managers' calls interleave, no manager gets a
\* permission that none of them could reach at the start (roles.service.ts:101).
THEOREM ManagersStayConfined == RoleSpec => []Confined
<1>1. IInv => Confined
  <2> SUFFICES ASSUME IInv, writtenBack = {}, NEW u \in Managers
               PROVE  PermissionsOf(u) \subseteq Ceiling
    BY DEF Confined, Ceiling, Held
  <2>1. PICK G \in SUBSET RoleIds : Within(G)
    BY DEF IInv, ConfinedInv
  <2> QED
    BY <2>1, PermissionsWithin DEF IInv
<1> QED
  BY <1>1, RolesInvariant, PTL

\* A change of a role's permissions or parents alters what its dependent holders may do,
\* and what nobody else may do.
LEMMA SaveReachesHolders ==
    ASSUME RoleTypeOK, Shape, HitInv, NEW c \in Calls, SaveRole(c),
           edit'[c].pc = "revoke", edit'[c].at = commits,
           NEW u \in Members, u \notin edit'[c].hit
    PROVE  PermissionsOf(u)' = PermissionsOf(u)
<1> DEFINE r == edit[c].role
<1>1. /\ edit[c].pc = "save" /\ edit[c].at = commits /\ edit'[c].hit = edit[c].hit
      /\ r \in RoleIds
  BY EditSteps DEF SaveRole, NoEdit, Shape, ShapeAt, Updating
<1>2. r \notin AncestorsIn(inherits, holds[u])
  BY <1>1 DEF HitInv, DependentRoleHolders, Ancestors
<1>3. /\ edit[c].up \in SUBSET RoleIds /\ inherits \in Graph /\ holds[u] \in SUBSET RoleIds
      /\ perms \in [RoleIds -> SUBSET Grants]
  BY EditType DEF RoleTypeOK
<1>4. /\ holds' = holds /\ inherits' \in Graph
      /\ \A x \in RoleIds \ {r} : inherits'[x] = inherits[x] /\ perms'[x] = perms[x]
  BY <1>1, <1>3 DEF SaveRole, graphRest, Graph
<1> HIDE DEF r
<1>5. AncestorsIn(inherits', holds[u]) = AncestorsIn(inherits, holds[u])
  BY <1>2, <1>3, <1>4, AncestorsUntouched
<1>6. AncestorsIn(inherits, holds[u]) \subseteq RoleIds
  BY <1>3, AncestorsClosed
<1>7. \A x \in AncestorsIn(inherits, holds[u]) : perms'[x] = perms[x]
  BY <1>2, <1>4, <1>6
<1> QED
  BY <1>4, <1>5, <1>7 DEF PermissionsOf, EffectivePermissions, Ancestors

\* The tokens a call goes on to revoke are those of every user its commit concerns,
\* whatever the roles, the users and the inheritance between them (roles.service.ts:349).
THEOREM RevocationReachesHolders == RoleSpec => RevocationCovers
<1>1. ASSUME IInv, [RoleNext]_roleVars, NEW c \in Calls, edit[c].pc # "revoke",
             edit'[c].pc = "revoke", edit'[c].at = commits, NEW u \in Members, u \notin edit'[c].hit
      PROVE  PermissionsOf(u)' = PermissionsOf(u)
  <2> USE DEF IInv
  <2>1. SaveRole(c) \/ ReplaceAssignments(c)
    <3>1. ASSUME NEW d \in Calls, NEW pc \in {"read", "create", "assign"}, NEW x, NEW r, NEW ps, NEW up,
                 Start(d, pc, x, r, ps, up)
          PROVE  FALSE
      BY <1>1, <3>1, StartEdit DEF OthersKept
    <3>2. ASSUME NEW d \in Calls, CreateRole(d) \/ FindOne(d) \/ LockAndGuard(d) \/ FindHolders(d)
                                   \/ InvalidateUsers(d)
          PROVE  FALSE
      BY <1>1, <3>2, EditSteps DEF OthersKept, NoEdit
    <3>3. ASSUME NEW d \in Calls, d # c, SaveRole(d) \/ ReplaceAssignments(d)
          PROVE  FALSE
      BY <1>1, <3>3, EditSteps DEF OthersKept
    <3>4. (\E d \in Calls : RemoveRole(d)) \/ UNCHANGED graphVars => edit' = edit
      BY DEF RemoveRole, graphVars
    <3> QED
      BY <1>1, <3>1, <3>2, <3>3, <3>4 DEF RoleNext, Author, AssignRoles, LoadAuthState, roleVars
  <2>2. CASE SaveRole(c)
    BY <1>1, <2>2, SaveReachesHolders
  <2>3. CASE ReplaceAssignments(c)
    <3>1. edit'[c].hit = {edit[c].role}
      BY <1>1, <2>3, EditSteps DEF NoEdit
    <3>2. holds'[u] = holds[u] /\ UNCHANGED <<perms, inherits>>
      BY <1>1, <2>3, <3>1 DEF ReplaceAssignments, RoleTypeOK
    <3> QED
      BY <3>2 DEF PermissionsOf, EffectivePermissions, Ancestors
  <2> QED
    BY <2>1, <2>2, <2>3
<1>2. IInv /\ [RoleNext]_roleVars =>
        \A c \in Calls :
            edit[c].pc # "revoke" /\ edit'[c].pc = "revoke" /\ edit'[c].at = commits =>
                \A u \in Members : PermissionsOf(u)' # PermissionsOf(u) => u \in edit'[c].hit
  BY <1>1
<1> QED
  BY <1>2, RolesInvariant, PTL DEF RoleSpec, RevocationCovers
=============================================================================
