------------------------------ MODULE Catalogs ------------------------------
(***************************************************************************)
(* The catalog of topics: a table shared by all tenants that an hourly     *)
(* cron fills from the Core API, the visibility a tenant gives its topics, *)
(* the answers cached under a version that every write replaces, and the   *)
(* page that shows one course and hides or shows its topics. One tenant;   *)
(* its course holds every topic. Each step of a request between two awaits *)
(* is an action.                                                           *)
(***************************************************************************)
EXTENDS Naturals, FiniteSets, Sequences

CONSTANTS CatalogTopics,   \* the topics the Core API may send
          FirstTopics,     \* the ones already synchronized
          BankTopics,      \* the topics of the question bank
          MaxCatalogCalls, \* requests, of the page and of the others, and cron runs
          MaxCatalogFaults,
          MaxCatalogClock  \* milliseconds the clock may show

ASSUME CatalogAssumption ==
  /\ IsFiniteSet(CatalogTopics) /\ FirstTopics \subseteq CatalogTopics
  /\ MaxCatalogCalls \in Nat /\ MaxCatalogFaults \in Nat
  /\ MaxCatalogClock \in Nat \ {0}

VARIABLES catalog,  \* public.topics, tenant_topic_visibility and the number of writes so far
          company,  \* is the tenant active?
          cached,   \* the cache: the version, 0 when missing, and the entries
          cron,     \* syncCatalogs: its step, the attempt, the lock and what it recorded
          overlap,  \* topic_id_space_reconciliation_state
          catalogPage,     \* the page and its store
          catalogCalls,
          catalogClock, catalogFaults,
          bumped    \* since the last invalidation: the writes it covered, the versions ever used,
                    \* and whether the version was lost, missed or used twice

serverVars == <<catalog, company, cached, cron, overlap>>
catalogVars == <<serverVars, catalogPage, catalogCalls, catalogClock, catalogFaults, bumped>>

Keys == {"courses", "search", "topics"}
NoEntry == [rev |-> 0, topics |-> {}, hidden |-> {}, outcome |-> "missing"]
NoCatalogCall == [kind |-> "done", topic |-> "none", value |-> FALSE, of |-> 0, step |-> "done",
           version |-> 0, floor |-> 0, answer |-> NoEntry]

CatalogInit ==
  /\ catalog = [topics |-> FirstTopics, hidden |-> {}, rev |-> 1]
  /\ company = TRUE
  /\ cached = [version |-> 0, entries |-> [k \in Keys \X (0 .. MaxCatalogClock) |-> NoEntry]]
  /\ cron = [step |-> "idle", attempt |-> 0, runs |-> 0, locked |-> FALSE, outcome |-> "none",
             version |-> 0]
  /\ overlap = "none"
  /\ catalogPage = [of |-> 0, topics |-> [t \in {} |-> TRUE], total |-> 0, active |-> 0,
             expanded |-> FALSE, loading |-> FALSE, pending |-> {}]
  /\ catalogCalls = << >> /\ catalogClock = 1 /\ catalogFaults = 0
  /\ bumped = [rev |-> 0, used |-> {}, lapsed |-> FALSE]

\* Send a request; the page remembers which list of courses it was sent from.
SendCall(kind, topic, value, of) ==
  /\ Len(catalogCalls) + cron.runs < MaxCatalogCalls
  /\ catalogCalls' = Append(catalogCalls,
       [NoCatalogCall EXCEPT !.kind = kind, !.topic = topic, !.value = value, !.of = of,
                             !.step = "sent"])

Advance(i, to) == catalogCalls' = [catalogCalls EXCEPT ![i] = to]
Fault == catalogFaults < MaxCatalogFaults /\ catalogFaults' = catalogFaults + 1

-----------------------------------------------------------------------------
(* The cached answers.                                                     *)

CacheKeyUnversioned(k, version) == <<k, 0>>
CacheKey(k, version) == <<k, version>>

\* getCacheVersion: a missing version and a read that fails are version 0.
GetCacheVersion(i) ==
  LET c == catalogCalls[i]
  IN /\ c.step = "sent" /\ c.kind \in Keys /\ company
     /\ \/ /\ Advance(i, [c EXCEPT !.step = "get", !.version = cached.version, !.floor = bumped.rev])
           /\ UNCHANGED <<catalogFaults, bumped>>
        \/ /\ Fault /\ cached.version # 0
           /\ Advance(i, [c EXCEPT !.step = "get"])
           /\ bumped' = [bumped EXCEPT !.lapsed = TRUE]
     /\ UNCHANGED <<serverVars, catalogPage, catalogClock>>

\* The rows the repository joins: topics with this tenant's visibility, and with the
\* courses what the last synchronization recorded.
CatalogRows(kind) ==
  [rev |-> catalog.rev, topics |-> catalog.topics, hidden |-> catalog.hidden,
   outcome |-> IF kind = "topics" THEN "none" ELSE cron.outcome]

\* getCourses, getCourseTopics: the entry of the key; the database when there is none
\* or it cannot be read.
ReadThrough(i) ==
  LET c == catalogCalls[i]
      entry == cached.entries[CacheKey(c.kind, c.version)]
  IN /\ c.step = "get"
     /\ \/ /\ entry # NoEntry
           /\ Advance(i, [c EXCEPT !.step = "answered", !.answer = entry])
           /\ UNCHANGED catalogFaults
        \/ /\ IF entry = NoEntry THEN UNCHANGED catalogFaults ELSE Fault
           /\ Advance(i, [c EXCEPT !.step = "fill", !.answer = CatalogRows(c.kind)])
     /\ UNCHANGED <<serverVars, catalogPage, catalogClock, bumped>>

FillCache(i) ==
  LET c == catalogCalls[i]
  IN /\ c.step = "fill"
     /\ Advance(i, [c EXCEPT !.step = "answered"])
     /\ \/ /\ cached' = [cached EXCEPT !.entries[CacheKey(c.kind, c.version)] = c.answer]
           /\ UNCHANGED catalogFaults
        \/ Fault /\ UNCHANGED cached
     /\ UNCHANGED <<catalog, company, cron, overlap, catalogPage, catalogClock, bumped>>

\* updateTopicVisibility, up to the commit of the upsert; 404 for an unknown topic.
UpdateTopicVisibility(i) ==
  LET c == catalogCalls[i]
  IN /\ c.step = "sent" /\ c.kind = "toggle" /\ company
     /\ IF c.topic \in catalog.topics
        THEN /\ catalog' = [catalog EXCEPT !.rev = @ + 1,
                  !.hidden = IF c.value THEN @ \ {c.topic} ELSE @ \cup {c.topic}]
             /\ Advance(i, [c EXCEPT !.step = "stamp"])
        ELSE /\ Advance(i, [c EXCEPT !.step = "refused"])
             /\ UNCHANGED catalog
     /\ UNCHANGED <<company, cached, cron, overlap, catalogPage, catalogClock, catalogFaults, bumped>>

\* bumpCacheVersion, its second half: the version read from the clock is written, and
\* a write that fails or times out may or may not have been made.
WriteVersion(stamp) ==
  \/ /\ cached' = [cached EXCEPT !.version = stamp]
     /\ bumped' = [rev |-> catalog.rev, used |-> bumped.used \cup {stamp},
                   lapsed |-> bumped.lapsed \/ stamp \in bumped.used]
     /\ UNCHANGED catalogFaults
  \/ /\ Fault
     /\ cached' \in {cached, [cached EXCEPT !.version = stamp]}
     /\ bumped' = [bumped EXCEPT !.lapsed = TRUE]

StampToggle(i) ==
  /\ catalogCalls[i].step = "stamp"
  /\ Advance(i, [catalogCalls[i] EXCEPT !.step = "set", !.version = catalogClock])
  /\ UNCHANGED <<serverVars, catalogPage, catalogClock, catalogFaults, bumped>>

SetToggle(i) ==
  /\ catalogCalls[i].step = "set"
  /\ Advance(i, [catalogCalls[i] EXCEPT !.step = "answered"])
  /\ WriteVersion(catalogCalls[i].version)
  /\ UNCHANGED <<catalog, company, cron, overlap, catalogPage, catalogClock>>

TickCatalogClock ==
  /\ catalogClock < MaxCatalogClock /\ catalogClock' = catalogClock + 1
  /\ UNCHANGED <<serverVars, catalogPage, catalogCalls, catalogFaults, bumped>>

\* Entries live ten minutes; the version does not expire, but Redis may evict it.
ExpireEntry(k) ==
  /\ cached.entries[k] # NoEntry
  /\ cached' = [cached EXCEPT !.entries[k] = NoEntry]
  /\ UNCHANGED <<catalog, company, cron, overlap, catalogPage, catalogCalls, catalogClock, catalogFaults,
                 bumped>>

EvictVersion ==
  /\ cached.version # 0 /\ Fault
  /\ cached' = [cached EXCEPT !.version = 0]
  /\ bumped' = [bumped EXCEPT !.lapsed = TRUE]
  /\ UNCHANGED <<catalog, company, cron, overlap, catalogPage, catalogCalls, catalogClock>>

-----------------------------------------------------------------------------
(* The hourly synchronization and the nightly comparison.                  *)

MaxAttempts == 3

Cron(to) ==
  /\ cron' = to
  /\ UNCHANGED <<company, overlap, catalogPage, catalogCalls, catalogClock>>

\* runExclusively: the lock is taken and not given back; it expires.
SyncCatalogs ==
  /\ cron.step = "idle" /\ ~cron.locked
  /\ Len(catalogCalls) + cron.runs < MaxCatalogCalls
  /\ Cron([cron EXCEPT !.step = "fetch", !.attempt = 1, !.locked = TRUE, !.runs = @ + 1])
  /\ UNCHANGED <<catalog, cached, catalogFaults, bumped>>

ExpireSyncLock ==
  /\ cron.locked /\ cron.step = "idle"
  /\ Cron([cron EXCEPT !.locked = FALSE])
  /\ UNCHANGED <<catalog, cached, catalogFaults, bumped>>

\* upsertCatalogs adds and renames, in one transaction; an empty list writes nothing.
FetchAndUpsert(payload) ==
  /\ cron.step = "fetch"
  /\ catalog' = IF payload = {} THEN catalog
                ELSE [catalog EXCEPT !.topics = @ \cup payload, !.rev = @ + 1]
  /\ Cron([cron EXCEPT !.step = "record"])
  /\ UNCHANGED <<cached, catalogFaults, bumped>>

\* The Core API fails or sends what validateCatalogPayload rejects; the third failure
\* is recorded.
FetchFails ==
  /\ cron.step = "fetch"
  /\ Cron(IF cron.attempt < MaxAttempts
          THEN [cron EXCEPT !.attempt = @ + 1]
          ELSE [cron EXCEPT !.step = "idle", !.attempt = 0, !.outcome = "FAILED"])
  /\ UNCHANGED <<catalog, cached, catalogFaults, bumped>>

\* "safely": a status that cannot be written does not stop the run.
RecordSyncSuccess ==
  /\ cron.step = "record"
  /\ \/ /\ Cron([cron EXCEPT !.step = "invalidate", !.outcome = "SUCCESS"])
        /\ UNCHANGED catalogFaults
     \/ Fault /\ Cron([cron EXCEPT !.step = "invalidate"])
  /\ UNCHANGED <<catalog, cached, bumped>>

\* Only the active tenants' versions are replaced.
InvalidateCaches ==
  /\ cron.step = "invalidate"
  /\ Cron(IF company THEN [cron EXCEPT !.step = "set", !.version = catalogClock]
                     ELSE [cron EXCEPT !.step = "idle", !.attempt = 0])
  /\ UNCHANGED <<catalog, cached, catalogFaults, bumped>>

SetSyncVersion ==
  /\ cron.step = "set"
  /\ Cron([cron EXCEPT !.step = "idle", !.attempt = 0, !.version = 0])
  /\ WriteVersion(cron.version)
  /\ UNCHANGED catalog

\* The replica dies in the middle of a run.
CrashSync ==
  /\ cron.step # "idle" /\ Fault
  /\ Cron([cron EXCEPT !.step = "idle", !.attempt = 0, !.version = 0])
  /\ UNCHANGED <<catalog, cached, bumped>>

\* A tenant is suspended or activated again: its requests stop at the middleware.
SetCompany ==
  /\ Fault /\ company' = ~company
  /\ UNCHANGED <<catalog, cached, cron, overlap, catalogPage, catalogCalls, catalogClock, bumped>>

\* checkOverlap: 95% of the topics must be known to the question bank.
CheckOverlap ==
  LET shared == Cardinality(catalog.topics \cap BankTopics)
  IN /\ Len(catalogCalls) + cron.runs < MaxCatalogCalls
     /\ cron' = [cron EXCEPT !.runs = @ + 1]
     /\ overlap' = IF 100 * shared >= 95 * Cardinality(catalog.topics) THEN "PASS" ELSE "FAIL"
     /\ UNCHANGED <<catalog, company, cached, catalogPage, catalogCalls, catalogClock, catalogFaults, bumped>>

-----------------------------------------------------------------------------
(* The page.                                                               *)

\* onMounted, the retry and a search typed or cleared.
FetchCourses(kind) ==
  /\ kind \in {"courses", "search"} /\ SendCall(kind, "none", FALSE, catalogPage.of)
  /\ UNCHANGED <<serverVars, catalogPage, catalogClock, catalogFaults, bumped>>

\* toggleCourse: the first time it is opened its topics are fetched.
ToggleCourse ==
  LET fetch == /\ ~catalogPage.expanded /\ catalogPage.topics = [t \in {} |-> TRUE]
               /\ catalogPage.total > 0
  IN /\ catalogPage.of > 0
     /\ catalogPage' = [catalogPage EXCEPT !.expanded = ~@, !.loading = @ \/ fetch]
     /\ IF fetch THEN SendCall("topics", "none", FALSE, catalogPage.of) ELSE UNCHANGED catalogCalls
     /\ UNCHANGED <<serverVars, catalogClock, catalogFaults, bumped>>

\* activeTopicsCount, which never goes below zero.
Counted(count, from, to) ==
  IF from = to THEN count ELSE IF to THEN count + 1 ELSE IF count = 0 THEN 0 ELSE count - 1

\* onToggleActive and toggleVisibility: shown at once, then sent.
OnToggleActive(t) ==
  /\ catalogPage.expanded /\ ~catalogPage.loading
  /\ t \in DOMAIN catalogPage.topics /\ t \notin catalogPage.pending
  /\ SendCall("toggle", t, ~catalogPage.topics[t], catalogPage.of)
  /\ catalogPage' = [catalogPage EXCEPT !.topics[t] = ~@, !.pending = @ \cup {t},
                          !.active = Counted(@, catalogPage.topics[t], ~catalogPage.topics[t])]
  /\ UNCHANGED <<serverVars, catalogClock, catalogFaults, bumped>>

\* Another administrator's page turns what is stored, or a client names a topic there is not.
OtherToggle(t) ==
  /\ SendCall("toggle", t, t \in catalog.hidden, 0)
  /\ UNCHANGED <<serverVars, catalogPage, catalogClock, catalogFaults, bumped>>

\* The answer of fetchCourses is a new list, with no topics loaded; of a request
\* that fails only the message is shown.
HearCourses(i) ==
  LET c == catalogCalls[i]
      failed == c.step # "answered"
  IN /\ c.kind \in {"courses", "search"}
     /\ \/ ~failed /\ UNCHANGED catalogFaults
        \/ c.step = "sent" /\ Fault
     /\ catalogPage' = IF failed THEN catalogPage
                ELSE [catalogPage EXCEPT !.of = i, !.topics = [t \in {} |-> TRUE],
                                  !.total = Cardinality(c.answer.topics),
                                  !.active = Cardinality(c.answer.topics \ c.answer.hidden)]
     /\ Advance(i, NoCatalogCall)
     /\ UNCHANGED <<serverVars, catalogClock, bumped>>

\* The topics go to the course they were asked for, on the screen or not any more.
HearTopics(i) ==
  LET c == catalogCalls[i]
      kept == c.step = "answered" /\ c.of = catalogPage.of
  IN /\ c.kind = "topics"
     /\ \/ c.step = "answered" /\ UNCHANGED catalogFaults
        \/ c.step = "sent" /\ Fault
     /\ catalogPage' = [catalogPage EXCEPT !.loading = FALSE,
          !.topics = IF kept THEN [t \in c.answer.topics |-> t \notin c.answer.hidden] ELSE @]
     /\ Advance(i, NoCatalogCall)
     /\ UNCHANGED <<serverVars, catalogClock, bumped>>

\* A refused toggle, or one whose answer is lost, is taken back in the list it was made in.
HearToggle(i) ==
  LET c == catalogCalls[i]
      shown == c.of = catalogPage.of /\ c.topic \in DOMAIN catalogPage.topics
      TakeBack ==
        [catalogPage EXCEPT
           !.topics = IF shown THEN [@ EXCEPT ![c.topic] = ~c.value] ELSE @,
           !.active = IF c.of = catalogPage.of THEN Counted(@, c.value, ~c.value) ELSE @]
      Heard(shownPage) == catalogPage' = IF c.of = 0 THEN catalogPage
                                  ELSE [shownPage EXCEPT !.pending = @ \ {c.topic}]
  IN /\ c.kind = "toggle"
     /\ \/ c.step = "answered" /\ Heard(catalogPage) /\ UNCHANGED catalogFaults
        \/ c.step = "refused" /\ Heard(TakeBack) /\ UNCHANGED catalogFaults
        \/ c.step \in {"sent", "answered"} /\ Fault /\ Heard(TakeBack)
     /\ Advance(i, NoCatalogCall)
     /\ UNCHANGED <<serverVars, catalogClock, bumped>>

CatalogNext ==
  \/ \E i \in DOMAIN catalogCalls :
       \/ GetCacheVersion(i) \/ ReadThrough(i) \/ FillCache(i)
       \/ UpdateTopicVisibility(i) \/ StampToggle(i) \/ SetToggle(i)
       \/ HearCourses(i) \/ HearTopics(i) \/ HearToggle(i)
  \/ TickCatalogClock \/ EvictVersion \/ \E k \in DOMAIN cached.entries : ExpireEntry(k)
  \/ SyncCatalogs \/ ExpireSyncLock \/ FetchFails \/ RecordSyncSuccess \/ InvalidateCaches
  \/ \E payload \in {{}, CatalogTopics} : FetchAndUpsert(payload)
  \/ SetSyncVersion \/ CrashSync \/ SetCompany \/ CheckOverlap
  \/ \E kind \in Keys : FetchCourses(kind)
  \/ ToggleCourse
  \/ \E t \in CatalogTopics : OnToggleActive(t) \/ OtherToggle(t)

CatalogSpec == CatalogInit /\ [][CatalogNext]_catalogVars

-----------------------------------------------------------------------------
\* An answer, from the cache or not, knows every write that had been made when the
\* version was last replaced before the request read it, whatever was cached, being
\* filled or being written at the time, as long as the version was never lost,
\* unreadable or used twice (updateTopicVisibility and runSync invalidate after they
\* commit; the version is part of every key).
ServedSinceBump ==
  bumped.lapsed \/ \A i \in DOMAIN catalogCalls :
    LET c == catalogCalls[i]
    IN c.kind \in Keys /\ c.step = "answered" => c.answer.rev >= c.floor
=============================================================================
