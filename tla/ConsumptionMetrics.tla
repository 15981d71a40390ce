------------------------- MODULE ConsumptionMetrics -------------------------
(***************************************************************************)
(* The monthly consumption of the tenants: an hourly cron reads each       *)
(* active tenant's schema and overwrites its rows of the current month in  *)
(* public.consumption_metrics, from which the dashboard answers. Questions *)
(* used stand for the two metrics that are summed over the months (with    *)
(* the pages generated), users for the two of which the last month counts  *)
(* (with the storage). Time is counted in hours.                           *)
(***************************************************************************)
EXTENDS Naturals, FiniteSets, FiniteSetsExt

CONSTANTS Clients,        \* the companies
          HoursPerMonth,
          MaxHour,        \* the last hour of a behaviour
          MaxUses,        \* questions used, by all clients
          MaxUsers, MaxMetricFaults

ASSUME MetricsAssumption ==
  /\ IsFiniteSet(Clients) /\ HoursPerMonth \in Nat \ {0} /\ MaxHour \in Nat /\ MaxUses \in Nat
  /\ MaxUsers \in Nat \ {0} /\ MaxMetricFaults \in Nat

Replicas == {"p1", "p2"}
Hours == 0 .. MaxHour
Month(hour) == hour \div HoursPerMonth
Months == {Month(h) : h \in Hours}
Metrics == {"questions", "users"}
NoMetric == -1   \* no row of consumption_metrics

VARIABLES hour,
          uses,       \* material_question_usage: rows ever written, by client and hour
          users,      \* active users of each client
          peak,       \* the most there ever were
          paying,     \* the clients that are active companies
          stored,     \* public.consumption_metrics
          collector,  \* the cron run of each replica
          collectLock,
          metricFaults

metricVars == <<hour, uses, users, peak, paying, stored, collector, collectLock, metricFaults>>

Resting == [month |-> 0, todo |-> {}, rows |-> {}]

MetricsInit ==
  /\ hour = 0
  /\ uses = [c \in Clients |-> [h \in Hours |-> 0]]
  /\ users = [c \in Clients |-> 1] /\ peak = users
  /\ paying = Clients
  /\ stored = [c \in Clients |-> [k \in Metrics |-> [m \in Months |-> NoMetric]]]
  /\ collector = [p \in Replicas |-> Resting]
  /\ collectLock = FALSE
  /\ metricFaults = 0

UsedIn(c, hours) == MapThenSumSet(LAMBDA h : uses[c][h], hours)
HoursOf(month) == {h \in Hours : Month(h) = month}

-----------------------------------------------------------------------------
(* What is measured.                                                       *)

UseQuestion(c) ==
  /\ MapThenSumSet(LAMBDA d : UsedIn(d, Hours), Clients) < MaxUses
  /\ uses' = [uses EXCEPT ![c][hour] = @ + 1]
  /\ UNCHANGED <<hour, users, peak, paying, stored, collector, collectLock, metricFaults>>

SetUsers(c) ==
  \E n \in 1 .. MaxUsers :
    /\ n # users[c]
    /\ users' = [users EXCEPT ![c] = n]
    /\ peak' = [peak EXCEPT ![c] = IF n > @ THEN n ELSE @]
    /\ UNCHANGED <<hour, uses, paying, stored, collector, collectLock, metricFaults>>

MetricFault == metricFaults < MaxMetricFaults /\ metricFaults' = metricFaults + 1

\* A company is suspended, or activated again.
SetPaying(c) ==
  /\ MetricFault
  /\ paying' = IF c \in paying THEN paying \ {c} ELSE paying \cup {c}
  /\ UNCHANGED <<hour, uses, users, peak, stored, collector, collectLock>>

\* The hour strikes: by then the lock of the last tick, 45 minutes, has expired, whether
\* its run has ended or not.
Strike ==
  /\ hour < MaxHour
  /\ hour' = hour + 1 /\ collectLock' = FALSE
  /\ UNCHANGED <<uses, users, peak, paying, stored, collector, metricFaults>>

-----------------------------------------------------------------------------
(* The hourly collection.                                                  *)

\* handleCron: the replica that takes the lock fixes the month for its whole run and
\* lists the active companies.
HandleCron(p) ==
  /\ hour > 0 /\ ~collectLock /\ collector[p] = Resting
  /\ collectLock' = TRUE
  /\ collector' = [collector EXCEPT ![p] =
       [month |-> Month(hour), todo |-> paying, rows |-> {}]]
  /\ UNCHANGED <<hour, uses, users, peak, paying, stored, metricFaults>>

\* What the transaction in the client's schema reads: the questions used in the month of
\* the run, and the users of the moment. A regeneration that deleted rows of the ledger
\* before (WriteAttempt of QuestionPlan) only lowers the count.
Measured(c, month) ==
  {[client |-> c, metric |-> "questions", value |-> UsedIn(c, HoursOf(month))],
   [client |-> c, metric |-> "users", value |-> users[c]]}

EndIfDone(run) == IF run.todo = {} /\ run.rows = {} THEN Resting ELSE run

\* collectForTenant, up to its writes; a schema that fails is skipped.
CollectForTenant(p, c) ==
  LET run == collector[p]
      rest == [run EXCEPT !.todo = @ \ {c}]
  IN /\ c \in run.todo
     /\ \/ /\ collector' = [collector EXCEPT ![p] = [rest EXCEPT !.rows = @ \cup Measured(c, run.month)]]
           /\ UNCHANGED metricFaults
        \/ /\ MetricFault
           /\ collector' = [collector EXCEPT ![p] = EndIfDone(rest)]
     /\ UNCHANGED <<hour, uses, users, peak, paying, stored, collectLock>>

Accumulated(old, value) == IF old = NoMetric THEN value ELSE old + value
Overwritten(old, value) == value

\* upsertMetric: the writes of a client are sent together and land in any order.
UpsertMetric(p, row) ==
  LET run == collector[p]
      rest == [run EXCEPT !.rows = @ \ {row}]
  IN /\ row \in run.rows
     /\ stored' = [stored EXCEPT ![row.client][row.metric][run.month] = Overwritten(@, row.value)]
     /\ collector' = [collector EXCEPT ![p] = EndIfDone(rest)]
     /\ UNCHANGED <<hour, uses, users, peak, paying, collectLock, metricFaults>>

CrashCollector(p) ==
  /\ collector[p] # Resting /\ MetricFault
  /\ collector' = [collector EXCEPT ![p] = Resting]
  /\ UNCHANGED <<hour, uses, users, peak, paying, stored, collectLock>>

MetricsNext ==
  \/ Strike
  \/ \E c \in Clients : UseQuestion(c) \/ SetUsers(c) \/ SetPaying(c)
  \/ \E p \in Replicas :
       \/ HandleCron(p) \/ CrashCollector(p)
       \/ \E c \in Clients : CollectForTenant(p, c)
       \/ \E row \in collector[p].rows : UpsertMetric(p, row)

MetricsSpec == MetricsInit /\ [][MetricsNext]_metricVars

-----------------------------------------------------------------------------
(* The dashboard, which only reads.                                        *)

\* resolveMonthBuckets: the months of the range; an end alone or a start alone is its own
\* month, no range and a range that ends before it starts are the current one.
ResolveMonthBuckets(starts, ends) ==
  LET last == IF ends # {} THEN ends ELSE IF starts # {} THEN starts ELSE {Month(hour)}
      first == IF starts # {} THEN starts ELSE last
      range == {m \in Months : (\E a \in first : a <= m) /\ (\E b \in last : m <= b)}
  IN IF range = {} THEN {Month(hour)} ELSE range

\* The months of the range in which the client has a row.
RowsIn(c, metric, months) == {m \in months : stored[c][metric][m] # NoMetric}

SumAcrossBuckets(c, metric, months) ==
  MapThenSumSet(LAMBDA m : stored[c][metric][m], RowsIn(c, metric, months))

LatestBucket(c, metric, months) ==
  LET rows == RowsIn(c, metric, months)
  IN IF rows = {} THEN 0 ELSE stored[c][metric][Max(rows)]

\* getMetrics of one tenant, or of all of them.
GetMetrics(clients, months) ==
  [questions |-> MapThenSumSet(LAMBDA c : SumAcrossBuckets(c, "questions", months), clients),
   users |-> MapThenSumSet(LAMBDA c : LatestBucket(c, "users", months), clients)]

Ranges == {{}} \cup {{m} : m \in Months}
Scopes == {Clients} \cup {{c} : c \in Clients}

\* Whatever range of months and whichever tenants the dashboard is asked for, it reports
\* no question that was not used in those months and no more users than the tenants ever
\* had, however runs overlap, crash or are repeated and whatever month they end in
\* (upsertMetric overwrites; active_users is the latest month, not the sum).
DashboardTruthful ==
  \A starts, ends \in Ranges, clients \in Scopes :
    LET months == ResolveMonthBuckets(starts, ends)
        report == GetMetrics(clients, months)
    IN /\ report.questions <=
            MapThenSumSet(LAMBDA c : UsedIn(c, UNION {HoursOf(m) : m \in months}), clients)
       /\ report.users <= MapThenSumSet(LAMBDA c : peak[c], clients)
=============================================================================
