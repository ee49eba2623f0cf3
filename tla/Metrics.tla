------------------------------- MODULE Metrics -------------------------------
(***************************************************************************)
(* The usage metrics of the tenants (services/metrics_service.ts,          *)
(* commands/tenant_metrics_flush.ts): counters per UTC day in Redis, and   *)
(* the rows a flush overwrites with them. A counter that exists is         *)
(* positive: 0 stands for a missing key.                                   *)
(***************************************************************************)
EXTENDS Naturals, FiniteSets

CONSTANTS
  MetricKeys,    \* pairs of a tenant and the name of a metric
  Trackers,      \* increments in flight at the same time
  Flushers,      \* processes that run tenant:metrics:flush
  MaxMetricDay,  \* bound on the days of a behaviour
  MaxIncrements, \* bound on the increments
  MaxFlushFaults \* bound on the flushes that die

ASSUME MetricsAssumption == MaxMetricDay \in Nat

MetricDays == 0..MaxMetricDay

VARIABLES
  metricDay,   \* today
  counter,     \* the counters of each day
  expiring,    \* whether a counter has an expiry
  row,         \* the stored counts of each day
  tracker,     \* what each increment does
  flusher,     \* what each flush does
  total,       \* history: all that was counted
  flushed,     \* history: the totals when the last finished flush of a day began
  muddled,     \* history: days whose flushes overlapped or whose counters expired
  flushFaults  \* history: flushes that died

metricVars == <<metricDay, counter, expiring, row, tracker, flusher,
                total, flushed, muddled, flushFaults>>

NoCounts == [k \in MetricKeys |-> 0]
PerDay(x) == [d \in MetricDays |-> x]

IdleFlush == [step |-> "idle", day |-> 0, keys |-> {}, values |-> NoCounts, rest |-> {}, since |-> NoCounts]

MetricsInit ==
  /\ metricDay = 0
  /\ counter = PerDay(NoCounts)
  /\ expiring = PerDay([k \in MetricKeys |-> FALSE])
  /\ row = PerDay(NoCounts)
  /\ tracker = [c \in Trackers |-> [step |-> "idle"]]
  /\ flusher = [f \in Flushers |-> IdleFlush]
  /\ total = PerDay(NoCounts)
  /\ flushed = PerDay(NoCounts)
  /\ muddled = {}
  /\ flushFaults = 0

Counted == LET sum[S \in SUBSET (MetricDays \X MetricKeys)] ==
                 IF S = {} THEN 0 ELSE LET x == CHOOSE x \in S : TRUE
                                       IN total[x[1]][x[2]] + sum[S \ {x}]
           IN sum[MetricDays \X MetricKeys]

-----------------------------------------------------------------------------
(* increment and trackBandwidth.                                           *)

\* The day is read before the await: it may be over when the counter is increased.
StartTracking(c, k) ==
  /\ tracker[c].step = "idle"
  /\ Counted < MaxIncrements
  /\ tracker' = [tracker EXCEPT ![c] = [step |-> "count", day |-> metricDay, key |-> k]]
  /\ UNCHANGED <<metricDay, counter, expiring, row, flusher, total, flushed, muddled, flushFaults>>

CountMetric(c) ==
  LET d == tracker[c].day  k == tracker[c].key IN
  /\ tracker[c].step = "count"
  /\ counter' = [counter EXCEPT ![d][k] = @ + 1]
  /\ total' = [total EXCEPT ![d][k] = @ + 1]
  /\ tracker' = [tracker EXCEPT ![c].step = "expire"]
  /\ UNCHANGED <<metricDay, expiring, row, flusher, flushed, muddled, flushFaults>>

ExpireMetric(c) ==
  LET d == tracker[c].day  k == tracker[c].key IN
  /\ tracker[c].step = "expire"
  /\ expiring' = [expiring EXCEPT ![d][k] = counter[d][k] > 0]
  /\ tracker' = [tracker EXCEPT ![c] = [step |-> "idle"]]
  /\ UNCHANGED <<metricDay, counter, row, flusher, total, flushed, muddled, flushFaults>>

-----------------------------------------------------------------------------
(* flush.                                                                  *)

\* SCAN of the keys of a day, today or the one the command names. Without a key there
\* is nothing to write.
ScanMetrics(f, d) ==
  /\ flusher[f].step = "idle"
  /\ d <= metricDay
  /\ LET found == {k \in MetricKeys : counter[d][k] > 0} IN
       found # {} /\ flusher' = [flusher EXCEPT ![f] = [IdleFlush EXCEPT !.step = "read", !.day = d, !.keys = found,
                                            !.rest = {k[1] : k \in found}, !.since = total[d]]]
  /\ muddled' = IF \E g \in Flushers : flusher[g].step # "idle" /\ flusher[g].day = d
                THEN muddled \cup {d} ELSE muddled
  /\ UNCHANGED <<metricDay, counter, expiring, row, tracker, total, flushed, flushFaults>>

\* Variant of ReadMetric: the counter is drained.
DrainMetric(f, k) ==
  LET d == flusher[f].day IN
  /\ flusher[f].step = "read"
  /\ k \in flusher[f].keys
  /\ flusher' = [flusher EXCEPT ![f].keys = @ \ {k}, ![f].values = [@ EXCEPT ![k] = counter[d][k]]]
  /\ counter' = [counter EXCEPT ![d][k] = 0]
  /\ UNCHANGED <<metricDay, expiring, row, tracker, total, flushed, muddled, flushFaults>>

\* GET of one key after the other; one that has expired by now reads as 0.
ReadMetric(f, k) ==
  /\ flusher[f].step = "read"
  /\ k \in flusher[f].keys
  /\ flusher' = [flusher EXCEPT ![f].keys = @ \ {k},
                                ![f].values = [@ EXCEPT ![k] = counter[flusher[f].day][k]]]
  /\ UNCHANGED <<metricDay, counter, expiring, row, tracker, total, flushed, muddled, flushFaults>>

\* updateOrCreate of one tenant after the other: all the metrics of its row.
WriteRow(f, t) ==
  LET d == flusher[f].day IN
  /\ flusher[f].step = "read"
  /\ flusher[f].keys = {}
  /\ t \in flusher[f].rest
  /\ row' = [row EXCEPT ![d] = [k \in MetricKeys |-> IF k[1] = t THEN flusher[f].values[k] ELSE row[d][k]]]
  /\ flusher' = [flusher EXCEPT ![f].rest = @ \ {t}]
  /\ UNCHANGED <<metricDay, counter, expiring, tracker, total, flushed, muddled, flushFaults>>

FinishFlush(f) ==
  /\ flusher[f].step = "read"
  /\ flusher[f].keys = {} /\ flusher[f].rest = {}
  /\ flushed' = [flushed EXCEPT ![flusher[f].day] = flusher[f].since]
  /\ flusher' = [flusher EXCEPT ![f] = IdleFlush]
  /\ UNCHANGED <<metricDay, counter, expiring, row, tracker, total, muddled, flushFaults>>

\* A write fails and the command throws, or its process dies.
AbortFlush(f) ==
  /\ flushFaults < MaxFlushFaults
  /\ flusher[f].step # "idle"
  /\ flusher' = [flusher EXCEPT ![f] = IdleFlush]
  /\ flushFaults' = flushFaults + 1
  /\ UNCHANGED <<metricDay, counter, expiring, row, tracker, total, flushed, muddled>>

NextMetricDay ==
  /\ metricDay < MaxMetricDay
  /\ metricDay' = metricDay + 1
  /\ UNCHANGED <<counter, expiring, row, tracker, flusher, total, flushed, muddled, flushFaults>>

\* 48 hours after its last increment a counter is gone.
DropCounter(d, k) ==
  /\ expiring[d][k] /\ metricDay >= d + 2
  /\ counter' = [counter EXCEPT ![d][k] = 0]
  /\ expiring' = [expiring EXCEPT ![d][k] = FALSE]
  /\ muddled' = muddled \cup {d}
  /\ UNCHANGED <<metricDay, row, tracker, flusher, total, flushed, flushFaults>>

MetricsNext ==
  \/ \E c \in Trackers :
       \/ \E k \in MetricKeys : StartTracking(c, k)
       \/ CountMetric(c) \/ ExpireMetric(c)
  \/ \E f \in Flushers :
       \/ \E d \in MetricDays : ScanMetrics(f, d)
       \/ \E k \in MetricKeys : ReadMetric(f, k)
       \/ \E t \in {k[1] : k \in MetricKeys} : WriteRow(f, t)
       \/ FinishFlush(f) \/ AbortFlush(f)
  \/ NextMetricDay
  \/ \E d \in MetricDays, k \in MetricKeys : DropCounter(d, k)

MetricsSpec == MetricsInit /\ [][MetricsNext]_metricVars

-----------------------------------------------------------------------------
(* Properties.                                                             *)

\* A row has no more than was counted; and it keeps, through later flushes that die or
\* finish, all that had been counted when a finished flush began, but on days whose
\* flushes overlapped or whose counters have begun to expire.
FlushKeepsCounts ==
  \A d \in MetricDays, k \in MetricKeys :
    /\ row[d][k] <= total[d][k]
    /\ d \notin muddled => flushed[d][k] <= row[d][k]
=============================================================================
