--------------------------- MODULE SecurityMetrics ---------------------------
(***************************************************************************)
(* Counts of 401, 403 and 429 responses: security/security-http-metrics.*. *)
(* Every API process counts in memory, by minute, and once a minute hands  *)
(* what it has to one PostgreSQL transaction of additive upserts.  While   *)
(* that transaction is under way new responses go to a new buffer; if it   *)
(* fails, what was handed over is added back.                              *)
(*                                                                         *)
(* The clock counts minutes.  A status is asked for in the course of a     *)
(* minute, never at its first millisecond.                                 *)
(***************************************************************************)
EXTENDS Integers, FiniteSetsExt

CONSTANTS
  Processes,  \* API processes
  HttpStatuses,   \* the status codes counted
  MaxMinute,  \* bound on the clock
  MaxEvents,  \* bound on the responses counted for each minute and status
  Retention,  \* minutes a row is kept (30 days in the code)
  MetricsWindow,     \* minutes of the shortest period (5 in the code)
  Threshold   \* responses within it that call for attention

ASSUME BoundsAssumption ==
  /\ MaxMinute \in Nat /\ MaxEvents \in Nat
  /\ Retention \in Nat /\ MetricsWindow \in Nat /\ Threshold \in Nat
  /\ IsFiniteSet(Processes)

Minutes == 0..MaxMinute
Buckets == Minutes \X HttpStatuses
Counts == [Buckets -> Nat]
Nothing == [b \in Buckets |-> 0]

VARIABLES
  metricsNow,       \* the minute
  buffer,    \* the counts in memory
  flight,    \* the counts drained and handed to the database
  metricsPc,        \* where the flush of each process is
  table,     \* the SecurityHttpMetricMinute table, rows of zeros being absent
  counted,   \* history: responses counted, less those lost with a process or expired
  repeated,  \* history: counts committed by a flush that was told it had failed
  flushed    \* history: the minute of the last flush that succeeded, by process

metricsVars == <<metricsNow, buffer, flight, metricsPc, table, counted, repeated, flushed>>

MetricsInit ==
  /\ metricsNow = 0
  /\ buffer = [p \in Processes |-> Nothing]
  /\ flight = [p \in Processes |-> Nothing]
  /\ metricsPc = [p \in Processes |-> "idle"]
  /\ table = Nothing
  /\ counted = Nothing
  /\ repeated = Nothing
  /\ flushed = [p \in Processes |-> 0]

Plus(f, g) == [b \in Buckets |-> f[b] + g[b]]
Less(f, g) == [b \in Buckets |-> f[b] - g[b]]

\* No flush of the process is under way any more.
\* With a bug: the scheduler is not told.
StaysBusy(p) == flight' = [flight EXCEPT ![p] = Nothing] /\ UNCHANGED metricsPc
Land(p) ==
  /\ flight' = [flight EXCEPT ![p] = Nothing]
  /\ metricsPc' = [metricsPc EXCEPT ![p] = "idle"]

-----------------------------------------------------------------------------

MetricsTick ==
  /\ metricsNow < MaxMinute
  /\ metricsNow' = metricsNow + 1
  /\ UNCHANGED <<buffer, flight, metricsPc, table, counted, repeated, flushed>>

\* SecurityHttpMetricsBuffer.record, when a response has finished.
Record(p, s) ==
  /\ counted[<<metricsNow, s>>] + repeated[<<metricsNow, s>>] < MaxEvents
  /\ buffer' = [buffer EXCEPT ![p][<<metricsNow, s>>] = @ + 1]
  /\ counted' = [counted EXCEPT ![<<metricsNow, s>>] = @ + 1]
  /\ UNCHANGED <<metricsNow, flight, metricsPc, table, repeated, flushed>>

\* The scheduler starts no flush while one is under way.  An empty buffer is
\* flushed by writing nothing.
Drain(p) ==
  /\ metricsPc[p] = "idle"
  /\ \/ /\ buffer[p] = Nothing
        /\ flushed' = [flushed EXCEPT ![p] = metricsNow]
        /\ UNCHANGED <<buffer, flight, metricsPc>>
     \/ /\ buffer[p] # Nothing
        /\ flight' = [flight EXCEPT ![p] = buffer[p]]
        /\ buffer' = [buffer EXCEPT ![p] = Nothing]
        /\ metricsPc' = [metricsPc EXCEPT ![p] = "upsertMinutes"]
        /\ UNCHANGED flushed
  /\ UNCHANGED <<metricsNow, table, counted, repeated>>

\* With a bug: rows are replaced, not added to.
Replace(f, g) == [b \in Buckets |-> IF g[b] > 0 THEN g[b] ELSE f[b]]
Upserted(f, g) == Plus(f, g)

UpsertMinutes(p) ==
  /\ metricsPc[p] = "upsertMinutes"
  /\ table' = Upserted(table, flight[p])
  /\ flushed' = [flushed EXCEPT ![p] = metricsNow]
  /\ Land(p)
  /\ UNCHANGED <<metricsNow, buffer, counted, repeated>>

\* SecurityHttpMetricsBuffer.restore.
\* With a bug: what was counted meanwhile is dropped.
Overwritten(p) == [buffer EXCEPT ![p] = flight[p]]
Restored(p) == [buffer EXCEPT ![p] = Plus(buffer[p], flight[p])]

\* The transaction was rolled back.
FailToUpsert(p) ==
  /\ metricsPc[p] = "upsertMinutes"
  /\ buffer' = Restored(p)
  /\ Land(p)
  /\ UNCHANGED <<metricsNow, table, counted, repeated, flushed>>

\* The transaction was committed and the connection lost before the answer: to
\* the process this is a failure like any other.
LoseAnswer(p) ==
  /\ metricsPc[p] = "upsertMinutes"
  /\ \A b \in Buckets : counted[b] + repeated[b] + flight[p][b] <= MaxEvents
  /\ table' = Upserted(table, flight[p])
  /\ repeated' = Plus(repeated, flight[p])
  /\ buffer' = Restored(p)
  /\ Land(p)
  /\ UNCHANGED <<metricsNow, counted, flushed>>

\* The process ends, before its transaction commits; what it had is lost.
Crash(p) ==
  /\ buffer' = [buffer EXCEPT ![p] = Nothing]
  /\ counted' = Less(counted, Plus(buffer[p], flight[p]))
  /\ Land(p)
  /\ UNCHANGED <<metricsNow, table, repeated, flushed>>

\* deleteBefore.
Expired(b) == b[1] < metricsNow - Retention
Retain ==
  /\ \E b \in Buckets : Expired(b) /\ table[b] > 0
  /\ table' = [b \in Buckets |-> IF Expired(b) THEN 0 ELSE table[b]]
  /\ counted' = [b \in Buckets |->
                   IF Expired(b) THEN counted[b] + repeated[b] - table[b] ELSE counted[b]]
  /\ repeated' = [b \in Buckets |-> IF Expired(b) THEN 0 ELSE repeated[b]]
  /\ UNCHANGED <<metricsNow, buffer, flight, metricsPc, flushed>>

MetricsNext ==
  \/ MetricsTick
  \/ Retain
  \/ \E p \in Processes :
       \/ \E s \in HttpStatuses : Record(p, s)
       \/ Drain(p)
       \/ UpsertMinutes(p)
       \/ FailToUpsert(p)
       \/ LoseAnswer(p)
       \/ Crash(p)

MetricsSpec == MetricsInit /\ [][MetricsNext]_metricsVars

\* The scheduler keeps flushing, and the database does not fail for ever.
MetricsLiveSpec ==
  /\ MetricsSpec
  /\ \A p \in Processes : WF_metricsVars(Drain(p)) /\ SF_metricsVars(UpsertMinutes(p))

-----------------------------------------------------------------------------
(* getOverview.                                                            *)

MetricsRows == {m \in Minutes : \E s \in HttpStatuses : table[<<m, s>>] > 0}

\* More than two minutes since the start of the last minute that has a row.
IsStale == MetricsRows # {} /\ \A m \in MetricsRows : metricsNow - m >= 2

SumPeriod(s, first) ==
  LET sum[m \in -1..MaxMinute] ==
        IF m < first \/ m < 0 THEN 0 ELSE table[<<m, s>>] + sum[m - 1]
  IN  sum[metricsNow]

HasAttention == \E s \in HttpStatuses : SumPeriod(s, metricsNow - (MetricsWindow - 1)) >= Threshold

MetricsStatus ==
  IF IsStale THEN "DEGRADED" ELSE IF HasAttention THEN "ATTENTION" ELSE "NORMAL"

-----------------------------------------------------------------------------
(* Properties.                                                             *)

MetricsTypeOK ==
  /\ metricsNow \in Minutes
  /\ buffer \in [Processes -> Counts]
  /\ flight \in [Processes -> Counts]
  /\ metricsPc \in [Processes -> {"idle", "upsertMinutes"}]
  /\ table \in Counts
  /\ counted \in Counts
  /\ repeated \in Counts
  /\ flushed \in [Processes -> Minutes]

HeldBy(p, b) == buffer[p][b] + flight[p][b]
HeldByAll(b) == MapThenSumSet(LAMBDA p : HeldBy(p, b), Processes)

\* Whatever the order of responses, flushes and failures, and however many
\* processes add to the same row: no response is lost but with the process that
\* counted it, and none is counted twice but by a commit whose answer was lost.
CountsAddUp ==
  \A b \in Buckets : table[b] + HeldByAll(b) = counted[b] + repeated[b]

\* Not kept by the code (README, "What the code does not keep").  DEGRADED means
\* that no process has flushed for two minutes, not that there was nothing to count.
DegradedMeansNoRecentFlush ==
  MetricsStatus = "DEGRADED" => \A p \in Processes : metricsNow - flushed[p] >= 2

\* What a process counted in a minute that has passed reaches the table, or is
\* lost with the process, although flushes fail again and again.
PastMinutesReachTheTable ==
  \A p \in Processes, b \in Buckets :
    (b[1] < metricsNow /\ HeldBy(p, b) > 0) ~> HeldBy(p, b) = 0
=============================================================================
