------------------------------- MODULE Metrics -------------------------------
(***************************************************************************)
(* The metric registry of one process (metrics.rs): counters by label,     *)
(* created when first counted, and a histogram, recorded by every request  *)
(* without a lock around the whole and read meanwhile.  Recorders are      *)
(* requests of the chat endpoint after their answer; the readers are the   *)
(* completeness check of reconciliation.rs and the quantile of the status  *)
(* page.                                                                   *)
(***************************************************************************)
EXTENDS Totals, FiniteSets, Sequences

CONSTANTS
    Recorders,  \* requests recorded at a time
    Statuses,   \* the number of label sets of requests_total
    Edges,      \* the finite bucket edges are 1..Edges
    Requests,   \* bound: requests a recorder plays
    Percentiles \* of the quantiles asked for

ASSUME MetricsAssumption ==
    /\ IsFiniteSet(Recorders)
    /\ Statuses \in Nat \ {0} /\ Edges \in Nat \ {0} /\ Requests \in Nat
    /\ Percentiles \subseteq 1..100

VARIABLES
    requests, \* requests_total by label set; NoSeries before the first
    events,   \* usage_events_total, one series of its own
    buckets,  \* the histogram of the gateway's overhead: counts by bucket
    count,    \* and their number, counted separately
    at,       \* where a recorder stands
    labels,   \* the status its request ended with
    bucket,   \* the bucket its overhead falls into
    played,   \* requests a recorder has begun
    lost,     \* usage events that were not emitted
    reader    \* a quantile being read

metrics == <<requests, events, buckets, count, at, labels, bucket, played, lost, reader>>

NoSeries == -1
Infinity == Edges + 1
Asleep == [at |-> "asleep", target |-> 0, seen |-> 0, edge |-> 0, spare |-> 0]

Ok == 1 \* the label set of status 200

Value(series) == IF series = NoSeries THEN 0 ELSE series

(* CounterVec::total over all label sets.                                   *)
RequestsTotal == Total([s \in 1..Statuses |-> Value(requests[s])], Statuses)

MetricsInit ==
    /\ requests = [s \in 1..Statuses |-> NoSeries]
    /\ events = NoSeries
    /\ buckets = [b \in 1..Infinity |-> 0] /\ count = 0
    /\ at = [t \in Recorders |-> "idle"]
    /\ labels = [t \in Recorders |-> Ok]
    /\ bucket = [t \in Recorders |-> 1]
    /\ played = [t \in Recorders |-> 0]
    /\ lost = 0
    /\ reader = Asleep

Steps(t, next) == at' = [at EXCEPT ![t] = next]

(* CounterVec::inc: the read lock covers the look-up and the addition ...   *)
Found(t, series, from, missing, next) ==
    /\ at[t] = from
    /\ Steps(t, IF series = NoSeries THEN missing ELSE next)
Added(series) == IF series = NoSeries THEN series ELSE series + 1

(* ... a miss goes on under the write lock, where the series may exist by   *)
(* now.                                                                     *)
\* Mutant of Inserted: the entry is overwritten by a new one.
InsertedNew(series) == 1
Inserted(series) == Value(series) + 1

(* The usage event is emitted, counted only if it was ...                   *)
Emit(t) ==
    /\ at[t] = "emit"
    /\ \E ok \in BOOLEAN :
          /\ Steps(t, IF ok THEN "event" ELSE "request")
          /\ lost' = IF ok THEN lost ELSE lost + 1
    /\ UNCHANGED <<requests, events, buckets, count, labels, bucket, played, reader>>

Begin(t) ==
    /\ at[t] = "idle" /\ played[t] < Requests
    /\ played' = [played EXCEPT ![t] = @ + 1]
    /\ \E s \in 1..Statuses : labels' = [labels EXCEPT ![t] = s]
    /\ \E b \in IF labels'[t] = Ok THEN 1..Infinity ELSE {1} : bucket' = [bucket EXCEPT ![t] = b]
    /\ Steps(t, "emit")
    /\ UNCHANGED <<requests, events, buckets, count, lost, reader>>

RecordUsageEvent(t) ==
    /\ \/ Found(t, events, "event", "new_event", "request") /\ events' = Added(events)
       \/ at[t] = "new_event" /\ Steps(t, "request") /\ events' = Inserted(events)
    /\ UNCHANGED <<requests, buckets, count, labels, bucket, played, lost, reader>>

RecordRequest(t) ==
    LET s == labels[t]
        next == IF s = Ok THEN "observe" ELSE "idle" \* a rejection has no overhead
        Set(value) == requests' = [requests EXCEPT ![s] = value]
    IN /\ \/ Found(t, requests[s], "request", "new_request", next) /\ Set(Added(requests[s]))
          \/ at[t] = "new_request" /\ Steps(t, next) /\ Set(Inserted(requests[s]))
       /\ UNCHANGED <<events, buckets, count, labels, bucket, played, lost, reader>>

(* ... and Histogram::observe adds to a bucket and to the count.  Both      *)
(* additions are relaxed, as are the loads of a quantile: the buckets and   *)
(* the count here are those its reader can see by now, which gets to see    *)
(* either addition first.                                                   *)
Observe(t) ==
    LET Adds(from, next) == at[t] = from /\ Steps(t, next)
        InBucket == buckets' = [buckets EXCEPT ![bucket[t]] = @ + 1] /\ UNCHANGED count
        InCount == count' = count + 1 /\ UNCHANGED buckets
    IN /\ \/ Adds("observe", "filed") /\ InBucket
          \/ Adds("filed", "idle") /\ InCount
          \/ Adds("observe", "counted") /\ InCount
          \/ Adds("counted", "idle") /\ InBucket
       /\ UNCHANGED <<requests, events, labels, bucket, played, lost, reader>>

(* The observations that are in the count and in no bucket yet.             *)
Ahead == {t \in Recorders : at[t] = "counted"}

(* The rank of the observation a quantile looks for.                        *)
Target(q) == (count * q + 99) \div 100

(* Histogram::quantile: the count, then bucket after bucket.  It remembers  *)
(* (for what is said of it below) how many observations it leaves out that  *)
(* are not made up for by those ahead of their buckets.                     *)
QuantileBegins ==
    /\ reader.at \in {"asleep", "answered"}
    /\ \E q \in Percentiles :
          reader' = IF count = 0
                      THEN [Asleep EXCEPT !.at = "answered"]
                      ELSE [at |-> "reading", target |-> Target(q), seen |-> 0, edge |-> 0,
                            spare |-> count - Target(q) - Cardinality(Ahead)]
    /\ UNCHANGED <<requests, events, buckets, count, at, labels, bucket, played, lost>>

QuantileReads ==
    LET edge == reader.edge + 1
        seen == reader.seen + buckets[edge]
    IN /\ reader.at = "reading"
       /\ reader' = IF edge = Infinity \/ seen >= reader.target
                      THEN [reader EXCEPT !.at = "answered", !.edge = edge]
                      ELSE [reader EXCEPT !.seen = seen, !.edge = edge]
       /\ UNCHANGED <<requests, events, buckets, count, at, labels, bucket, played, lost>>

MetricsNext ==
    \/ \E t \in Recorders :
          \/ Begin(t) \/ Emit(t) \/ RecordUsageEvent(t) \/ RecordRequest(t) \/ Observe(t)
    \/ QuantileBegins \/ QuantileReads

-----------------------------------------------------------------------------
(* check_metering_completeness: the difference it reports.                  *)
CompletenessGap == RequestsTotal - Value(events)

(* While no request is being recorded, the gap the completeness check       *)
(* reports is the number of usage events that were lost: no increment is    *)
(* lost when two requests create one series, and none is counted twice.     *)
GapIsLoss == (\A t \in Recorders : at[t] = "idle") => CompletenessGap = lost

(* A quantile read without a lock, of additions that become visible in any  *)
(* order, is infinite only if some observation lies beyond the last edge,   *)
(* or if more observations were counted before they could be seen in their  *)
(* buckets than the quantile leaves out: a few requests recorded meanwhile  *)
(* do not make a P99 of many infinite.                                      *)
QuantileFinite ==
    reader.at = "answered" /\ reader.edge = Infinity =>
        buckets[Infinity] > 0 \/ reader.spare < 0

(* What a process says of itself is true although nothing locks it whole.   *)
MetricsSafety == GapIsLoss /\ QuantileFinite

-----------------------------------------------------------------------------
(***************************************************************************)
(* What a running process says of the services it depends on: the probe    *)
(* that writes aegis_dependency_up, one service after the other, and the   *)
(* answers of /health, /ready and /status.  The services come and go       *)
(* meanwhile (external).                                                   *)
(***************************************************************************)

CONSTANT Circuits \* the provider circuits that may be open

Services == <<"store", "database", "database_replica">>
Unset == -1

VARIABLES
    configured, \* the services this process was started with
    answering,  \* the services that answer
    open,       \* the providers whose circuit is not closed
    probing,    \* the next service of the probe under way, 0 if none
    gauge,      \* aegis_dependency_up: 1, 0 or not there
    said        \* the last answers of the three endpoints

probes == <<configured, answering, open, probing, gauge, said>>

Names == {Services[i] : i \in DOMAIN Services}

ProbesInit ==
    /\ configured \in {{"store"}, {"store", "database"}, Names}
    /\ answering = Names /\ open = {}
    /\ probing = 0
    /\ gauge = [s \in Names |-> Unset]
    /\ said = [health |-> "ok", ready |-> TRUE, status |-> "operational"]

Recorded(s) == IF s \in answering THEN 1 ELSE 0

(* probe_once, on the next tick once the last probe is done: one service    *)
(* after the other; what is not configured is not recorded.                 *)
ProbeOnce ==
    /\ "database" \in configured \* the workers run only with a database
    /\ LET i == IF probing = 0 THEN 1 ELSE probing
           s == Services[i]
       IN /\ gauge' = IF s \in configured THEN [gauge EXCEPT ![s] = Recorded(s)] ELSE gauge
          /\ probing' = IF i = Len(Services) THEN 0 ELSE i + 1
    /\ UNCHANGED <<configured, answering, open, said>>

(* check_dependencies asks for the store and, if there is one, the database;*)
(* not_configured is not an error.                                          *)
Status(s) == IF s \notin configured THEN "not_configured"
             ELSE IF s \in answering THEN "ok" ELSE "error"
Dependencies == {"store", "database"}

Endpoints ==
    /\ said' = [health |-> IF \E s \in Dependencies : Status(s) = "error"
                             THEN "degraded" ELSE "ok",
                ready |-> Status("store") = "ok",
                status |-> IF open = {} THEN "operational" ELSE "degraded"]
    /\ UNCHANGED <<configured, answering, open, probing, gauge>>

Toggled(set, x) == IF x \in set THEN set \ {x} ELSE set \union {x}

ServiceToggles ==
    /\ \E s \in Names : answering' = Toggled(answering, s)
    /\ UNCHANGED <<configured, open, probing, gauge, said>>
CircuitToggles ==
    /\ \E p \in Circuits : open' = Toggled(open, p)
    /\ UNCHANGED <<configured, answering, probing, gauge, said>>

ProbesNext == ProbeOnce \/ Endpoints \/ ServiceToggles \/ CircuitToggles

===============================================================================
