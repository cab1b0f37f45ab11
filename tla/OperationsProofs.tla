--------------------------- MODULE OperationsProofs ---------------------------
(***************************************************************************)
(* The safety of what runs beside the model requests, for any number of    *)
(* replicas, months, recorders, administrators and published lists.        *)
(***************************************************************************)
EXTENDS MCOperations

-----------------------------------------------------------------------------
(* The partitions of the usage table                                       *)

Phases == {"down", "migrate", "check", "create", "pricing", "assemble", "serving", "draining"}

LifecycleTyped ==
    /\ config \in Config
    /\ phase \in [Replicas -> Phases]
    /\ missing \in [Replicas -> {Idle} \union SUBSET Nat]
    /\ inFlight \subseteq Replicas
    /\ month \in Nat /\ maintained \in Nat /\ maintained <= month
    /\ migrated \in BOOLEAN
    /\ partitions \subseteq Nat
    /\ backlog \in [Replicas \union {"shared"} -> SUBSET Nat]

(* The processes that have seen to the partitions of their month.           *)
Prepared(r) == phase[r] \in {"pricing", "assemble", "serving", "draining"}

(* What has been migrated has the partitions of its last maintenance, which *)
(* is no older than an outage once a process is prepared; a process that is *)
(* about to create partitions knows all that this month lacks; and an event *)
(* is of a month with a partition.                                          *)
Covered ==
    /\ stray = {}
    /\ migrated => maintained..(maintained + MonthsAhead) \subseteq partitions
    /\ \A r \in Replicas :
          phase[r] = "create" => missing[r] # Idle /\ Wanted \subseteq partitions \union missing[r]
    /\ config.databaseUrl =>
          /\ \A r \in Replicas :
                /\ Prepared(r) => month <= maintained + MaxOutage
                /\ Prepared(r) \/ phase[r] \in {"check", "create"} => migrated
          /\ \A s \in Replicas \union {"shared"} : backlog[s] \subseteq partitions
          /\ ~migrated => \A s \in Replicas \union {"shared"} : backlog[s] = {}

LifecycleInv == LifecycleTyped /\ Covered

USE LifecycleAssumption

LEMMA LifecycleBegin == LifecycleInit => LifecycleInv
<1> SUFFICES ASSUME LifecycleInit PROVE LifecycleInv
  OBVIOUS
<1>1. LifecycleTyped
  <2>1. config \in Config
    BY DEF LifecycleInit
  <2>2. phase \in [Replicas -> Phases] /\ missing \in [Replicas -> {Idle} \union SUBSET Nat]
    BY DEF LifecycleInit, Phases
  <2>3. backlog \in [Replicas \union {"shared"} -> SUBSET Nat]
    BY DEF LifecycleInit
  <2>4. inFlight \subseteq Replicas /\ month = 0 /\ maintained = 0 /\ migrated \in BOOLEAN
        /\ partitions \subseteq Nat
    BY DEF LifecycleInit
  <2> QED BY <2>1, <2>2, <2>3, <2>4 DEF LifecycleTyped
<1>2. Covered
  BY DEF LifecycleInit, Covered, Prepared
<1> QED BY <1>1, <1>2 DEF LifecycleInv

\* A process that ends takes its store with it and leaves what is covered covered.
LEMMA EndKeeps ==
  ASSUME LifecycleInv, NEW r \in Replicas, Goto(r, "down"), Gone(r)
  PROVE  LifecycleInv'
<1>1. LifecycleTyped'
  BY DEF LifecycleInv, LifecycleTyped, Goto, Gone, Idle, Phases
<1>2. \A q \in Replicas : q # r => phase'[q] = phase[q] /\ missing'[q] = missing[q]
  BY DEF LifecycleInv, LifecycleTyped, Goto, Gone
<1>3. phase'[r] = "down"
  BY DEF LifecycleInv, LifecycleTyped, Goto
<1>4. \A s \in Replicas \union {"shared"} : backlog'[s] \subseteq backlog[s]
  BY DEF LifecycleInv, LifecycleTyped, Gone
<1>5. Covered'
  BY <1>2, <1>3, <1>4 DEF LifecycleInv, Covered, Gone, Prepared, Wanted
<1> QED BY <1>1, <1>5 DEF LifecycleInv

\* So does a process that starts up a step further, unless the step owes something.
LEMMA StartupKeeps ==
  ASSUME LifecycleInv, NEW r \in Replicas, NEW from, NEW ok \in BOOLEAN, NEW next \in Phases,
         Startup(r, from, ok, next),
         config.databaseUrl =>
           /\ next \in Phases \ {"down", "migrate"} => migrated
           /\ next \in Phases \ {"down", "migrate", "check"} => month <= maintained + MaxOutage,
         next # "create"
  PROVE  LifecycleInv'
<1>1. CASE ~ok
  BY <1>1, EndKeeps DEF Startup, Fails
<1>2. CASE ok
  <2>1. LifecycleTyped'
    BY <1>2 DEF Startup, LifecycleInv, LifecycleTyped, Goto
  <2>2. \A q \in Replicas : q # r => phase'[q] = phase[q]
    BY <1>2 DEF Startup, LifecycleInv, LifecycleTyped, Goto
  <2>3. phase'[r] = next
    BY <1>2 DEF Startup, LifecycleInv, LifecycleTyped, Goto
  <2>4. UNCHANGED <<config, month, maintained, migrated, partitions, stray, backlog, missing>>
    BY <1>2 DEF Startup
  <2>5. \A q \in Replicas : config.databaseUrl =>
          /\ Prepared(q)' => month <= maintained + MaxOutage
          /\ Prepared(q)' \/ phase'[q] \in {"check", "create"} => migrated
          /\ phase'[q] = "create" => q # r
    <3>1. SUFFICES ASSUME NEW q \in Replicas, config.databaseUrl
                   PROVE  /\ Prepared(q)' => month <= maintained + MaxOutage
                          /\ Prepared(q)' \/ phase'[q] \in {"check", "create"} => migrated
                          /\ phase'[q] = "create" => q # r
      OBVIOUS
    <3>2. CASE q = r
      BY <2>3, <3>1, <3>2 DEF Prepared, Phases
    <3>3. CASE q # r
      BY <2>2, <3>1, <3>3 DEF LifecycleInv, Covered, Prepared
    <3> QED BY <3>2, <3>3
  <2>6. Covered'
    <3>1. \A q \in Replicas : phase'[q] = "create" =>
            missing'[q] # Idle /\ Wanted' \subseteq partitions' \union missing'[q]
      BY <2>2, <2>3, <2>4 DEF LifecycleInv, Covered, Wanted
    <3> QED BY <2>4, <2>5, <3>1 DEF LifecycleInv, Covered
  <2> QED BY <2>1, <2>6 DEF LifecycleInv
<1> QED BY <1>1, <1>2

LEMMA LifecycleStep == LifecycleInv /\ [LifecycleNext]_lifecycle => LifecycleInv'
<1> SUFFICES ASSUME LifecycleInv, [LifecycleNext]_lifecycle PROVE LifecycleInv'
  OBVIOUS
<1>0. LifecycleTyped /\ Covered
  BY DEF LifecycleInv
<1>1. ASSUME NEW r \in Replicas, Connect(r) PROVE LifecycleInv'
  <2>1. config.databaseUrl \in BOOLEAN
    BY <1>0 DEF LifecycleTyped, Config
  <2> DEFINE ok == FromEnv(config) /\ StorePing /\ (config.databaseUrl => DatabasePing)
  <2>2. ok \in BOOLEAN
    OBVIOUS
  <2>3. CASE config.databaseUrl
    <3>1. Startup(r, "down", ok, "migrate") /\ "migrate" \in Phases
      BY <1>1, <2>3 DEF Connect, Phases
    <3> HIDE DEF ok
    <3> QED BY <2>2, <3>1, StartupKeeps
  <2>4. CASE ~config.databaseUrl
    <3>1. Startup(r, "down", ok, "assemble") /\ "assemble" \in Phases
      BY <1>1, <2>4 DEF Connect, Phases
    <3> HIDE DEF ok
    <3> QED BY <2>2, <2>4, <3>1, StartupKeeps
  <2> QED BY <2>3, <2>4
<1>2. ASSUME NEW r \in Replicas, Migrate(r) PROVE LifecycleInv'
  <2>1. CASE migrated \/ ~DatabasePing
    <3>1. Startup(r, "migrate", DatabasePing, "check") /\ "check" \in Phases /\ DatabasePing \in BOOLEAN
      BY <1>2, <2>1 DEF Migrate, Phases, DatabasePing
    <3>2. CASE DatabasePing
      BY <2>1, <3>1, <3>2, StartupKeeps
    <3>3. CASE ~DatabasePing
      BY <3>1, <3>3, EndKeeps DEF Startup, Fails
    <3> QED BY <3>2, <3>3
  <2>2. CASE ~(migrated \/ ~DatabasePing)
    <3>1. LifecycleTyped'
      BY <1>0, <1>2, <2>2 DEF Migrate, LifecycleTyped, Goto, Phases, Wanted
    <3>2. phase'[r] = "check" /\ \A q \in Replicas : q # r => phase'[q] = phase[q]
      BY <1>0, <1>2, <2>2 DEF Migrate, LifecycleTyped, Goto
    <3>3. config.databaseUrl => \A q \in Replicas : ~(Prepared(q) \/ phase[q] \in {"check", "create"})
      BY <1>0, <2>2 DEF Covered
    <3>4. Covered'
      BY <1>0, <1>2, <2>2, <3>2, <3>3 DEF Migrate, Covered, LifecycleTyped, Prepared, Wanted
    <3> QED BY <3>1, <3>4 DEF LifecycleInv
  <2> QED BY <2>1, <2>2
<1>3. ASSUME NEW r \in Replicas, CheckPartitions(r) PROVE LifecycleInv'
  <2>1. CASE DatabasePing
    <3>0. Lacking(Wanted) \subseteq Nat
      BY <1>0 DEF Lacking, Wanted, LifecycleTyped
    <3>1. LifecycleTyped'
      <4>1. missing' \in [Replicas -> {Idle} \union SUBSET Nat]
        <5>1. missing' = [missing EXCEPT ![r] = Lacking(Wanted)]
          BY <1>3, <2>1 DEF CheckPartitions
        <5>2. Lacking(Wanted) \in {Idle} \union SUBSET Nat
          BY <3>0
        <5> QED BY <1>0, <5>1, <5>2 DEF LifecycleTyped
      <4>2. phase' \in [Replicas -> Phases]
        BY <1>0, <1>3, <2>1 DEF CheckPartitions, LifecycleTyped, Goto, Phases
      <4> QED BY <1>0, <1>3, <2>1, <4>1, <4>2 DEF CheckPartitions, LifecycleTyped
    <3>2. phase'[r] = "create" /\ \A q \in Replicas : q # r => phase'[q] = phase[q]
      BY <1>0, <1>3, <2>1 DEF CheckPartitions, LifecycleTyped, Goto
    <3>3. missing'[r] = Lacking(Wanted) /\ \A q \in Replicas : q # r => missing'[q] = missing[q]
      BY <1>0, <1>3, <2>1 DEF CheckPartitions, LifecycleTyped
    <3>4. Lacking(Wanted) # Idle /\ Wanted \subseteq partitions \union Lacking(Wanted)
      BY <1>0 DEF Lacking, Wanted, Idle, LifecycleTyped
    <3>5. Covered'
      BY <1>0, <1>3, <2>1, <3>2, <3>3, <3>4 DEF CheckPartitions, Covered, Prepared, Wanted
    <3> QED BY <3>1, <3>5 DEF LifecycleInv
  <2>2. CASE ~DatabasePing
    BY <1>3, <2>2, EndKeeps DEF CheckPartitions, Startup, Fails
  <2> QED BY <2>1, <2>2
<1>4. ASSUME NEW r \in Replicas, CreatePartitions(r) PROVE LifecycleInv'
  <2>1. CASE DatabasePing /\ Creatable(missing[r])
    <3>1. phase[r] = "create" /\ Goto(r, "pricing") /\ Created(r)
          /\ UNCHANGED <<config, inFlight, month, migrated, stray, backlog>>
      BY <1>4, <2>1 DEF CreatePartitions
    <3>2. missing[r] \in {Idle} \union SUBSET Nat
      BY <1>0 DEF LifecycleTyped
    <3>3. missing[r] \subseteq Nat /\ Wanted \subseteq partitions \union missing[r]
      BY <1>0, <3>1, <3>2 DEF Covered
    <3>4. partitions' = partitions \union missing[r] /\ maintained' = month
          /\ missing' = [missing EXCEPT ![r] = Idle]
      BY <3>1 DEF Created
    <3>5. phase'[r] = "pricing" /\ \A q \in Replicas : q # r => phase'[q] = phase[q] /\ missing'[q] = missing[q]
      BY <1>0, <3>1, <3>4 DEF LifecycleTyped, Goto
    <3>6. LifecycleTyped'
      <4>1. phase' \in [Replicas -> Phases] /\ missing' \in [Replicas -> {Idle} \union SUBSET Nat]
        BY <1>0, <3>1, <3>4 DEF LifecycleTyped, Goto, Phases
      <4>2. partitions' \subseteq Nat /\ maintained' \in Nat /\ maintained' <= month'
        <5>1. partitions \subseteq Nat /\ month \in Nat
          BY <1>0 DEF LifecycleTyped
        <5>2. month' = month
          BY <3>1
        <5>3. partitions' = partitions \union missing[r] /\ missing[r] \subseteq Nat
          BY <3>3, <3>4
        <5>4. partitions' \subseteq Nat
          BY <5>1, <5>3
        <5>5. maintained' = month
          BY <3>4
        <5> QED BY <5>1, <5>2, <5>4, <5>5
      <4>3. UNCHANGED <<config, inFlight, month, migrated, backlog>>
        BY <3>1
      <4> QED BY <1>0, <4>1, <4>2, <4>3 DEF LifecycleTyped
    <3>7. Covered'
      <4>1. month..(month + MonthsAhead) \subseteq partitions'
        BY <3>3, <3>4 DEF Wanted
      <4>2. config.databaseUrl => migrated
        BY <1>0, <3>1 DEF Covered
      <4>3. \A q \in Replicas : config.databaseUrl /\ Prepared(q)' => month <= maintained' + MaxOutage
        BY <1>0, <3>4 DEF LifecycleTyped
      <4>4. \A q \in Replicas : phase'[q] = "create" =>
              missing'[q] # Idle /\ Wanted \subseteq partitions' \union missing'[q]
        BY <1>0, <3>4, <3>5 DEF Covered
      <4> QED BY <1>0, <3>1, <3>4, <4>1, <4>2, <4>3, <4>4 DEF Covered, Wanted
    <3> QED BY <3>6, <3>7 DEF LifecycleInv
  <2>2. CASE ~(DatabasePing /\ Creatable(missing[r]))
    BY <1>4, <2>2, EndKeeps DEF CreatePartitions, Startup, Fails
  <2> QED BY <2>1, <2>2
<1>5. ASSUME NEW r \in Replicas, LoadPricing(r) PROVE LifecycleInv'
  <2> DEFINE ok == DatabasePing /\ (config.replicaUrl => "database_replica" \in up)
  <2>1. ok \in BOOLEAN /\ Startup(r, "pricing", ok, "assemble") /\ "assemble" \in Phases
    BY <1>5 DEF LoadPricing, Phases
  <2>2. phase[r] = "pricing"
    BY <1>5 DEF LoadPricing, Startup
  <2>3. config.databaseUrl => migrated /\ month <= maintained + MaxOutage
    BY <1>0, <2>2 DEF Covered, Prepared
  <2> HIDE DEF ok
  <2> QED BY <2>1, <2>3, StartupKeeps
<1>6. ASSUME NEW r \in Replicas, Serve(r) PROVE LifecycleInv'
  <2>1. TRUE \in BOOLEAN /\ Startup(r, "assemble", TRUE, "serving") /\ "serving" \in Phases
    BY <1>6 DEF Serve, Phases
  <2>2. config.databaseUrl => migrated /\ month <= maintained + MaxOutage
    BY <1>0, <1>6 DEF Serve, Startup, Covered, Prepared
  <2> QED BY <2>1, <2>2, StartupKeeps
<1>7. ASSUME NEW r \in Replicas, Accept(r) \/ HealthCheck(r) PROVE LifecycleInv'
  <2>1. UNCHANGED <<config, phase, missing, month, maintained, migrated, partitions, stray, backlog>>
        /\ inFlight' \subseteq Replicas
    BY <1>0, <1>7 DEF Accept, HealthCheck, LifecycleTyped
  <2> QED BY <1>0, <2>1 DEF LifecycleInv, LifecycleTyped, Covered, Prepared, Wanted
<1>8. ASSUME NEW r \in Replicas, Complete(r) PROVE LifecycleInv'
  <2>1. UNCHANGED <<config, phase, missing, month, maintained, migrated, partitions, stray>>
        /\ inFlight' \subseteq Replicas /\ Prepared(r)
    BY <1>0, <1>8 DEF Complete, LifecycleTyped, Running, Prepared
  <2>2. config.databaseUrl => migrated /\ month \in partitions
    BY <1>0, <2>1 DEF Covered, LifecycleTyped
  <2>3. Store(r) \in Replicas \union {"shared"}
    BY DEF Store
  <2>4. \A s \in Replicas \union {"shared"} : backlog'[s] \subseteq backlog[s] \union {month}
    BY <1>0, <1>8, <2>3 DEF Complete, LifecycleTyped
  <2>5. backlog' \in [Replicas \union {"shared"} -> SUBSET Nat]
    BY <1>0, <1>8, <2>3 DEF Complete, LifecycleTyped
  <2>6. LifecycleTyped'
    BY <1>0, <2>1, <2>5 DEF LifecycleTyped
  <2>7. Covered'
    BY <1>0, <2>1, <2>2, <2>4 DEF Covered, Prepared, Wanted
  <2> QED BY <2>6, <2>7 DEF LifecycleInv
<1>9. ASSUME NEW r \in Replicas, WriteUsage(r) PROVE LifecycleInv'
  <2>1. PICK m \in backlog[Store(r)] :
          /\ backlog' = [backlog EXCEPT ![Store(r)] = @ \ {m}]
          /\ stray' = IF m \in partitions THEN stray ELSE stray \union {m}
    BY <1>9 DEF WriteUsage
  <2>2. UNCHANGED <<config, phase, missing, inFlight, month, maintained, migrated, partitions>>
        /\ config.databaseUrl
    BY <1>9 DEF WriteUsage
  <2>3. Store(r) \in Replicas \union {"shared"}
    BY DEF Store
  <2>4. m \in partitions
    BY <1>0, <2>1, <2>2, <2>3 DEF Covered
  <2>5. \A s \in Replicas \union {"shared"} : backlog'[s] \subseteq backlog[s]
    BY <1>0, <2>1, <2>3 DEF LifecycleTyped
  <2>6. LifecycleTyped'
    BY <1>0, <2>1, <2>2, <2>3 DEF LifecycleTyped
  <2>7. Covered'
    BY <1>0, <2>1, <2>2, <2>4, <2>5 DEF Covered, Prepared, Wanted
  <2> QED BY <2>6, <2>7 DEF LifecycleInv
<1>10. ASSUME NEW r \in Replicas, Maintain(r) PROVE LifecycleInv'
  <2>1. UNCHANGED <<config, phase, missing, inFlight, month, migrated, stray, backlog>>
        /\ partitions' = partitions \union (month..(month + MonthsAhead)) /\ maintained' = month
    BY <1>10 DEF Maintain, Lacking, Wanted
  <2>2. LifecycleTyped'
    BY <1>0, <2>1 DEF LifecycleTyped
  <2>3. \A q \in Replicas : config.databaseUrl /\ Prepared(q)' => month <= maintained' + MaxOutage
    BY <1>0, <2>1 DEF LifecycleTyped
  <2>4. Covered'
    BY <1>0, <2>1, <2>3 DEF Covered, Prepared, Wanted
  <2> QED BY <2>2, <2>4 DEF LifecycleInv
<1>11. ASSUME NEW r \in Replicas, ShutdownSignal(r) PROVE LifecycleInv'
  <2>1. UNCHANGED <<config, missing, inFlight, month, maintained, migrated, partitions, stray, backlog>>
        /\ phase[r] = "serving" /\ Goto(r, "draining")
    BY <1>11 DEF ShutdownSignal
  <2>2. LifecycleTyped' /\ phase'[r] = "draining" /\ \A q \in Replicas : q # r => phase'[q] = phase[q]
    BY <1>0, <2>1 DEF LifecycleTyped, Goto, Phases
  <2>3. Covered'
    BY <1>0, <2>1, <2>2 DEF Covered, Prepared, Wanted
  <2> QED BY <2>2, <2>3 DEF LifecycleInv
<1>12. ASSUME NEW r \in Replicas, ShutdownComplete(r) \/ Dies(r) PROVE LifecycleInv'
  BY <1>12, EndKeeps DEF ShutdownComplete, Fails, Dies
<1>13. ASSUME NEW s \in Backends, Toggle(s) PROVE LifecycleInv'
  BY <1>0, <1>13 DEF Toggle, LifecycleInv, LifecycleTyped, Covered, Prepared, Wanted
<1>14. CASE MonthTurns
  <2>1. UNCHANGED <<config, phase, missing, inFlight, maintained, migrated, partitions, stray, backlog>>
        /\ month' = month + 1 /\ \A r \in Replicas : missing[r] = Idle
    BY <1>14 DEF MonthTurns
  <2>2. LifecycleTyped'
    BY <1>0, <2>1 DEF LifecycleTyped
  <2>3. \A r \in Replicas : phase[r] # "create"
    BY <1>0, <2>1 DEF Covered
  <2>4. \A r \in Replicas : config.databaseUrl /\ Prepared(r) => month + 1 <= maintained + MaxOutage
    BY <1>0, <1>14 DEF MonthTurns, Alive, Prepared, LifecycleTyped
  <2>5. Covered'
    BY <1>0, <2>1, <2>3, <2>4 DEF Covered, Prepared
  <2> QED BY <2>2, <2>5 DEF LifecycleInv
<1>15. CASE UNCHANGED lifecycle
  BY <1>0, <1>15 DEF lifecycle, LifecycleInv, LifecycleTyped, Covered, Prepared, Wanted
<1> QED
  BY <1>1, <1>2, <1>3, <1>4, <1>5, <1>6, <1>7, <1>8, <1>9, <1>10, <1>11, <1>12, <1>13, <1>14, <1>15
  DEF LifecycleNext, Boot

\* However many replicas start, crash and are cut off from the database, in whatever order and for
\* up to MaxOutage months, no usage row goes to the default partition
\* (maintain_usage_partitions, run_partition_maintenance).
THEOREM PartitionsThere == Spec => []PartitionThere
<1>1. Init => LifecycleInv
  BY LifecycleBegin DEF Init
<1>2. LifecycleInv /\ [Next]_vars => LifecycleInv'
  <2>1. [Next]_vars => [LifecycleNext]_lifecycle
    BY DEF Next, vars, OfLifecycle, OfMetrics, OfProbes, OfPrices, OfReference, OfDirectory, OfSignOn
  <2> QED BY <2>1, LifecycleStep
<1>3. LifecycleInv => PartitionThere
  BY DEF LifecycleInv, Covered, PartitionThere
<1> QED BY <1>1, <1>2, <1>3, PTL DEF Spec

-----------------------------------------------------------------------------
(* The metrics                                                             *)

Reading ==
    [at : {"asleep", "reading", "answered"}, target : Nat, seen : Nat, edge : 0..Infinity,
     spare : Int]

MetricsTyped ==
    /\ requests \in [1..Statuses -> Nat \union {NoSeries}]
    /\ events \in Nat \union {NoSeries}
    /\ buckets \in [1..Infinity -> Nat] /\ count \in Nat
    /\ at \in [Recorders -> {"idle", "emit", "event", "new_event", "request", "new_request",
                            "observe", "filed", "counted"}]
    /\ labels \in [Recorders -> 1..Statuses]
    /\ bucket \in [Recorders -> 1..Infinity]
    /\ lost \in Nat
    /\ reader \in Reading

(* Requests whose event is dealt with and that are not counted yet, and     *)
(* observations that are in their bucket and not in the count; those in the *)
(* count and not in a bucket are Ahead.                                     *)
Uncounted == {t \in Recorders : at[t] \in {"request", "new_request"}}
HalfSeen == {t \in Recorders : at[t] = "filed"}

(* The observations in the buckets a reader has still to read.              *)
Beyond(edge) == Total([b \in 1..Infinity |-> IF b > edge THEN buckets[b] ELSE 0], Infinity)

Counted ==
    /\ Value(events) + lost = RequestsTotal + Cardinality(Uncounted)
    /\ count + Cardinality(HalfSeen) = Total(buckets, Infinity) + Cardinality(Ahead)

(* What a reader still has to read holds what it looks for, unless too much *)
(* was ahead when it began.                                                 *)
Reachable ==
    /\ reader.at = "reading" =>
          /\ reader.edge < Infinity
          /\ reader.seen < reader.target
          /\ reader.spare < 0 \/ reader.target <= reader.seen + Beyond(reader.edge)
    /\ QuantileFinite

MetricsInv == MetricsTyped /\ Counted /\ Reachable

\* The values of the series, which RequestsTotal adds up.
Series == [s \in 1..Statuses |-> Value(requests[s])]

LEMMA InfinityTyped == Infinity \in Nat /\ Infinity >= 2
  BY MetricsAssumption DEF Infinity

LEMMA PendingTyped ==
  /\ IsFiniteSet(Uncounted) /\ Cardinality(Uncounted) \in Nat
  /\ IsFiniteSet(HalfSeen) /\ Cardinality(HalfSeen) \in Nat
  /\ IsFiniteSet(Ahead) /\ Cardinality(Ahead) \in Nat
<1>1. Uncounted \subseteq Recorders /\ HalfSeen \subseteq Recorders /\ Ahead \subseteq Recorders
  BY DEF Uncounted, HalfSeen, Ahead
<1> QED BY <1>1, MetricsAssumption, FS_Subset, FS_CardinalityType

LEMMA MetricsBegin == MetricsInit => MetricsInv
<1> SUFFICES ASSUME MetricsInit PROVE MetricsInv
  OBVIOUS
<1>1. MetricsTyped
  BY MetricsAssumption, InfinityTyped DEF MetricsInit, MetricsTyped, Reading, Asleep, Ok, NoSeries
<1>2. Uncounted = {} /\ HalfSeen = {} /\ Ahead = {}
  BY DEF MetricsInit, Uncounted, HalfSeen, Ahead
<1>3. RequestsTotal = 0
  <2>1. Series = [s \in 1..Statuses |-> 0]
    BY DEF MetricsInit, Series, Value
  <2> QED BY <2>1, TotalZero, MetricsAssumption DEF RequestsTotal, Series
<1>4. Total(buckets, Infinity) = 0
  BY TotalZero, InfinityTyped DEF MetricsInit
<1>5. Counted
  BY <1>2, <1>3, <1>4, FS_EmptySet DEF MetricsInit, Counted, Value, NoSeries
<1>6. Reachable
  BY DEF MetricsInit, Reachable, QuantileFinite, Asleep
<1> QED BY <1>1, <1>5, <1>6 DEF MetricsInv

\* A recorder that takes a step enters or leaves the sets of the pending ones.
LEMMA PendingMoves ==
  ASSUME MetricsTyped, NEW t \in Recorders, NEW next, Steps(t, next)
  PROVE  /\ Cardinality(Uncounted') = Cardinality(Uncounted)
              - (IF at[t] \in {"request", "new_request"} THEN 1 ELSE 0)
              + (IF next \in {"request", "new_request"} THEN 1 ELSE 0)
         /\ Cardinality(HalfSeen') = Cardinality(HalfSeen)
              - (IF at[t] = "filed" THEN 1 ELSE 0) + (IF next = "filed" THEN 1 ELSE 0)
         /\ Cardinality(Ahead') = Cardinality(Ahead)
              - (IF at[t] = "counted" THEN 1 ELSE 0) + (IF next = "counted" THEN 1 ELSE 0)
<1>1. at' = [at EXCEPT ![t] = next] /\ DOMAIN at = Recorders
  BY DEF Steps, MetricsTyped
<1>2. Cardinality(Uncounted \union {t}) =
        IF t \in Uncounted THEN Cardinality(Uncounted) ELSE Cardinality(Uncounted) + 1
  BY PendingTyped, FS_AddElement
<1>3. Cardinality(Uncounted \ {t}) =
        IF t \in Uncounted THEN Cardinality(Uncounted) - 1 ELSE Cardinality(Uncounted)
  BY PendingTyped, FS_RemoveElement
<1>4. Cardinality(HalfSeen \union {t}) =
        IF t \in HalfSeen THEN Cardinality(HalfSeen) ELSE Cardinality(HalfSeen) + 1
  BY PendingTyped, FS_AddElement
<1>5. Cardinality(HalfSeen \ {t}) =
        IF t \in HalfSeen THEN Cardinality(HalfSeen) - 1 ELSE Cardinality(HalfSeen)
  BY PendingTyped, FS_RemoveElement
<1>a. Cardinality(Ahead \union {t}) =
        IF t \in Ahead THEN Cardinality(Ahead) ELSE Cardinality(Ahead) + 1
  BY PendingTyped, FS_AddElement
<1>b. Cardinality(Ahead \ {t}) =
        IF t \in Ahead THEN Cardinality(Ahead) - 1 ELSE Cardinality(Ahead)
  BY PendingTyped, FS_RemoveElement
<1>6. Uncounted' = IF next \in {"request", "new_request"}
                     THEN Uncounted \union {t} ELSE Uncounted \ {t}
  BY <1>1 DEF Uncounted
<1>7. HalfSeen' = IF next = "filed" THEN HalfSeen \union {t} ELSE HalfSeen \ {t}
  BY <1>1 DEF HalfSeen
<1>c. Ahead' = IF next = "counted" THEN Ahead \union {t} ELSE Ahead \ {t}
  BY <1>1 DEF Ahead
<1>8. /\ t \in Uncounted <=> at[t] \in {"request", "new_request"}
      /\ t \in HalfSeen <=> at[t] = "filed"
      /\ t \in Ahead <=> at[t] = "counted"
  BY DEF Uncounted, HalfSeen, Ahead
<1>9. Cardinality(Uncounted') = Cardinality(Uncounted)
              - (IF at[t] \in {"request", "new_request"} THEN 1 ELSE 0)
              + (IF next \in {"request", "new_request"} THEN 1 ELSE 0)
  BY <1>2, <1>3, <1>6, <1>8, PendingTyped
<1>10. Cardinality(HalfSeen') = Cardinality(HalfSeen)
              - (IF at[t] = "filed" THEN 1 ELSE 0) + (IF next = "filed" THEN 1 ELSE 0)
  BY <1>4, <1>5, <1>7, <1>8, PendingTyped
<1>11. Cardinality(Ahead') = Cardinality(Ahead)
              - (IF at[t] = "counted" THEN 1 ELSE 0) + (IF next = "counted" THEN 1 ELSE 0)
  BY <1>a, <1>b, <1>c, <1>8, PendingTyped
<1> QED BY <1>9, <1>10, <1>11

\* What lies beyond an edge, in numbers.
LEMMA BeyondFacts ==
  ASSUME MetricsTyped
  PROVE  /\ \A e \in 0..Infinity : Beyond(e) \in Int
         /\ \A e \in 0..(Infinity - 1) : Beyond(e) = buckets[e + 1] + Beyond(e + 1)
         /\ Beyond(Infinity) = 0
         /\ Beyond(0) = Total(buckets, Infinity)
<1> DEFINE F(e) == [b \in 1..Infinity |-> IF b > e THEN buckets[b] ELSE 0]
<1>0. Infinity \in Nat /\ buckets \in [1..Infinity -> Nat]
  BY InfinityTyped DEF MetricsTyped
<1>1. \A e \in 0..Infinity : F(e) \in [1..Infinity -> Int]
  BY <1>0
<1>2. \A e \in 0..Infinity : Beyond(e) \in Int
  BY <1>0, <1>1, TotalType DEF Beyond
<1>3. ASSUME NEW e \in 0..(Infinity - 1) PROVE Beyond(e) = buckets[e + 1] + Beyond(e + 1)
  <2>1. e \in 0..Infinity /\ e + 1 \in 0..Infinity /\ e + 1 \in 1..Infinity
    BY <1>0
  <2>2. F(e) \in [1..Infinity -> Int] /\ F(e + 1) \in [1..Infinity -> Int]
    BY <1>1, <2>1
  <2>3. \A q \in 1..Infinity : q # e + 1 => F(e + 1)[q] = F(e)[q]
    BY <1>0, <2>1
  <2>4. F(e)[e + 1] = buckets[e + 1] /\ F(e + 1)[e + 1] = 0 /\ buckets[e + 1] \in Nat
    BY <1>0, <2>1
  <2>5. Total(F(e + 1), Infinity) = Total(F(e), Infinity) - F(e)[e + 1] + F(e + 1)[e + 1]
    <3> HIDE DEF F
    <3> QED BY <1>0, <2>1, <2>2, <2>3, TotalStep
  <2>6. Beyond(e) = Total(F(e), Infinity) /\ Beyond(e + 1) = Total(F(e + 1), Infinity)
    BY DEF Beyond
  <2>7. Beyond(e) \in Int /\ Beyond(e + 1) \in Int
    BY <1>2, <2>1
  <2> HIDE DEF F
  <2> QED BY <2>4, <2>5, <2>6, <2>7
<1>4. Beyond(Infinity) = 0
  <2>1. F(Infinity) = [b \in 1..Infinity |-> 0]
    BY <1>0
  <2> QED BY <1>0, <2>1, TotalZero DEF Beyond
<1>5. Beyond(0) = Total(buckets, Infinity)
  <2>1. F(0) = buckets
    BY <1>0
  <2> QED BY <2>1 DEF Beyond
<1> QED BY <1>2, <1>3, <1>4, <1>5

\* An observation adds one to the total and takes nothing from what lies beyond an edge.
LEMMA ObservationAdds ==
  ASSUME MetricsTyped, NEW b \in 1..Infinity, buckets' = [buckets EXCEPT ![b] = @ + 1]
  PROVE  /\ Total(buckets', Infinity) = Total(buckets, Infinity) + 1
         /\ \A e \in 0..Infinity : Beyond(e)' \in Int /\ Beyond(e) <= Beyond(e)'
         /\ buckets' \in [1..Infinity -> Nat] /\ buckets[Infinity] <= buckets'[Infinity]
<1>0. Infinity \in Nat /\ Infinity >= 2 /\ buckets \in [1..Infinity -> Int] /\ buckets \in [1..Infinity -> Nat]
  BY InfinityTyped DEF MetricsTyped
<1>1. buckets[b] + 1 \in Int /\ buckets[b] \in Nat
  BY <1>0
<1>2. Total(buckets', Infinity) = Total(buckets, Infinity) - buckets[b] + (buckets[b] + 1)
  BY <1>0, <1>1, TotalChange
<1>3. Total(buckets, Infinity) \in Int
  BY <1>0, TotalType
<1>4. buckets' \in [1..Infinity -> Nat] /\ \A c \in 1..Infinity : buckets[c] <= buckets'[c]
  BY <1>0, <1>1
<1>5. ASSUME NEW e \in 0..Infinity PROVE Beyond(e)' \in Int /\ Beyond(e) <= Beyond(e)'
  <2> DEFINE f == [c \in 1..Infinity |-> IF c > e THEN buckets[c] ELSE 0]
             g == [c \in 1..Infinity |-> IF c > e THEN buckets'[c] ELSE 0]
  <2>1. f \in [1..Infinity -> Int] /\ g \in [1..Infinity -> Int]
    BY <1>0, <1>4
  <2>2. \A c \in 1..Infinity : f[c] <= g[c]
    BY <1>0, <1>4
  <2>3. Beyond(e) = Total(f, Infinity) /\ Beyond(e)' = Total(g, Infinity)
    BY DEF Beyond, Infinity
  <2> HIDE DEF f, g
  <2>4. Total(g, Infinity) \in Int
    BY <1>0, <2>1, TotalType
  <2> QED BY <1>0, <2>1, <2>2, <2>3, <2>4, TotalMonotone
<1>6. buckets[Infinity] <= buckets'[Infinity]
  BY <1>0, <1>4
<1> QED BY <1>1, <1>2, <1>3, <1>4, <1>5, <1>6

\* Nothing the counters count changes but at one label set.
LEMMA RequestCounted ==
  ASSUME MetricsTyped, NEW s \in 1..Statuses, NEW v \in Nat, requests' = [requests EXCEPT ![s] = v]
  PROVE  /\ RequestsTotal' = RequestsTotal - Value(requests[s]) + v
         /\ requests' \in [1..Statuses -> Nat \union {NoSeries}]
<1>1. Statuses \in Nat /\ requests \in [1..Statuses -> Nat \union {NoSeries}]
  BY MetricsAssumption DEF MetricsTyped
<1>2. requests' \in [1..Statuses -> Nat \union {NoSeries}]
  BY <1>1
<1>3. Series \in [1..Statuses -> Int] /\ Series' \in [1..Statuses -> Int]
  BY <1>1, <1>2 DEF Series, Value, NoSeries
<1>4. \A q \in 1..Statuses : q # s => Series'[q] = Series[q]
  BY <1>1 DEF Series, Value
<1>5. Series[s] = Value(requests[s]) /\ Series'[s] = v
  BY <1>1, <1>2 DEF Series, Value, NoSeries
<1>6. Total(Series', Statuses) = Total(Series, Statuses) - Series[s] + Series'[s]
  BY <1>1, <1>3, <1>4, TotalStep
<1> QED BY <1>2, <1>5, <1>6 DEF RequestsTotal, Series

LEMMA TotalsTyped ==
  ASSUME MetricsTyped
  PROVE  RequestsTotal \in Int /\ Total(buckets, Infinity) \in Int /\ Value(events) \in Nat
<1>1. Statuses \in Nat /\ Series \in [1..Statuses -> Int]
  BY MetricsAssumption DEF MetricsTyped, Series, Value, NoSeries
<1>2. RequestsTotal \in Int
  BY <1>1, TotalType DEF RequestsTotal, Series
<1>3. Total(buckets, Infinity) \in Int
  BY InfinityTyped, TotalType DEF MetricsTyped
<1> QED BY <1>2, <1>3 DEF MetricsTyped, Value, NoSeries

\* What a recorder does to the counters leaves the reader alone.
LEMMA ReaderKept ==
  ASSUME MetricsInv, UNCHANGED <<buckets, reader>>
  PROVE  Reachable'
BY DEF MetricsInv, Reachable, QuantileFinite, Beyond

LEMMA MetricsStep == MetricsInv /\ [MetricsNext]_metrics => MetricsInv'
<1> SUFFICES ASSUME MetricsInv, [MetricsNext]_metrics PROVE MetricsInv'
  OBVIOUS
<1>0. MetricsTyped /\ Counted /\ Reachable
  BY DEF MetricsInv
<1>t. RequestsTotal \in Int /\ Total(buckets, Infinity) \in Int /\ Value(events) \in Nat
      /\ Cardinality(Uncounted) \in Nat /\ Cardinality(HalfSeen) \in Nat /\ Cardinality(Ahead) \in Nat
      /\ count \in Nat /\ lost \in Nat
  BY <1>0, TotalsTyped, PendingTyped DEF MetricsTyped
<1>1. ASSUME NEW t \in Recorders, Begin(t) PROVE MetricsInv'
  <2>1. at[t] = "idle" /\ Steps(t, "emit") /\ UNCHANGED <<requests, events, buckets, count, lost, reader>>
    BY <1>1 DEF Begin
  <2>2. PICK s \in 1..Statuses : labels' = [labels EXCEPT ![t] = s]
    BY <1>1 DEF Begin
  <2>3. PICK b \in 1..Infinity : bucket' = [bucket EXCEPT ![t] = b]
    <3>1. \E b \in IF labels'[t] = Ok THEN 1..Infinity ELSE {1} : bucket' = [bucket EXCEPT ![t] = b]
      BY <1>1 DEF Begin
    <3>2. 1 \in 1..Infinity
      BY InfinityTyped
    <3> QED BY <3>1, <3>2
  <2>4. MetricsTyped'
    BY <1>0, <2>1, <2>2, <2>3 DEF MetricsTyped, Steps
  <2>5. Cardinality(Uncounted') = Cardinality(Uncounted)
        /\ Cardinality(HalfSeen') = Cardinality(HalfSeen) /\ Cardinality(Ahead') = Cardinality(Ahead)
    BY <1>0, <1>t, <2>1, PendingMoves
  <2>6. RequestsTotal' = RequestsTotal
    BY <2>1 DEF RequestsTotal
  <2>7. Counted'
    BY <1>0, <2>1, <2>5, <2>6 DEF Counted
  <2> QED BY <2>1, <2>4, <2>7, ReaderKept DEF MetricsInv
<1>2. ASSUME NEW t \in Recorders, Emit(t) PROVE MetricsInv'
  <2>1. PICK ok \in BOOLEAN : /\ Steps(t, IF ok THEN "event" ELSE "request")
                              /\ lost' = IF ok THEN lost ELSE lost + 1
    BY <1>2 DEF Emit
  <2>2. at[t] = "emit" /\ UNCHANGED <<requests, events, buckets, count, labels, bucket, reader>>
    BY <1>2 DEF Emit
  <2>3. MetricsTyped'
    BY <1>0, <2>1, <2>2 DEF MetricsTyped, Steps
  <2>4. Cardinality(HalfSeen') = Cardinality(HalfSeen) /\ Cardinality(Ahead') = Cardinality(Ahead)
        /\ Cardinality(Uncounted') = Cardinality(Uncounted) + (IF ok THEN 0 ELSE 1)
    BY <1>0, <1>t, <2>1, <2>2, PendingMoves
  <2>5. RequestsTotal' = RequestsTotal
    BY <2>2 DEF RequestsTotal
  <2>6. Counted'
    BY <1>0, <1>t, <2>1, <2>2, <2>4, <2>5 DEF Counted
  <2> QED BY <2>2, <2>3, <2>6, ReaderKept DEF MetricsInv
<1>3. ASSUME NEW t \in Recorders, RecordUsageEvent(t) PROVE MetricsInv'
  <2>1. UNCHANGED <<requests, buckets, count, labels, bucket, lost, reader>>
    BY <1>3 DEF RecordUsageEvent
  <2>2. RequestsTotal' = RequestsTotal
    BY <2>1 DEF RequestsTotal
  <2>3. CASE events = NoSeries /\ at[t] = "event"
    <3>1. Steps(t, "new_event") /\ events' = events
      BY <1>3, <2>3 DEF RecordUsageEvent, Found, Added
    <3>2. MetricsTyped'
      BY <1>0, <2>1, <3>1 DEF MetricsTyped, Steps
    <3>3. Cardinality(Uncounted') = Cardinality(Uncounted)
          /\ Cardinality(HalfSeen') = Cardinality(HalfSeen) /\ Cardinality(Ahead') = Cardinality(Ahead)
      BY <1>0, <1>t, <2>3, <3>1, PendingMoves
    <3>4. Counted'
      BY <1>0, <2>1, <2>2, <3>1, <3>3 DEF Counted
    <3> QED BY <2>1, <3>2, <3>4, ReaderKept DEF MetricsInv
  <2>4. CASE ~(events = NoSeries /\ at[t] = "event")
    <3>1. at[t] \in {"event", "new_event"} /\ Steps(t, "request") /\ events' = Value(events) + 1
      BY <1>3, <2>4 DEF RecordUsageEvent, Found, Added, Inserted, Value
    <3>2. events' \in Nat /\ Value(events)' = Value(events) + 1
      BY <1>t, <3>1 DEF Value, NoSeries
    <3>3. MetricsTyped'
      BY <1>0, <2>1, <3>1, <3>2 DEF MetricsTyped, Steps
    <3>4. Cardinality(Uncounted') = Cardinality(Uncounted) + 1
          /\ Cardinality(HalfSeen') = Cardinality(HalfSeen) /\ Cardinality(Ahead') = Cardinality(Ahead)
      BY <1>0, <1>t, <3>1, PendingMoves
    <3>5. Counted'
      BY <1>0, <1>t, <2>1, <2>2, <3>2, <3>4 DEF Counted
    <3> QED BY <2>1, <3>3, <3>5, ReaderKept DEF MetricsInv
  <2> QED BY <2>3, <2>4
<1>4. ASSUME NEW t \in Recorders, RecordRequest(t) PROVE MetricsInv'
  <2> DEFINE s == labels[t]
             next == IF s = Ok THEN "observe" ELSE "idle"
  <2>0. s \in 1..Statuses /\ requests[s] \in Nat \union {NoSeries} /\ Value(requests[s]) \in Nat
    BY <1>0 DEF MetricsTyped, Value, NoSeries
  <2>1. UNCHANGED <<events, buckets, count, labels, bucket, lost, reader>>
    BY <1>4 DEF RecordRequest
  <2>3. CASE requests[s] = NoSeries /\ at[t] = "request"
    <3>1. Steps(t, "new_request") /\ requests' = requests
      BY <1>0, <1>4, <2>3 DEF RecordRequest, Found, Added, MetricsTyped
    <3>2. MetricsTyped'
      BY <1>0, <2>1, <3>1 DEF MetricsTyped, Steps
    <3>3. Cardinality(Uncounted') = Cardinality(Uncounted)
          /\ Cardinality(HalfSeen') = Cardinality(HalfSeen) /\ Cardinality(Ahead') = Cardinality(Ahead)
      BY <1>0, <1>t, <2>3, <3>1, PendingMoves
    <3>4. Counted'
      BY <1>0, <2>1, <3>1, <3>3 DEF Counted, RequestsTotal
    <3> QED BY <2>1, <3>2, <3>4, ReaderKept DEF MetricsInv
  <2>4. CASE ~(requests[s] = NoSeries /\ at[t] = "request")
    <3>1. at[t] \in {"request", "new_request"} /\ Steps(t, next)
          /\ requests' = [requests EXCEPT ![s] = Value(requests[s]) + 1]
      BY <1>4, <2>4 DEF RecordRequest, Found, Added, Inserted, Value
    <3>2. RequestsTotal' = RequestsTotal + 1 /\ requests' \in [1..Statuses -> Nat \union {NoSeries}]
      <4> DEFINE v == Value(requests[s]) + 1
      <4>1. v \in Nat /\ requests' = [requests EXCEPT ![s] = v] /\ v = Value(requests[s]) + 1
        BY <2>0, <3>1
      <4> HIDE DEF s, v
      <4>2. RequestsTotal' = RequestsTotal - Value(requests[s]) + v
            /\ requests' \in [1..Statuses -> Nat \union {NoSeries}]
        BY <1>0, <2>0, <4>1, RequestCounted
      <4> QED BY <1>t, <2>0, <4>1, <4>2
    <3>3. next \in {"observe", "idle"}
      OBVIOUS
    <3> HIDE DEF s, next
    <3>4. MetricsTyped'
      BY <1>0, <2>1, <3>1, <3>2, <3>3 DEF MetricsTyped, Steps
    <3>5. Cardinality(Uncounted') = Cardinality(Uncounted) - 1
          /\ Cardinality(HalfSeen') = Cardinality(HalfSeen) /\ Cardinality(Ahead') = Cardinality(Ahead)
      BY <1>0, <1>t, <3>1, <3>3, PendingMoves
    <3>6. Counted'
      BY <1>0, <1>t, <2>1, <3>2, <3>5 DEF Counted
    <3> QED BY <2>1, <3>4, <3>6, ReaderKept DEF MetricsInv
  <2> QED BY <2>3, <2>4
<1>5. ASSUME NEW t \in Recorders, Observe(t) PROVE MetricsInv'
  <2>1. UNCHANGED <<requests, events, labels, bucket, lost, reader>>
    BY <1>5 DEF Observe
  <2>2. RequestsTotal' = RequestsTotal
    BY <2>1 DEF RequestsTotal
  <2>3. CASE (Steps(t, "filed") /\ at[t] = "observe") \/ (Steps(t, "idle") /\ at[t] = "counted")
    <3>1. buckets' = [buckets EXCEPT ![bucket[t]] = @ + 1] /\ count' = count
          /\ at' \in [Recorders -> {"idle", "emit", "event", "new_event", "request", "new_request",
                                  "observe", "filed", "counted"}]
      BY <1>0, <1>5, <2>3 DEF Observe, Steps, MetricsTyped
    <3>2. bucket[t] \in 1..Infinity
      BY <1>0 DEF MetricsTyped
    <3>3. /\ Total(buckets', Infinity) = Total(buckets, Infinity) + 1
          /\ \A e \in 0..Infinity : Beyond(e)' \in Int /\ Beyond(e) <= Beyond(e)'
          /\ buckets' \in [1..Infinity -> Nat] /\ buckets[Infinity] <= buckets'[Infinity]
      BY <1>0, <3>1, <3>2, ObservationAdds
    <3>4. MetricsTyped'
      BY <1>0, <2>1, <3>1, <3>3 DEF MetricsTyped, Reading, Infinity
    <3>5. Cardinality(Uncounted') = Cardinality(Uncounted)
          /\ Cardinality(HalfSeen') - Cardinality(Ahead') = Cardinality(HalfSeen) - Cardinality(Ahead) + 1
          /\ Cardinality(HalfSeen') \in Int /\ Cardinality(Ahead') \in Int
      BY <1>0, <1>t, <2>3, PendingMoves
    <3>8. (count + Cardinality(HalfSeen) = Total(buckets, Infinity) + Cardinality(Ahead))'
      <4> DEFINE total == Total(buckets', Infinity)
      <4>1. total = Total(buckets, Infinity)'
        BY DEF Infinity
      <4>2. count + Cardinality(HalfSeen) = Total(buckets, Infinity) + Cardinality(Ahead)
        BY <1>0 DEF Counted
      <4>3. total = Total(buckets, Infinity) + 1 /\ total \in Int
        BY <1>t, <3>3
      <4> HIDE DEF total
      <4> QED BY <1>t, <3>1, <3>5, <4>1, <4>2, <4>3
    <3>6. Counted'
      BY <1>0, <2>1, <2>2, <3>5, <3>8 DEF Counted
    <3>7. Reachable'
      <4>1. reader.edge \in 0..Infinity /\ reader.seen \in Nat /\ reader.target \in Nat
        BY <1>0 DEF MetricsTyped, Reading
      <4>2. Beyond(reader.edge) <= Beyond(reader.edge)' /\ Beyond(reader.edge) \in Int
            /\ Beyond(reader.edge)' \in Int
        <5>1. Beyond(reader.edge) \in Int
          BY <1>0, <4>1, BeyondFacts
        <5>2. \A e \in 0..Infinity : Beyond(e)' \in Int
          BY <3>3
        <5>3. Beyond(reader.edge)' \in Int
          BY <2>1, <3>4, <4>1, <5>2
        <5> QED BY <2>1, <3>3, <4>1, <5>1, <5>3
      <4>3. (reader.at = "reading" =>
               /\ reader.edge < Infinity
               /\ reader.seen < reader.target
               /\ reader.spare < 0 \/ reader.target <= reader.seen + Beyond(reader.edge))'
        BY <1>0, <2>1, <4>1, <4>2 DEF Reachable
      <4>4. QuantileFinite'
        <5>1. buckets[Infinity] \in Nat /\ buckets'[Infinity] \in Nat
          BY <1>0, <3>3, InfinityTyped DEF MetricsTyped
        <5> QED BY <1>0, <2>1, <3>3, <5>1 DEF Reachable, QuantileFinite, Infinity
      <4> QED BY <4>3, <4>4 DEF Reachable, Infinity
    <3> QED BY <3>4, <3>6, <3>7 DEF MetricsInv
  <2>4. CASE (Steps(t, "counted") /\ at[t] = "observe") \/ (Steps(t, "idle") /\ at[t] = "filed")
    <3>1. count' = count + 1 /\ buckets' = buckets
          /\ at' \in [Recorders -> {"idle", "emit", "event", "new_event", "request", "new_request",
                                  "observe", "filed", "counted"}]
      BY <1>0, <1>5, <2>4 DEF Observe, Steps, MetricsTyped
    <3>2. MetricsTyped'
      BY <1>0, <1>t, <2>1, <3>1 DEF MetricsTyped
    <3>3. Cardinality(Uncounted') = Cardinality(Uncounted)
          /\ Cardinality(HalfSeen') - Cardinality(Ahead') = Cardinality(HalfSeen) - Cardinality(Ahead) - 1
          /\ Cardinality(HalfSeen') \in Int /\ Cardinality(Ahead') \in Int
      BY <1>0, <1>t, <2>4, PendingMoves
    <3>5. (count + Cardinality(HalfSeen) = Total(buckets, Infinity) + Cardinality(Ahead))'
      <4> DEFINE total == Total(buckets, Infinity)
      <4>1. Total(buckets, Infinity)' = total
        BY <3>1 DEF Infinity
      <4>2. count + Cardinality(HalfSeen) = total + Cardinality(Ahead) /\ total \in Int
        BY <1>0, <1>t DEF Counted
      <4> HIDE DEF total
      <4> QED BY <1>t, <3>1, <3>3, <4>1, <4>2
    <3>4. Counted'
      BY <1>0, <2>1, <2>2, <3>3, <3>5 DEF Counted
    <3> QED BY <2>1, <3>1, <3>2, <3>4, ReaderKept DEF MetricsInv
  <2> QED BY <1>5, <2>3, <2>4 DEF Observe
<1>6. CASE QuantileBegins
  <2>1. PICK q \in Percentiles :
          reader' = IF count = 0 THEN [Asleep EXCEPT !.at = "answered"]
                    ELSE [at |-> "reading", target |-> Target(q), seen |-> 0, edge |-> 0,
                          spare |-> count - Target(q) - Cardinality(Ahead)]
    BY <1>6 DEF QuantileBegins
  <2>2. UNCHANGED <<requests, events, buckets, count, at, labels, bucket, lost>>
    BY <1>6 DEF QuantileBegins
  <2>3. Counted'
    BY <1>0, <2>2 DEF Counted, RequestsTotal, Uncounted, HalfSeen, Ahead
  <2>4. Target(q) \in Nat /\ Target(q) <= count /\ (count # 0 => Target(q) > 0)
    <3>1. q \in 1..100
      BY <2>1, MetricsAssumption
    <3>2. count * q \in Nat /\ count * q <= 100 * count /\ (count # 0 => count * q > 0)
      BY <1>t, <3>1
    <3> DEFINE m == count * q
    <3>3. m \in Nat /\ m <= 100 * count /\ (count # 0 => m > 0)
      BY <3>2
    <3>4. Target(q) = (m + 99) \div 100
      BY DEF Target
    <3> HIDE DEF m
    <3> QED BY <1>t, <3>3, <3>4
  <2>5. PICK target \in Nat : target = Target(q)
    BY <2>4
  <2>6. PICK spare \in Int : spare = count - target - Cardinality(Ahead)
    BY <1>t, <2>5
  <2>7. reader' = IF count = 0
                    THEN [at |-> "answered", target |-> 0, seen |-> 0, edge |-> 0, spare |-> 0]
                    ELSE [at |-> "reading", target |-> target, seen |-> 0, edge |-> 0, spare |-> spare]
    <3>1. CASE count = 0
      BY <2>1, <3>1 DEF Asleep
    <3>2. CASE count # 0
      <4>1. reader' = [at |-> "reading", target |-> target, seen |-> 0, edge |-> 0, spare |-> spare]
        BY <2>1, <2>5, <2>6, <3>2
      <4> QED BY <3>2, <4>1
    <3> QED BY <3>1, <3>2
  <2>8. MetricsTyped'
    <3>1. reader' \in Reading
      BY <2>7, InfinityTyped DEF Reading
    <3> QED BY <1>0, <2>2, <3>1 DEF MetricsTyped, Reading
  <2>9. Reachable'
    <3>1. Beyond(0)' = Beyond(0) /\ Beyond(0) = Total(buckets, Infinity)
      BY <1>0, <2>2, BeyondFacts DEF Beyond
    <3>2. count - Cardinality(Ahead) <= Beyond(0) /\ Beyond(0) \in Int
      BY <1>0, <1>t, <3>1 DEF Counted
    <3>3. spare < 0 \/ target <= Beyond(0)
      BY <1>t, <2>5, <2>6, <3>2
    <3>4. CASE count = 0
      BY <2>7, <3>4, InfinityTyped DEF Reachable, QuantileFinite, Infinity
    <3>5. CASE count # 0
      <4>1. reader' = [at |-> "reading", target |-> target, seen |-> 0, edge |-> 0, spare |-> spare]
        BY <2>7, <3>5
      <4>2. 0 < target /\ (spare < 0 \/ target <= 0 + Beyond(0)') /\ 0 < Infinity
        BY <1>t, <2>4, <2>5, <3>1, <3>2, <3>3, <3>5, InfinityTyped
      <4> QED BY <4>1, <4>2 DEF Reachable, QuantileFinite, Infinity
    <3> QED BY <3>4, <3>5
  <2> QED BY <2>3, <2>8, <2>9 DEF MetricsInv
<1>7. CASE QuantileReads
  <2> DEFINE edge == reader.edge + 1
             seen == reader.seen + buckets[edge]
  <2>1. reader.at = "reading" /\ UNCHANGED <<requests, events, buckets, count, at, labels, bucket, lost>>
        /\ reader' = IF edge = Infinity \/ seen >= reader.target
                       THEN [reader EXCEPT !.at = "answered", !.edge = edge]
                       ELSE [reader EXCEPT !.seen = seen, !.edge = edge]
    BY <1>7 DEF QuantileReads
  <2>2. Counted'
    BY <1>0, <2>1 DEF Counted, RequestsTotal, Uncounted, HalfSeen, Ahead
  <2>3. reader \in Reading /\ reader.edge < Infinity /\ reader.seen < reader.target
        /\ (reader.spare < 0 \/ reader.target <= reader.seen + Beyond(reader.edge))
        /\ reader.target \in Nat /\ reader.seen \in Nat /\ reader.edge \in 0..Infinity /\ reader.spare \in Int
    BY <1>0, <2>1 DEF MetricsTyped, Reading, Reachable
  <2>4. edge \in 1..Infinity /\ buckets[edge] \in Nat /\ seen \in Nat
    BY <1>0, <2>3, InfinityTyped DEF MetricsTyped
  <2>5. Beyond(reader.edge) = buckets[edge] + Beyond(edge) /\ Beyond(edge) \in Int
    <3>1. reader.edge \in 0..(Infinity - 1) /\ edge \in 0..Infinity
      BY <2>3, InfinityTyped
    <3> QED BY <1>0, <3>1, BeyondFacts
  <2>6. (reader'.edge = edge) => Beyond(reader.edge)' = Beyond(edge)
    BY <2>1 DEF Beyond, Infinity
  <2>7. CASE edge = Infinity \/ seen >= reader.target
    <3>1. reader' = [at |-> "answered", target |-> reader.target, seen |-> reader.seen, edge |-> edge,
                    spare |-> reader.spare]
      BY <2>1, <2>3, <2>7 DEF Reading
    <3>2. MetricsTyped'
      <4>1. edge \in 0..Infinity
        BY <2>4
      <4> HIDE DEF edge
      <4>2. reader' \in Reading
        BY <2>3, <3>1, <4>1 DEF Reading
      <4> QED BY <1>0, <2>1, <4>2 DEF MetricsTyped, Reading
    <3>3. edge = Infinity => buckets[Infinity] > 0 \/ reader.spare < 0
      <4>1. edge = Infinity => Beyond(edge) = 0
        BY <1>0, BeyondFacts
      <4> QED BY <2>3, <2>4, <2>5, <4>1
    <3>4. Reachable'
      <4>1. buckets' = buckets
        BY <2>1
      <4> HIDE DEF edge
      <4>2. reader'.at = "answered" /\ reader'.edge = edge /\ reader'.spare = reader.spare
        BY <3>1
      <4> QED BY <3>3, <4>1, <4>2 DEF Reachable, QuantileFinite, Infinity
    <3> QED BY <2>2, <3>2, <3>4 DEF MetricsInv
  <2>8. CASE ~(edge = Infinity \/ seen >= reader.target)
    <3>1. reader' = [at |-> "reading", target |-> reader.target, seen |-> seen, edge |-> edge,
                    spare |-> reader.spare]
      BY <2>1, <2>3, <2>8 DEF Reading
    <3>2. MetricsTyped'
      <4>1. edge \in 0..Infinity /\ reader.target \in Nat
        BY <2>3, <2>4
      <4> HIDE DEF edge, seen
      <4>2. reader' \in Reading
        BY <2>3, <2>4, <3>1, <4>1 DEF Reading
      <4> QED BY <1>0, <2>1, <4>2 DEF MetricsTyped, Reading
    <3>3. /\ edge < Infinity /\ seen < reader.target
          /\ reader.spare < 0 \/ reader.target <= seen + Beyond(edge)
      <4>1. edge < Infinity /\ seen < reader.target
        BY <2>3, <2>4, <2>8, InfinityTyped
      <4>2. CASE reader.target <= reader.seen + Beyond(reader.edge)
        <5> DEFINE here == buckets[edge]
                   past == Beyond(edge)
                   left == Beyond(reader.edge)
                   before == reader.seen
                   target == reader.target
        <5>1. seen = before + here /\ here \in Nat /\ left = here + past /\ past \in Int
          BY <2>4, <2>5
        <5>2. before \in Nat /\ target \in Nat /\ target <= before + left
          BY <2>3, <4>2
        <5>3. target <= seen + past
          <6> HIDE DEF here, past, left, before, target, seen, edge
          <6> QED BY <5>1, <5>2
        <5> QED BY <4>1, <5>3
      <4> QED BY <2>3, <4>1, <4>2
    <3>4. Reachable'
      <4>1. Beyond(reader.edge)' = Beyond(edge)
        BY <2>6, <3>1
      <4> HIDE DEF edge, seen
      <4> QED BY <3>1, <3>3, <4>1 DEF Reachable, QuantileFinite, Infinity
    <3> QED BY <2>2, <3>2, <3>4 DEF MetricsInv
  <2> QED BY <2>7, <2>8
<1>8. CASE UNCHANGED metrics
  <2>1. UNCHANGED <<requests, events, buckets, count, at, labels, bucket, lost, reader>>
    BY <1>8 DEF metrics
  <2>2. MetricsTyped'
    BY <1>0, <2>1 DEF MetricsTyped
  <2>3. Counted'
    BY <1>0, <2>1 DEF Counted, RequestsTotal, Uncounted, HalfSeen, Ahead
  <2> QED BY <2>1, <2>2, <2>3, ReaderKept DEF MetricsInv
<1> QED
  BY <1>1, <1>2, <1>3, <1>4, <1>5, <1>6, <1>7, <1>8 DEF MetricsNext

\* However many requests record themselves at a time, and in whatever order their series are
\* created, none is lost or counted twice, and a quantile read meanwhile is infinite only if an
\* observation is (CounterVec::inc, Histogram::quantile, check_metering_completeness).
THEOREM MetricsHold == Spec => []MetricsSafety
<1>1. Init => MetricsInv
  BY MetricsBegin DEF Init
<1>2. MetricsInv /\ [Next]_vars => MetricsInv'
  <2>1. [Next]_vars => [MetricsNext]_metrics
    BY DEF Next, vars, OfLifecycle, OfMetrics, OfProbes, OfPrices, OfReference, OfDirectory, OfSignOn
  <2> QED BY <2>1, MetricsStep
<1>3. MetricsInv => MetricsSafety
  <2>1. SUFFICES ASSUME MetricsInv PROVE GapIsLoss
    BY DEF MetricsSafety, MetricsInv, Reachable
  <2>2. SUFFICES ASSUME \A t \in Recorders : at[t] = "idle" PROVE CompletenessGap = lost
    BY DEF GapIsLoss
  <2>3. Cardinality(Uncounted) = 0
    <3>1. Uncounted = {}
      BY <2>2 DEF Uncounted
    <3> QED BY <3>1, FS_EmptySet
  <2>4. RequestsTotal \in Int /\ Value(events) \in Nat /\ lost \in Nat
    BY <2>1, TotalsTyped DEF MetricsInv, MetricsTyped
  <2> QED BY <2>1, <2>3, <2>4 DEF MetricsInv, Counted, CompletenessGap
<1> QED BY <1>1, <1>2, <1>3, PTL DEF Spec

-----------------------------------------------------------------------------
(* The published prices                                                    *)

Rows == [model : Nat, fetch : Nat, price : Int]

Transaction ==
    [at : {"idle", "fetched", "deleting", "inserting"}, fetched : SUBSET Rows,
     visible : SUBSET Rows, deleted : SUBSET Rows, inserted : SUBSET Rows]

Transacts ==
    /\ list \in [number : Nat, models : Lists, price : Prices]
    /\ reference \subseteq Rows
    /\ tx \in [Admins -> Transaction]

(* Rows of one list, the lasting model's among them.                        *)
OneList(R) ==
    /\ Lasting \in Keys(R)
    /\ \A row, other \in R : row.fetch = other.fetch

(* A transaction sees, and has deleted, all rows or none, and no row two of *)
(* them do; the keys it has inserted are no one else's.                     *)
Separate(a) ==
    /\ tx[a].at # "idle" => OneList(tx[a].fetched)
    /\ tx[a].visible \in {{}, reference} /\ tx[a].deleted \in {{}, reference}
    /\ tx[a].inserted \subseteq tx[a].fetched
    /\ tx[a].inserted # {} => tx[a].at = "inserting"
    /\ Keys(tx[a].inserted) \intersect Keys(reference \ tx[a].deleted) = {}
Apart(a, b) ==
    /\ tx[a].deleted \intersect tx[b].deleted = {}
    /\ Keys(tx[a].inserted) \intersect Keys(tx[b].inserted) = {}

Isolated ==
    /\ reference # {} => OneList(reference)
    /\ \A a \in Admins : Separate(a) /\ \A b \in Admins \ {a} : Apart(a, b)

ReferenceInv == Transacts /\ Isolated

LEMMA ReferenceBegin == ReferenceInit => ReferenceInv
<1> SUFFICES ASSUME ReferenceInit PROVE ReferenceInv
  OBVIOUS
<1>1. list \in [number : Nat, models : Lists, price : Prices] /\ reference = {}
      /\ tx = [a \in Admins |-> Closed]
  BY DEF ReferenceInit
<1>2. Closed \in Transaction
  BY DEF Closed, Transaction
<1>3. Transacts
  BY <1>1, <1>2 DEF Transacts
<1>4. Isolated
  BY <1>1 DEF Isolated, Separate, Apart, Closed, Keys
<1> QED BY <1>3, <1>4 DEF ReferenceInv

\* What is fetched is one list.
LEMMA ParsedList ==
  ASSUME list \in [number : Nat, models : Lists, price : Prices]
  PROVE  ParseResponse(list) \subseteq Rows /\ OneList(ParseResponse(list))
<1>1. list.number \in Nat /\ list.models \subseteq Nat /\ Lasting \in list.models /\ list.price \in Int
  BY PriceReferenceAssumption DEF Lists
<1>2. PerMtok(list.price) \in Int
  BY <1>1 DEF PerMtok, Unknown
<1>3. ParseResponse(list) \subseteq Rows
  BY <1>1, <1>2 DEF ParseResponse, Rows
<1>4. [model |-> Lasting, fetch |-> list.number, price |-> PerMtok(list.price)] \in ParseResponse(list)
  BY <1>1 DEF ParseResponse
<1>5. Lasting \in Keys(ParseResponse(list))
  BY <1>4 DEF Keys
<1>6. \A row, other \in ParseResponse(list) : row.fetch = other.fetch
  BY DEF ParseResponse
<1> QED BY <1>3, <1>5, <1>6 DEF OneList

\* The next row to insert is one that has been fetched and not inserted.
LEMMA NextRowIs ==
  ASSUME Transacts, NEW a \in Admins, tx[a].inserted \subseteq tx[a].fetched,
         tx[a].inserted # tx[a].fetched
  PROVE  NextRow(a) \in tx[a].fetched \ tx[a].inserted
<1> DEFINE S == tx[a].fetched \ tx[a].inserted
           M == {row.model : row \in S}
<1>0. tx[a] \in Transaction
  BY DEF Transacts
<1>1. S # {} /\ \A row \in S : row.model \in Nat
  BY <1>0 DEF Transaction, Rows
<1>2. M \subseteq Nat /\ M # {}
  BY <1>1
<1>3. PICK m \in M : \A n \in M : m <= n
  <2> HIDE DEF M
  <2> QED BY <1>2, Minimum
<1>4. \E row \in S : \A other \in S : row.model <= other.model
  BY <1>3
<1>5. NextRow(a) = CHOOSE row \in S : \A other \in S : row.model <= other.model
  BY DEF NextRow
<1> HIDE DEF S
<1>6. NextRow(a) \in S
  BY <1>4, <1>5
<1> QED BY <1>6 DEF S

\* A transaction that stands elsewhere and is separate from the rest keeps them all so.
LEMMA StandsApart ==
  ASSUME ReferenceInv, NEW a \in Admins, NEW record \in Transaction, Stands(a, record),
         UNCHANGED reference,
         record.at # "idle" => OneList(record.fetched),
         record.visible \in {{}, reference}, record.deleted \in {{}, reference},
         record.inserted \subseteq record.fetched,
         record.inserted # {} => record.at = "inserting",
         Keys(record.inserted) \intersect Keys(reference \ record.deleted) = {},
         \A b \in Admins \ {a} :
            /\ record.deleted \intersect tx[b].deleted = {}
            /\ Keys(record.inserted) \intersect Keys(tx[b].inserted) = {},
         list' \in [number : Nat, models : Lists, price : Prices]
  PROVE  ReferenceInv'
<1>1. tx' = [tx EXCEPT ![a] = record] /\ tx \in [Admins -> Transaction]
  BY DEF Stands, ReferenceInv, Transacts
<1>2. tx'[a] = record /\ \A b \in Admins : b # a => tx'[b] = tx[b]
  BY <1>1
<1>3. Transacts'
  BY <1>1 DEF ReferenceInv, Transacts
<1>4. ASSUME NEW b \in Admins PROVE Separate(b)'
  <2>1. CASE b = a
    BY <1>2, <2>1 DEF Separate, Keys, OneList
  <2>2. CASE b # a
    BY <1>2, <2>2 DEF ReferenceInv, Isolated, Separate, Keys, OneList
  <2> QED BY <2>1, <2>2
<1>5. ASSUME NEW b \in Admins, NEW c \in Admins \ {b} PROVE Apart(b, c)'
  <2>1. CASE b = a
    BY <1>2, <2>1 DEF Apart, Keys
  <2>2. CASE c = a
    <3>1. tx'[b] = tx[b] /\ tx'[c] = record /\ b \in Admins \ {a}
      BY <1>2, <2>2
    <3>2. record.deleted \intersect tx[b].deleted = {}
          /\ Keys(record.inserted) \intersect Keys(tx[b].inserted) = {}
      BY <3>1
    <3> QED BY <3>1, <3>2 DEF Apart, Keys
  <2>3. CASE b # a /\ c # a
    BY <1>2, <2>3 DEF ReferenceInv, Isolated, Apart, Keys
  <2> QED BY <2>1, <2>2, <2>3
<1>6. Isolated'
  BY <1>4, <1>5 DEF ReferenceInv, Isolated, OneList, Keys
<1> QED BY <1>3, <1>6 DEF ReferenceInv

\* A transaction that ends without a commit leaves no trace.
LEMMA RollbackKeeps ==
  ASSUME ReferenceInv, NEW a \in Admins, Stands(a, Closed), UNCHANGED <<list, reference>>
  PROVE  ReferenceInv'
<1>1. Closed \in Transaction /\ Closed.at = "idle" /\ Closed.visible = {} /\ Closed.deleted = {}
      /\ Closed.inserted = {} /\ Closed.fetched = {}
  BY DEF Closed, Transaction
<1>2. Keys(Closed.inserted) = {}
  BY <1>1 DEF Keys
<1>3. list' \in [number : Nat, models : Lists, price : Prices]
  BY DEF ReferenceInv, Transacts
<1> QED BY <1>1, <1>2, <1>3, StandsApart

\* Isolation is a matter of the rows and the transactions.
LEMMA IsolatedKept ==
  ASSUME Isolated, UNCHANGED <<reference, tx>>
  PROVE  Isolated'
<1>1. \A a \in Admins : Separate(a)'
  BY DEF Isolated, Separate, OneList, Keys
<1>2. \A a \in Admins : \A b \in Admins \ {a} : Apart(a, b)'
  BY DEF Isolated, Apart, Keys
<1> QED BY <1>1, <1>2 DEF Isolated, OneList, Keys

LEMMA ReferenceStep == ReferenceInv /\ [ReferenceNext]_refs => ReferenceInv'
<1> SUFFICES ASSUME ReferenceInv, [ReferenceNext]_refs PROVE ReferenceInv'
  OBVIOUS
<1>0. Transacts /\ Isolated
  BY DEF ReferenceInv
<1>1. CASE Publish
  <2>1. list' \in [number : {list.number + 1}, models : Lists, price : Prices]
        /\ UNCHANGED <<reference, tx>>
    BY <1>1 DEF Publish
  <2>2. list.number + 1 \in Nat
    BY <1>0 DEF Transacts
  <2>3. Transacts'
    BY <1>0, <2>1, <2>2 DEF Transacts
  <2>4. Isolated'
    BY <1>0, <2>1, IsolatedKept
  <2> QED BY <2>3, <2>4 DEF ReferenceInv
<1>2. ASSUME NEW a \in Admins, Fetch(a) PROVE ReferenceInv'
  <2> DEFINE record == [Closed EXCEPT !.at = "fetched", !.fetched = ParseResponse(list)]
  <2>1. Stands(a, record) /\ UNCHANGED <<list, reference>>
    BY <1>2 DEF Fetch
  <2>2. ParseResponse(list) \subseteq Rows /\ OneList(ParseResponse(list))
    BY <1>0, ParsedList DEF Transacts
  <2>3. record.at = "fetched" /\ record.fetched = ParseResponse(list) /\ record.visible = {}
        /\ record.deleted = {} /\ record.inserted = {}
    BY DEF Closed
  <2>4. record \in Transaction
    BY <2>2 DEF Transaction, Closed
  <2>5. Keys(record.inserted) = {}
    BY <2>3 DEF Keys
  <2>6. list' \in [number : Nat, models : Lists, price : Prices]
    BY <1>0, <2>1 DEF Transacts
  <2> HIDE DEF record
  <2> QED BY <2>1, <2>2, <2>3, <2>4, <2>5, <2>6, StandsApart
<1>3. ASSUME NEW a \in Admins, DeleteAll(a) PROVE ReferenceInv'
  <2> DEFINE record == [tx[a] EXCEPT !.at = "deleting", !.visible = reference]
  <2>1. tx[a].at = "fetched" /\ Stands(a, record) /\ UNCHANGED <<list, reference>>
    BY <1>3 DEF DeleteAll
  <2>2. tx[a] \in Transaction /\ reference \subseteq Rows
    BY <1>0 DEF Transacts
  <2>3. record.at = "deleting" /\ record.fetched = tx[a].fetched /\ record.visible = reference
        /\ record.deleted = tx[a].deleted /\ record.inserted = tx[a].inserted
    BY <2>2 DEF Transaction
  <2>4. record \in Transaction
    BY <2>2 DEF Transaction
  <2>5. list' \in [number : Nat, models : Lists, price : Prices]
    BY <1>0, <2>1 DEF Transacts
  <2>6. Separate(a) /\ \A b \in Admins \ {a} : Apart(a, b)
    BY <1>0 DEF Isolated
  <2> HIDE DEF record
  <2> QED BY <2>1, <2>3, <2>4, <2>5, <2>6, StandsApart DEF Separate, Apart
<1>4. ASSUME NEW a \in Admins, Deleted(a) PROVE ReferenceInv'
  <2> DEFINE record == [tx[a] EXCEPT !.at = "inserting", !.deleted = tx[a].visible, !.visible = {}]
  <2>1. tx[a].at = "deleting" /\ Stands(a, record) /\ UNCHANGED <<list, reference>>
        /\ \A b \in Admins \ {a} : tx[b].deleted \intersect tx[a].visible = {}
    BY <1>4 DEF Deleted
  <2>2. tx[a] \in Transaction
    BY <1>0 DEF Transacts
  <2>3. record.at = "inserting" /\ record.fetched = tx[a].fetched /\ record.visible = {}
        /\ record.deleted = tx[a].visible /\ record.inserted = tx[a].inserted
    BY <2>2 DEF Transaction
  <2>4. record \in Transaction
    BY <2>2 DEF Transaction
  <2>5. list' \in [number : Nat, models : Lists, price : Prices]
    BY <1>0, <2>1 DEF Transacts
  <2>6. Separate(a) /\ \A b \in Admins \ {a} : Apart(a, b)
    BY <1>0 DEF Isolated
  <2>7. tx[a].inserted = {}
    BY <1>0, <2>1 DEF Isolated, Separate
  <2> HIDE DEF record
  <2> QED BY <2>1, <2>3, <2>4, <2>5, <2>6, <2>7, StandsApart DEF Separate, Apart, Keys
<1>5. ASSUME NEW a \in Admins, Insert(a) PROVE ReferenceInv'
  <2> DEFINE row == NextRow(a)
             record == [tx[a] EXCEPT !.inserted = @ \union {row}]
  <2>1. tx[a].at = "inserting" /\ tx[a].inserted # tx[a].fetched /\ ~Held(a, row.model)
        /\ UNCHANGED <<list, reference>>
    BY <1>5 DEF Insert
  <2>2. tx[a] \in Transaction /\ Separate(a) /\ \A b \in Admins \ {a} : Apart(a, b)
    BY <1>0 DEF Transacts, Isolated
  <2>3. row \in tx[a].fetched \ tx[a].inserted
    BY <1>0, <2>1, <2>2, NextRowIs DEF Separate
  <2>4. list' \in [number : Nat, models : Lists, price : Prices]
    BY <1>0, <2>1 DEF Transacts
  <2>5. CASE row.model \in Keys(reference \ tx[a].deleted)
    <3>1. Stands(a, Closed)
      BY <1>5, <2>5 DEF Insert, Rollback
    <3> QED BY <1>0, <2>1, <2>4, <3>1, RollbackKeeps
  <2>6. CASE row.model \notin Keys(reference \ tx[a].deleted)
    <3>1. Stands(a, record)
      BY <1>5, <2>6 DEF Insert
    <3>2. record.at = "inserting" /\ record.fetched = tx[a].fetched
          /\ record.visible = tx[a].visible /\ record.deleted = tx[a].deleted
          /\ record.inserted = tx[a].inserted \union {row}
      BY <2>1, <2>2 DEF Transaction
    <3>3. record \in Transaction
      <4>1. row \in Rows /\ tx[a].inserted \union {row} \in SUBSET Rows
        BY <2>2, <2>3 DEF Transaction
      <4> QED BY <2>2, <4>1 DEF Transaction
    <3>4. Keys(record.inserted) = Keys(tx[a].inserted) \union {row.model}
      BY <3>2 DEF Keys
    <3>5. \A b \in Admins \ {a} : row.model \notin Keys(tx[b].inserted)
      BY <2>1 DEF Held
    <3> HIDE DEF record, row
    <3>6. Keys(record.inserted) \intersect Keys(reference \ record.deleted) = {}
      BY <2>2, <2>6, <3>2, <3>4 DEF Separate
    <3>7. \A b \in Admins \ {a} :
            /\ record.deleted \intersect tx[b].deleted = {}
            /\ Keys(record.inserted) \intersect Keys(tx[b].inserted) = {}
      BY <2>2, <3>2, <3>4, <3>5 DEF Apart
    <3>8. record.inserted \subseteq record.fetched /\ OneList(record.fetched)
          /\ record.visible \in {{}, reference} /\ record.deleted \in {{}, reference}
      BY <2>1, <2>2, <2>3, <3>2 DEF Separate
    <3> QED BY <2>1, <2>4, <3>1, <3>2, <3>3, <3>6, <3>7, <3>8, StandsApart
  <2> QED BY <2>5, <2>6
<1>6. ASSUME NEW a \in Admins, Commit(a) PROVE ReferenceInv'
  <2>1. tx[a].at = "inserting" /\ tx[a].inserted = tx[a].fetched /\ UNCHANGED list
        /\ reference' = (reference \ tx[a].deleted) \union tx[a].inserted
        /\ tx' = [b \in Admins |-> IF b = a THEN Closed
                                   ELSE [tx[b] EXCEPT !.visible = @ \ tx[a].deleted]]
    BY <1>6 DEF Commit
  <2>2. tx[a] \in Transaction /\ Separate(a) /\ OneList(tx[a].inserted)
        /\ \A b \in Admins \ {a} : Apart(a, b) /\ Apart(b, a) /\ Separate(b) /\ tx[b] \in Transaction
    BY <1>0, <2>1 DEF Transacts, Isolated, Separate
  \* it has inserted the lasting model, so it has deleted what there was
  <2>3. reference \ tx[a].deleted = {}
    BY <1>0, <2>2 DEF Isolated, Separate, OneList
  <2>4. reference' = tx[a].inserted
    BY <2>1, <2>3
  <2>5. tx'[a] = Closed
    BY <2>1
  <2>6. ASSUME NEW b \in Admins \ {a}
        PROVE  /\ tx'[b].visible = {} /\ tx'[b].deleted = {} /\ tx[b].deleted = {}
               /\ tx'[b].at = tx[b].at /\ tx'[b].fetched = tx[b].fetched
               /\ tx'[b].inserted = tx[b].inserted /\ tx'[b] \in Transaction
    <3>1. tx'[b] = [tx[b] EXCEPT !.visible = @ \ tx[a].deleted] /\ tx[b] \in Transaction
      BY <2>1, <2>2
    <3>2. tx'[b] = [at |-> tx[b].at, fetched |-> tx[b].fetched, visible |-> tx[b].visible \ tx[a].deleted,
                    deleted |-> tx[b].deleted, inserted |-> tx[b].inserted]
      BY <3>1 DEF Transaction
    <3>3. tx[b].visible \ tx[a].deleted = {}
      BY <2>2, <2>3 DEF Separate
    <3>4. tx[b].deleted = {}
      BY <2>2, <2>3 DEF Separate, Apart
    <3>5. tx'[b] \in Transaction
      BY <3>1, <3>2, <3>3 DEF Transaction
    <3> QED BY <3>2, <3>3, <3>4, <3>5
  <2>7. Closed \in Transaction
    BY DEF Closed, Transaction
  <2>8. Transacts'
    <3>1. tx' \in [Admins -> Transaction]
      BY <2>1, <2>5, <2>6, <2>7
    <3>2. reference' \subseteq Rows
      BY <2>2, <2>4 DEF Transaction
    <3> QED BY <1>0, <2>1, <3>1, <3>2 DEF Transacts
  <2>9. ASSUME NEW b \in Admins PROVE Separate(b)'
    <3>1. CASE b = a
      BY <2>5, <3>1 DEF Separate, Closed, Keys
    <3>2. CASE b # a
      <4>1. b \in Admins \ {a}
        BY <3>2
      <4>2. Keys(tx[b].inserted) \intersect Keys(tx[a].inserted) = {}
        BY <2>2, <4>1 DEF Apart
      <4>3. Keys(tx'[b].inserted) \intersect Keys(reference' \ tx'[b].deleted) = {}
        BY <2>4, <2>6, <4>1, <4>2 DEF Keys
      <4>4. tx'[b].at # "idle" => OneList(tx'[b].fetched)
        BY <2>2, <2>6, <4>1 DEF Separate
      <4>5. tx'[b].inserted \subseteq tx'[b].fetched
        BY <2>2, <2>6, <4>1 DEF Separate
      <4>6. tx'[b].inserted # {} => tx'[b].at = "inserting"
        BY <2>2, <2>6, <4>1 DEF Separate
      <4> QED BY <2>6, <4>1, <4>3, <4>4, <4>5, <4>6 DEF Separate, Keys, OneList
    <3> QED BY <3>1, <3>2
  <2>10. ASSUME NEW b \in Admins, NEW c \in Admins \ {b} PROVE Apart(b, c)'
    <3>1. CASE b = a \/ c = a
      BY <2>5, <3>1 DEF Apart, Closed, Keys
    <3>2. CASE b # a /\ c # a
      <4>1. b \in Admins \ {a} /\ c \in Admins \ {a} /\ Apart(b, c)
        BY <1>0, <3>2 DEF Isolated
      <4> QED BY <2>6, <4>1 DEF Apart, Keys
    <3> QED BY <3>1, <3>2
  <2>11. Isolated'
    BY <2>2, <2>4, <2>9, <2>10 DEF Isolated, OneList, Keys
  <2> QED BY <2>8, <2>11 DEF ReferenceInv
<1>7. ASSUME NEW a \in Admins, Abort(a) PROVE ReferenceInv'
  <2>1. Stands(a, Closed) /\ UNCHANGED <<list, reference>>
    BY <1>7 DEF Abort, Rollback
  <2> QED BY <2>1, <1>0, RollbackKeeps DEF Transacts
<1>8. CASE UNCHANGED refs
  <2>1. Isolated'
    BY <1>0, <1>8, IsolatedKept DEF refs
  <2> QED BY <1>0, <1>8, <2>1 DEF refs, ReferenceInv, Transacts
<1> QED
  BY <1>1, <1>2, <1>3, <1>4, <1>5, <1>6, <1>7, <1>8 DEF ReferenceNext

\* However many replacements of the published prices run into each other, and wherever they break
\* off, a reader sees the rows of one list (replace_openrouter_pricing_reference).
THEOREM ReferenceHolds == Spec => []ReferenceWhole
<1>1. Init => ReferenceInv
  BY ReferenceBegin DEF Init
<1>2. ReferenceInv /\ [Next]_vars => ReferenceInv'
  <2>1. [Next]_vars => [ReferenceNext]_refs
    BY DEF Next, vars, OfLifecycle, OfMetrics, OfProbes, OfPrices, OfReference, OfDirectory, OfSignOn
  <2> QED BY <2>1, ReferenceStep
<1>3. ReferenceInv => ReferenceWhole
  BY DEF ReferenceInv, Isolated, OneList, ReferenceWhole
<1> QED BY <1>1, <1>2, <1>3, PTL DEF Spec

-----------------------------------------------------------------------------
(* The directory                                                           *)

Statements == {"idle", "find", "create", "join", "joined", "remove", "revoke", "removed"}

DirectoryTyped ==
    /\ told \in [Person -> {"unsure", "active", "inactive"}] /\ seats \in [Person -> Seat]
    /\ pc \in [Call -> Statements]
    /\ calling \in [Call -> {None} \union ScimCall]

Busy(c) == pc[c] # "idle"
Whom(c) == calling[c].whom

(* A call stands where its operation takes it; the provider says nothing    *)
(* else of the person meanwhile, and a departure done so far is done.       *)
Stations(c) ==
    IF calling[c].op = "create" THEN {"find", "create", "join", "joined"}
    ELSE IF calling[c].op = "on" THEN {"join", "joined"} ELSE {"remove", "revoke", "removed"}
InStep(c) ==
    /\ Busy(c) <=> calling[c] # None
    /\ Busy(c) =>
          /\ pc[c] \in Stations(c)
          /\ told[Whom(c)] = IF calling[c].op \in {"create", "on"} THEN "unsure" ELSE "active"
          /\ manner = "patch" =>
                /\ calling[c].op # "delete"
                /\ pc[c] \in {"revoke", "removed"} => seats[Whom(c)] = None
                /\ pc[c] = "removed" => Whom(c) \notin working

(* No two calls are about one person.                                       *)
Alone(c, p) == \A d \in Call \ {c} : Busy(d) => Whom(d) # p

Synchronised ==
    /\ \A c \in Call : InStep(c) /\ (Busy(c) => Alone(c, Whom(c)))
    /\ PatchedIsGone

DirectoryInv ==
    /\ desk = "directory" => DirectoryTyped /\ Synchronised
    /\ desk # "directory" => \A p \in Person : told[p] # "inactive"

LEMMA DirectoryBegin == Init => DirectoryInv
<1> SUFFICES ASSUME Init PROVE DirectoryInv
  OBVIOUS
<1>1. DirectoryInit /\ TenantInit
  BY DEF Init
<1>2. \A p \in Person : told[p] # "inactive"
  BY <1>1 DEF DirectoryInit
<1>3. seats \in [Person -> Seat]
  BY <1>1 DEF DirectoryInit
<1>4. DirectoryTyped
  BY <1>1, <1>3 DEF DirectoryInit, TenantInit, DirectoryTyped, Statements
<1>5. Synchronised
  BY <1>1, <1>2 DEF DirectoryInit, TenantInit, Synchronised, InStep, Busy, Alone, PatchedIsGone, ToldTheTruth
<1> QED BY <1>2, <1>4, <1>5 DEF DirectoryInv

\* What happens to one call, and to nobody but the person it is about, leaves the rest in step.
LEMMA OneCall ==
  ASSUME Synchronised, NEW c \in Call, NEW p \in Person, Alone(c, p), UNCHANGED manner,
         \A d \in Call \ {c} : pc'[d] = pc[d] /\ calling'[d] = calling[d],
         \A q \in Person \ {p} :
            told'[q] = told[q] /\ seats'[q] = seats[q] /\ (q \in working' <=> q \in working),
         \A d \in Call : Busy(d) => Whom(d) \in Person,
         InStep(c)', Busy(c)' => Whom(c)' = p,
         manner = "patch" /\ told'[p] = "inactive" => seats'[p] = None /\ p \notin working'
  PROVE  Synchronised'
<1>1. ASSUME NEW d \in Call \ {c} PROVE InStep(d)' /\ (Busy(d)' => Alone(d, Whom(d))')
  <2>1. pc'[d] = pc[d] /\ calling'[d] = calling[d] /\ Busy(d)' = Busy(d) /\ Whom(d)' = Whom(d)
    BY DEF Busy, Whom
  <2>2. InStep(d) /\ (Busy(d) => Alone(d, Whom(d)))
    BY DEF Synchronised
  <2>3. Busy(d) => Whom(d) \in Person \ {p}
    BY DEF Alone
  <2>4. InStep(d)'
    <3>1. CASE Busy(d)
      <4>1. told'[Whom(d)] = told[Whom(d)] /\ seats'[Whom(d)] = seats[Whom(d)]
            /\ (Whom(d) \in working' <=> Whom(d) \in working)
        BY <2>3, <3>1
      <4> QED BY <2>1, <2>2, <4>1 DEF InStep, Stations
    <3>2. CASE ~Busy(d)
      BY <2>1, <2>2, <3>2 DEF InStep
    <3> QED BY <3>1, <3>2
  <2>5. ASSUME Busy(d)', NEW e \in Call \ {d}, Busy(e)' PROVE Whom(e)' # Whom(d)'
    <3>1. CASE e = c
      BY <2>1, <2>3, <2>5, <3>1
    <3>2. CASE e # c
      <4>1. Busy(e) /\ Whom(e)' = Whom(e)
        BY <2>5, <3>2 DEF Busy, Whom
      <4> QED BY <2>1, <2>2, <2>5, <4>1 DEF Alone
    <3> QED BY <3>1, <3>2
  <2> QED BY <2>4, <2>5 DEF Alone
<1>2. Busy(c)' => Alone(c, Whom(c))'
  BY DEF Alone, Busy, Whom
<1>3. PatchedIsGone'
  BY DEF Synchronised, PatchedIsGone, ToldTheTruth, Seated
<1> QED BY <1>1, <1>2, <1>3 DEF Synchronised

\* A statement of a call that goes on or ends.
LEMMA CallGoesOn ==
  ASSUME DirectoryTyped, Synchronised, NEW c \in Call, Busy(c), UNCHANGED manner,
         \A d \in Call \ {c} : pc'[d] = pc[d] /\ calling'[d] = calling[d],
         \A q \in Person \ {Whom(c)} :
            told'[q] = told[q] /\ seats'[q] = seats[q] /\ (q \in working' <=> q \in working),
         InStep(c)', Busy(c)' => calling'[c] = calling[c],
         manner = "patch" /\ told'[Whom(c)] = "inactive" =>
            seats'[Whom(c)] = None /\ Whom(c) \notin working'
  PROVE  Synchronised'
<1>1. \A d \in Call : Busy(d) => Whom(d) \in Person
  BY DEF DirectoryTyped, Synchronised, InStep, Whom, ScimCall
<1>2. Whom(c) \in Person /\ Alone(c, Whom(c))
  BY <1>1 DEF Synchronised
<1>3. Busy(c)' => Whom(c)' = Whom(c)
  BY DEF Whom
<1> QED BY <1>1, <1>2, <1>3, OneCall

LEMMA AllActive == \A s \in Changes : ActiveChange(s)
<1> DEFINE byPath == [op |-> "replace", path |-> "active", value |-> "text"]
           asObject == [op |-> "replace", path |-> None, value |-> "bool"]
           named == [op |-> "replace", path |-> "name", value |-> "other"]
           added == [op |-> "add", path |-> "active", value |-> "bool"]
<1>1. Deciding(byPath) /\ Deciding(asObject) /\ Deciding(added)
  BY DEF Deciding, Coerced
<1>2. Changes = {<<byPath>>, <<asObject>>, <<named, added>>}
  BY DEF Changes
<1> HIDE DEF byPath, asObject, named, added
<1>3. ActiveChange(<<byPath>>) /\ ActiveChange(<<asObject>>)
  BY <1>1 DEF ActiveChange
<1>4. ActiveChange(<<named, added>>)
  <2>1. Len(<<named, added>>) = 2 /\ <<named, added>>[2] = added
    OBVIOUS
  <2> QED BY <1>1, <2>1 DEF ActiveChange
<1> QED BY <1>2, <1>3, <1>4

\* A call that begins for a person nobody calls about.
LEMMA CallBegins ==
  ASSUME DirectoryTyped, Synchronised, NEW c \in Call, NEW p \in Person, NEW op \in ScimOp, NEW to,
         Calls(c, op, p, to),
         to \in IF op = "create" THEN {"find"} ELSE IF op = "on" THEN {"join", "joined"} ELSE {"remove"},
         op = "create" => told[p] = "unsure", op \in {"off", "delete"} => told[p] = "active",
         manner = "patch" => op # "delete"
  PROVE  DirectoryTyped' /\ Synchronised'
<1> DEFINE call == [op |-> op, whom |-> p]
<1>1. pc[c] = "idle" /\ pc' = [pc EXCEPT ![c] = to] /\ calling' = [calling EXCEPT ![c] = call]
      /\ told' = (IF op = "on" THEN [told EXCEPT ![p] = "unsure"] ELSE told)
      /\ UNCHANGED <<manner, seats, working>>
  BY DEF Calls, Goes
<1>2. call \in ScimCall /\ call # None /\ call.op = op /\ call.whom = p
  BY DirectoryAssumption DEF ScimCall
<1>3. to \in Statements \ {"idle"}
  BY DEF Statements, ScimOp
<1> HIDE DEF call
<1>4. pc'[c] = to /\ calling'[c] = call /\ \A d \in Call \ {c} : pc'[d] = pc[d] /\ calling'[d] = calling[d]
  BY <1>1 DEF DirectoryTyped
<1>5. told'[p] = (IF op \in {"create", "on"} THEN "unsure" ELSE "active")
      /\ \A q \in Person \ {p} : told'[q] = told[q]
  BY <1>1 DEF DirectoryTyped, ScimOp
<1>6. DirectoryTyped'
  BY <1>1, <1>2, <1>3 DEF DirectoryTyped, Statements
<1>7. Alone(c, p)
  <2>1. Quiet(p)
    BY DEF Calls
  <2> QED BY <2>1 DEF Quiet, Alone, Whom, Synchronised, InStep
<1>8. InStep(c)'
  <2>1. pc'[c] \in Stations(c)'
    BY <1>2, <1>4 DEF Stations, ScimOp
  <2>2. Busy(c)' /\ calling'[c] # None /\ Whom(c)' = p /\ calling'[c].op = op
    BY <1>2, <1>3, <1>4 DEF Busy, Whom
  <2>3. pc'[c] \notin {"revoke", "removed"}
    BY <1>4 DEF ScimOp
  <2> QED BY <1>1, <1>5, <2>1, <2>2, <2>3 DEF InStep, ScimOp
<1>9. \A d \in Call : Busy(d) => Whom(d) \in Person
  BY DEF DirectoryTyped, Synchronised, InStep, Whom, ScimCall
<1>10. Whom(c)' = p
  BY <1>2, <1>4 DEF Whom
<1>11. Synchronised'
  BY <1>1, <1>4, <1>5, <1>7, <1>8, <1>9, <1>10, OneCall
<1> QED BY <1>6, <1>11

LEMMA DirectoryStep ==
  ASSUME DirectoryTyped, Synchronised, DirectoryNext
  PROVE  DirectoryTyped' /\ Synchronised'
<1>0. \A d \in Call : Busy(d) => Whom(d) \in Person /\ calling[d] \in ScimCall
  BY DEF DirectoryTyped, Synchronised, InStep, Whom, ScimCall
<1>1. ASSUME NEW p \in Person, Move(p) PROVE DirectoryTyped' /\ Synchronised'
  BY <1>1 DEF Move, tenantVars, DirectoryTyped, Synchronised, InStep, Stations, Busy, Whom, Alone,
              PatchedIsGone, ToldTheTruth, Seated
<1>2. ASSUME NEW p \in Person, WorkKey(p) PROVE DirectoryTyped' /\ Synchronised'
  <2>1. p \in Seated /\ Quiet(p) /\ working' = working \union {p}
        /\ UNCHANGED <<pc, manner, told, seats, calling>>
    BY <1>2 DEF WorkKey, tenantVars
  <2>2. DirectoryTyped'
    BY <2>1 DEF DirectoryTyped
  <2>3. \A d \in Call : Busy(d) => Whom(d) # p
    BY <2>1 DEF Quiet, Synchronised, InStep, Whom
  <2>4. ASSUME NEW d \in Call PROVE InStep(d)' /\ (Busy(d)' => Alone(d, Whom(d))')
    BY <2>1, <2>3 DEF Synchronised, InStep, Stations, Busy, Whom, Alone
  <2>5. PatchedIsGone'
    BY <2>1 DEF Synchronised, PatchedIsGone, ToldTheTruth, Seated
  <2> QED BY <2>2, <2>4, <2>5 DEF Synchronised
<1>3. ASSUME NEW p \in Person, LookUp(p) PROVE DirectoryTyped' /\ Synchronised'
  <2>1. Quiet(p) /\ told' = [told EXCEPT ![p] = Listed(p)] /\ UNCHANGED <<pc, manner, seats, working, calling>>
    BY <1>3 DEF LookUp, tenantVars
  <2>2. Listed(p) \in {"unsure", "active"}
    BY DEF Listed
  <2>3. DirectoryTyped'
    BY <2>1, <2>2 DEF DirectoryTyped
  <2>4. \A d \in Call : Busy(d) => Whom(d) # p
    BY <2>1 DEF Quiet, Synchronised, InStep, Whom
  <2>5. told'[p] # "inactive" /\ \A q \in Person \ {p} : told'[q] = told[q]
    BY <2>1, <2>2 DEF DirectoryTyped
  <2>6. ASSUME NEW d \in Call PROVE InStep(d)' /\ (Busy(d)' => Alone(d, Whom(d))')
    BY <1>0, <2>1, <2>4, <2>5 DEF Synchronised, InStep, Stations, Busy, Whom, Alone
  <2>7. PatchedIsGone'
    BY <2>1, <2>5 DEF Synchronised, PatchedIsGone, ToldTheTruth, Seated
  <2> QED BY <2>3, <2>6, <2>7 DEF Synchronised
<1>4. ASSUME NEW p \in Person, NEW c \in Call,
             Provision(c, p) \/ Reactivate(c, p) \/ Deactivate(c, p) \/ Delete(c, p)
      PROVE  DirectoryTyped' /\ Synchronised'
  <2>1. CASE Provision(c, p)
    BY <2>1, CallBegins DEF Provision, ScimOp
  <2>2. CASE Reactivate(c, p)
    <3>1. PICK s \in Changes : Calls(c, "on", p, IF ActiveChange(s) THEN "join" ELSE "joined")
      BY <2>2 DEF Reactivate
    <3> QED BY <3>1, AllActive, CallBegins DEF ScimOp
  <2>3. CASE Deactivate(c, p)
    <3>1. PICK s \in Changes : Calls(c, "off", p, IF ActiveChange(s) THEN "remove" ELSE "removed")
      BY <2>3 DEF Deactivate
    <3> QED BY <2>3, <3>1, AllActive, CallBegins DEF Deactivate, ScimOp
  <2>4. CASE Delete(c, p)
    BY <2>4, CallBegins DEF Delete, ScimOp
  <2> QED BY <1>4, <2>1, <2>2, <2>3, <2>4
<1>5. ASSUME NEW c \in Call,
             \/ FindUserByEmail(c) \/ CreateAccount(c) \/ TakeSeat(c) \/ AnswerJoined(c)
             \/ LeaveSeat(c) \/ KeepSeat(c) \/ RevokeWorking(c) \/ AnswerRemoved(c)
             \/ CallFails(c) \/ RemovalIgnored(c)
      PROVE  DirectoryTyped' /\ Synchronised'
  <2>1. Busy(c) /\ UNCHANGED manner
    BY <1>5 DEF Busy, Goes, Ends, Answers, FindUserByEmail, CreateAccount, TakeSeat, AnswerJoined,
                LeaveSeat, KeepSeat, RevokeWorking, AnswerRemoved, CallFails, RemovalIgnored,
                directoryVars
  <2>2. Whom(c) \in Person /\ calling[c] \in ScimCall /\ InStep(c)
        /\ calling[c].op \in ScimOp /\ pc[c] \in Stations(c)
    BY <1>0, <2>1 DEF Synchronised, InStep, ScimCall
  <2>3. CASE FindUserByEmail(c) \/ CreateAccount(c)
    <3>1. UNCHANGED <<told, seats, working, calling>> /\ pc[c] \in {"find", "create"}
          /\ \E to \in {"create", "join"} : pc' = [pc EXCEPT ![c] = to]
      BY <2>3 DEF FindUserByEmail, CreateAccount, Goes, directoryVars
    <3>2. DirectoryTyped'
      BY <3>1 DEF DirectoryTyped, Statements
    <3>3. pc'[c] \in {"create", "join"} /\ \A d \in Call \ {c} : pc'[d] = pc[d]
      BY <3>1 DEF DirectoryTyped
    <3>4. InStep(c)'
      BY <2>1, <2>2, <3>1, <3>3 DEF InStep, Stations, Busy, Whom, ScimOp
    <3>5. Synchronised'
      BY <2>1, <3>1, <3>3, <3>4, CallGoesOn DEF Synchronised, PatchedIsGone, ToldTheTruth, Seated, InStep, ScimOp
    <3> QED BY <3>2, <3>5
  <2>4. CASE TakeSeat(c)
    <3>1. UNCHANGED <<told, working, calling>> /\ pc[c] = "join" /\ pc' = [pc EXCEPT ![c] = "joined"]
          /\ seats' = [seats EXCEPT ![Whom(c)] = "member"]
      BY <2>4 DEF TakeSeat, Goes, Whom
    <3>2. DirectoryTyped'
      BY <3>1 DEF DirectoryTyped, Statements, Seat
    <3>3. pc'[c] = "joined" /\ \A d \in Call \ {c} : pc'[d] = pc[d]
      BY <3>1 DEF DirectoryTyped
    <3>4. calling[c].op \in {"create", "on"} /\ told[Whom(c)] = "unsure"
      BY <2>1, <2>2, <3>1 DEF InStep, Stations, ScimOp
    <3>5. InStep(c)'
      BY <2>1, <2>2, <3>1, <3>3, <3>4 DEF InStep, Stations, Busy, Whom
    <3>6. \A q \in Person \ {Whom(c)} : seats'[q] = seats[q]
      BY <3>1 DEF DirectoryTyped
    <3>7. Synchronised'
      BY <2>1, <3>1, <3>3, <3>4, <3>5, <3>6, CallGoesOn
    <3> QED BY <3>2, <3>7
  <2>5. CASE LeaveSeat(c)
    <3>1. UNCHANGED <<told, working, calling>> /\ pc[c] = "remove" /\ pc' = [pc EXCEPT ![c] = "revoke"]
          /\ seats' = [seats EXCEPT ![Whom(c)] = None]
      BY <2>5 DEF LeaveSeat, Goes, Whom
    <3>2. DirectoryTyped'
      BY <3>1 DEF DirectoryTyped, Statements, Seat
    <3>3. pc'[c] = "revoke" /\ \A d \in Call \ {c} : pc'[d] = pc[d]
      BY <3>1 DEF DirectoryTyped
    <3>4. calling[c].op \in {"off", "delete"} /\ told[Whom(c)] = "active"
      BY <2>1, <2>2, <3>1 DEF InStep, Stations, ScimOp
    <3>5. seats'[Whom(c)] = None /\ \A q \in Person \ {Whom(c)} : seats'[q] = seats[q]
      BY <2>2, <3>1 DEF DirectoryTyped
    <3>6. InStep(c)'
      BY <2>1, <2>2, <3>1, <3>3, <3>4, <3>5 DEF InStep, Stations, Busy, Whom
    <3>7. Synchronised'
      BY <2>1, <3>1, <3>3, <3>4, <3>5, <3>6, CallGoesOn
    <3> QED BY <3>2, <3>7
  <2>6. CASE RevokeWorking(c)
    <3>1. UNCHANGED <<told, seats, calling>> /\ pc[c] = "revoke" /\ pc' = [pc EXCEPT ![c] = "removed"]
          /\ working' = working \ {Whom(c)}
      BY <2>6 DEF RevokeWorking, Goes, Whom
    <3>2. DirectoryTyped'
      BY <3>1 DEF DirectoryTyped, Statements
    <3>3. pc'[c] = "removed" /\ \A d \in Call \ {c} : pc'[d] = pc[d]
      BY <3>1 DEF DirectoryTyped
    <3>4. calling[c].op \in {"off", "delete"} /\ told[Whom(c)] = "active"
      BY <2>1, <2>2, <3>1 DEF InStep, Stations, ScimOp
    <3>5. InStep(c)'
      BY <2>1, <2>2, <3>1, <3>3, <3>4 DEF InStep, Stations, Busy, Whom
    <3>6. Synchronised'
      BY <2>1, <3>1, <3>3, <3>4, <3>5, CallGoesOn
    <3> QED BY <3>2, <3>6
  <2>7. CASE (KeepSeat(c) /\ calling[c].op = "delete") \/ RemovalIgnored(c)
    <3>1. UNCHANGED <<told, seats, working, calling>> /\ pc[c] = "remove" /\ pc' = [pc EXCEPT ![c] = "revoke"]
          /\ calling[c].op = "delete"
      BY <2>7 DEF KeepSeat, RemovalIgnored, Goes, directoryVars
    <3>2. DirectoryTyped'
      BY <3>1 DEF DirectoryTyped, Statements
    <3>3. pc'[c] = "revoke" /\ \A d \in Call \ {c} : pc'[d] = pc[d]
      BY <3>1 DEF DirectoryTyped
    <3>4. InStep(c)' /\ manner # "patch"
      BY <2>1, <2>2, <3>1, <3>3 DEF InStep, Stations, Busy, Whom
    <3>5. Synchronised'
      BY <2>1, <3>1, <3>3, <3>4, CallGoesOn
    <3> QED BY <3>2, <3>5
  <2>8. CASE \/ AnswerJoined(c) \/ AnswerRemoved(c) \/ CallFails(c)
             \/ KeepSeat(c) /\ calling[c].op # "delete"
    <3>1. UNCHANGED <<seats, working>> /\ pc' = [pc EXCEPT ![c] = "idle"]
          /\ calling' = [calling EXCEPT ![c] = None]
      BY <2>8 DEF AnswerJoined, AnswerRemoved, CallFails, KeepSeat, Answers, Ends, Goes
    <3>2. PICK state \in {"unsure", "active", "inactive"} : told' = [told EXCEPT ![Whom(c)] = state]
      <4>1. CASE AnswerJoined(c)
        BY <4>1 DEF AnswerJoined, Answers, Whom
      <4>2. CASE AnswerRemoved(c)
        BY <4>2 DEF AnswerRemoved, Answers, Whom
      <4>3. CASE CallFails(c) \/ KeepSeat(c)
        <5>1. told' = told
          BY <4>3 DEF CallFails, KeepSeat
        <5>2. told' = [told EXCEPT ![Whom(c)] = told[Whom(c)]] /\ told[Whom(c)] \in {"unsure", "active", "inactive"}
          BY <2>2, <5>1 DEF DirectoryTyped
        <5> QED BY <5>2
      <4> QED BY <2>8, <4>1, <4>2, <4>3
    <3>3. DirectoryTyped'
      BY <3>1, <3>2 DEF DirectoryTyped, Statements
    <3>4. pc'[c] = "idle" /\ calling'[c] = None
          /\ \A d \in Call \ {c} : pc'[d] = pc[d] /\ calling'[d] = calling[d]
      BY <3>1 DEF DirectoryTyped
    <3>5. told'[Whom(c)] = state /\ \A q \in Person \ {Whom(c)} : told'[q] = told[q]
      BY <2>2, <3>2 DEF DirectoryTyped
    <3>6. InStep(c)' /\ ~Busy(c)'
      BY <3>4 DEF InStep, Busy
    <3>7. manner = "patch" /\ told'[Whom(c)] = "inactive" =>
            seats'[Whom(c)] = None /\ Whom(c) \notin working'
      <4>1. CASE AnswerRemoved(c)
        <5>1. pc[c] = "removed"
          BY <4>1 DEF AnswerRemoved, Answers, Ends, Goes
        <5> QED BY <2>1, <2>2, <3>1, <5>1 DEF InStep
      <4>2. CASE AnswerJoined(c)
        <5>1. told'[Whom(c)] = "active"
          BY <2>2, <4>2 DEF AnswerJoined, Answers, Whom, DirectoryTyped
        <5> QED BY <5>1
      <4>3. CASE CallFails(c) \/ KeepSeat(c)
        <5>1. told' = told
          BY <4>3 DEF CallFails, KeepSeat
        <5>2. told[Whom(c)] # "inactive"
          BY <2>1, <2>2 DEF InStep
        <5> QED BY <5>1, <5>2
      <4> QED BY <2>8, <4>1, <4>2, <4>3
    <3>8. Synchronised'
      BY <2>1, <3>1, <3>4, <3>5, <3>6, <3>7, CallGoesOn
    <3> QED BY <3>3, <3>8
  <2> QED BY <1>5, <2>3, <2>4, <2>5, <2>6, <2>7, <2>8
<1> QED BY <1>1, <1>2, <1>3, <1>4, <1>5 DEF DirectoryNext, Served, Synchronise

-----------------------------------------------------------------------------
(* The sign-ins                                                            *)

(* A callback that came after another had used its state token finds the    *)
(* token gone, whatever it is that the first one did with it.               *)
Callback(r) == r = [login |-> r.login, late |-> r.late, row |-> r.row, token |-> r.token]
Returned(c) ==
    /\ Callback(back[c]) /\ back[c].login \in Login /\ logins[back[c].login] # None
    /\ back[c].late => logins[back[c].login].spent /\ pc[c] = "state"

SignOnInv ==
    /\ RetryRefused
    /\ desk = "sign_on" =>
        /\ logins \in [Login -> {None} \union Started] /\ (\A i \in DOMAIN rows : rows[i] \in Row)
        /\ DOMAIN back = Call /\ DOMAIN pc = Call
        /\ \A l \in Login : logins[l] # None /\ logins[l].spent => ~logins[l].live
        /\ \A c \in Call : pc[c] # "idle" => Returned(c)

LEMMA SignOnBegin == Init => SignOnInv
<1> SUFFICES ASSUME Init PROVE SignOnInv
  OBVIOUS
<1>1. SignOnInit /\ TenantInit
  BY DEF Init
<1>2. logins = [l \in Login |-> None] /\ back = [c \in Call |-> None] /\ opened = {}
      /\ pc = [c \in Call |-> "idle"]
  BY <1>1 DEF SignOnInit, TenantInit
<1>3. \A i \in DOMAIN rows : rows[i] \in Row
  <2>1. PICK n \in 1..2 : rows \in [1..n -> Row]
    BY <1>1 DEF SignOnInit
  <2> QED BY <2>1
<1> QED BY <1>2, <1>3 DEF SignOnInv, RetryRefused

\* A step of one callback, which keeps what it came with, or ends.
LEMMA CallbackStep ==
  ASSUME SignOnInv, desk = "sign_on", desk' = desk, NEW c \in Call, DOMAIN pc' = Call, DOMAIN back' = Call,
         \A d \in Call \ {c} : pc'[d] = pc[d] /\ back'[d] = back[d],
         UNCHANGED logins, UNCHANGED opened, UNCHANGED rows, pc'[c] # "idle" => Returned(c)'
  PROVE  SignOnInv'
<1>1. \A d \in Call : pc'[d] # "idle" => Returned(d)'
  BY DEF SignOnInv, Returned
<1> QED BY <1>1 DEF SignOnInv, RetryRefused

LEMMA SignOnStep ==
  ASSUME SignOnInv, desk = "sign_on", desk' = desk, SignOnNext
  PROVE  SignOnInv'
<1>0. /\ logins \in [Login -> {None} \union Started] /\ (\A i \in DOMAIN rows : rows[i] \in Row) /\ DOMAIN back = Call /\ DOMAIN pc = Call
      /\ \A l \in Login : logins[l] # None /\ logins[l].spent => ~logins[l].live
      /\ \A c \in Call : pc[c] # "idle" => Returned(c)
      /\ RetryRefused
  BY DEF SignOnInv
<1>1. CASE Disconnect
  <2>1. UNCHANGED <<logins, back, pc, opened>>
    BY <1>1 DEF Disconnect
  <2>2. \A i \in DOMAIN rows' : rows'[i] \in Row
    <3>1. rows' = <<>>
      BY <1>1 DEF Disconnect
    <3> QED BY <3>1
  <2> QED BY <1>0, <2>1, <2>2 DEF SignOnInv, Returned, RetryRefused
<1>2. ASSUME NEW l \in Login, SsoStart(l) \/ StateExpires(l) PROVE SignOnInv'
  <2>1. UNCHANGED <<back, pc, opened, rows>>
    BY <1>2 DEF SsoStart, StateExpires, tenantVars
  <2>2. PICK entry \in Started :
          /\ logins' = [logins EXCEPT ![l] = entry]
          /\ logins[l] # None => entry.spent = logins[l].spent
          /\ entry.spent => ~entry.live
    <3>1. CASE SsoStart(l)
      <4>1. PICK i \in DOMAIN rows :
              logins' = [logins EXCEPT ![l] = [issuer |-> rows[i].issuer, live |-> TRUE, spent |-> FALSE]]
        BY <3>1 DEF SsoStart
      <4> DEFINE entry == [issuer |-> rows[i].issuer, live |-> TRUE, spent |-> FALSE]
      <4>2. rows[i] \in Row
        BY <1>0
      <4>3. entry \in Started
        BY <4>2 DEF Row, Started
      <4>4. logins[l] = None /\ ~entry.spent
        BY <3>1 DEF SsoStart
      <4> QED BY <4>1, <4>3, <4>4
    <3>2. CASE StateExpires(l)
      <4>1. logins[l] \in Started /\ logins' = [logins EXCEPT ![l].live = FALSE]
        BY <1>0, <3>2 DEF StateExpires
      <4>2. [logins[l] EXCEPT !.live = FALSE] \in Started
            /\ [logins[l] EXCEPT !.live = FALSE].spent = logins[l].spent
            /\ ~[logins[l] EXCEPT !.live = FALSE].live
        BY <4>1 DEF Started
      <4>3. logins' = [logins EXCEPT ![l] = [logins[l] EXCEPT !.live = FALSE]]
        BY <4>1
      <4> QED BY <4>2, <4>3
    <3> QED BY <1>2, <3>1, <3>2
  <2> QED BY <1>0, <2>1, <2>2, SignOnAssumption DEF SignOnInv, Returned, RetryRefused
<1>3. ASSUME NEW c \in Call, NEW l \in Login, SsoCallback(c, l) PROVE SignOnInv'
  <2> DEFINE record == [login |-> l, late |-> logins[l].spent, row |-> None, token |-> None]
  <2>1. logins[l] # None /\ pc' = [pc EXCEPT ![c] = "state"] /\ back' = [back EXCEPT ![c] = record]
        /\ UNCHANGED <<logins, opened, rows>>
    BY <1>3 DEF SsoCallback, Goes
  <2>2. Callback(record) /\ record.login = l /\ record.late = logins[l].spent
    BY DEF Callback
  <2> HIDE DEF record
  <2>3. back'[c] = record /\ pc'[c] = "state" /\ DOMAIN pc' = Call /\ DOMAIN back' = Call
        /\ \A d \in Call \ {c} : pc'[d] = pc[d] /\ back'[d] = back[d]
    BY <1>0, <2>1
  <2>4. Returned(c)'
    BY <2>1, <2>2, <2>3 DEF Returned
  <2> QED BY <2>1, <2>3, <2>4, CallbackStep
<1>4. ASSUME NEW c \in Call, DeleteState(c) PROVE SignOnInv'
  <2> DEFINE l == back[c].login
             entry == [logins[l] EXCEPT !.live = FALSE, !.spent = TRUE]
  <2>1. pc[c] = "forget" /\ pc' = [pc EXCEPT ![c] = "connection"] /\ UNCHANGED <<back, opened, rows>>
        /\ logins' = [logins EXCEPT ![l].live = FALSE, ![l].spent = TRUE]
    BY <1>4 DEF DeleteState, Goes
  <2>2. Returned(c) /\ ~back[c].late
    BY <1>0, <2>1 DEF Returned
  <2>3. l \in Login /\ logins[l] \in Started
    BY <1>0, <2>2 DEF Returned
  <2>4. entry \in Started /\ entry.spent /\ ~entry.live /\ entry # None
    BY <2>3, SignOnAssumption DEF Started
  <2>5. logins' = [logins EXCEPT ![l] = entry]
    BY <1>0, <2>1, <2>3
  <2> HIDE DEF entry
  <2>6. \A d \in Call : pc'[d] # "idle" => Returned(d)'
    <3>1. ASSUME NEW d \in Call, pc'[d] # "idle" PROVE Returned(d)'
      <4>1. pc[d] # "idle" /\ Returned(d)
        BY <1>0, <2>1, <3>1
      <4>2. logins'[back[d].login] # None /\ (logins[back[d].login].spent => logins'[back[d].login].spent)
        BY <1>0, <2>3, <2>4, <2>5, <4>1 DEF Returned
      <4>3. pc'[d] = pc[d] \/ d = c
        BY <1>0, <2>1
      <4> QED BY <2>1, <2>2, <4>1, <4>2, <4>3 DEF Returned
    <3> QED BY <3>1
  <2>7. logins' \in [Login -> {None} \union Started]
        /\ \A m \in Login : logins'[m] # None /\ logins'[m].spent => ~logins'[m].live
    BY <1>0, <2>3, <2>4, <2>5
  <2>8. DOMAIN pc' = Call /\ RetryRefused'
    BY <1>0, <2>1 DEF RetryRefused
  <2> QED BY <1>0, <2>1, <2>6, <2>7, <2>8 DEF SignOnInv
<1>5. ASSUME NEW c \in Call, OpenSession(c) PROVE SignOnInv'
  <2>1. pc[c] = "session" /\ Drops(c, "session") /\ UNCHANGED <<logins, rows>>
        /\ opened' = opened \cup {[login |-> back[c].login, late |-> back[c].late]}
    BY <1>5 DEF OpenSession
  <2>2. ~back[c].late
    BY <1>0, <2>1 DEF Returned
  <2>3. RetryRefused'
    <3>1. ASSUME NEW s \in opened' PROVE ~s.late
      <4>1. CASE s \in opened
        BY <1>0, <4>1 DEF RetryRefused
      <4>2. CASE s = [login |-> back[c].login, late |-> back[c].late]
        <5>1. s.late = back[c].late
          BY <4>2
        <5> QED BY <2>2, <5>1
      <4> QED BY <2>1, <4>1, <4>2
    <3> QED BY <3>1 DEF RetryRefused
  <2>4. pc' = [pc EXCEPT ![c] = "idle"] /\ back' = [back EXCEPT ![c] = None]
    BY <2>1 DEF Drops, Goes
  <2>5. \A d \in Call : pc'[d] # "idle" => Returned(d)'
    BY <1>0, <2>1, <2>4 DEF Returned
  <2> QED BY <1>0, <2>1, <2>3, <2>4, <2>5 DEF SignOnInv
<1>6. ASSUME NEW c \in Call, NEW from, Drops(c, from), UNCHANGED <<logins, opened, rows>> PROVE SignOnInv'
  <2>1. pc' = [pc EXCEPT ![c] = "idle"] /\ back' = [back EXCEPT ![c] = None]
    BY <1>6 DEF Drops, Goes
  <2>2. pc'[c] = "idle" /\ DOMAIN pc' = Call /\ DOMAIN back' = Call
        /\ \A d \in Call \ {c} : pc'[d] = pc[d] /\ back'[d] = back[d]
    BY <1>0, <2>1
  <2> QED BY <1>6, <2>2, CallbackStep
<1>7. ASSUME NEW c \in Call, NEW from, NEW to, from \notin {"idle", "state"}, Goes(c, from, to),
             UNCHANGED <<logins, opened, rows>>,
             \/ UNCHANGED back
             \/ \E x : back' = [back EXCEPT ![c].row = x] \/ back' = [back EXCEPT ![c].token = x]
      PROVE  SignOnInv'
  <2>1. pc[c] = from /\ pc' = [pc EXCEPT ![c] = to] /\ Returned(c) /\ ~back[c].late
    BY <1>0, <1>7 DEF Goes, Returned
  <2>2. Callback(back'[c]) /\ back'[c].login = back[c].login /\ back'[c].late = back[c].late
    <3>1. Callback(back[c])
      BY <2>1 DEF Returned
    <3>2. CASE UNCHANGED back
      BY <3>1, <3>2
    <3>3. ASSUME NEW x, back' = [back EXCEPT ![c].row = x] \/ back' = [back EXCEPT ![c].token = x]
          PROVE  Callback(back'[c]) /\ back'[c].login = back[c].login /\ back'[c].late = back[c].late
      <4> DEFINE b == back[c]
      <4>1. b = [login |-> b.login, late |-> b.late, row |-> b.row, token |-> b.token]
        BY <3>1 DEF Callback
      <4>2. back'[c] = [b EXCEPT !.row = x] \/ back'[c] = [b EXCEPT !.token = x]
        BY <1>0, <3>3
      <4> HIDE DEF b
      <4>3. \/ back'[c] = [login |-> b.login, late |-> b.late, row |-> x, token |-> b.token]
            \/ back'[c] = [login |-> b.login, late |-> b.late, row |-> b.row, token |-> x]
        BY <4>1, <4>2
      <4>4. Callback(back'[c]) /\ back'[c].login = b.login /\ back'[c].late = b.late
        <5> DEFINE r == back'[c]
        <5>1. \/ r = [login |-> b.login, late |-> b.late, row |-> x, token |-> b.token]
              \/ r = [login |-> b.login, late |-> b.late, row |-> b.row, token |-> x]
          BY <4>3
        <5> HIDE DEF r
        <5>2. r.login = b.login /\ r.late = b.late
          BY <5>1
        <5>3. r = [login |-> r.login, late |-> r.late, row |-> r.row, token |-> r.token]
          <6>1. CASE r = [login |-> b.login, late |-> b.late, row |-> x, token |-> b.token]
            BY <6>1
          <6>2. CASE r = [login |-> b.login, late |-> b.late, row |-> b.row, token |-> x]
            BY <6>2
          <6> QED BY <5>1, <6>1, <6>2
        <5> QED BY <5>2, <5>3 DEF Callback, r
      <4> QED BY <4>4 DEF b
    <3> QED BY <1>7, <3>2, <3>3
  <2>3. DOMAIN pc' = Call /\ DOMAIN back' = Call
        /\ \A d \in Call \ {c} : pc'[d] = pc[d] /\ back'[d] = back[d]
    BY <1>0, <1>7, <2>1
  <2>4. Returned(c)'
    BY <1>7, <2>1, <2>2 DEF Returned
  <2> QED BY <1>7, <2>3, <2>4, CallbackStep
<1>8. ASSUME NEW c \in Call, ReadState(c) PROVE SignOnInv'
  <2>1. pc[c] = "state" /\ UNCHANGED <<logins, opened, rows>>
    BY <1>8 DEF ReadState, Reads
  <2>2. CASE logins[back[c].login].live
    <3>1. pc' = [pc EXCEPT ![c] = "forget"] /\ UNCHANGED back
      BY <1>8, <2>2 DEF ReadState, Reads, Goes
    <3>2. Returned(c) /\ ~back[c].late
      BY <1>0, <2>1, <2>2 DEF Returned
    <3>3. Returned(c)'
      BY <2>1, <3>1, <3>2 DEF Returned
    <3>4. DOMAIN pc' = Call /\ \A d \in Call \ {c} : pc'[d] = pc[d]
      BY <1>0, <3>1
    <3> QED BY <1>0, <2>1, <3>1, <3>3, <3>4, CallbackStep
  <2>3. CASE ~logins[back[c].login].live
    <3>1. Drops(c, "state")
      BY <1>8, <2>3 DEF ReadState, Reads
    <3> QED BY <1>6, <2>1, <3>1
  <2> QED BY <2>2, <2>3
<1>9. ASSUME NEW c \in Call,
             \/ ReadConnection(c) \/ Exchange(c) \/ CheckReplay(c) \/ RecordReplay(c)
             \/ FindAccount(c) \/ FindSeat(c) \/ CallbackFails(c)
      PROVE  SignOnInv'
  <2>1. UNCHANGED <<logins, opened, rows>>
    BY <1>9 DEF ReadConnection, Exchange, CheckReplay, RecordReplay, FindAccount, FindSeat, CallbackFails, Reads
  <2>2. CASE \E from : Drops(c, from)
    BY <1>6, <2>1, <2>2
  <2>3. CASE ~\E from : Drops(c, from)
    <3>1. \E from, to :
            /\ from \notin {"idle", "state"} /\ Goes(c, from, to)
            /\ \/ UNCHANGED back
               \/ \E x : back' = [back EXCEPT ![c].row = x] \/ back' = [back EXCEPT ![c].token = x]
      <4>1. CASE ReadConnection(c)
        <5>1. Goes(c, "connection", "exchange") /\ back' = [back EXCEPT ![c].row = rows[Len(rows)]]
          BY <2>3, <4>1 DEF ReadConnection
        <5> QED BY <5>1
      <4>2. CASE Exchange(c)
        <5>1. Goes(c, "exchange", "replay") /\ \E x : back' = [back EXCEPT ![c].token = x]
          BY <2>3, <4>2 DEF Exchange
        <5> QED BY <5>1
      <4>3. CASE CheckReplay(c)
        <5>1. Goes(c, "replay", "record") /\ UNCHANGED back
          BY <2>3, <4>3 DEF CheckReplay, Reads
        <5> QED BY <5>1
      <4>4. CASE RecordReplay(c)
        <5>1. Goes(c, "record", "account") /\ UNCHANGED back
          BY <4>4 DEF RecordReplay
        <5> QED BY <5>1
      <4>5. CASE FindAccount(c)
        <5>1. Goes(c, "account", "seat") /\ UNCHANGED back
          BY <2>3, <4>5 DEF FindAccount, Reads
        <5> QED BY <5>1
      <4>6. CASE FindSeat(c)
        <5>1. Goes(c, "seat", "session") /\ UNCHANGED back
          BY <2>3, <4>6 DEF FindSeat, Reads
        <5> QED BY <5>1
      <4>7. CASE CallbackFails(c)
        BY <2>3, <4>7 DEF CallbackFails
      <4> QED BY <1>9, <4>1, <4>2, <4>3, <4>4, <4>5, <4>6, <4>7
    <3>2. PICK from, to :
            /\ from \notin {"idle", "state"} /\ Goes(c, from, to)
            /\ \/ UNCHANGED back
               \/ \E x : back' = [back EXCEPT ![c].row = x] \/ back' = [back EXCEPT ![c].token = x]
      BY <3>1
    <3> QED BY <1>7, <2>1, <3>2
  <2> QED BY <2>2, <2>3
<1> QED
  BY <1>1, <1>2, <1>3, <1>4, <1>5, <1>8, <1>9 DEF SignOnNext

\* However the calls of an identity provider and the browser's callbacks interleave, fail and are
\* repeated, whom a patch was answered to be gone has no seat and no key that works, and a callback
\* that is repeated after the state token was used opens no session (scim_patch_user, sso_callback).
THEOREM DirectoryHolds == Spec => []DirectorySafety
<1>1. Init => DirectoryInv /\ SignOnInv
  BY DirectoryBegin, SignOnBegin
<1>2. DirectoryInv /\ SignOnInv /\ [Next]_vars => DirectoryInv' /\ SignOnInv'
  <2> SUFFICES ASSUME DirectoryInv, SignOnInv, [Next]_vars PROVE DirectoryInv' /\ SignOnInv'
    OBVIOUS
  <2>1. CASE OfDirectory(DirectoryNext)
    <3>1. desk = "directory" /\ desk' = desk /\ DirectoryNext /\ UNCHANGED signOnVars
      BY <2>1 DEF OfDirectory
    <3>2. DirectoryInv'
      BY <3>1, DirectoryStep DEF DirectoryInv
    <3>3. SignOnInv'
      BY <3>1 DEF SignOnInv, signOnVars, RetryRefused
    <3> QED BY <3>2, <3>3
  <2>2. CASE OfSignOn(SignOnNext)
    <3>1. desk = "sign_on" /\ desk' = desk /\ SignOnNext
      BY <2>2 DEF OfSignOn
    <3>2. told' = told
      BY <3>1 DEF SignOnNext, Disconnect, SsoStart, StateExpires, SsoCallback, ReadState, DeleteState,
                  ReadConnection, Exchange, CheckReplay, RecordReplay, FindAccount, FindSeat,
                  OpenSession, CallbackFails, Reads, directoryVars
    <3>3. DirectoryInv'
      BY <3>1, <3>2 DEF DirectoryInv
    <3> QED BY <3>1, <3>3, SignOnStep
  <2>3. CASE UNCHANGED <<enterprise, desk>>
    <3>1. UNCHANGED <<tenantVars, directoryVars, signOnVars, desk>>
      BY <2>3 DEF enterprise
    <3>2. DirectoryInv'
      BY <3>1 DEF tenantVars, directoryVars, DirectoryInv, DirectoryTyped, Synchronised, InStep, Stations,
                  Busy, Whom, Alone, PatchedIsGone, ToldTheTruth, Seated
    <3>3. SignOnInv'
      BY <3>1 DEF tenantVars, signOnVars, SignOnInv, RetryRefused, Returned
    <3> QED BY <3>2, <3>3
  <2> QED BY <2>1, <2>2, <2>3
          DEF Next, vars, OfLifecycle, OfMetrics, OfProbes, OfPrices, OfReference
<1>3. DirectoryInv /\ SignOnInv => DirectorySafety
  BY DEF DirectoryInv, SignOnInv, Synchronised, DirectorySafety, PatchedIsGone, ToldTheTruth
<1> QED BY <1>1, <1>2, <1>3, PTL DEF Spec

===============================================================================
