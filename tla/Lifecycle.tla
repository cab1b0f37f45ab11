----------------------------- MODULE Lifecycle -----------------------------
(***************************************************************************)
(* A gateway process from its configuration to its last request: what run  *)
(* in main.rs opens and in which order, what makes it give up, what the    *)
(* two health endpoints answer, the workers it spawns for the partitions   *)
(* of the usage table, and how it stops.  Several replicas share one       *)
(* database and one store; an orchestrator (external) restarts what has    *)
(* exited and polls readiness.                                             *)
(***************************************************************************)
EXTENDS Integers

CONSTANTS
    Replicas,    \* the gateway processes
    Setups,      \* the configurations a deployment may have
    LastMonth,   \* bound: months are 0..LastMonth
    MonthsAhead, \* partitions kept ahead of the current month
    MaxOutage,   \* months a running gateway may be cut off from its database
    MaxStops     \* bound: crashes and signals

Config == [productionLike : BOOLEAN, databaseUrl : BOOLEAN, replicaUrl : BOOLEAN,
           redisUrl : BOOLEAN, masterKey : {"set", "absent", "malformed"},
           https : BOOLEAN, origin : BOOLEAN, numbers : BOOLEAN]

ASSUME LifecycleAssumption ==
    /\ Setups \subseteq Config
    /\ LastMonth \in Nat /\ MonthsAhead \in Nat /\ MaxStops \in Nat
    /\ MaxOutage \in 0..MonthsAhead

VARIABLES
    config,     \* the configuration all replicas run with
    up,         \* the external services that answer
    phase,      \* how far a process has come
    missing,    \* the partitions a maintenance run found missing
    inFlight,   \* the processes with a request in flight
    inRotation, \* what the orchestrator was last told by /ready
    month,      \* the month of the year the clock shows
    maintained, \* the month of the last successful maintenance
    migrated,   \* the schema has been created
    partitions, \* the months with a partition of their own
    stray,      \* the months with rows in the default partition
    backlog,    \* the months of the events in a store's stream
    stops

lifecycle == <<config, up, phase, missing, inFlight, inRotation, month,
               maintained, migrated, partitions, stray, backlog, stops>>

Backends == {"store", "database", "database_replica"}
Idle == {-1} \* no maintenance run is under way

MasterKey(c) == c.masterKey = "set" \/ (c.masterKey = "absent" /\ ~c.productionLike)

(* numbers: every number parses and the three that are checked are in range. *)
Validate(c) ==
    /\ c.numbers
    /\ c.productionLike => c.databaseUrl /\ c.redisUrl /\ c.https /\ c.origin

FromEnv(c) == MasterKey(c) /\ Validate(c)

-----------------------------------------------------------------------------
Store(r) == IF config.redisUrl THEN "shared" ELSE r

(* The in-process store always answers. *)
StorePing == config.redisUrl => "store" \in up
DatabasePing == "database" \in up

Alive(r) == phase[r] # "down"
Running(r) == phase[r] \in {"serving", "draining"}

LifecycleInit ==
    /\ config \in Setups
    /\ up = Backends
    /\ phase = [r \in Replicas |-> "down"]
    /\ missing = [r \in Replicas |-> Idle]
    /\ inFlight = {} /\ inRotation = {}
    /\ month = 0 /\ maintained = 0
    /\ migrated = FALSE
    /\ partitions = {} /\ stray = {}
    /\ backlog = [s \in Replicas \union {"shared"} |-> {}]
    /\ stops = 0

Goto(r, next) == phase' = [phase EXCEPT ![r] = next]

(* What a process takes with it: its requests and its own store.            *)
Gone(r) ==
    /\ missing' = [missing EXCEPT ![r] = Idle]
    /\ inFlight' = inFlight \ {r}
    /\ backlog' = [backlog EXCEPT ![r] = {}]
    /\ UNCHANGED <<config, up, inRotation, month, maintained, migrated, partitions,
                   stray>>

(* An error that run returns: main prints it, the process exits with 1 and  *)
(* is restarted.                                                            *)
Fails(r) == Goto(r, "down") /\ Gone(r) /\ UNCHANGED stops

(* One step of run: with ok it goes on to next, without it ends.            *)
Startup(r, from, ok, next) ==
    /\ phase[r] = from
    /\ IF ok
         THEN /\ Goto(r, next)
              /\ UNCHANGED <<missing, inFlight, backlog, config, up, inRotation,
                             month, maintained, migrated, partitions, stray, stops>>
         ELSE Fails(r)

(* The configuration, the store and the database, in this order.            *)
Connect(r) ==
    Startup(r, "down", FromEnv(config) /\ StorePing /\ (config.databaseUrl => DatabasePing),
            IF config.databaseUrl THEN "migrate" ELSE "assemble")

(* The months maintain_usage_partitions covers; the migration that creates  *)
(* the table ends by calling it once.                                       *)
\* Mutant of Wanted: only the partition that is needed right now.
WantedNow == {month}
Wanted == month..(month + MonthsAhead)

(* Migrations run under an advisory lock and only what is pending.          *)
Migrate(r) ==
    IF migrated \/ ~DatabasePing
      THEN Startup(r, "migrate", DatabasePing, "check")
      ELSE /\ phase[r] = "migrate"
           /\ Goto(r, "check")
           /\ migrated' = TRUE
           /\ partitions' = Wanted
           /\ maintained' = month
           /\ UNCHANGED <<config, up, missing, inFlight, inRotation, month,
                          stray, backlog, stops>>

(* ensure_usage_partition looks the partition up ...                        *)
\* Mutant of Lacking: what is there is created again.
LackingUnchecked(wanted) == wanted
Lacking(wanted) == wanted \ partitions

(* ... and creates it: another process may have done so meanwhile, and rows *)
(* of the month in the default partition forbid it.                         *)
Creatable(found) == found \intersect (partitions \union stray) = {}

(* Before any traffic ...                                                   *)
CheckPartitions(r) ==
    IF DatabasePing
      THEN /\ phase[r] = "check"
           /\ Goto(r, "create")
           /\ missing' = [missing EXCEPT ![r] = Lacking(Wanted)]
           /\ UNCHANGED <<config, up, inFlight, inRotation, month, maintained,
                          migrated, partitions, stray, backlog, stops>>
      ELSE Startup(r, "check", FALSE, "create")

Created(r) ==
    /\ partitions' = partitions \union missing[r]
    /\ maintained' = month
    /\ missing' = [missing EXCEPT ![r] = Idle]

CreatePartitions(r) ==
    IF DatabasePing /\ Creatable(missing[r])
      THEN /\ phase[r] = "create"
           /\ Goto(r, "pricing")
           /\ Created(r)
           /\ UNCHANGED <<config, up, inFlight, inRotation, month, migrated,
                          stray, backlog, stops>>
      ELSE Startup(r, "create", FALSE, "pricing")

(* An empty price table is replaced by the seed, an unreadable one ends     *)
(* startup; no read replica is normal, a configured one has to answer.      *)
LoadPricing(r) ==
    Startup(r, "pricing",
            DatabasePing /\ (config.replicaUrl => "database_replica" \in up), "assemble")

(* The state is assembled, the workers are spawned and the listener bound.  *)
Serve(r) == Startup(r, "assemble", TRUE, "serving")

-----------------------------------------------------------------------------
(* A request ends with a usage event in the stream of its store.            *)
Accept(r) ==
    /\ phase[r] = "serving" /\ r \in inRotation
    /\ inFlight = {} \* bound: one request at a time
    /\ \A s \in DOMAIN backlog : backlog[s] = {}
    /\ inFlight' = {r}
    /\ UNCHANGED <<config, up, phase, missing, inRotation, month, maintained,
                   migrated, partitions, stray, backlog, stops>>

Complete(r) ==
    /\ Running(r) /\ r \in inFlight
    /\ inFlight' = inFlight \ {r}
    /\ backlog' = IF StorePing
                    THEN [backlog EXCEPT ![Store(r)] = @ \union {month}] ELSE backlog
    /\ UNCHANGED <<config, up, phase, missing, inRotation, month, maintained,
                   migrated, partitions, stray, stops>>

(* The usage writer, for the month of the row: the partition of that month  *)
(* takes it, or else the default one does.                                  *)
WriteUsage(r) ==
    /\ Running(r) /\ config.databaseUrl /\ DatabasePing /\ StorePing
    /\ \E m \in backlog[Store(r)] :
          /\ backlog' = [backlog EXCEPT ![Store(r)] = @ \ {m}]
          /\ stray' = IF m \in partitions THEN stray ELSE stray \union {m}
    /\ UNCHANGED <<config, up, phase, missing, inFlight, inRotation, month,
                   maintained, migrated, partitions, stops>>

(* The hourly maintenance: a run that fails, here or against another        *)
(* process, is logged and tried again, so it is one step.                   *)
Maintain(r) ==
    /\ Running(r) /\ config.databaseUrl /\ DatabasePing
    /\ maintained # month
    /\ Lacking(Wanted) \intersect stray = {}
    /\ partitions' = partitions \union Lacking(Wanted)
    /\ maintained' = month
    /\ UNCHANGED <<config, up, phase, missing, inFlight, inRotation, month, migrated, stray,
                   backlog, stops>>

(* /ready asks for the store alone: keys are served from a cache while the  *)
(* database is away.                                                        *)
Ready(r) == Running(r) /\ StorePing

(* The container's check and the orchestrator's probe.                      *)
HealthCheck(r) ==
    /\ inRotation' = IF Ready(r) THEN inRotation \union {r} ELSE inRotation \ {r}
    /\ UNCHANGED <<config, up, phase, missing, inFlight, month, maintained, migrated,
                   partitions, stray, backlog, stops>>

(* SIGINT or SIGTERM: no new connections; requests in flight finish, and    *)
(* when they have, run returns and the workers end with the process.        *)
ShutdownSignal(r) ==
    /\ phase[r] = "serving" /\ stops < MaxStops
    /\ Goto(r, "draining")
    /\ stops' = stops + 1
    /\ UNCHANGED <<config, up, missing, inFlight, inRotation, month,
                   maintained, migrated, partitions, stray, backlog>>

ShutdownComplete(r) == phase[r] = "draining" /\ r \notin inFlight /\ Fails(r)

Dies(r) ==
    /\ Alive(r) /\ stops < MaxStops
    /\ stops' = stops + 1
    /\ Goto(r, "down")
    /\ Gone(r)

-----------------------------------------------------------------------------
(* The services of this configuration fail and come back.                   *)
Uses(s) ==
    \/ s = "store" /\ config.redisUrl
    \/ s = "database" /\ config.databaseUrl
    \/ s = "database_replica" /\ config.databaseUrl /\ config.replicaUrl

Toggle(s) ==
    /\ Uses(s)
    /\ up' = IF s \in up THEN up \ {s} ELSE up \union {s}
    /\ UNCHANGED <<config, phase, missing, inFlight, inRotation, month,
                   maintained, migrated, partitions, stray, backlog, stops>>

(* The hour is much shorter than the month: a live process that reaches     *)
(* its database has maintained this month before the next begins, and none  *)
(* is cut off from it for more than MaxOutage months.                       *)
MonthTurns ==
    /\ month < LastMonth
    /\ \A r \in Replicas : missing[r] = Idle
    /\ (\E r \in Replicas : Alive(r)) /\ config.databaseUrl =>
          /\ DatabasePing => maintained = month
          /\ month + 1 - maintained <= MaxOutage
    /\ month' = month + 1
    /\ UNCHANGED <<config, up, phase, missing, inFlight, inRotation,
                   maintained, migrated, partitions, stray, backlog, stops>>

Boot(r) ==
    \/ Connect(r) \/ Migrate(r) \/ CheckPartitions(r) \/ CreatePartitions(r)
    \/ LoadPricing(r) \/ Serve(r)

LifecycleNext ==
    \/ \E r \in Replicas :
          \/ Boot(r)
          \/ Accept(r) \/ Complete(r) \/ WriteUsage(r)
          \/ Maintain(r)
          \/ HealthCheck(r)
          \/ ShutdownSignal(r) \/ ShutdownComplete(r) \/ Dies(r)
    \/ \E s \in Backends : Toggle(s)
    \/ MonthTurns

-----------------------------------------------------------------------------
(* However long a running gateway is cut off from its database, within      *)
(* MaxOutage months, no usage row ends in the default partition, where it   *)
(* would keep the partition of its month from ever being created            *)
(* (maintain_usage_partitions, run_partition_maintenance).                  *)
PartitionThere == stray = {}

=============================================================================
