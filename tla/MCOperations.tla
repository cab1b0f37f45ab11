----------------------------- MODULE MCOperations -----------------------------
(***************************************************************************)
(* What serves no model request: the life of the processes, their metrics  *)
(* and health endpoints, the price table and the published prices, and an  *)
(* organisation's identity provider, which keeps its members in step over  *)
(* SCIM or signs its people in.  They share no state, so a behaviour       *)
(* follows one of them.                                                    *)
(***************************************************************************)
EXTENDS Lifecycle, Metrics, Prices, Directory

VARIABLE desk \* the part this behaviour follows

enterprise == <<tenantVars, directoryVars, signOnVars>>

vars == <<lifecycle, metrics, probes, prices, refs, enterprise, desk>>

Desk ==
    {"lifecycle", "metrics", "probes", "prices", "reference", "directory", "sign_on"}

Init ==
    /\ desk \in Desk
    /\ LifecycleInit /\ MetricsInit /\ ProbesInit /\ PricesInit /\ ReferenceInit
    /\ TenantInit /\ DirectoryInit /\ SignOnInit
    \* the start of the parts not followed does not matter
    /\ desk # "lifecycle" => config = CHOOSE c \in Setups : TRUE
    /\ desk # "probes" => configured = Names
    /\ desk # "prices" => stored = Seed
    /\ desk # "reference" => list = CHOOSE l \in [number : {1}, models : Lists, price : Prices] : TRUE
    /\ desk # "directory" => manner = "patch" /\ \E p \in Person : seats[p] = "owner" /\ Seated = {p}
    /\ desk \notin {"directory", "sign_on"} =>
          Seated = {CHOOSE p \in Person : TRUE}
    /\ desk # "sign_on" => rows = <<CHOOSE r \in Row : TRUE>>

OfLifecycle(A) ==
    desk = "lifecycle" /\ A /\ UNCHANGED <<metrics, probes, prices, refs, enterprise, desk>>
OfMetrics(A) ==
    desk = "metrics" /\ A /\ UNCHANGED <<lifecycle, probes, prices, refs, enterprise, desk>>
OfProbes(A) ==
    desk = "probes" /\ A /\ UNCHANGED <<lifecycle, metrics, prices, refs, enterprise, desk>>
OfPrices(A) ==
    desk = "prices" /\ A /\ UNCHANGED <<lifecycle, metrics, probes, refs, enterprise, desk>>
OfReference(A) ==
    desk = "reference" /\ A /\ UNCHANGED <<lifecycle, metrics, probes, prices, enterprise, desk>>
OfDirectory(A) ==
    desk = "directory" /\ A
    /\ UNCHANGED <<lifecycle, metrics, probes, prices, refs, signOnVars, desk>>
OfSignOn(A) ==
    desk = "sign_on" /\ A /\ UNCHANGED <<lifecycle, metrics, probes, prices, refs, desk>>

Next ==
    \/ OfLifecycle(LifecycleNext)
    \/ OfMetrics(MetricsNext)
    \/ OfProbes(ProbesNext)
    \/ OfPrices(PricesNext)
    \/ OfReference(ReferenceNext)
    \/ OfDirectory(DirectoryNext)
    \/ OfSignOn(SignOnNext)

(* Startup and the orchestrator's polls go on and requests in flight end; an *)
(* identity provider repeats what it was not told succeeded, and imports the *)
(* members from time to time.                                                *)
Spec ==
    /\ Init /\ [][Next]_vars
    /\ \A r \in Replicas :
          WF_vars(OfLifecycle(Boot(r) \/ Complete(r) \/ ShutdownComplete(r) \/ HealthCheck(r)))
    /\ \A p \in Person : WF_vars(OfDirectory(Synchronise(p)))
    /\ \A c \in Call : WF_vars(OfDirectory(Served(c)))

-----------------------------------------------------------------------------
(* A deployment whose configuration is valid and whose services stay up     *)
(* brings every replica into rotation, whatever failed, crashed or was      *)
(* started at the same time before: no startup step is one that can only be *)
(* done once (run, maintain_usage_partitions, ready).                       *)
StartsAgain ==
    \A r \in Replicas :
        []<>(desk = "lifecycle" /\ FromEnv(config) /\ up = Backends => r \in inRotation)

-----------------------------------------------------------------------------
(***************************************************************************)
(* Two replicas over four months in a production setup with a read         *)
(* replica, one that must not start and one for development; three         *)
(* recorders; two administrators and two lists; two people of two domains; *)
(* every token that differs from a good one in at most one claim.          *)
(***************************************************************************)

CONSTANTS r1, r2, t1, t2, t3, a1, a2, m1, m2, q1, p1, p2

Prod ==
    [productionLike |-> TRUE, databaseUrl |-> TRUE, replicaUrl |-> FALSE, redisUrl |-> TRUE,
     masterKey |-> "set", https |-> TRUE, origin |-> TRUE, numbers |-> TRUE]

MCSetups ==
    {[Prod EXCEPT !.replicaUrl = TRUE], [Prod EXCEPT !.redisUrl = FALSE],
     [Prod EXCEPT !.productionLike = FALSE, !.databaseUrl = FALSE, !.redisUrl = FALSE,
                  !.masterKey = "absent"]}

(* Free, priced, and nothing that can be read as a price.                   *)
MCPrices == {0, 5, -7}

MCDomainOf == [p \in Person |-> IF p = p1 THEN "d1" ELSE "d2"]

Good == [signer |-> "k1", kid |-> "k1", audience |-> "us", late |-> 0, early |-> 0, email |-> p1]

MCTokens ==
  {Good}
  \cup {[Good EXCEPT !.kid = k] : k \in {"k2", None}}
  \cup {[Good EXCEPT !.audience = "other"]}
  \cup {[Good EXCEPT !.late = n] : n \in 1 .. 3} \cup {[Good EXCEPT !.early = n] : n \in 2 .. 3}
  \cup {[Good EXCEPT !.email = e] : e \in {p2, None}}

===============================================================================
