------------------------------ MODULE Scheduler ------------------------------
(***************************************************************************)
(* The weekly digest (workers/scheduler.rs) in one of its periods: every   *)
(* replica wakes each minute, the one whose INCRBY creates the claim key   *)
(* sends the digests, and the key expires CLAIM_TTL later although the     *)
(* window of the job stays open.  Setting the expiry is a second command.  *)
(*                                                                         *)
(* A tick of the model is long against the minute between two wakes.       *)
(***************************************************************************)
EXTENDS Deployment

CONSTANTS
  Orgs,       \* number of organisations with usage in the last week
  ClaimTTL,   \* CLAIM_TTL, in ticks
  Window      \* ticks the job's window stays open

Org == 1 .. Orgs

ASSUME SchedulerAssumption ==
  /\ Orgs \in Nat
  /\ ClaimTTL \in Nat \ {0}
  /\ Window \in Nat \ {0}

VARIABLES
  clock,      \* ticks since the window opened; Window is closed
  lease,      \* ticks until the claim key expires: 0 is no key
  claimedAt,  \* history: when each replica last created the key
  short,      \* history: the replicas whose run has failed to mail someone
  wasted,     \* history: a claim came to nothing, or to less, too late for another one
  job,        \* what each replica's scheduler is doing
  next,       \* the organisation it mails next, in the order of their creation
  digests     \* digests sent to each organisation

schedulerVars == <<clock, lease, claimedAt, short, wasted, job, next, digests>>

\* A key whose expiry was never set.
Forever == ClaimTTL + 1

SchedulerTypeOK ==
  /\ clock \in 0 .. Window
  /\ lease \in 0 .. Forever
  /\ claimedAt \in [Replica -> 0 .. Window]
  /\ short \in SUBSET Replica
  /\ wasted \in BOOLEAN
  /\ job \in [Replica -> {"waiting", "claimed", "sending"}]
  /\ next \in [Replica -> 1 .. Orgs + 1]
  /\ digests \in [Org -> Nat]

SchedulerInit ==
  /\ clock = 0
  /\ lease = 0
  /\ claimedAt = [n \in Replica |-> 0]
  /\ short = {}
  /\ wasted = FALSE
  /\ job = [n \in Replica |-> "waiting"]
  /\ next = [n \in Replica |-> 1]
  /\ digests = [o \in Org |-> 0]

Moves(n, from, to) == job[n] = from /\ job' = [job EXCEPT ![n] = to]

\* A claim that was not made good: in vain if its key outlives the window, or the window is over.
Wastes(expires) == wasted' = (wasted \/ expires >= Window \/ clock >= Window)

\* When the key of n's claim expires, which is never before its expiry is set.
Expiry(n) == IF job[n] = "claimed" THEN Window ELSE claimedAt[n] + ClaimTTL

-----------------------------------------------------------------------------
(* claim                                                                   *)

\* INCRBY returns 1 to the replica that creates the key; any other value changes nothing.
Claim(n) ==
  /\ Moves(n, "waiting", "claimed")
  /\ clock < Window
  /\ lease = 0
  /\ lease' = Forever
  /\ claimedAt' = [claimedAt EXCEPT ![n] = clock]
  /\ UNCHANGED <<clock, short, wasted, next, digests, failures>>

\* An error may hide an increment, and then nobody holds the claim that was taken.
ClaimFails(n) ==
  /\ Moves(n, "waiting", "waiting")
  /\ clock < Window
  /\ Fault
  /\ \/ lease = 0 /\ lease' = Forever /\ Wastes(Window)
     \/ UNCHANGED <<lease, wasted>>
  /\ UNCHANGED <<clock, claimedAt, short, next, digests>>

SetExpiry(n) ==
  /\ Moves(n, "claimed", "sending")
  /\ lease' = ClaimTTL
  /\ UNCHANGED <<clock, claimedAt, short, wasted, next, digests, failures>>

\* The claim counts as lost although the key is there.
SetExpiryFails(n) ==
  /\ Moves(n, "claimed", "waiting")
  /\ Fault
  /\ \/ UNCHANGED lease /\ Wastes(Window)
     \/ lease' = ClaimTTL /\ Wastes(clock + ClaimTTL)
  /\ UNCHANGED <<clock, claimedAt, short, next, digests>>

-----------------------------------------------------------------------------
(* send_weekly_digests                                                     *)

\* The organisation n is at, and past it.
Handles(n, o) == o = next[n] /\ next' = [next EXCEPT ![n] = o + 1]

Send(n) ==
  /\ Moves(n, "sending", "sending")
  /\ \E o \in Org : Handles(n, o) /\ digests' = [digests EXCEPT ![o] = @ + 1]
  /\ UNCHANGED <<clock, lease, claimedAt, short, wasted, failures>>

\* A failed delivery, which may have gone out, does not stop the rest.
SendFails(n) ==
  /\ Moves(n, "sending", "sending")
  /\ Fault
  /\ \E o \in Org :
       /\ Handles(n, o)
       /\ \/ digests' = [digests EXCEPT ![o] = @ + 1] /\ UNCHANGED short
          \/ UNCHANGED digests /\ short' = short \cup {n}
  /\ UNCHANGED <<clock, lease, claimedAt, wasted>>

\* The run ends, and did what it was for or not.
RunEnds(n, complete) ==
  /\ next' = [next EXCEPT ![n] = 1]
  /\ short' = short \ {n}
  /\ IF complete THEN UNCHANGED wasted ELSE Wastes(Expiry(n))

\* A summary that cannot be read does: `?` leaves the loop, as does a list of organisations
\* that cannot be read before it.
SummaryFails(n) ==
  /\ Moves(n, "sending", "waiting")
  /\ Fault
  /\ next[n] \in Org
  /\ RunEnds(n, FALSE)
  /\ UNCHANGED <<clock, lease, claimedAt, digests>>

DigestsDone(n) ==
  /\ Moves(n, "sending", "waiting")
  /\ next[n] = Orgs + 1
  /\ RunEnds(n, n \notin short)
  /\ UNCHANGED <<clock, lease, claimedAt, digests, failures>>

-----------------------------------------------------------------------------

\* A replica restarts, with its work and not with the store's.
SchedulerRestarts(n) ==
  /\ job' = [job EXCEPT ![n] = "waiting"]
  /\ RunEnds(n, job[n] = "waiting")
  /\ UNCHANGED <<clock, lease, claimedAt, digests>>

\* Mutant of Tick: the losers' increments keep the key alive.
TickRenewing ==
  /\ clock < Window
  /\ clock' = clock + 1
  /\ UNCHANGED <<lease, claimedAt, short, wasted, job, next, digests, failures>>

\* A waiting replica wakes within a tick, so an open claim does not outlast one; nor does
\* the pause between the two commands of a claim.  A run of the job may.
Tick ==
  /\ clock < Window
  /\ \A n \in Replica : job[n] # "claimed"
  /\ ~(lease = 0 /\ \E n \in Replica : job[n] = "waiting")
  /\ clock' = clock + 1
  /\ lease' = IF lease \in {0, Forever} THEN lease ELSE lease - 1
  /\ UNCHANGED <<claimedAt, short, wasted, job, next, digests, failures>>

Digest(n) == Claim(n) \/ SetExpiry(n) \/ Send(n) \/ DigestsDone(n)

DigestTrouble(n) ==
  ClaimFails(n) \/ SetExpiryFails(n) \/ SendFails(n) \/ SummaryFails(n)

-----------------------------------------------------------------------------
(* Properties                                                              *)

\* A digest is kept from an organisation only if a replica's claim came to nothing, by a
\* restart or a failed call, too late for another replica: its key lived on until the window
\* closed, or the run was broken off when the window had closed.
DigestsOut == wasted \/ \A o \in Org : digests[o] > 0

==============================================================================
