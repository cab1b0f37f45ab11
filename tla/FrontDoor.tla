------------------------------ MODULE FrontDoor ------------------------------
(***************************************************************************)
(* The sliding windows (middleware/rate_limit.rs check and check_ip,       *)
(* store.rs RATE_LIMIT_LUA): a request is let in by the window of its key  *)
(* and by that of its organisation, a sign-in by the one of its address.   *)
(*                                                                         *)
(* The script is one step of the store, but the time it reasons with is    *)
(* the caller's: the replicas' clocks differ.                              *)
(***************************************************************************)
EXTENDS Integers, Sequences, FiniteSets, FiniteSetsExt

CONSTANTS
  Caller,     \* requests in progress at a time
  Key,        \* the organisation's keys
  Replica,
  Skew,       \* Skew[r], how far r's clock is ahead of the store's
  Window,     \* WINDOW
  Second,     \* a second, in ticks
  Limit,      \* Limit[b], what the window of bucket b admits
  None,
  MaxTime,    \* bound: ticks
  MaxKeyTime, \* bound: ticks while keys are followed
  MaxChecks,  \* bound: checks begun
  MaxFaults   \* bound: store calls that fail

Bucket == Key \cup {"org", "ip"}

ASSUME LimiterAssumption ==
  /\ IsFiniteSet(Caller) /\ Caller # {} /\ IsFiniteSet(Replica) /\ Replica # {}
  /\ None \notin Nat
  /\ Skew \in [Replica -> Nat]
  /\ Window \in Nat \ {0} /\ Second \in Nat \ {0}
  /\ Limit \in [Bucket -> Nat \ {0}]
  /\ MaxTime \in Nat /\ MaxKeyTime \in Nat /\ MaxChecks \in Nat /\ MaxFaults \in Nat

VARIABLES
  now,         \* the store's time
  windows,     \* the sorted sets, and when each expires
  checks,      \* the check each caller is in
  admissions,  \* when each window admitted, and the entry it made
  refusals,    \* the last refusal by each window since, and the wait it was answered with
  arrivals,    \* requests made
  faults

limiterVars == <<windows, checks, admissions, refusals>>

Clock(r) == now + Skew[r]

Idle == [pc |-> "idle", bucket |-> None, replica |-> None]

LimiterInit ==
  /\ windows = [b \in Bucket |-> [entries |-> {}, expires |-> 0]]
  /\ checks = [c \in Caller |-> Idle]
  /\ admissions = [b \in Bucket |-> <<>>]
  /\ refusals = [b \in Bucket |-> None]

Trimmed(b, clock) ==
  IF now < windows[b].expires
    THEN {e \in windows[b].entries : e.score + Window > clock}
    ELSE {}

\* Mutant of Entry: a member is its score, so two of one moment are one.
EntryOfScore(entries, clock) == [score |-> clock, member |-> 1]

\* Members are told apart by the uuid in them, here by a number that is free.
Entry(entries, clock) ==
  [score |-> clock,
   member |-> Min(1 .. Cardinality(entries) + 1 \ {e.member : e \in entries})]

Oldest(entries) == Min({e.score : e \in entries})

\* Mutant of RetryAfter: the wait of the newest entry's age.
RetryAfterAge(entries, clock) == Max({1, (clock - Oldest(entries)) \div Second})

\* The wait, in seconds, rounded down and at least one.
RetryAfter(entries, clock) == Max({1, (Oldest(entries) + Window - clock) \div Second})

Starts(c, r, b) ==
  /\ checks[c].pc = "idle"
  /\ arrivals < MaxChecks
  /\ arrivals' = arrivals + 1
  /\ checks' = [checks EXCEPT ![c] = [pc |-> "checking", bucket |-> b, replica |-> r]]
  /\ UNCHANGED <<windows, admissions, refusals, faults>>

Check(c, r, k) == Starts(c, r, k)

CheckIp(c, r) == Starts(c, r, "ip")

Admit(c) ==
  LET b == checks[c].bucket
      clock == Clock(checks[c].replica)
      entries == Trimmed(b, clock)
  IN  /\ checks[c].pc = "checking"
      /\ Cardinality(entries) < Limit[b]
      /\ windows' = [windows EXCEPT ![b] = [entries |-> entries \cup {Entry(entries, clock)},
                                            expires |-> now + Window]]
      /\ admissions' =
           [admissions EXCEPT ![b] = Append(@, [at |-> now, entry |-> Entry(entries, clock)])]
      /\ refusals' = [refusals EXCEPT ![b] = None]
      /\ checks' = [checks EXCEPT ![c] = IF b \in Key THEN [@ EXCEPT !.bucket = "org"] ELSE Idle]
      /\ UNCHANGED <<arrivals, faults>>

\* What the key's window counted stays counted when the organisation's refuses.
Refuse(c) ==
  LET b == checks[c].bucket
      clock == Clock(checks[c].replica)
      entries == Trimmed(b, clock)
  IN  /\ checks[c].pc = "checking"
      /\ Cardinality(entries) >= Limit[b]
      /\ windows' = [windows EXCEPT ![b] = [entries |-> entries, expires |-> now + Window]]
      /\ refusals' = [refusals EXCEPT ![b] = [at |-> now, wait |-> RetryAfter(entries, clock)]]
      /\ checks' = [checks EXCEPT ![c] = Idle]
      /\ UNCHANGED <<admissions, arrivals, faults>>

\* The store cannot be reached: the request is answered with an error.
CheckFails(c) ==
  /\ checks[c].pc = "checking"
  /\ faults < MaxFaults
  /\ faults' = faults + 1
  /\ checks' = [checks EXCEPT ![c] = Idle]
  /\ UNCHANGED <<windows, admissions, refusals, arrivals>>

Answer(c) == Admit(c) \/ Refuse(c) \/ CheckFails(c)

-----------------------------------------------------------------------------
(* Properties                                                              *)

LimiterTypeOK ==
  /\ \A b \in Bucket : \A e \in windows[b].entries : e.score \in Nat
  /\ \A c \in Caller : checks[c].pc \in {"idle", "checking"}
  /\ \A b \in Bucket : \A i \in DOMAIN admissions[b] : admissions[b][i].at <= now

MaxSkew == Max({Skew[r] : r \in Replica}) - Min({Skew[r] : r \in Replica})

\* Whatever the callers and the replicas they reach, no window admits more than its limit
\* within its length, less what the replicas' clocks differ by (rate_limit.rs check,
\* RATE_LIMIT_LUA).
WindowHolds ==
  \A b \in Bucket :
    LET times == admissions[b]
        after(i) == {j \in i .. Len(times) : times[j].at < times[i].at + Window - MaxSkew}
    IN  \A i \in DOMAIN times : Cardinality(after(i)) <= Limit[b]

\* The wait a refused client is told is short by less than a second, and by what the clocks
\* differ by: after so long, if the window let no one else in, there is room for it on any
\* replica (store.rs rate_limit, the milliseconds divided).
WaitSuffices ==
  \A b \in Bucket :
    LET f == refusals[b]
    IN  (f # None /\ now >= f.at + (f.wait + 1) * Second + MaxSkew) =>
          \A r \in Replica : Cardinality(Trimmed(b, Clock(r))) < Limit[b]

\* A window refuses what is too much, and no client that does as it is told.
LimiterSafety == WindowHolds /\ WaitSuffices

-----------------------------------------------------------------------------
(***************************************************************************)
(* A request's way in and out: routes/openai_compat.rs handle_chat and     *)
(* embeddings, routes/anthropic_compat.rs handle_messages, up to the call  *)
(* of the provider and from there to the usage event.                      *)
(*                                                                         *)
(* The rate limiter and the keys have modules of their own and refuse or   *)
(* not here; so do the reservation (BudgetLedger: here the hard limits     *)
(* refuse or not) and the provider (ProviderCalls).  What remains is the   *)
(* order of the checks, the cached limits against a budget that changes,   *)
(* the free allowance, and which endings are metered.                      *)
(***************************************************************************)

CONSTANTS
  Plan,         \* the organisation's: "free" or another
  Home,         \* the replicas of the organisation's region
  LimitsTTL,    \* LIMITS_CACHE_TTL
  Allowance,    \* free_tier_monthly_requests
  MaxRequests,  \* bound: requests made
  MaxDoorTime,  \* bound: ticks while requests are followed
  MaxChanges    \* bound: budgets created or deleted

ASSUME DoorAssumption ==
  /\ Home \subseteq Replica
  /\ LimitsTTL \in Nat /\ Allowance \in Nat /\ MaxRequests \in Nat
  /\ MaxChanges \in Nat /\ MaxDoorTime \in 0 .. MaxTime

VARIABLES
  budgets,   \* the rows: "none", or hard ones
  cached,    \* the limits cached for each key, and until when
  change,    \* a call of the management API: "none", or the row is in and the cache not dropped
  requests,  \* the request each caller makes
  counter,   \* org_requests_key, this month's
  answered,  \* answers that passed the allowance
  uncounted, \* answers whose increment was lost
  excuse,    \* when a stale set of limits was last cached, or an invalidation last failed
  changes

doorVars == <<budgets, cached, change, requests, counter, answered, uncounted, excuse,
              changes>>

Endpoint == {"chat", "messages", "embeddings"}

\* None of the rows, or some with a hard limit.
Ceiling == {"none", "hard"}

NoRequest ==
  [pc |-> "idle", endpoint |-> None, stream |-> FALSE, key |-> None, read |-> None,
   limits |-> None, since |-> 0, at |-> 0, events |-> 0]

DoorInit ==
  /\ budgets = "none"
  /\ cached = [k \in Key |-> None]
  /\ change = "none"
  /\ requests = [c \in Caller |-> NoRequest]
  /\ counter = 0 /\ answered = 0 /\ uncounted = 0
  /\ excuse = None
  /\ changes = 0

At(c, place) == requests[c].pc = place

\* The request goes on at `place`.
Goes(c, place) == requests' = [requests EXCEPT ![c].pc = place]

\* It is over, after so many usage events.
Ends(c, events) ==
  requests' = [requests EXCEPT ![c] = [NoRequest EXCEPT !.pc = "ended", !.events = events]]

Metered(c) == requests' = [requests EXCEPT ![c] = [NoRequest EXCEPT !.pc = "recording"]]

\* What was loaded is of no more use.
Proceeds(c, place) ==
  requests' = [requests EXCEPT ![c] = [NoRequest EXCEPT !.pc = place,
                                                        !.endpoint = requests[c].endpoint,
                                                        !.stream = requests[c].stream]]

StoreFault == faults < MaxFaults /\ faults' = faults + 1

tables == <<budgets, change, changes>>
counts == <<counter, answered, uncounted>>

-----------------------------------------------------------------------------

\* Authenticated, and of this region or not.  handle_messages refuses without a record.
Arrive(c, r, endpoint, k, stream) ==
  /\ At(c, "idle") \/ At(c, "ended")
  /\ arrivals < MaxRequests
  /\ arrivals' = arrivals + 1
  /\ stream => endpoint # "embeddings"
  /\ LET start == [NoRequest EXCEPT !.endpoint = endpoint, !.stream = stream, !.key = k]
     IN  requests' = [requests EXCEPT ![c] =
           IF r \in Home
             THEN [start EXCEPT !.pc = IF endpoint = "embeddings" THEN "calling" ELSE "limited"]
             ELSE [NoRequest EXCEPT !.pc = IF endpoint = "messages" THEN "ended" ELSE "recording"]]
  /\ UNCHANGED <<tables, cached, counts, excuse, faults>>

\* The rate limiter lets it in, and the body is parsed; or one of the two refuses: only
\* handle_chat records a refusal, and only of the limiter.
PassLimiter(c) ==
  /\ At(c, "limited")
  /\ \/ Goes(c, "loading")
     \/ requests[c].endpoint = "chat" /\ Metered(c)
     \/ Ends(c, 0)
  /\ UNCHANGED <<tables, cached, counts, excuse, arrivals, faults>>

\* The changes whose calls have returned.
Returned == IF change = "none" THEN changes ELSE changes - 1

Live(k) == cached[k] # None /\ now < cached[k].until

Loaded(c, limits) ==
  [requests EXCEPT ![c].limits = limits, ![c].at = now, ![c].pc = "reserving"]

\* load_limits.  A read that fails is a miss.
ReadLimits(c) ==
  /\ At(c, "loading")
  /\ \/ /\ Live(requests[c].key)
        /\ requests' = [Loaded(c, cached[requests[c].key].limits) EXCEPT ![c].since = Returned]
        /\ UNCHANGED faults
     \/ /\ ~Live(requests[c].key)
        /\ requests' = [requests EXCEPT ![c].pc = "querying", ![c].since = Returned]
        /\ UNCHANGED faults
     \/ /\ StoreFault
        /\ requests' = [requests EXCEPT ![c].pc = "querying", ![c].since = Returned]
  /\ UNCHANGED <<tables, cached, counts, excuse, arrivals>>

\* Without its database the request goes on without a ceiling.
QueryLimits(c) ==
  /\ At(c, "querying")
  /\ \/ /\ requests' = [requests EXCEPT ![c].read = budgets, ![c].pc = "caching"]
        /\ UNCHANGED faults
     \/ StoreFault /\ requests' = Loaded(c, "unlimited")
  /\ UNCHANGED <<tables, cached, counts, excuse, arrivals>>

\* Mutant of Until: the entry does not expire.
UntilTheEnd == MaxTime + 1

Until == now + LimitsTTL

CacheLimits(c) ==
  LET limits == requests[c].read
  IN  /\ At(c, "caching")
      /\ \/ /\ cached' = [cached EXCEPT ![requests[c].key] = [limits |-> limits, until |-> Until]]
            /\ excuse' = IF limits = budgets THEN excuse ELSE now
            /\ UNCHANGED faults
         \/ StoreFault /\ UNCHANGED <<cached, excuse>>
      /\ requests' = Loaded(c, limits)
      /\ UNCHANGED <<tables, counts, arrivals>>

\* check_and_reserve, which only a hard limit refuses.  A stream goes straight to its provider.
Reserve(c) ==
  /\ At(c, "reserving")
  /\ \/ Proceeds(c, IF requests[c].stream THEN "calling" ELSE "allowance")
     \/ requests[c].limits = "hard" /\ Metered(c)
  /\ UNCHANGED <<tables, cached, counts, excuse, arrivals, faults>>

\* Mutant of WithinAllowance: the last request of the allowance is let in twice.
WithinAllowanceAndOne == Plan # "free" \/ counter <= Allowance

WithinAllowance == Plan # "free" \/ counter < Allowance

\* check_free_tier_allowance reads the counter; a read that fails reads zero.
CheckAllowance(c) ==
  /\ At(c, "allowance")
  /\ \/ WithinAllowance /\ Goes(c, "calling") /\ UNCHANGED <<faults, uncounted>>
     \/ ~WithinAllowance /\ Ends(c, 0) /\ UNCHANGED <<faults, uncounted>>
     \/ StoreFault /\ Goes(c, "calling") /\ uncounted' = uncounted + 1
  /\ UNCHANGED <<tables, cached, counter, answered, excuse, arrivals>>

\* The provider answers or not.  Embeddings are not metered, nor is a failure.
CallProvider(c) ==
  LET r == requests[c]
  IN  /\ At(c, "calling")
      /\ \/ /\ IF r.endpoint = "embeddings" THEN Ends(c, 0) ELSE Metered(c)
            /\ answered' = IF r.stream \/ r.endpoint = "embeddings" THEN answered ELSE answered + 1
         \/ Ends(c, 0) /\ UNCHANGED answered
      /\ UNCHANGED <<tables, cached, counter, uncounted, excuse, arrivals, faults>>

Counted == counter + 1

\* emit: the event, then the counter, whose failure is ignored.
Record(c) ==
  /\ At(c, "recording")
  /\ \/ Ends(c, 1) /\ counter' = Counted /\ UNCHANGED <<faults, uncounted>>
     \/ /\ StoreFault
        /\ \E written \in {0, 1} : Ends(c, written)
        /\ uncounted' = uncounted + 1
        /\ UNCHANGED counter
  /\ UNCHANGED <<tables, cached, answered, excuse, arrivals>>

\* The client goes away, and the handler is dropped at its next await.
GoAway(c) ==
  /\ ~At(c, "idle") /\ ~At(c, "ended")
  /\ StoreFault
  /\ Ends(c, 0)
  /\ uncounted' = IF At(c, "recording") THEN uncounted + 1 ELSE uncounted
  /\ UNCHANGED <<tables, cached, counter, answered, excuse, arrivals>>

-----------------------------------------------------------------------------

\* create_budget or delete_budget: the row.
ChangeBudget ==
  /\ change = "none"
  /\ changes < MaxChanges
  /\ \E b \in Ceiling \ {budgets} : budgets' = b
  /\ change' = "written"
  /\ changes' = changes + 1
  /\ UNCHANGED <<cached, requests, counts, excuse, arrivals, faults>>

Dropped == [k \in Key |-> None]

\* invalidate_limits, whose failure is ignored; then the call returns.
InvalidateLimits ==
  /\ change = "written"
  /\ change' = "none"
  /\ \/ cached' = Dropped /\ UNCHANGED <<excuse, faults>>
     \/ StoreFault /\ excuse' = now /\ UNCHANGED cached
  /\ UNCHANGED <<budgets, requests, counts, arrivals, changes>>

Door ==
  \/ \E c \in Caller :
       \/ \E r \in Replica, endpoint \in Endpoint, k \in Key, stream \in BOOLEAN :
            Arrive(c, r, endpoint, k, stream)
       \/ PassLimiter(c) \/ ReadLimits(c) \/ QueryLimits(c) \/ CacheLimits(c) \/ Reserve(c)
       \/ CheckAllowance(c) \/ CallProvider(c) \/ Record(c) \/ GoAway(c)
  \/ ChangeBudget \/ InvalidateLimits

-----------------------------------------------------------------------------
(* Properties                                                              *)

DoorTypeOK ==
  /\ budgets \in Ceiling
  /\ change \in {"none", "written"}
  /\ \A k \in Key : Live(k) => cached[k].limits \in Ceiling
  /\ \A c \in Caller : /\ requests[c].events \in {0, 1}
                       /\ requests[c].limits \in Ceiling \cup {"unlimited", None}
  /\ counter <= arrivals

\* Once the call that changed a budget has returned, a request uses the limits it left; one
\* that does not comes within a life of the cache of a set that was read before the change
\* and cached after it, or of an invalidation the store lost (budget.rs load_limits,
\* invalidate_limits).
LimitsCatchUp ==
  \A c \in Caller :
    LET r == requests[c]
    IN  (/\ r.pc = "reserving" /\ r.limits # "unlimited"
         /\ r.since = changes /\ change = "none"
         /\ r.limits # budgets) => excuse # None /\ r.at < excuse + LimitsTTL

\* The free allowance is read and not reserved, so requests in progress may pass it
\* together, and by no more than that and the increments that were lost
\* (budget.rs check_free_tier_allowance, usage.rs emit).
AllowanceBounded ==
  Plan = "free" => answered <= Allowance + uncounted + Cardinality(Caller) - 1

\* What is let in on values that others change meanwhile stays within bounds.
DoorSafety == LimitsCatchUp /\ AllowanceBounded

===============================================================================
