--------------------------------- MODULE ResponseCaches ---------------------------------
(***************************************************************************)
(* Authentication of an API key and the two response caches it opens       *)
(* (middleware/auth.rs, cache/exact.rs, cache/durable.rs): the caches read *)
(* the context the key was authenticated with, so they are one machine.    *)
(***************************************************************************)
EXTENDS Naturals, Sequences

-----------------------------------------------------------------------------
(***************************************************************************)
(* Who a request is allowed to be: one API key, resolved through an LRU    *)
(* per replica, an entry in Redis and the row in PostgreSQL                *)
(* (middleware/auth.rs), while the key and its organisation are changed    *)
(* through the management API (routes/management.rs).                      *)
(*                                                                         *)
(* A cached context is the version of the settings it was read from; the   *)
(* time since a version was replaced tells how stale a context is.         *)
(***************************************************************************)

CONSTANTS
  Replica,
  Request,      \* request slots
  Home,         \* Home[r]: the replica that serves r
  Console,      \* the replica that serves the management API
  TTL,          \* KEY_CACHE_TTL, in ticks
  FillTime,     \* bound: ticks from the first await of an authentication to its last
  MaxChanges,   \* bound: changes of the settings
  MaxFaults     \* bound: Redis commands that fail, management calls that are dropped

ASSUME KeyAuthAssumption ==
  /\ Home \in [Request -> Replica]
  /\ Console \in Replica
  /\ TTL \in Nat \ {0}
  /\ FillTime \in Nat /\ MaxChanges \in Nat /\ MaxFaults \in Nat

VARIABLES
  settings,  \* every version of the key's row and its organisation's, the current one last
  lag,       \* lag[v]: ticks since version v was replaced
  redis,     \* the entry under aegis:auth:key:<hash>: its version and its age
  lru,       \* each replica's entry
  pc,        \* where each request is
  context,   \* the version it has read
  waited,    \* ticks it has spent authenticating
  console,   \* what the management call has left to do
  faults

authVars == <<settings, lag, redis, lru, pc, context, waited, console, faults>>

Version == 1 .. MaxChanges + 1
Current == Len(settings)

\* No entry: nothing cached, or an expired one, which is never read.
NoContext == [version |-> 0, age |-> 0]
Entry     == {NoContext} \cup [version : Version, age : 0 .. TTL]
Fresh(v) == [version |-> v, age |-> 0]

\* No context outlives the version it was read from by more: a fill each into Redis and an
\* LRU, and a life in each.
StaleBound == 2 * (TTL + FillTime)

Setting == [live : BOOLEAN, private : BOOLEAN]

Fetching == {"redis", "db", "fill", "put"}

AuthTypeOK ==
  /\ settings \in Seq(Setting) /\ Current \in Version
  /\ lag \in [1 .. Current -> 0 .. StaleBound + 1]
  /\ redis \in Entry
  /\ lru \in [Replica -> Entry]
  /\ pc \in [Request -> Fetching \cup {"idle", "serving"}]
  /\ context \in [Request -> 0 .. Current]
  /\ waited \in [Request -> 0 .. FillTime]
  /\ console \in {"idle", "lru", "redis", "forget"}
  /\ faults \in 0 .. MaxFaults

\* zero_retention starts off: live |-> usable, private |-> zero_retention.
AuthInit ==
  /\ settings = <<[live |-> TRUE, private |-> FALSE]>>
  /\ lag = <<0>>
  /\ redis = NoContext
  /\ lru = [n \in Replica |-> NoContext]
  /\ pc = [r \in Request |-> "idle"]
  /\ context = [r \in Request |-> 0]
  /\ waited = [r \in Request |-> 0]
  /\ console = "idle"
  /\ faults = 0

Continues(r, to) == pc' = [pc EXCEPT ![r] = to]

-----------------------------------------------------------------------------
(* authenticate_api_key                                                    *)

\* Mutant of LookupLru: a hit renews the entry.
LookupLruRenewing(r) ==
  /\ pc[r] = "idle"
  /\ LET v == lru[Home[r]].version IN
       IF v # 0
         THEN /\ Continues(r, "serving") /\ context' = [context EXCEPT ![r] = v]
              /\ lru' = [lru EXCEPT ![Home[r]] = Fresh(v)]
         ELSE Continues(r, "redis") /\ UNCHANGED <<context, lru>>
  /\ waited' = [waited EXCEPT ![r] = 0]
  /\ UNCHANGED <<settings, lag, redis, console, faults>>

LookupLru(r) ==
  /\ pc[r] = "idle"
  /\ LET v == lru[Home[r]].version IN
       IF v # 0
         THEN Continues(r, "serving") /\ context' = [context EXCEPT ![r] = v]
         ELSE Continues(r, "redis") /\ UNCHANGED context
  /\ waited' = [waited EXCEPT ![r] = 0]
  /\ UNCHANGED <<settings, lag, redis, lru, console, faults>>

ReadRedis(r) ==
  /\ pc[r] = "redis"
  /\ IF redis # NoContext
       THEN Continues(r, "put") /\ context' = [context EXCEPT ![r] = redis.version]
       ELSE Continues(r, "db") /\ UNCHANGED context
  /\ UNCHANGED <<settings, lag, redis, lru, waited, console, faults>>

ReadRedisFails(r) ==
  /\ pc[r] = "redis"
  /\ faults < MaxFaults
  /\ faults' = faults + 1
  /\ Continues(r, "db")
  /\ UNCHANGED <<settings, lag, redis, lru, context, waited, console>>

\* resolve_key: a row that is revoked, expired or gone is refused, and not cached.
ResolveKey(r) ==
  /\ pc[r] = "db"
  /\ IF settings[Current].live
       THEN Continues(r, "fill") /\ context' = [context EXCEPT ![r] = Current]
       ELSE Continues(r, "idle") /\ UNCHANGED context
  /\ UNCHANGED <<settings, lag, redis, lru, waited, console, faults>>

\* The error of the database is the answer.
ResolveKeyFails(r) ==
  /\ pc[r] = "db"
  /\ faults < MaxFaults
  /\ faults' = faults + 1
  /\ Continues(r, "idle")
  /\ UNCHANGED <<settings, lag, redis, lru, context, waited, console>>

\* The version that was read, however long ago: nothing checks that it is still current.
FillRedis(r) ==
  /\ pc[r] = "fill"
  /\ redis' = Fresh(context[r])
  /\ Continues(r, "put")
  /\ UNCHANGED <<settings, lag, lru, context, waited, console, faults>>

FillRedisFails(r) ==
  /\ pc[r] = "fill"
  /\ faults < MaxFaults
  /\ faults' = faults + 1
  /\ Continues(r, "put")
  /\ UNCHANGED <<settings, lag, redis, lru, context, waited, console>>

FillLru(r) ==
  /\ pc[r] = "put"
  /\ lru' = [lru EXCEPT ![Home[r]] = Fresh(context[r])]
  /\ Continues(r, "serving")
  /\ UNCHANGED <<settings, lag, redis, context, waited, console, faults>>

-----------------------------------------------------------------------------
(* The management API                                                      *)

Replace(s) ==
  /\ Current <= MaxChanges
  /\ settings' = Append(settings, s)
  /\ lag' = Append(lag, 0)

\* update_key, revoke_key: the row first, then both tiers.
ChangeKey ==
  /\ console = "idle"
  /\ settings[Current].live
  /\ \E usable \in BOOLEAN : Replace([settings[Current] EXCEPT !.live = usable])
  /\ console' = "lru"
  /\ UNCHANGED <<redis, lru, pc, context, waited, faults>>

\* update_org: no key is invalidated; enabling zero retention goes on to the hot cache.
ChangeOrg ==
  /\ console = "idle"
  /\ \E private \in BOOLEAN :
       /\ Replace([settings[Current] EXCEPT !.private = private])
       /\ console' = IF private THEN "forget" ELSE "idle"
  /\ UNCHANGED <<redis, lru, pc, context, waited, faults>>

\* invalidate_key drops the entry of its own replica's LRU only.
InvalidateLru ==
  /\ console = "lru"
  /\ lru' = [lru EXCEPT ![Console] = NoContext]
  /\ console' = "redis"
  /\ UNCHANGED <<settings, lag, redis, pc, context, waited, faults>>

InvalidateRedis ==
  /\ console = "redis"
  /\ redis' = NoContext
  /\ console' = "idle"
  /\ UNCHANGED <<settings, lag, lru, pc, context, waited, faults>>

\* The DEL fails and is ignored, or the caller hangs up before the call is through.
ConsoleGone ==
  /\ console # "idle"
  /\ faults < MaxFaults
  /\ faults' = faults + 1
  /\ console' = "idle"
  /\ UNCHANGED <<settings, lag, redis, lru, pc, context, waited>>

-----------------------------------------------------------------------------
(* Time                                                                    *)

\* An entry is read until TTL has passed since it was filled, a moment within a tick: so it
\* is dropped by the tick after the one that brings its age to TTL.
Aged(e) == IF e = NoContext \/ e.age = TTL THEN NoContext ELSE [e EXCEPT !.age = @ + 1]

Tick ==
  /\ \A r \in Request : pc[r] \in Fetching => waited[r] < FillTime
  /\ waited' = [r \in Request |-> IF pc[r] \in Fetching THEN waited[r] + 1 ELSE waited[r]]
  /\ redis' = Aged(redis)
  /\ lru' = [n \in Replica |-> Aged(lru[n])]
  /\ lag' = [v \in 1 .. Current |->
               IF v < Current /\ lag[v] <= StaleBound THEN lag[v] + 1 ELSE lag[v]]
  /\ UNCHANGED <<settings, pc, context, console, faults>>

-----------------------------------------------------------------------------

\* Authentication up to the point where the request is let in.
Authenticate(r) ==
  \/ LookupLru(r) \/ ReadRedis(r) \/ ReadRedisFails(r) \/ ResolveKey(r)
  \/ ResolveKeyFails(r) \/ FillRedis(r) \/ FillRedisFails(r) \/ FillLru(r)

\* The request is answered, and its slot takes another.
Done(r) ==
  /\ pc[r] = "serving"
  /\ Continues(r, "idle")
  /\ context' = [context EXCEPT ![r] = 0]
  /\ UNCHANGED <<settings, lag, redis, lru, waited, console, faults>>

Manage == ChangeKey \/ ChangeOrg \/ InvalidateLru \/ InvalidateRedis \/ ConsoleGone

-----------------------------------------------------------------------------
(* Properties                                                              *)

LetIn(r) == pc[r] # "serving" /\ pc'[r] = "serving"

\* Whatever the tiers, the races of fills with invalidations and the failures of Redis, no
\* request is let in under settings replaced longer ago than StaleBound: the life of an
\* entry in Redis, then of its copy in an LRU, and the fills between; the one life that the
\* documentation of auth.rs promises does not hold, as a copy in an LRU begins another.
StaleOnlySoLong ==
  [][\A r \in Request : LetIn(r) => lag[context'[r]] <= StaleBound]_authVars

-----------------------------------------------------------------------------
(***************************************************************************)
(* The answers the gateway keeps: the hot tier in Redis (cache/exact.rs)   *)
(* and the durable tier in PostgreSQL (cache/durable.rs), as the pipeline  *)
(* of execute_with_headroom reads and fills them for one repeated request  *)
(* of a paying organisation, under the context KeyAuth lets it in with.    *)
(*                                                                         *)
(* An answer is the number of the provider call that produced it; 0 is     *)
(* none.  The pipeline takes zero_retention from the context it was let in *)
(* with, however long the provider takes.                                  *)
(***************************************************************************)

CONSTANT MaxAnswers  \* bound: answers told apart, all later ones count as the last

ASSUME AnswerAssumption == MaxAnswers \in Nat \ {0}

VARIABLES
  hot,      \* the entry of the fingerprint in Redis
  durable,  \* its row in cache_entries: the answer, and whether expires_at is still to come
  stage,    \* where each request that is let in is in the pipeline
  got,      \* the answer it has
  answers,  \* answers given so far
  lapsed    \* history: the answers whose row has expired

cacheVars     == <<hot, durable, stage, got, answers, lapsed>>
authCacheVars == <<authVars, cacheVars>>

NoCacheRow == [answer |-> 0, live |-> FALSE]

Stage == {"lookup", "promote", "durable", "repopulate", "provider", "store"}

TypeOK ==
  /\ AuthTypeOK
  /\ hot \in 0 .. answers
  /\ durable \in {NoCacheRow} \cup [answer : 1 .. MaxAnswers, live : BOOLEAN]
  /\ durable.answer <= answers
  /\ stage \in [Request -> Stage]
  /\ got \in [Request -> 0 .. answers]
  /\ \A r \in Request : pc[r] # "serving" => stage[r] = "lookup" /\ got[r] = 0
  /\ answers \in 0 .. MaxAnswers
  /\ lapsed \in SUBSET (1 .. answers)

CachesInit ==
  /\ AuthInit
  /\ hot = 0
  /\ durable = NoCacheRow
  /\ stage = [r \in Request |-> "lookup"]
  /\ got = [r \in Request |-> 0]
  /\ answers = 0
  /\ lapsed = {}

Private(r) == settings[context[r]].private

To(r, s, a) ==
  /\ stage' = [stage EXCEPT ![r] = s]
  /\ got' = [got EXCEPT ![r] = a]
  /\ UNCHANGED authVars

Answered(r) ==
  /\ Done(r)
  /\ stage' = [stage EXCEPT ![r] = "lookup"]
  /\ got' = [got EXCEPT ![r] = 0]

At(r, s) == pc[r] = "serving" /\ stage[r] = s

-----------------------------------------------------------------------------
(* The pipeline                                                            *)

HotGet(r) ==
  /\ At(r, "lookup")
  /\ IF Private(r) THEN To(r, "provider", 0)
     ELSE IF hot # 0 THEN To(r, "promote", hot)
     ELSE To(r, "durable", 0)
  /\ UNCHANGED <<hot, durable, answers, lapsed>>

\* upsert_cache_entry: a row that is there, expired or not, gets a new expiry and keeps its
\* answer.
Upserted(a) ==
  IF durable = NoCacheRow THEN [answer |-> a, live |-> TRUE] ELSE [durable EXCEPT !.live = TRUE]

Promote(r) ==
  /\ At(r, "promote")
  /\ durable' = Upserted(got[r])
  /\ Answered(r)
  /\ UNCHANGED <<hot, answers, lapsed>>

DurableGet(r) ==
  /\ At(r, "durable")
  /\ IF durable.live THEN To(r, "repopulate", durable.answer) ELSE To(r, "provider", 0)
  /\ UNCHANGED <<hot, durable, answers, lapsed>>

Repopulate(r) ==
  /\ At(r, "repopulate")
  /\ hot' = got[r]
  /\ Answered(r)
  /\ UNCHANGED <<durable, answers, lapsed>>

CallProvider(r) ==
  /\ At(r, "provider")
  /\ answers' = IF answers < MaxAnswers THEN answers + 1 ELSE answers
  /\ To(r, "store", answers')
  /\ UNCHANGED <<hot, durable, lapsed>>

CallFails(r) ==
  /\ At(r, "provider")
  /\ Answered(r)
  /\ UNCHANGED <<hot, durable, answers, lapsed>>

\* Mutant of Store: an answer is stored whoever asked.
StoreAnyway(r) ==
  /\ At(r, "store")
  /\ hot' = got[r]
  /\ Answered(r)
  /\ UNCHANGED <<durable, answers, lapsed>>

Store(r) ==
  /\ At(r, "store")
  /\ hot' = IF Private(r) THEN hot ELSE got[r]
  /\ Answered(r)
  /\ UNCHANGED <<durable, answers, lapsed>>

\* A write to either tier that fails is ignored.
WriteFails(r) ==
  /\ pc[r] = "serving"
  /\ stage[r] \in {"promote", "repopulate", "store"}
  /\ Answered(r)
  /\ UNCHANGED <<hot, durable, answers, lapsed>>

-----------------------------------------------------------------------------
(* The end of what is kept                                                 *)

\* update_org drops the organisation's hot entries when zero retention is enabled, and
\* nothing else.
Forget ==
  /\ console = "forget"
  /\ hot' = 0
  /\ console' = "idle"
  /\ UNCHANGED <<settings, lag, redis, lru, pc, context, waited, faults>>
  /\ UNCHANGED <<durable, stage, got, answers, lapsed>>

HotExpires ==
  /\ hot # 0
  /\ hot' = 0
  /\ UNCHANGED <<authVars, durable, stage, got, answers, lapsed>>

DurableExpires ==
  /\ durable.live
  /\ durable' = [durable EXCEPT !.live = FALSE]
  /\ lapsed' = lapsed \cup {durable.answer}
  /\ UNCHANGED <<authVars, hot, stage, got, answers>>

\* The durable-cache-purge job of the scheduler.
Purge ==
  /\ durable # NoCacheRow
  /\ ~durable.live
  /\ durable' = NoCacheRow
  /\ UNCHANGED <<authVars, hot, stage, got, answers, lapsed>>

-----------------------------------------------------------------------------

Pipeline(r) ==
  \/ HotGet(r) \/ Promote(r) \/ DurableGet(r) \/ Repopulate(r)
  \/ CallProvider(r) \/ CallFails(r) \/ Store(r) \/ WriteFails(r)

Ends == Forget \/ HotExpires \/ DurableExpires \/ Purge

CachesNext ==
  \/ \E r \in Request : (Authenticate(r) /\ UNCHANGED cacheVars) \/ Pipeline(r)
  \/ (Manage \/ Tick) /\ UNCHANGED cacheVars
  \/ Ends

CachesSpec == CachesInit /\ [][CachesNext]_authCacheVars

\* Every await returns, time passes, what has expired is dropped, and the scheduler purges.
CachesFairSpec ==
  /\ CachesSpec
  /\ \A r \in Request : /\ WF_authCacheVars(Authenticate(r) /\ UNCHANGED cacheVars)
                       /\ WF_authCacheVars(Pipeline(r))
  /\ WF_authCacheVars(Tick /\ UNCHANGED cacheVars)
  /\ WF_authCacheVars(Forget) /\ WF_authCacheVars(HotExpires)
  /\ WF_authCacheVars(DurableExpires) /\ WF_authCacheVars(Purge)

-----------------------------------------------------------------------------
(* Properties                                                              *)

\* Zero retention that stays on empties both tiers for good, though the contexts of the keys
\* that were cached before it keep storing for a while (update_org, cacheability, promote).
ZeroRetentionEmpties ==
  <>[]settings[Current].private => <>[](hot = 0 /\ durable = NoCacheRow)

\* One request slot on each replica.
OwnSlots == [r \in Replica |-> r]

===============================================================================
