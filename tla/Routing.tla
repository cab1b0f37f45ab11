------------------------------- MODULE Routing -------------------------------
(***************************************************************************)
(* engine/router.rs and the stages of the pipeline around it: the turns of *)
(* one conversation, each of which reads the model the conversation is     *)
(* pinned to and the organisation's policy, is routed, tries its chain of  *)
(* models, and pins the conversation to the one that answered.             *)
(*                                                                         *)
(* Turns may overlap.  The classifier's band, the circuits, and the health *)
(* and outcome scores that order acceptable candidates are inputs.  What   *)
(* an attempt of the chain goes through is ProviderCalls.                  *)
(***************************************************************************)
EXTENDS Pricing

CONSTANTS
  LastTurn,   \* number of turns of the conversation
  Unpriced,   \* names a caller or a rule may use that are in no pricing table
  ProviderOf, \* ProviderOf[m], guessed from the name of an unpriced one
  Tier,       \* Tier[m]
  Price,      \* Price[m], blended, and different for each model
  Feature,    \* Feature[m], what m supports: "chat", "tools", "vision"
  Window,     \* Window[m], its context in tokens
  Ask,        \* the requests a turn may bring, with what its key allows
  Policy,     \* the rule lists an administrator may store
  MaxChanges  \* bound: policies created and circuits that open

Turn == 1 .. LastTurn
Name == Model \cup Unpriced
Provider == {ProviderOf[m] : m \in Name}

Cheap == 0
Mid == 1
Premium == 2
Frontier == 3
Tiers == Cheap .. Frontier

\* The stricter of two ceilings, either of which may be absent.
CombineCeilings(a, b) == IF None \in {a, b} THEN (IF a = None THEN b ELSE a) ELSE AtMost(a, b)

Reason ==
  {"policy", "complexity", "provider_unavailable", "passthrough", "user_override"}

ASSUME RoutingAssumption ==
  /\ LastTurn \in Nat /\ MaxChanges \in Nat
  /\ Tier \in [Model -> Tiers]
  /\ Price \in [Model -> Nat]
  /\ Window \in [Model -> Nat]
  /\ \A m, n \in Model : Price[m] = Price[n] => m = n
  /\ Model \cap Unpriced = {}
  /\ \A q \in Ask : q.model \in Name
  /\ None \notin Name \cup Reason \cup Int /\ None \notin Ask /\ None \notin Policy

VARIABLES
  at,        \* how far each turn has come
  ask,       \* what each turn brought
  affinity,  \* the pin as the turn read it
  rules,     \* the policy as the turn read it
  reason,    \* why its first model was selected
  chain,     \* the models it tries, in order
  winner,    \* the model that answered it
  pinned,    \* the conversation's affinity key in the store
  policies,  \* the organisation's policies in the database, oldest first
  cached,    \* the policy in the store
  admin,     \* whether a policy change has yet to drop the cached policy
  created,   \* how many policies were created
  open,      \* the providers whose circuit is open
  outages

turnVars == <<at, ask, affinity, rules, reason, chain, winner>>
sharedVars == <<pinned, policies, cached, admin, created, open, outages>>
routingVars == <<turnVars, sharedVars>>

RoutingTypeOK ==
  /\ at \in [Turn -> {"new", "lookup", "load", "fill", "route", "try", "pin", "done", "refused"}]
  /\ ask \in [Turn -> Ask \cup {None}]
  /\ affinity \in [Turn -> Name \cup {None}]
  /\ rules \in [Turn -> Policy \cup {None}]
  /\ reason \in [Turn -> Reason \cup {None}]
  /\ \A t \in Turn :
       /\ Len(chain[t]) <= 4
       /\ chain[t] # <<>> => chain[t] \in Seq(Model \cup {ask[t].model})
  /\ winner \in [Turn -> Name \cup {None}]
  /\ pinned \in Name \cup {None}
  /\ policies \in Seq(Policy) /\ Len(policies) <= created
  /\ cached \in Policy \cup {None}
  /\ admin \in {"idle", "stored"}
  /\ created \in Nat /\ outages \in Nat /\ created + outages <= MaxChanges
  /\ open \subseteq Provider

RoutingInit ==
  /\ at = [t \in Turn |-> "new"]
  /\ ask = [t \in Turn |-> None]
  /\ affinity = [t \in Turn |-> None]
  /\ rules = [t \in Turn |-> None]
  /\ reason = [t \in Turn |-> None]
  /\ chain = [t \in Turn |-> <<>>]
  /\ winner = [t \in Turn |-> None]
  /\ pinned = None
  /\ policies = <<>>
  /\ cached = None
  /\ admin = "idle"
  /\ created = 0
  /\ open = {}
  /\ outages = 0

-----------------------------------------------------------------------------
(* What a model may be chosen for.  q is a request.                        *)

\* Satisfies what the request needs, with room for so many tokens.
Satisfies(m, q, tokens) == q.needs \subseteq Feature[m] /\ Window[m] >= tokens

RequiredContext(q) == q.prompt + q.answer

IsAllowed(m, q) == q.allowed = None \/ m \in q.allowed

IsProviderConfigured(m, q) == q.configured = None \/ ProviderOf[m] \in q.configured

IsAvailable(m) == ProviderOf[m] \notin open

Permitted(m, q) == IsAllowed(m, q) /\ IsProviderConfigured(m, q) /\ IsAvailable(m)

\* Mutant of Candidates: equally priced or dearer models are offered too.
CandidatesAnyPrice(q, tier) ==
  {m \in Model :
     Tier[m] <= tier /\ Satisfies(m, q, RequiredContext(q)) /\ Permitted(m, q)}

\* The strictly cheaper, capable models at or below a tier.  Health-adjusted price, the
\* domain's preferred providers and the bandit pick one of them, none of which is modelled.
Candidates(q, tier) ==
  {m \in Model :
     /\ Price[m] < Price[q.model]
     /\ Tier[m] <= tier
     /\ Satisfies(m, q, RequiredContext(q))
     /\ Permitted(m, q)}

\* The tier a mode aims at for a band; None where nothing may be substituted.
TargetTier(mode, band) ==
  IF band = "complex" \/ mode = "passthrough" \/ <<mode, band>> = <<"quality", "medium">> THEN None
  ELSE IF mode = "quality" \/ (band = "medium" /\ mode # "economy") THEN Mid ELSE Cheap

\* room is how many requests like this one fit below the hard limit.
UnderPressure(tier, room) ==
  IF room = None \/ room > 9 THEN tier ELSE IF room > 2 THEN AtMost(tier, Mid) ELSE Cheap

-----------------------------------------------------------------------------
(* The decisions that may be reached, a decision being a model and why.    *)

To(m, why) == [model |-> m, why |-> why]

Capable(q, ceiling) ==
  {m \in Model :
     Tier[m] <= ceiling /\ Satisfies(m, q, RequiredContext(q)) /\ Permitted(m, q)}

Best(S) ==
  CHOOSE m \in S :
    \A n \in S : Tier[n] < Tier[m] \/ (Tier[n] = Tier[m] /\ Price[n] <= Price[m])

\* passthrough_capped: the requested model, or the best the key may have instead of it.
Capped(q) ==
  LET ceiling == IF q.ceiling = None THEN Frontier ELSE q.ceiling
  IN  IF (Tier[q.model] <= ceiling /\ Permitted(q.model, q)) \/ Capable(q, ceiling) = {}
      THEN {To(q.model, "passthrough")}
      ELSE {To(Best(Capable(q, ceiling)),
               IF IsAvailable(q.model) THEN "policy" ELSE "provider_unavailable")}

SelectAtTier(q, tier, why) == {To(m, why) : m \in Candidates(q, tier)}

\* Stages [3] and [4].
ByComplexity(q, mode) ==
  LET target == TargetTier(mode, q.band)
      tier == AtMost(CombineCeilings(UnderPressure(target, q.room), q.ceiling), Tier[q.model])
  IN  IF target = None \/ Candidates(q, tier) = {} THEN Capped(q)
      ELSE SelectAtTier(q, tier, "complexity")

\* The pinned model may serve a later turn.
MayPin(pin, q) ==
  /\ pin \in Model
  /\ Permitted(pin, q)
  /\ (q.needs \ {"chat"}) \subseteq Feature[pin] /\ Window[pin] >= RequiredContext(q)

\* Stages [2b] to [4].
Unruled(q, pin, mode) ==
  IF MayPin(pin, q) THEN {To(pin, "complexity")} ELSE ByComplexity(q, mode)

\* The first rule of a policy that matches, if one does.
Matches(rule, q) ==
  /\ q.band \in rule.bands
  /\ q.model \in rule.models
  /\ q.hint \in rule.modes

ActionOf(policy, q) ==
  LET matching == IF policy = None THEN <<>> ELSE SelectSeq(policy, LAMBDA r : Matches(r, q))
  IN  IF matching = <<>> THEN None ELSE Head(matching).then

\* Stage [2], of a rule that does not deny the request.
Ruled(q, pin, act) ==
  LET ceiling == CombineCeilings(act.maxTier, q.ceiling)
      tier == IF act.tier # None THEN act.tier ELSE ceiling
      same == {To(q.model, "policy")}
  IN  IF act.passthrough THEN same
      ELSE IF act.pin # None THEN IF act.pin \in Model THEN {To(act.pin, "policy")} ELSE same
      ELSE IF tier # None
           THEN IF Candidates(q, tier) = {} THEN same ELSE SelectAtTier(q, tier, "policy")
      ELSE IF act.mode # None THEN Unruled(q, pin, act.mode) ELSE same

Decisions(q, pin, policy) ==
  LET act == ActionOf(policy, q)
  IN  IF q.model \notin Model THEN {To(q.model, "passthrough")}
      ELSE IF q.hint = "passthrough" THEN {To(q.model, "user_override")}
      ELSE IF act = None THEN Unruled(q, pin, q.hint)
      ELSE IF act.deny THEN {} ELSE Ruled(q, pin, act)

-----------------------------------------------------------------------------
(* The chain                                                               *)

\* A model of another provider, in the same tier or better, that can hold the prompt.
Alternate(m, first, q) ==
  /\ ProviderOf[m] # ProviderOf[first]
  /\ Tier[m] >= Tier[first]
  /\ IsProviderConfigured(m, q)
  /\ Satisfies(m, q, q.prompt)

Cheapest(S) == CHOOSE m \in S : \A n \in S : Price[m] <= Price[n]

\* The two cheapest of them.
AlternatesFor(first, q) ==
  LET all  == {m \in Model : first \in Model /\ Alternate(m, first, q)}
      rest == all \ {Cheapest(all)}
  IN  IF all = {} THEN <<>>
      ELSE IF rest = {} THEN <<Cheapest(all)>> ELSE <<Cheapest(all), Cheapest(rest)>>

\* FallbackChain::build compares names, so a model asked for by an alias is added again.
Chain(first, q) ==
  LET tried == <<first>> \o AlternatesFor(first, q)
  IN  IF q.model \in ToSet(tried) /\ ~q.alias THEN tried ELSE Append(tried, q.model)

-----------------------------------------------------------------------------
(* A turn                                                                  *)

Goes(t, from, to) == at[t] = from /\ at' = [at EXCEPT ![t] = to]

\* The affinity key is read; an unreadable one is no pin.
ReadAffinity(t) ==
  /\ Goes(t, "new", "lookup")
  /\ \E q \in Ask : ask' = [ask EXCEPT ![t] = q]
  /\ \E pin \in {pinned, None} : affinity' = [affinity EXCEPT ![t] = pin]
  /\ UNCHANGED <<rules, reason, chain, winner, sharedVars>>

\* load_policy: a cached policy is used as it is ...
LookUpPolicy(t) ==
  /\ Goes(t, "lookup", IF cached = None THEN "load" ELSE "route")
  /\ rules' = [rules EXCEPT ![t] = cached]
  /\ UNCHANGED <<ask, affinity, reason, chain, winner, sharedVars>>

\* ... and otherwise the newest one is read from the database ...
LoadPolicy(t) ==
  /\ Goes(t, "load", IF policies = <<>> THEN "route" ELSE "fill")
  /\ rules' = [rules EXCEPT ![t] = IF policies = <<>> THEN None ELSE Last(policies)]
  /\ UNCHANGED <<ask, affinity, reason, chain, winner, sharedVars>>

\* ... and cached, if the store takes it.
FillPolicy(t) ==
  /\ Goes(t, "fill", "route")
  /\ cached' \in {rules[t], cached}
  /\ UNCHANGED <<ask, affinity, rules, reason, chain, winner>>
  /\ UNCHANGED <<pinned, policies, admin, created, open, outages>>

Route(t) ==
  /\ Goes(t, "route", "try")
  /\ \E d \in Decisions(ask[t], affinity[t], rules[t]) :
       /\ reason' = [reason EXCEPT ![t] = d.why]
       /\ chain' = [chain EXCEPT ![t] = Chain(d.model, ask[t])]
  /\ affinity' = [affinity EXCEPT ![t] = None]
  /\ rules' = [rules EXCEPT ![t] = None]
  /\ UNCHANGED <<ask, winner, sharedVars>>

\* A rule denies the request.
Deny(t) ==
  /\ Goes(t, "route", "refused")
  /\ Decisions(ask[t], affinity[t], rules[t]) = {}
  /\ affinity' = [affinity EXCEPT ![t] = None]
  /\ rules' = [rules EXCEPT ![t] = None]
  /\ UNCHANGED <<ask, reason, chain, winner, sharedVars>>

\* The attempts before the one that answers failed or were skipped.  Only a chat model
\* answers a chat.
Answer(t) ==
  /\ Goes(t, "try", "pin")
  /\ \E i \in DOMAIN chain[t] :
       /\ IsAvailable(chain[t][i])
       /\ "chat" \in Feature[chain[t][i]]
       /\ winner' = [winner EXCEPT ![t] = chain[t][i]]
  /\ UNCHANGED <<ask, affinity, rules, reason, chain, sharedVars>>

Fail(t) ==
  /\ Goes(t, "try", "refused")
  /\ chain' = [chain EXCEPT ![t] = <<>>]
  /\ UNCHANGED <<ask, affinity, rules, reason, winner, sharedVars>>

\* The conversation is pinned for another half hour, if the store takes it.
Pin(t) ==
  /\ Goes(t, "pin", "done")
  /\ pinned' \in {winner[t], pinned}
  /\ UNCHANGED <<ask, affinity, rules, reason, chain, winner>>
  /\ UNCHANGED <<policies, cached, admin, created, open, outages>>

-----------------------------------------------------------------------------
(* What happens around the turns                                           *)

\* The half hour passes without a turn.
ForgetPin ==
  /\ pinned # None
  /\ pinned' = None
  /\ UNCHANGED <<turnVars, policies, cached, admin, created, open, outages>>

\* Mutant of ExpirePolicy: the entry has no time to live.
ExpirePolicyNever == FALSE /\ UNCHANGED routingVars

\* The five minutes of the cached policy pass.
ExpirePolicy ==
  /\ cached # None
  /\ cached' = None
  /\ UNCHANGED <<turnVars, pinned, policies, admin, created, open, outages>>

CreatePolicy ==
  /\ admin = "idle"
  /\ created + outages < MaxChanges
  /\ created' = created + 1
  /\ \E p \in Policy : policies' = Append(policies, p)
  /\ admin' = "stored"
  /\ UNCHANGED <<turnVars, pinned, cached, open, outages>>

DeletePolicy ==
  /\ admin = "idle"
  /\ \E i \in DOMAIN policies : policies' = RemoveAt(policies, i)
  /\ admin' = "stored"
  /\ UNCHANGED <<turnVars, pinned, cached, created, open, outages>>

\* The change is stored, then the cached policy is dropped, if the store answers.
DropCachedPolicy ==
  /\ admin = "stored"
  /\ admin' = "idle"
  /\ cached' \in {None, cached}
  /\ UNCHANGED <<turnVars, pinned, policies, created, open, outages>>

CircuitOpens ==
  /\ created + outages < MaxChanges
  /\ outages' = outages + 1
  /\ \E p \in Provider \ open : open' = open \cup {p}
  /\ UNCHANGED <<turnVars, pinned, policies, cached, admin, created>>

CircuitCloses ==
  /\ \E p \in open : open' = open \ {p}
  /\ UNCHANGED <<turnVars, pinned, policies, cached, admin, created, outages>>

-----------------------------------------------------------------------------

TakesTurn(t) ==
  \/ ReadAffinity(t) \/ LookUpPolicy(t) \/ LoadPolicy(t) \/ FillPolicy(t) \/ Route(t)
  \/ Deny(t) \/ Answer(t) \/ Fail(t) \/ Pin(t)

Routes ==
  \/ \E t \in Turn : TakesTurn(t)
  \/ ForgetPin \/ ExpirePolicy \/ CreatePolicy \/ DeletePolicy \/ DropCachedPolicy
  \/ CircuitOpens \/ CircuitCloses

-----------------------------------------------------------------------------
(* Properties                                                              *)

Asked == {t \in Turn : ask[t] # None}

\* Turn t was free to use any model, and neither a rule nor an outage moved it.
Unmoved(t) ==
  /\ created = 0
  /\ ask[t].model \in Model
  /\ ask[t].allowed = None /\ ask[t].ceiling = None /\ ask[t].configured = None
  /\ reason[t] \notin {"policy", "provider_unavailable"}

\* The pins of a conversation never add up to a downgrade: as long as all of its turns are
\* complex and unmoved, each is answered in the tier that some turn asked for or a better
\* one, whichever attempts fail and however turns overlap (route [2b], alternates_for).
ComplexFloor ==
  (\A t \in Asked : ask[t].band = "complex" /\ Unmoved(t)) =>
    \A t \in Asked : winner[t] # None =>
      \E u \in Asked : Tier[winner[t]] >= Tier[ask[u].model]

\* Nor to an upgrade: as long as its turns are unmoved and no attempt failed, each is
\* answered at a price that some turn asked for or a lower one (route, "Never route up").
NeverDearer ==
  (\A t \in Asked : Unmoved(t) /\ (winner[t] # None => winner[t] = chain[t][1])) =>
    \A t \in Asked : winner[t] # None =>
      \E u \in Asked : Price[winner[t]] <= Price[ask[u].model]

\* A model nobody asked for can do what the request needs, also when it was pinned by a
\* turn that needed less: hold the prompt and, if it was the first choice, the answer.
\* What a rule moved is not held to that (route, alternates_for).
SubstituteFits ==
  \A t \in Asked :
    winner[t] \notin {None, ask[t].model} /\ reason[t] # "policy" =>
      Satisfies(winner[t], ask[t],
                IF winner[t] = chain[t][1] THEN RequiredContext(ask[t]) ELSE ask[t].prompt)

\* What the pins and alternates of a conversation may lead to.
RoutingSafety == ComplexFloor /\ NeverDearer /\ SubstituteFits

Newest == IF policies = <<>> THEN None ELSE Last(policies)

\* A policy change takes effect: the store ends up with the newest policy or none, although
\* a turn may cache what it read before the change dropped the cached one (load_policy,
\* create_policy, delete_policy).
PolicyTakesEffect == <>[](cached \in {None, Newest})

================================================================================
