---------------------------- MODULE ServingProofs ----------------------------
(***************************************************************************)
(* What holds of the breakers for every set of providers and requests, all *)
(* chains of providers and all thresholds; and that a client of the        *)
(* Messages API is sent a legal sequence of events, however many pieces    *)
(* and calls an answer has and wherever its bytes are cut.                 *)
(***************************************************************************)
EXTENDS MCServing, Totals, FiniteSetTheorems, TLAPS

\* A request that probes is on its way.  One that was not overtaken holds the slot of its
\* target, and no other does.
Slots ==
  /\ \A r \in prober : pc[r] \in {"credential", "calling", "gate"}
  /\ \A r \in prober \ overtaken : probing[Target(r)]
  /\ \A r, s \in prober \ overtaken : Target(r) = Target(s) => r = s

BreakersInv == CallsTypeOK /\ Slots /\ OpenIffFailing

\* Every chain has a first attempt.
LEMMA Chains ==
  \A r \in Request : Chain[r] \in Seq(Provider) /\ Len(Chain[r]) \in Nat /\ 1 <= Len(Chain[r])
  BY ProviderAssumption

\* The bounds are numbers.
LEMMA BoundsTyped ==
  /\ Threshold \in Nat /\ 1 <= Threshold /\ MaxRetries \in Nat
  /\ MaxOutages \in Nat /\ MaxFaults \in Nat /\ MaxCancels \in Nat
  BY ProviderAssumption

\* A target is one of the providers.
LEMMA TargetTyped ==
  ASSUME CallsTypeOK, NEW r \in Request
  PROVE  Target(r) \in Provider
  BY Chains DEF CallsTypeOK, Target

LEMMA BreakersBegin == CallsInit => BreakersInv
<1> SUFFICES ASSUME CallsInit PROVE BreakersInv
  OBVIOUS
<1>1. \A r \in Request : index[r] \in 1 .. Len(Chain[r])
  BY Chains DEF CallsInit
<1>2. CallsTypeOK
  BY <1>1, ProviderAssumption DEF CallsInit, CallsTypeOK, Phase
<1> QED BY <1>2, ProviderAssumption DEF CallsInit, BreakersInv, Slots, OpenIffFailing

\* A step of request r that keeps where it stands typed and leaves the others alone.
OnlyMoves(r) ==
  /\ pc' \in [Request -> Phase]
  /\ index' \in [Request -> Nat] /\ \A s \in Request : index'[s] \in 1 .. Len(Chain[s])
  /\ tries' \in [Request -> 0 .. MaxRetries]
  /\ \A s \in Request \ {r} : pc'[s] = pc[s] /\ index'[s] = index[s]

\* NextAttempt leaves the index within the chain and the other requests alone.
LEMMA NextAttemptMoves ==
  ASSUME CallsTypeOK, NEW r \in Request, NextAttempt(r)
  PROVE  OnlyMoves(r)
<1>1. index' \in [Request -> Nat] /\ \A s \in Request : index'[s] \in 1 .. Len(Chain[s])
  <2>1. CASE index[r] < Len(Chain[r])
    <3>1. index' = [index EXCEPT ![r] = index[r] + 1]
      BY <2>1 DEF NextAttempt
    <3>2. index[r] + 1 \in 1 .. Len(Chain[r]) /\ index[r] + 1 \in Nat
      BY <2>1, Chains DEF CallsTypeOK
    <3> QED BY <3>1, <3>2 DEF CallsTypeOK
  <2>2. CASE ~ (index[r] < Len(Chain[r]))
    BY <2>2, Chains DEF CallsTypeOK, NextAttempt
  <2> QED BY <2>1, <2>2
<1>2. pc' \in [Request -> Phase]
  BY DEF CallsTypeOK, NextAttempt, Goes, Phase
<1>3. tries' \in [Request -> 0 .. MaxRetries]
  BY BoundsTyped DEF CallsTypeOK, NextAttempt
<1>4. \A s \in Request \ {r} : pc'[s] = pc[s] /\ index'[s] = index[s]
  BY DEF CallsTypeOK, NextAttempt, Goes
<1> QED BY <1>1, <1>2, <1>3, <1>4 DEF OnlyMoves

\* The targets of the other requests stay.
LEMMA TargetsStay ==
  ASSUME CallsTypeOK, NEW r \in Request, OnlyMoves(r)
  PROVE  \A s \in prober \ {r} : Target(s)' = Target(s) /\ pc'[s] = pc[s]
  BY DEF CallsTypeOK, OnlyMoves, Target

LEMMA BreakersStep == BreakersInv /\ [CallsNext]_callVars => BreakersInv'
<1> SUFFICES ASSUME BreakersInv, [CallsNext]_callVars PROVE BreakersInv'
  OBVIOUS
<1> USE DEF BreakersInv
<1>1. ASSUME NEW r \in Request, Arrive(r) PROVE BreakersInv'
  <2>1. r \notin prober
    BY <1>1 DEF Arrive, Slots
  <2>2. CallsTypeOK'
    BY <1>1, Chains DEF Arrive, CallsTypeOK, Goes, Phase, breakers, probes, bounds
  <2>3. Slots'
    <3>1. \A s \in prober : Target(s)' = Target(s) /\ pc'[s] = pc[s]
      BY <1>1, <2>1 DEF Arrive, Target, CallsTypeOK, Goes
    <3>2. UNCHANGED <<prober, overtaken, probing>>
      BY <1>1 DEF Arrive, breakers, probes
    <3> QED BY <3>1, <3>2 DEF Slots
  <2>4. OpenIffFailing'
    BY <1>1 DEF Arrive, OpenIffFailing, breakers, probes
  <2> QED BY <2>2, <2>3, <2>4
<1>2. ASSUME NEW r \in Request, CheckAvailable(r) PROVE BreakersInv'
  <2>1. r \notin prober
    BY <1>2 DEF CheckAvailable, Slots
  <2>2. CASE NextAttempt(r)
    <3>0. OnlyMoves(r)
      BY <2>2, NextAttemptMoves
    <3>1. CallsTypeOK'
      BY <1>2, <3>0 DEF CheckAvailable, CallsTypeOK, breakers, probes, bounds, OnlyMoves
    <3>2. Slots'
      BY <1>2, <2>1, <3>0, TargetsStay DEF CheckAvailable, Slots, breakers, probes
    <3> QED BY <1>2, <3>1, <3>2 DEF CheckAvailable, OpenIffFailing, breakers, probes
  <2>3. CASE Goes(r, "probe") /\ UNCHANGED <<index, tries>>
    <3>1. CallsTypeOK'
      BY <1>2, <2>3 DEF CheckAvailable, CallsTypeOK, breakers, probes, bounds, Goes, Phase
    <3>2. Slots'
      BY <1>2, <2>1, <2>3 DEF CheckAvailable, Slots, Target, CallsTypeOK, breakers, probes, Goes
    <3> QED BY <1>2, <3>1, <3>2 DEF CheckAvailable, OpenIffFailing, breakers, probes
  <2> QED BY <1>2, <2>2, <2>3 DEF CheckAvailable
<1>3. ASSUME NEW r \in Request, ReadProbeState(r) PROVE BreakersInv'
  <2>1. r \notin prober
    BY <1>3 DEF ReadProbeState, Slots
  <2>2. CallsTypeOK'
    BY <1>3 DEF ReadProbeState, CallsTypeOK, breakers, probes, bounds, Goes, Phase
  <2>3. Slots'
    BY <1>3, <2>1 DEF ReadProbeState, Slots, Target, CallsTypeOK, breakers, probes, Goes
  <2> QED BY <1>3, <2>2, <2>3 DEF ReadProbeState, OpenIffFailing, breakers, probes
<1>4. ASSUME NEW r \in Request, ClaimProbe(r) PROVE BreakersInv'
  <2>1. r \notin prober
    BY <1>4 DEF ClaimProbe, Slots
  <2>2. CASE probing[Target(r)]
    <3>0. OnlyMoves(r)
      BY <1>4, <2>2, NextAttemptMoves DEF ClaimProbe
    <3>1. CallsTypeOK'
      BY <1>4, <2>2, <3>0 DEF ClaimProbe, CallsTypeOK, bounds, OnlyMoves
    <3>2. Slots'
      BY <1>4, <2>1, <2>2, <3>0, TargetsStay DEF ClaimProbe, Slots
    <3> QED BY <1>4, <3>1, <3>2 DEF ClaimProbe, OpenIffFailing
  <2>3. CASE ~ probing[Target(r)]
    <3>1. CallsTypeOK'
      BY <1>4, <2>3 DEF ClaimProbe, CallsTypeOK, bounds, Goes, Phase
    <3>2. \A s \in prober \ overtaken : Target(s) # Target(r)
      BY <2>3 DEF Slots
    <3>3. Slots'
      <4>1. /\ pc' = [pc EXCEPT ![r] = "credential"] /\ prober' = prober \cup {r}
            /\ probing' = [probing EXCEPT ![Target(r)] = TRUE] /\ index' = index
            /\ overtaken' = overtaken
        BY <1>4, <2>3 DEF ClaimProbe, Goes
      <4>2. \A s \in Request : Target(s)' = Target(s)
        BY <4>1 DEF Target
      <4>3. \A s \in prober' : s = r \/ s \in prober
        BY <4>1
      <4>4. \A s \in prober' \ overtaken' :
              s = r \/ (s \in prober \ overtaken /\ Target(s) # Target(r))
        BY <3>2, <4>1
      <4>5. \A s \in prober' : pc'[s] \in {"credential", "calling", "gate"}
        BY <4>1, <4>3 DEF Slots, CallsTypeOK
      <4>6. \A s \in prober' \ overtaken' : probing'[Target(s)]
        BY <4>1, <4>4, TargetTyped DEF Slots, CallsTypeOK
      <4> QED BY <4>1, <4>2, <4>4, <4>5, <4>6 DEF Slots, CallsTypeOK
    <3> QED BY <1>4, <3>1, <3>3 DEF ClaimProbe, OpenIffFailing
  <2> QED BY <2>2, <2>3
<1>5. ASSUME NEW r \in Request, Resolve(r) PROVE BreakersInv'
  <2>1. CallsTypeOK'
    BY <1>5 DEF Resolve, CallsTypeOK, breakers, probes, bounds, Goes, Phase
  <2>2. Slots'
    BY <1>5 DEF Resolve, Slots, Target, CallsTypeOK, breakers, probes, Goes
  <2> QED BY <1>5, <2>1, <2>2 DEF Resolve, OpenIffFailing, breakers, probes
<1>6. ASSUME NEW r \in Request, ResolveFails(r) PROVE BreakersInv'
  <2>0. OnlyMoves(r)
    BY <1>6, NextAttemptMoves DEF ResolveFails
  <2>1. CallsTypeOK'
    BY <1>6, <2>0, BoundsTyped DEF ResolveFails, StopsProbing, CallsTypeOK, breakers, OnlyMoves
  <2>2. Slots'
    BY <1>6, <2>0, TargetsStay DEF ResolveFails, StopsProbing, Slots, breakers
  <2> QED BY <1>6, <2>1, <2>2 DEF ResolveFails, OpenIffFailing, breakers, probes
<1>7. ASSUME NEW r \in Request, Answer(r) PROVE BreakersInv'
  <2>1. CallsTypeOK'
    BY <1>7, TargetTyped, BoundsTyped
    DEF Answer, RecordSuccess, FreeSlot, CallsTypeOK, bounds, Goes, Phase
  <2>2. Slots'
    BY <1>7, TargetTyped DEF Answer, RecordSuccess, FreeSlot, Slots, Target, CallsTypeOK, Goes
  <2>3. OpenIffFailing'
    BY <1>7, TargetTyped, BoundsTyped DEF Answer, RecordSuccess, OpenIffFailing, CallsTypeOK
  <2> QED BY <2>1, <2>2, <2>3
<1>8. ASSUME NEW r \in Request, Retry(r) PROVE BreakersInv'
  <2>1. CallsTypeOK'
    BY <1>8, BoundsTyped DEF Retry, CallsTypeOK, breakers, probes, bounds
  <2>2. Slots'
    BY <1>8 DEF Retry, Slots, Target, breakers, probes
  <2> QED BY <1>8, <2>1, <2>2 DEF Retry, OpenIffFailing, breakers, probes
<1>9. ASSUME NEW r \in Request, RecordFailure(Target(r), {r}), OnlyMoves(r), up' \in SUBSET Provider,
             outages' \in 0 .. MaxOutages, faults' \in 0 .. MaxFaults,
             cancels' \in 0 .. MaxCancels
      PROVE  BreakersInv'
  <2>0. Target(r) \in Provider
    BY TargetTyped
  <2>1. CallsTypeOK'
    <3>1. failures' \in [Provider -> 0 .. Threshold]
      BY <1>9, <2>0, BoundsTyped DEF RecordFailure, CallsTypeOK
    <3>2. opened' \in [Provider -> {"unset", "waiting", "over"}]
      BY <1>9, <2>0 DEF RecordFailure, CallsTypeOK
    <3>3. probing' \in [Provider -> BOOLEAN] /\ prober' \in SUBSET Request
          /\ overtaken' \in SUBSET prober'
      BY <1>9, <2>0 DEF RecordFailure, FreeSlot, CallsTypeOK
    <3> QED BY <1>9, <3>1, <3>2, <3>3 DEF CallsTypeOK, OnlyMoves
  <2>2. Slots'
    <3>1. \A s \in prober' : s \in prober \ {r}
      BY <1>9 DEF RecordFailure, FreeSlot
    <3>4. \A s \in prober' \ overtaken' : s \in prober \ overtaken /\ Target(s) # Target(r)
      BY <1>9 DEF RecordFailure, FreeSlot
    <3>2. \A q \in Provider : q # Target(r) => probing'[q] = probing[q]
      BY <1>9 DEF RecordFailure, FreeSlot, CallsTypeOK
    <3>3. \A s \in prober \ {r} : Target(s) \in Provider
      BY TargetTyped DEF CallsTypeOK
    <3> QED BY <1>9, <3>1, <3>2, <3>3, <3>4, TargetsStay DEF Slots
  <2>3. OpenIffFailing'
    <3>1. failures[Target(r)] \in 0 .. Threshold /\ Threshold \in Nat
      BY <2>0, BoundsTyped DEF CallsTypeOK
    <3>2. /\ opened'[Target(r)] # "unset" <=> failures'[Target(r)] = Threshold
          /\ \A q \in Provider \ {Target(r)} :
                opened'[q] = opened[q] /\ failures'[q] = failures[q]
      BY <1>9, <2>0, <3>1 DEF RecordFailure, OpenIffFailing, CallsTypeOK
    <3> QED BY <3>2 DEF OpenIffFailing
  <2> QED BY <2>1, <2>2, <2>3
<1>10. ASSUME NEW r \in Request, GiveUp(r) PROVE BreakersInv'
  <2>1. OnlyMoves(r)
    BY <1>10, NextAttemptMoves DEF GiveUp
  <2> QED BY <1>9, <1>10, <2>1 DEF GiveUp, bounds, CallsTypeOK
<1>11. ASSUME NEW r \in Request, Reject(r) PROVE BreakersInv'
  <2>1. OnlyMoves(r)
    <3>1. CASE NextAttempt(r)
      BY <3>1, NextAttemptMoves
    <3>2. CASE Goes(r, "idle") /\ tries' = [tries EXCEPT ![r] = 0] /\ UNCHANGED index
      BY <3>2, BoundsTyped DEF OnlyMoves, CallsTypeOK, Goes, Phase
    <3> QED BY <1>11, <3>1, <3>2 DEF Reject
  <2>2. faults' \in 0 .. MaxFaults
    BY <1>11, BoundsTyped DEF Reject, CallsTypeOK
  <2> QED BY <1>9, <1>11, <2>1, <2>2 DEF Reject, CallsTypeOK
<1>12. ASSUME NEW r \in Request, StreamEnds(r) PROVE BreakersInv'
  <2>1. OnlyMoves(r)
    BY <1>12 DEF StreamEnds, OnlyMoves, CallsTypeOK, Goes, Phase
  <2>2. CASE RecordFailure(Target(r), {r})
    BY <1>9, <1>12, <2>1, <2>2 DEF StreamEnds, bounds, CallsTypeOK
  <2>3. CASE RecordSuccess(Target(r), {r})
    <3>1. CallsTypeOK'
      BY <1>12, <2>1, <2>3, TargetTyped, BoundsTyped
      DEF StreamEnds, RecordSuccess, FreeSlot, CallsTypeOK, bounds, OnlyMoves
    <3>2. Slots'
      BY <1>12, <2>1, <2>3, TargetTyped
      DEF StreamEnds, RecordSuccess, FreeSlot, Slots, Target, CallsTypeOK, OnlyMoves
    <3>3. OpenIffFailing'
      BY <2>3, TargetTyped, BoundsTyped DEF RecordSuccess, OpenIffFailing, CallsTypeOK
    <3> QED BY <3>1, <3>2, <3>3
  <2> QED BY <1>12, <2>2, <2>3 DEF StreamEnds
<1>13. ASSUME NEW r \in Request, Cancel(r) PROVE BreakersInv'
  <2>1. CallsTypeOK'
    BY <1>13, BoundsTyped DEF Cancel, StopsProbing, CallsTypeOK, breakers, Goes, Phase
  <2>2. Slots'
    BY <1>13 DEF Cancel, StopsProbing, Slots, Target, CallsTypeOK, breakers, Goes
  <2> QED BY <1>13, <2>1, <2>2 DEF Cancel, OpenIffFailing, breakers, probes
<1>14. ASSUME NEW p \in Provider, TimerExpires(p) PROVE BreakersInv'
  <2>1. CallsTypeOK'
    BY <1>14 DEF TimerExpires, CallsTypeOK, probes, bounds
  <2>2. Slots'
    BY <1>14 DEF TimerExpires, Slots, Target, probes
  <2>3. OpenIffFailing'
    BY <1>14 DEF TimerExpires, OpenIffFailing, CallsTypeOK
  <2> QED BY <2>1, <2>2, <2>3
<1>15. ASSUME NEW p \in Provider, GoDown(p) \/ Recover(p) PROVE BreakersInv'
  <2>1. CallsTypeOK'
    BY <1>15, BoundsTyped DEF GoDown, Recover, CallsTypeOK, breakers, probes, bounds
  <2>2. Slots'
    BY <1>15 DEF GoDown, Recover, Slots, Target, breakers, probes
  <2>3. OpenIffFailing'
    BY <1>15 DEF GoDown, Recover, OpenIffFailing, breakers, probes
  <2> QED BY <2>1, <2>2, <2>3
<1>16. ASSUME NEW p \in Provider, Reset(p) PROVE BreakersInv'
  <2>1. CallsTypeOK'
    BY <1>16, BoundsTyped DEF Reset, RecordSuccess, FreeSlot, CallsTypeOK, bounds
  <2>2. Slots'
    BY <1>16 DEF Reset, RecordSuccess, FreeSlot, Slots, Target, CallsTypeOK
  <2>3. OpenIffFailing'
    BY <1>16, BoundsTyped DEF Reset, RecordSuccess, OpenIffFailing, CallsTypeOK
  <2> QED BY <2>1, <2>2, <2>3
<1>17. ASSUME NEW r \in Request, Open(r) \/ Refuse(r) PROVE BreakersInv'
  <2>1. CallsTypeOK'
    BY <1>17 DEF Open, Refuse, CallsTypeOK, breakers, probes, bounds, Goes, Phase
  <2>2. Slots'
    <3>1. /\ pc' = [pc EXCEPT ![r] = "gate"] \/ pc' = [pc EXCEPT ![r] = "calling"]
          /\ UNCHANGED <<probing, index, prober, overtaken>>
      BY <1>17 DEF Open, Refuse, breakers, probes, Goes
    <3>2. \A s \in prober : pc'[s] \in {"credential", "calling", "gate"}
      BY <3>1 DEF Slots, CallsTypeOK
    <3>3. \A s \in Request : Target(s)' = Target(s)
      BY <3>1 DEF Target
    <3> QED BY <3>1, <3>2, <3>3 DEF Slots, CallsTypeOK
  <2> QED BY <1>17, <2>1, <2>2 DEF Open, Refuse, OpenIffFailing, breakers
<1>18. CASE UNCHANGED callVars
  BY <1>18 DEF callVars, breakers, probes, bounds, CallsTypeOK, Slots, Target, OpenIffFailing
<1> QED
  BY <1>1, <1>2, <1>3, <1>4, <1>5, <1>6, <1>7, <1>8, <1>10, <1>11, <1>12, <1>13, <1>14, <1>15,
     <1>16, <1>17, <1>18
  DEF CallsNext, Handle

\* Of the probes of a provider, one holds the slot; the others have lost it.
LEMMA SlotsOne == BreakersInv => BreakersSafety
  BY DEF BreakersInv, Slots, BreakersSafety, OneProbe, Probers

\* The calls of a replica are a part of what it serves.
LEMMA ServingCalls ==
  /\ Init => CallsInit
  /\ [Next]_vars => [CallsNext]_callVars
  BY DEF Init, Next, OfCalls, OfStream, vars

\* For any providers and chains, however results, timers, cancellations and outages fall: a
\* circuit is open exactly when its last results were failures, and of any two requests that
\* probe a provider at a time, one has had its slot freed by a result that was not its own, or
\* by a reset (fallback.rs record_success, record_failure, try_probe).
THEOREM BreakersHold == Spec => []BreakersSafety
<1>1. Init => BreakersInv
  BY ServingCalls, BreakersBegin
<1>2. BreakersInv /\ [Next]_vars => BreakersInv'
  BY ServingCalls, BreakersStep
<1> QED BY <1>1, <1>2, SlotsOne, PTL DEF Spec

-----------------------------------------------------------------------------
(* What is on the way                                                      *)

Fragments == [index : Int, opens : BOOLEAN, pieces : Seq(Nat)]

EventNames ==
  {"chunk", "message_start", "content_block_start", "content_block_delta", "message_delta",
   "message_stop", "error"}

Counts == [input : Nat, output : Nat]

Payloads ==
  [format : Shape, event : EventNames, words : Seq(Nat), calls : Seq(Fragments), reason : BOOLEAN,
   usage : Counts \cup {None}]

HalfLines == [payload : Payloads, ends : BOOLEAN]

Chunks ==
  [delta : Seq(Nat), call : Fragments \cup {None}, reason : BOOLEAN, usage : Counts \cup {None},
   raw : Payloads]

ProviderInv ==
  /\ surface \in {"chat", "messages"} /\ shape \in Shape
  /\ said \in Seq(Nat) /\ made \in Seq(Seq(Nat)) /\ written \in Nat /\ blocks \in Nat

FlowInv ==
  /\ ProviderInv
  /\ wire \in Seq(HalfLines) /\ buffer \in Seq(HalfLines) /\ queue \in Seq(Chunks)

LEMMA FunctionIsSeq ==
  ASSUME NEW T, NEW n \in Nat, NEW f \in [1 .. n -> T]
  PROVE  f \in Seq(T) /\ Len(f) = n
OBVIOUS

LEMMA SeqChanged ==
  ASSUME NEW T, NEW s \in Seq(T), NEW i, NEW t \in T
  PROVE  [s EXCEPT ![i] = t] \in Seq(T)
<1>1. Len(s) \in Nat /\ s \in [1 .. Len(s) -> T]
  OBVIOUS
<1>2. [s EXCEPT ![i] = t] \in [1 .. Len(s) -> T]
  BY <1>1
<1> QED BY <1>1, <1>2, FunctionIsSeq

LEMMA ConcatAt ==
  ASSUME NEW T, NEW s \in Seq(T), NEW t \in Seq(T), NEW i \in 1 .. Len(t)
  PROVE  (s \o t)[Len(s) + i] = t[i]
<1>1. Len(s) \in Nat /\ Len(t) \in Nat
  OBVIOUS
<1>2. Len(s) + i \in 1 .. Len(s) + Len(t) /\ ~(Len(s) + i <= Len(s)) /\ Len(s) + i - Len(s) = i
  BY <1>1
<1>3. (s \o t)[Len(s) + i] = t[Len(s) + i - Len(s)]
  BY <1>1, <1>2
<1> QED BY <1>2, <1>3

\* The chunk of a payload, if it has one.
LEMMA ChunkTyped ==
  ASSUME NEW p \in Payloads, ParseStreamChunk(p) # None
  PROVE  ParseStreamChunk(p) \in Chunks
<1>1. FirstCall(p) \in Fragments \cup {None}
  BY DEF FirstCall, Payloads
<1>2. CallByPosition(p) \in Fragments \cup {None}
  <2>1. CASE p.calls = <<>>
    BY <2>1 DEF CallByPosition
  <2>2. CASE p.calls # <<>>
    <3>1. PICK c \in Fragments : c = p.calls[1]
      BY <2>2 DEF Payloads
    <3>2. Len(p.words) \in Int
      BY DEF Payloads
    <3>3. [c EXCEPT !.index = Len(p.words)] \in Fragments
      BY <3>2 DEF Fragments
    <3> QED BY <2>2, <3>1, <3>3 DEF CallByPosition
  <2> QED BY <2>1, <2>2
<1>3. \A call \in Fragments \cup {None} : StreamChunk(p, call) \in Chunks
  BY DEF StreamChunk, Chunks, Payloads
<1> QED BY <1>1, <1>2, <1>3 DEF ParseStreamChunk

\* h[i] is what is kept of the first i.
KeepsAll(h, s, T) ==
  /\ h \in [0 .. Len(s) -> Seq(T)]
  /\ h[0] = <<>>
  /\ \A i \in 1 .. Len(s) : h[i] = IF s[i] = None THEN h[i - 1] ELSE Append(h[i - 1], s[i])

\* The recurrence of Kept has a solution, by induction on the length.
LEMMA KeptExists ==
  ASSUME NEW T, NEW s \in Seq(T \cup {None})
  PROVE  \E h : KeepsAll(h, s, T)
<1> DEFINE n == Len(s)
           KeepsTo(h, m) ==
             /\ h \in [0 .. m -> Seq(T)]
             /\ h[0] = <<>>
             /\ \A i \in 1 .. m : h[i] = IF s[i] = None THEN h[i - 1] ELSE Append(h[i - 1], s[i])
           Bad == {m \in 0 .. n : ~ \E h : KeepsTo(h, m)}
<1>0. n \in Nat
  OBVIOUS
<1>1. Bad = {}
  <2>1. SUFFICES ASSUME Bad # {} PROVE FALSE
    OBVIOUS
  <2>2. Bad \subseteq Nat
    OBVIOUS
  <2>3. \E m \in Bad : \A l \in Bad : m <= l
    <3> HIDE DEF Bad
    <3> QED BY <2>1, <2>2, Minimum
  <2>4. PICK m \in Bad : \A l \in Bad : m <= l
    BY <2>3
  <2>5. CASE m = 0
    <3>1. KeepsTo([i \in 0 .. 0 |-> <<>>], 0)
      OBVIOUS
    <3> QED BY <2>5, <3>1
  <2>6. CASE m # 0
    <3>0. m \in 0 .. n
      BY <2>4
    <3>1. m - 1 \in 0 .. n /\ ~ m <= m - 1 /\ m \in 1 .. n
      <4> HIDE DEF n, Bad
      <4> QED BY <2>6, <3>0, <1>0
    <3>a. m - 1 \notin Bad
      BY <2>4, <3>1
    <3>2. PICK h : KeepsTo(h, m - 1)
      BY <3>1, <3>a
    <3> DEFINE g == [i \in 0 .. m |-> IF i = m THEN IF s[m] = None THEN h[m - 1] ELSE Append(h[m - 1], s[m])
                                      ELSE h[i]]
    <3>3. KeepsTo(g, m)
      <4>1. h[m - 1] \in Seq(T) /\ s[m] \in T \cup {None}
        BY <3>1, <3>2
      <4>2. (IF s[m] = None THEN h[m - 1] ELSE Append(h[m - 1], s[m])) \in Seq(T)
        BY <4>1
      <4>3. g \in [0 .. m -> Seq(T)]
        BY <3>1, <3>2, <4>2
      <4>4. g[0] = <<>>
        BY <3>1, <3>2
      <4>5. ASSUME NEW i \in 1 .. m
            PROVE  g[i] = IF s[i] = None THEN g[i - 1] ELSE Append(g[i - 1], s[i])
        <5>1. i - 1 \in 0 .. m - 1 /\ i - 1 # m /\ (i # m => i \in 1 .. m - 1)
          BY <3>1
        <5>2. g[i - 1] = h[i - 1] /\ i - 1 \in 0 .. m
          BY <3>1, <5>1
        <5>3. CASE i = m
          BY <5>2, <5>3
        <5>4. CASE i # m
          <6>1. g[i] = h[i]
            BY <5>4
          <6>2. h[i] = IF s[i] = None THEN h[i - 1] ELSE Append(h[i - 1], s[i])
            BY <3>2, <5>1, <5>4
          <6> HIDE DEF g, KeepsTo
          <6> QED BY <5>2, <6>1, <6>2
        <5> QED BY <5>3, <5>4
      <4> QED BY <4>3, <4>4, <4>5
    <3> QED BY <3>3
  <2> QED BY <2>5, <2>6
<1>2. n \in 0 .. n
  BY <1>0
<1>3. \E h : KeepsTo(h, n)
  BY <1>1, <1>2
<1> QED BY <1>3 DEF KeepsAll

\* Whatever solves it, keeps.
LEMMA FixedPointKeeps ==
  ASSUME NEW T, NEW s \in Seq(T \cup {None}), NEW p,
         p = [i \in 0 .. Len(s) |->
                IF i = 0 THEN <<>> ELSE IF s[i] = None THEN p[i - 1] ELSE Append(p[i - 1], s[i])]
  PROVE  KeepsAll(p, s, T)
<1> DEFINE n == Len(s)
           Bad == {i \in 0 .. n : p[i] \notin Seq(T)}
<1>0. n \in Nat
  OBVIOUS
<1>1. p[0] = <<>>
  <2>1. 0 \in 0 .. n
    BY <1>0
  <2> QED BY <2>1
<1>2. \A i \in 1 .. n : p[i] = IF s[i] = None THEN p[i - 1] ELSE Append(p[i - 1], s[i])
  <2>1. TAKE i \in 1 .. n
  <2>2. i \in 0 .. n /\ i # 0
    BY <1>0
  <2> QED BY <2>2
<1>3. Bad = {}
  <2>1. SUFFICES ASSUME Bad # {} PROVE FALSE
    OBVIOUS
  <2>2. Bad \subseteq Nat
    OBVIOUS
  <2>3. \E i \in Bad : \A j \in Bad : i <= j
    <3> HIDE DEF Bad
    <3> QED BY <2>1, <2>2, Minimum
  <2>4. PICK i \in Bad : \A j \in Bad : i <= j
    BY <2>3
  <2>5. i # 0
    BY <1>1
  <2>a. i \in 0 .. n
    BY <2>4
  <2>b. i - 1 \in 0 .. n /\ ~ i <= i - 1 /\ i \in 1 .. n
    <3> HIDE DEF n, Bad
    <3> QED BY <2>a, <2>5, <1>0
  <2>6. p[i - 1] \in Seq(T)
    BY <2>4, <2>b
  <2>7. s[i] \in T \cup {None}
    BY <2>b
  <2>8. p[i] = IF s[i] = None THEN p[i - 1] ELSE Append(p[i - 1], s[i])
    BY <1>2, <2>b
  <2>9. CASE s[i] = None
    BY <2>4, <2>6, <2>8, <2>9
  <2>10. CASE s[i] # None
    <3>1. Append(p[i - 1], s[i]) \in Seq(T)
      BY <2>6, <2>7, <2>10
    <3> QED BY <2>4, <2>8, <2>10, <3>1
  <2> QED BY <2>9, <2>10
<1>4. DOMAIN p = 0 .. n /\ p = [i \in DOMAIN p |-> p[i]]
  OBVIOUS
<1> QED BY <1>1, <1>2, <1>3, <1>4 DEF KeepsAll

\* Kept keeps, and what it keeps is of the kind that is there.
LEMMA KeptIs ==
  ASSUME NEW T, NEW s \in Seq(T \cup {None})
  PROVE  \E h : KeepsAll(h, s, T) /\ Kept(s) = h[Len(s)]
<1> DEFINE Step(p) ==
             [i \in 0 .. Len(s) |->
                IF i = 0 THEN <<>> ELSE IF s[i] = None THEN p[i - 1] ELSE Append(p[i - 1], s[i])]
           k == CHOOSE p : p = Step(p)
<1>1. PICK h : KeepsAll(h, s, T)
  BY KeptExists
<1>2. h = Step(h)
  <2>1. ASSUME NEW i \in 0 .. Len(s)
        PROVE  h[i] = IF i = 0 THEN <<>> ELSE IF s[i] = None THEN h[i - 1] ELSE Append(h[i - 1], s[i])
    <3>1. CASE i = 0
      BY <1>1, <3>1 DEF KeepsAll
    <3>2. CASE i # 0
      <4>1. i \in 1 .. Len(s)
        BY <3>2
      <4> QED BY <1>1, <3>2, <4>1 DEF KeepsAll
    <3> QED BY <3>1, <3>2
  <2>2. h \in [0 .. Len(s) -> Seq(T)]
    BY <1>1 DEF KeepsAll
  <2>3. DOMAIN h = 0 .. Len(s) /\ h = [i \in DOMAIN h |-> h[i]]
    BY <2>2
  <2> QED BY <2>1, <2>3
<1>3. k = Step(k)
  BY <1>2
<1>4. Kept(s) = k[Len(s)]
  BY DEF Kept
<1> HIDE DEF k
<1>5. KeepsAll(k, s, T)
  BY <1>3, FixedPointKeeps
<1> QED BY <1>4, <1>5

LEMMA KeptTyped ==
  ASSUME NEW T, NEW s \in Seq(T \cup {None})
  PROVE  Kept(s) \in Seq(T)
<1>1. PICK h : KeepsAll(h, s, T) /\ Kept(s) = h[Len(s)]
  BY KeptIs
<1>2. Len(s) \in 0 .. Len(s)
  OBVIOUS
<1> QED BY <1>1, <1>2 DEF KeepsAll

\* The lines that are complete make chunks, whatever the bytes.
LEMMA DecodedTyped ==
  ASSUME NEW h \in Seq(HalfLines)
  PROVE  Decoded(h) \in Seq(Chunks)
<1> DEFINE c == [i \in 1 .. Len(h) |->
                   IF Completes(h, i) THEN ParseStreamChunk(h[i].payload) ELSE None]
<1>1. ASSUME NEW i \in 1 .. Len(h)
      PROVE  c[i] \in Chunks \cup {None}
  <2>1. h[i] \in HalfLines
    OBVIOUS
  <2>2. h[i].payload \in Payloads
    BY <2>1 DEF HalfLines
  <2> QED BY <2>2, ChunkTyped
<1>2. c \in Seq(Chunks \cup {None})
  BY <1>1
<1> QED BY <1>2, KeptTyped DEF Decoded

LEMMA HalvesTyped ==
  ASSUME NEW ps \in Seq(Payloads)
  PROVE  Halves(ps) \in Seq(HalfLines)
<1>1. Len(ps) \in Nat /\ 2 * Len(ps) \in Nat
  OBVIOUS
<1>2. ASSUME NEW i \in 1 .. 2 * Len(ps)
      PROVE  [payload |-> ps[(i + 1) \div 2], ends |-> i % 2 = 0] \in HalfLines
  <2>1. (i + 1) \div 2 \in 1 .. Len(ps)
    BY <1>1
  <2>2. ps[(i + 1) \div 2] \in Payloads
    BY <2>1
  <2>3. (i % 2 = 0) \in BOOLEAN
    OBVIOUS
  <2> HIDE DEF Payloads
  <2> QED BY <2>2, <2>3 DEF HalfLines
<1> QED BY <1>1, <1>2 DEF Halves

\* The payloads a provider writes.
LEMMA PayloadTyped ==
  ASSUME ProviderInv, NEW event \in EventNames, NEW words \in Seq(Nat), NEW calls \in Seq(Fragments),
         NEW reason \in BOOLEAN, NEW counts \in Counts \cup {None}
  PROVE  /\ Payload(shape, event, words, calls, reason, counts) \in Payloads
         /\ Chunk(words, calls) \in Payloads /\ Named(event, words, calls) \in Payloads
BY DEF Payload, Payloads, Chunk, Named, ProviderInv, EventNames

LEMMA FlowBegins == StreamInit => FlowInv
<1> SUFFICES ASSUME StreamInit PROVE FlowInv
  OBVIOUS
<1> USE DEF StreamInit
<1>1. ProviderInv
  BY DEF ProviderInv
<1> QED BY <1>1 DEF FlowInv

\* A provider that writes leaves the rest alone.
LEMMA WritesFlow ==
  ASSUME FlowInv, ProviderInv', NEW ps \in Seq(Payloads), Writes(ps)
  PROVE  FlowInv'
<1>1. wire' \in Seq(HalfLines)
  <2>1. PICK h \in Seq(HalfLines) : h = Halves(ps)
    BY HalvesTyped
  <2> QED BY <2>1 DEF Writes, FlowInv
<1> QED BY <1>1 DEF FlowInv, Writes

LEMMA StartFlow ==
  ASSUME FlowInv, Start
  PROVE  FlowInv'
<1>1. ProviderInv /\ <<>> \in Seq(Nat) /\ <<>> \in Seq(Fragments) /\ None \in Counts \cup {None}
  BY DEF FlowInv
<1>2. ProviderInv'
  BY DEF Start, Writes, FlowInv, ProviderInv
<1> DEFINE c == [input |-> 1, output |-> 0]
           p == Payload(shape, "message_start", <<>>, <<>>, FALSE, c)
<1>3. p \in Payloads
  <2>1. c \in Counts \cup {None} /\ "message_start" \in EventNames /\ FALSE \in BOOLEAN
    BY DEF Counts, EventNames
  <2> HIDE DEF c
  <2> QED BY <1>1, <2>1, PayloadTyped
<1>4. Chunk(<<>>, <<>>) \in Payloads
  <2>1. "message_start" \in EventNames /\ FALSE \in BOOLEAN
    BY DEF EventNames
  <2> QED BY <1>1, <2>1, PayloadTyped
<1>5. <<Chunk(<<>>, <<>>)>> \in Seq(Payloads) /\ <<p>> \in Seq(Payloads) /\ <<>> \in Seq(Payloads)
  <2> HIDE DEF p
  <2> QED BY <1>3, <1>4
<1>6. \/ Writes(<<Chunk(<<>>, <<>>)>>) \/ Writes(<<p>>) \/ Writes(<<>>)
  BY <1>1 DEF Start, ProviderInv, Shape
<1> HIDE DEF p
<1> QED BY <1>2, <1>5, <1>6, WritesFlow

LEMMA SayFlow ==
  ASSUME FlowInv, Say
  PROVE  FlowInv'
<1>1. /\ ProviderInv /\ <<>> \in Seq(Nat) /\ <<>> \in Seq(Fragments) /\ None \in Counts \cup {None}
      /\ FALSE \in BOOLEAN /\ "content_block_start" \in EventNames /\ "content_block_delta" \in EventNames
  BY DEF FlowInv, EventNames
<1>2. written + 1 \in Nat /\ blocks + 1 \in Nat
  BY <1>1 DEF ProviderInv
<1>3. <<written + 1>> \in Seq(Nat)
  BY <1>2
<1>4. ProviderInv'
  <2>1. said' \in Seq(Nat)
    BY <1>1, <1>2 DEF Say, ProviderInv
  <2> QED BY <1>1, <1>2, <2>1 DEF Say, Writes, ProviderInv
<1> DEFINE p == Named("content_block_start", <<>>, <<>>)
           q == Named("content_block_delta", <<written + 1>>, <<>>)
           c == Chunk(<<written + 1>>, <<>>)
<1>5. p \in Payloads
  BY <1>1, PayloadTyped
<1>6. q \in Payloads /\ c \in Payloads
  BY <1>1, <1>3, PayloadTyped
<1>7. <<q>> \in Seq(Payloads) /\ <<p, q>> \in Seq(Payloads) /\ <<c>> \in Seq(Payloads)
  <2> HIDE DEF p, q, c
  <2> QED BY <1>5, <1>6
<1>8. Writes(<<q>>) \/ Writes(<<p, q>>) \/ Writes(<<c>>)
  BY DEF Say
<1> HIDE DEF p, q, c
<1> QED BY <1>4, <1>7, <1>8, WritesFlow

LEMMA CallFlow ==
  ASSUME FlowInv, Call
  PROVE  FlowInv'
<1>1. /\ ProviderInv /\ <<>> \in Seq(Nat) /\ None \in Counts \cup {None}
      /\ FALSE \in BOOLEAN /\ "content_block_start" \in EventNames
  BY DEF FlowInv, EventNames
<1>2. Len(made) \in Int /\ blocks \in Int /\ blocks + 1 \in Nat
  BY <1>1 DEF ProviderInv
<1>3. ProviderInv'
  <2>1. made' \in Seq(Seq(Nat))
    BY <1>1 DEF Call, ProviderInv
  <2> QED BY <1>1, <1>2, <2>1 DEF Call, Writes, ProviderInv
<1>4. ASSUME NEW i \in Int
      PROVE  <<Fragment(i, TRUE, <<>>)>> \in Seq(Fragments)
  BY DEF Fragment, Fragments
<1> DEFINE p == Named("content_block_start", <<>>, <<Fragment(blocks, TRUE, <<>>)>>)
           c == Chunk(<<>>, <<Fragment(Len(made), TRUE, <<>>)>>)
<1>5. p \in Payloads /\ c \in Payloads
  BY <1>1, <1>2, <1>4, PayloadTyped
<1>6. <<p>> \in Seq(Payloads) /\ <<c>> \in Seq(Payloads)
  <2> HIDE DEF p, c
  <2> QED BY <1>5
<1>7. Writes(<<p>>) \/ Writes(<<c>>)
  BY DEF Call
<1> HIDE DEF p, c
<1> QED BY <1>3, <1>6, <1>7, WritesFlow

LEMMA ArgueFlow ==
  ASSUME FlowInv, Argue
  PROVE  FlowInv'
<1>1. /\ ProviderInv /\ <<>> \in Seq(Nat) /\ None \in Counts \cup {None}
      /\ FALSE \in BOOLEAN /\ "content_block_delta" \in EventNames
  BY DEF FlowInv, EventNames
<1>2. Len(made) - 1 \in Int /\ blocks - 1 \in Int /\ written + 1 \in Nat
  BY <1>1 DEF ProviderInv
<1>3. <<written + 1>> \in Seq(Nat)
  BY <1>2
<1>4. ProviderInv'
  <2>1. made' \in Seq(Seq(Nat))
    <3>1. CASE Len(made) \in DOMAIN made
      <4>1. Append(made[Len(made)], written + 1) \in Seq(Nat)
        BY <1>1, <1>2, <3>1 DEF ProviderInv
      <4>2. made' = [made EXCEPT ![Len(made)] = Append(made[Len(made)], written + 1)]
        BY DEF Argue
      <4> QED BY <1>1, <4>1, <4>2, SeqChanged DEF ProviderInv
    <3>2. CASE Len(made) \notin DOMAIN made
      <4>1. made' = made
        BY <1>1, <3>2 DEF Argue, ProviderInv
      <4> QED BY <1>1, <4>1 DEF ProviderInv
    <3> QED BY <3>1, <3>2
  <2> QED BY <1>1, <1>2, <2>1 DEF Argue, Writes, ProviderInv
<1>5. ASSUME NEW i \in Int
      PROVE  <<Fragment(i, FALSE, <<written + 1>>)>> \in Seq(Fragments)
  BY <1>3 DEF Fragment, Fragments
<1> DEFINE p == Named("content_block_delta", <<>>, <<Fragment(blocks - 1, FALSE, <<written + 1>>)>>)
           c == Chunk(<<>>, <<Fragment(Len(made) - 1, FALSE, <<written + 1>>)>>)
<1>6. p \in Payloads /\ c \in Payloads
  BY <1>1, <1>2, <1>5, PayloadTyped
<1>7. <<p>> \in Seq(Payloads) /\ <<c>> \in Seq(Payloads)
  <2> HIDE DEF p, c
  <2> QED BY <1>6
<1>8. Writes(<<p>>) \/ Writes(<<c>>)
  BY DEF Argue
<1> HIDE DEF p, c
<1> QED BY <1>4, <1>7, <1>8, WritesFlow

LEMMA CallWholeFlow ==
  ASSUME FlowInv, CallWhole
  PROVE  FlowInv'
<1>1. /\ ProviderInv /\ None \in Counts \cup {None} /\ FALSE \in BOOLEAN
      /\ "content_block_delta" \in EventNames
  BY DEF FlowInv, EventNames
<1>2. PICK text \in {0, 1}, calls \in 1 .. MaxCalls - Len(made) :
        LET args == [c \in 1 .. calls |-> <<written + text + c>>]
            words == IF text = 1 THEN <<written + 1>> ELSE <<>>
        IN  /\ said' = said \o words
            /\ made' = made \o args
            /\ written' = written + text + calls
            /\ Writes(<<Chunk(words, [c \in 1 .. calls |-> Fragment(0, TRUE, args[c])])>>)
  BY DEF CallWhole
<1> DEFINE args == [c \in 1 .. calls |-> <<written + text + c>>]
           words == IF text = 1 THEN <<written + 1>> ELSE <<>>
           fragments == [c \in 1 .. calls |-> Fragment(0, TRUE, args[c])]
<1>3. text \in Nat /\ calls \in Nat /\ written \in Nat /\ written + text + calls \in Nat
  <2>1. MaxCalls \in Nat /\ Len(made) \in Nat /\ written \in Nat
    BY <1>1, StreamAssumption DEF ProviderInv
  <2>2. calls \in Nat
    BY <2>1
  <2> QED BY <2>1, <2>2
<1>4. words \in Seq(Nat)
  BY <1>3
<1>5. ASSUME NEW c \in 1 .. calls
      PROVE  <<written + text + c>> \in Seq(Nat)
  <2>1. written + text + c \in Nat
    BY <1>3
  <2> QED BY <2>1
<1>6. args \in Seq(Seq(Nat))
  BY <1>3, <1>5
<1>7. fragments \in Seq(Fragments)
  <2>1. ASSUME NEW c \in 1 .. calls
        PROVE  Fragment(0, TRUE, args[c]) \in Fragments
    <3>1. args[c] \in Seq(Nat)
      BY <1>5
    <3> HIDE DEF args
    <3> QED BY <3>1 DEF Fragment, Fragments
  <2>2. calls \in Nat
    BY <1>3
  <2>3. fragments \in [1 .. calls -> Fragments]
    <3> HIDE DEF args
    <3> QED BY <2>1
  <2> HIDE DEF fragments
  <2> QED BY <2>2, <2>3, FunctionIsSeq
<1>8. Chunk(words, fragments) \in Payloads
  <2> HIDE DEF words, fragments
  <2> QED BY <1>1, <1>4, <1>7, PayloadTyped
<1>9. /\ said' = said \o words /\ made' = made \o args /\ written' = written + text + calls
      /\ Writes(<<Chunk(words, fragments)>>)
  BY <1>2
<1> HIDE DEF words, fragments, args
<1>10. ProviderInv'
  <2>1. said' \in Seq(Nat) /\ made' \in Seq(Seq(Nat))
    BY <1>1, <1>4, <1>6, <1>9 DEF ProviderInv
  <2>2. blocks' = blocks /\ surface' = surface /\ shape' = shape
    BY <1>9 DEF CallWhole, Writes
  <2> QED BY <1>1, <1>3, <1>9, <2>1, <2>2 DEF ProviderInv
<1>11. <<Chunk(words, fragments)>> \in Seq(Payloads)
  BY <1>8
<1> QED BY <1>9, <1>10, <1>11, WritesFlow

LEMMA FinishFlow ==
  ASSUME FlowInv, Finish
  PROVE  FlowInv'
<1>1. /\ ProviderInv /\ <<>> \in Seq(Nat) /\ <<>> \in Seq(Fragments) /\ None \in Counts \cup {None}
      /\ TRUE \in BOOLEAN /\ FALSE \in BOOLEAN
      /\ {"chunk", "message_delta", "message_stop"} \subseteq EventNames
  BY DEF FlowInv, EventNames
<1> DEFINE counts == [input |-> IF shape = "anthropic" THEN 0 ELSE 1, output |-> written]
           reason == Payload(shape, "chunk", <<>>, <<>>, TRUE, None)
           usages == Payload(shape, "chunk", <<>>, <<>>, FALSE, counts)
           both == Payload(shape, "chunk", <<>>, <<>>, TRUE, counts)
           delta == Payload(shape, "message_delta", <<>>, <<>>, TRUE, counts)
           stop == Named("message_stop", <<>>, <<>>)
           done == Chunk(<<>>, <<>>)
<1>2. counts \in Counts \cup {None}
  BY <1>1 DEF Counts, ProviderInv
<1>3. /\ reason \in Payloads /\ usages \in Payloads /\ both \in Payloads /\ delta \in Payloads
      /\ stop \in Payloads /\ done \in Payloads
  <2> HIDE DEF counts
  <2> QED BY <1>1, <1>2, PayloadTyped
<1>4. /\ <<reason, usages, done>> \in Seq(Payloads) /\ <<delta, stop>> \in Seq(Payloads)
      /\ <<both>> \in Seq(Payloads)
  <2> HIDE DEF reason, usages, both, delta, stop, done
  <2> QED BY <1>3
<1>5. PICK last \in {<<reason, usages, done>>, <<delta, stop>>, <<both>>} :
        \E newline \in BOOLEAN :
          wire' = wire \o (IF newline THEN Halves(last) ELSE Front(Halves(last)))
  <2> HIDE DEF reason, usages, both, delta, stop, done
  <2> QED BY DEF Finish, reason, usages, both, delta, stop, done
<1> HIDE DEF reason, usages, both, delta, stop, done
<1>6. PICK h \in Seq(HalfLines) : h = Halves(last)
  BY <1>4, <1>5, HalvesTyped
<1>7. Front(h) \in Seq(HalfLines)
  BY DEF Front
<1>8. wire' \in Seq(HalfLines)
  BY <1>5, <1>6, <1>7 DEF FlowInv
<1>9. ProviderInv'
  BY <1>1 DEF Finish, ProviderInv
<1> QED BY <1>8, <1>9 DEF Finish, FlowInv

LEMMA ReportErrorFlow ==
  ASSUME FlowInv, ReportError
  PROVE  FlowInv'
<1>1. /\ ProviderInv /\ <<>> \in Seq(Nat) /\ <<>> \in Seq(Fragments) /\ None \in Counts \cup {None}
      /\ FALSE \in BOOLEAN /\ "error" \in EventNames
  BY DEF FlowInv, EventNames
<1>2. PICK p \in Payloads : p = Named("error", <<>>, <<>>)
  BY <1>1, PayloadTyped
<1>a. <<p>> \in Seq(Payloads)
  OBVIOUS
<1>3. PICK h \in Seq(HalfLines) : h = Halves(<<p>>)
  BY <1>a, HalvesTyped
<1>4. wire' \in Seq(HalfLines)
  BY <1>2, <1>3 DEF ReportError, FlowInv
<1>5. ProviderInv'
  BY <1>1 DEF ReportError, ProviderInv
<1> QED BY <1>4, <1>5 DEF ReportError, FlowInv

LEMMA BreakFlow ==
  ASSUME FlowInv, Break
  PROVE  FlowInv'
<1>1. PICK n \in 0 .. Len(wire) : wire' = SubSeq(wire, 1, n)
  BY DEF Break
<1>2. wire' \in Seq(HalfLines)
  BY <1>1 DEF FlowInv
<1>3. ProviderInv'
  BY DEF Break, FlowInv, ProviderInv
<1> QED BY <1>2, <1>3 DEF Break, FlowInv

LEMMA ReadFlow ==
  ASSUME FlowInv, Read
  PROVE  FlowInv'
<1>1. PICK n \in 1 .. Len(wire) :
        /\ wire' = SubSeq(wire, n + 1, Len(wire))
        /\ buffer' = Rest(buffer \o SubSeq(wire, 1, n))
        /\ queue' = Decoded(buffer \o SubSeq(wire, 1, n))
  BY DEF Read
<1>2. wire \in Seq(HalfLines) /\ buffer \in Seq(HalfLines) /\ Len(wire) \in Nat
  BY DEF FlowInv
<1>3. SubSeq(wire, 1, n) \in Seq(HalfLines) /\ Len(SubSeq(wire, 1, n)) = n /\ n \in Nat /\ n >= 1
  BY <1>2
<1>4. PICK h \in Seq(HalfLines) : h = buffer \o SubSeq(wire, 1, n) /\ Len(h) >= 1
  <2>1. PICK t \in Seq(HalfLines) : t = SubSeq(wire, 1, n) /\ Len(t) = n
    BY <1>3
  <2>2. buffer \o t \in Seq(HalfLines) /\ Len(buffer \o t) = Len(buffer) + n /\ Len(buffer) \in Nat
    BY <1>2, <2>1
  <2>3. Len(buffer \o t) >= 1
    BY <1>3, <2>2
  <2> QED BY <2>1, <2>2, <2>3
<1>5. wire' \in Seq(HalfLines)
  BY <1>1, <1>2
<1>6. buffer' \in Seq(HalfLines)
  <2>1. h[Len(h)] \in HalfLines
    BY <1>4
  <2> QED BY <1>1, <1>4, <2>1 DEF Rest, Last
<1>7. queue' \in Seq(Chunks)
  BY <1>1, <1>4, DecodedTyped
<1>8. ProviderInv'
  BY DEF Read, FlowInv, ProviderInv, provider
<1> QED BY <1>5, <1>6, <1>7, <1>8 DEF FlowInv

LEMMA FlowStep ==
  ASSUME FlowInv, [StreamNext]_streamVars
  PROVE  FlowInv'
<1>1. CASE Pass
  <2>1. queue' \in Seq(Chunks)
    BY <1>1 DEF Pass, FlowInv
  <2> QED BY <1>1, <2>1 DEF Pass, FlowInv, ProviderInv, provider
<1>2. CASE EndOfStream \/ Meter \/ Take \/ HangUp
  BY <1>2 DEF EndOfStream, Meter, Take, HangUp, FlowInv, ProviderInv, provider, decoder
<1>3. CASE UNCHANGED streamVars
  BY <1>3 DEF streamVars, FlowInv, ProviderInv, provider, decoder
<1> QED
  BY <1>1, <1>2, <1>3, StartFlow, SayFlow, CallFlow, ArgueFlow, CallWholeFlow, FinishFlow,
     ReportErrorFlow, BreakFlow, ReadFlow
  DEF StreamNext, Gateway, Upstream

-----------------------------------------------------------------------------
(* The events of a message                                                 *)

BlockKind == {"text", "tool"}

Events == [name : EventNames \cup {"content_block_stop"}, index : Nat,
           kind : BlockKind \cup {"none"}, pieces : Seq(Nat)]

ContentBlocks == [kind : BlockKind, pieces : Seq(Nat)]

\* A block knows its call while it is open, and it is the newest.
TrackerInv ==
  /\ tracker = [open |-> tracker.open, source |-> tracker.source, current |-> tracker.current,
                next |-> tracker.next, blocks |-> tracker.blocks]
  /\ tracker.open \in BlockKind \cup {"none"}
  /\ tracker.current \in Nat /\ tracker.next \in Nat
  /\ tracker.open # "none" => tracker.next = tracker.current + 1
  /\ DOMAIN tracker.blocks = IF tracker.open = "tool" THEN {tracker.source} ELSE {}

\* The client has had n blocks so far.
Had(n) == client.blocks \in [0 .. n - 1 -> ContentBlocks]

\* Nothing is left to yield from the i-th event on, or a delta of the block that is open.
Growing(i) ==
  \/ Len(out) = i - 1
  \/ /\ Len(out) = i /\ tracker.open # "none"
     /\ out[i].name = "content_block_delta" /\ out[i].index = tracker.current
     /\ out[i].pieces # <<>>

Opening(i) ==
  /\ i <= Len(out) /\ tracker.open # "none"
  /\ out[i].name = "content_block_start" /\ out[i].index = tracker.current
  /\ out[i].kind \in BlockKind
  /\ Growing(i + 1)

\* Where the client is while the answer streams.
Following ==
  \/ /\ client.phase = "before" /\ client.open = None /\ Had(0) /\ tracker.open = "none"
     /\ tracker.next = 0 /\ Len(out) = 1 /\ out[1].name = "message_start"
  \/ /\ client.phase = "message" /\ Had(tracker.next) /\ Growing(1)
     /\ client.open = IF tracker.open = "none" THEN None ELSE tracker.current
  \/ /\ client.phase = "message" /\ Had(tracker.current) /\ client.open = None /\ Opening(1)
  \/ /\ client.phase = "message" /\ Had(tracker.current) /\ client.open \in Nat
     /\ Len(out) >= 1 /\ out[1].name = "content_block_stop" /\ Opening(2)

Stopping(i) == Len(out) = i /\ out[i].name = "message_stop"

Ending(i) == i <= Len(out) /\ out[i].name = "message_delta" /\ Stopping(i + 1)

Shutting(i) == i <= Len(out) /\ out[i].name = "content_block_stop" /\ Ending(i + 1)

\* What ends an answer, from its i-th event on.
LastWords(i) == IF client.open = None THEN Ending(i) ELSE client.open \in Nat /\ Shutting(i)

\* Where it is at the end.
Leaving ==
  \/ client.phase = "message" /\ LastWords(1)
  \/ client.phase = "message" /\ Len(out) >= 1 /\ out[1].name = "error" /\ LastWords(2)
  \/ client.phase = "delta" /\ client.open = None /\ Stopping(1)
  \/ client.phase = "stopped" /\ out = <<>>

MessageInv ==
  surface = "messages" =>
    /\ TrackerInv
    /\ out \in Seq(Events)
    /\ client = [phase |-> client.phase, open |-> client.open, blocks |-> client.blocks,
                 failed |-> client.failed]
    /\ at = "streaming" => Following
    /\ at = "closing" => Leaving

LEMMA EventTyped ==
  ASSUME NEW name \in EventNames \cup {"content_block_stop"}, NEW n \in Nat,
         NEW kind \in BlockKind \cup {"none"}, NEW pieces \in Seq(Nat)
  PROVE  Event(name, n, kind, pieces) \in Events
BY DEF Event, Events

LEMMA MessageBegins == StreamInit => MessageInv
<1> SUFFICES ASSUME StreamInit, surface = "messages" PROVE MessageInv
  BY DEF MessageInv
<1>1. tracker = NoBlocks /\ at = "streaming"
  BY DEF StreamInit
<1>2. TrackerInv
  BY <1>1 DEF TrackerInv, NoBlocks
<1>3. PICK e \in Events : e = Event("message_start", 0, "none", <<>>) /\ e.name = "message_start"
  <2>1. Event("message_start", 0, "none", <<>>) \in Events
    <3>1. "message_start" \in EventNames /\ "none" \in BlockKind \cup {"none"} /\ <<>> \in Seq(Nat)
      BY DEF EventNames
    <3> QED BY <3>1, EventTyped
  <2> QED BY <2>1 DEF Event
<1>4. out = <<e>>
  BY <1>3 DEF StreamInit
<1>5. out \in Seq(Events) /\ Len(out) = 1 /\ out[1].name = "message_start"
  BY <1>3, <1>4
<1>6. client = [phase |-> "before", open |-> None, blocks |-> <<>>, failed |-> FALSE]
  BY DEF StreamInit
<1>7. Had(0)
  <2>1. 0 .. 0 - 1 = {}
    OBVIOUS
  <2>2. client.blocks = <<>>
    BY <1>6
  <2> QED BY <2>1, <2>2 DEF Had
<1>8. Following
  BY <1>1, <1>5, <1>6, <1>7 DEF Following, NoBlocks
<1> QED BY <1>1, <1>2, <1>5, <1>6, <1>8 DEF MessageInv

\* A chunk that does not fit the open block closes it and opens the next.
LEMMA OpensNext ==
  ASSUME TrackerInv, NEW chunk \in Chunks
  PROVE  LET now == OpenBlock(tracker, chunk)
         IN  /\ now.open \in BlockKind /\ now.current = tracker.next
             /\ now.next = tracker.next + 1
             /\ DOMAIN now.blocks = IF now.open = "tool" THEN {now.source} ELSE {}
             /\ now = [open |-> now.open, source |-> now.source, current |-> now.current,
                       next |-> now.next, blocks |-> now.blocks]
<1> DEFINE closed == Close(tracker)
<1>1. DOMAIN closed.blocks = {} /\ closed.next = tracker.next
  <2>1. CASE tracker.open = "tool"
    BY <2>1 DEF TrackerInv, Close, Restrict
  <2>2. CASE tracker.open # "tool"
    BY <2>2 DEF TrackerInv, Close
  <2> QED BY <2>1, <2>2
<1> HIDE DEF closed
<1>2. \A source : Assigned(closed, source) = closed.next
  BY <1>1 DEF Assigned
<1>3. \A source, n : DOMAIN Put(closed.blocks, source, n) = {source}
  BY <1>1 DEF Put
<1>4. CASE chunk.call # None
  BY <1>1, <1>2, <1>3, <1>4 DEF OpenBlock, closed, BlockKind
<1>5. CASE chunk.call = None
  BY <1>1, <1>2, <1>5 DEF OpenBlock, closed, BlockKind
<1> QED BY <1>4, <1>5

\* The delta of a chunk, if it has something to add.
LEMMA DeltaTyped ==
  ASSUME NEW n \in Nat, NEW pieces \in Seq(Nat)
  PROVE  \/ DeltaEvents(n, pieces) = <<>>
         \/ \E d \in Events :
              /\ DeltaEvents(n, pieces) = <<d>> /\ pieces # <<>>
              /\ d.name = "content_block_delta" /\ d.index = n /\ d.pieces # <<>>
<1>1. CASE pieces = <<>>
  BY <1>1 DEF DeltaEvents
<1>2. CASE pieces # <<>>
  <2>1. PICK d : d = Event("content_block_delta", n, "none", pieces)
    OBVIOUS
  <2>2. "content_block_delta" \in EventNames \cup {"content_block_stop"} /\ "none" \in BlockKind \cup {"none"}
    BY DEF EventNames
  <2>3. d \in Events
    BY <2>1, <2>2, EventTyped
  <2> QED BY <1>2, <2>1, <2>3 DEF DeltaEvents, Event
<1> QED BY <1>1, <1>2

LEMMA AtMostOneDelta ==
  ASSUME NEW n \in Nat, NEW pieces \in Seq(Nat)
  PROVE  \E rest \in Seq(Events) :
           /\ rest = DeltaEvents(n, pieces)
           /\ \/ Len(rest) = 0
              \/ /\ Len(rest) = 1 /\ rest[1].name = "content_block_delta"
                 /\ rest[1].index = n /\ rest[1].pieces # <<>>
<1>1. CASE DeltaEvents(n, pieces) = <<>>
  <2>1. <<>> \in Seq(Events) /\ Len(<<>>) = 0
    OBVIOUS
  <2> QED BY <1>1, <2>1
<1>2. ASSUME NEW d \in Events, DeltaEvents(n, pieces) = <<d>>, d.name = "content_block_delta",
             d.index = n, d.pieces # <<>>
      PROVE  \E rest \in Seq(Events) :
               /\ rest = DeltaEvents(n, pieces)
               /\ Len(rest) = 1 /\ rest[1].name = "content_block_delta"
               /\ rest[1].index = n /\ rest[1].pieces # <<>>
  <2>1. <<d>> \in Seq(Events) /\ Len(<<d>>) = 1 /\ <<d>>[1] = d
    OBVIOUS
  <2> QED BY <1>2, <2>1
<1> QED BY <1>1, <1>2, DeltaTyped

LEMMA ChunkPieces ==
  ASSUME NEW chunk \in Chunks
  PROVE  (IF chunk.call # None THEN chunk.call.pieces ELSE chunk.delta) \in Seq(Nat)
<1>1. CASE chunk.call # None
  <2>1. chunk.call \in Fragments
    BY <1>1 DEF Chunks
  <2> QED BY <1>1, <2>1 DEF Fragments
<1>2. CASE chunk.call = None
  BY <1>2 DEF Chunks
<1> QED BY <1>1, <1>2

\* What one chunk becomes: nothing or a delta, or a block that is opened once the other is closed.
LEMMA PassFollows ==
  ASSUME FlowInv, MessageInv, surface = "messages", Pass
  PROVE  MessageInv'
<1>1. PICK chunk \in Chunks : chunk = Head(queue)
  BY DEF FlowInv, Pass
<1>2. /\ out' = EventsFor(tracker, chunk) /\ tracker' = Tracked(tracker, chunk)
      /\ client' = client /\ surface' = surface /\ at' = at /\ at = "streaming" /\ out = <<>>
  BY <1>1 DEF Pass
<1>3. TrackerInv /\ Following
  BY <1>2 DEF MessageInv
<1>4. /\ client.phase = "message" /\ Had(tracker.next)
      /\ client.open = IF tracker.open = "none" THEN None ELSE tracker.current
  BY <1>2, <1>3 DEF Following, Opening
<1>5. PICK pieces \in Seq(Nat) : pieces = IF chunk.call # None THEN chunk.call.pieces ELSE chunk.delta
  BY ChunkPieces
<1>6. CASE ~Reopens(tracker, chunk)
  <2>1. tracker' = tracker /\ out' = <<>> \o DeltaEvents(tracker.current, pieces)
    BY <1>2, <1>5, <1>6 DEF EventsFor, Tracked
  <2>2. TrackerInv' /\ tracker.current \in Nat
    BY <1>3, <2>1 DEF TrackerInv
  <2>3. CASE DeltaEvents(tracker.current, pieces) = <<>>
    <3>1. out' = <<>>
      BY <2>1, <2>3
    <3>2. Growing(1)' /\ out' \in Seq(Events)
      BY <3>1 DEF Growing
    <3>3. Following'
      BY <1>2, <1>4, <2>1, <3>2 DEF Following, Had
    <3> QED BY <1>2, <2>2, <3>2, <3>3 DEF MessageInv
  <2>4. ASSUME NEW d \in Events, DeltaEvents(tracker.current, pieces) = <<d>>, pieces # <<>>,
               d.name = "content_block_delta", d.index = tracker.current, d.pieces # <<>>
        PROVE  MessageInv'
    <3>1. tracker.open # "none"
      BY <1>5, <1>6, <2>4 DEF Reopens, Silent, Continuing
    <3>2. out' = <<d>>
      BY <2>1, <2>4
    <3>3. out' \in Seq(Events) /\ Len(out') = 1 /\ out'[1] = d
      BY <3>2
    <3>4. Growing(1)'
      BY <2>1, <2>4, <3>1, <3>3 DEF Growing
    <3>5. Following'
      BY <1>2, <1>4, <2>1, <3>4 DEF Following, Had
    <3> QED BY <1>2, <2>2, <3>3, <3>5 DEF MessageInv
  <2> QED BY <2>2, <2>3, <2>4, DeltaTyped
<1>7. CASE Reopens(tracker, chunk)
  <2>1. /\ tracker' = OpenBlock(tracker, chunk)
        /\ out' = (CloseEvents(tracker)
                     \o <<Event("content_block_start", tracker'.current, tracker'.open, <<>>)>>)
                   \o DeltaEvents(tracker'.current, pieces)
    BY <1>2, <1>5, <1>7 DEF EventsFor, Tracked
  <2>2. /\ tracker'.open \in BlockKind /\ tracker'.current = tracker.next
        /\ tracker'.next = tracker.next + 1
        /\ DOMAIN tracker'.blocks = IF tracker'.open = "tool" THEN {tracker'.source} ELSE {}
        /\ tracker' = [open |-> tracker'.open, source |-> tracker'.source,
                       current |-> tracker'.current, next |-> tracker'.next,
                       blocks |-> tracker'.blocks]
    BY <1>3, <2>1, OpensNext
  <2>3. TrackerInv' /\ tracker'.open # "none" /\ tracker'.current \in Nat
    BY <1>3, <2>2 DEF TrackerInv, BlockKind
  <2>4. PICK s \in Events :
          /\ s = Event("content_block_start", tracker'.current, tracker'.open, <<>>)
          /\ s.name = "content_block_start" /\ s.index = tracker'.current /\ s.kind \in BlockKind
    <3>1. "content_block_start" \in EventNames \cup {"content_block_stop"} /\ <<>> \in Seq(Nat)
      BY DEF EventNames
    <3>2. Event("content_block_start", tracker'.current, tracker'.open, <<>>) \in Events
      BY <2>2, <2>3, <3>1, EventTyped
    <3> QED BY <2>2, <3>2 DEF Event
  <2>5. PICK rest \in Seq(Events) :
          /\ rest = DeltaEvents(tracker'.current, pieces)
          /\ \/ Len(rest) = 0
             \/ /\ Len(rest) = 1 /\ rest[1].name = "content_block_delta"
                /\ rest[1].index = tracker'.current /\ rest[1].pieces # <<>>
    BY <2>3, AtMostOneDelta
  <2>6. CASE tracker.open = "none"
    <3>1. out' = (<<>> \o <<s>>) \o rest
      BY <2>1, <2>4, <2>5, <2>6 DEF CloseEvents
    <3>2. out' \in Seq(Events) /\ Len(out') = 1 + Len(rest) /\ out'[1] = s
      BY <3>1
    <3>3. Len(rest) = 1 => out'[2] = rest[1]
      BY <3>1
    <3>4. Growing(2)'
      <4>1. CASE Len(rest) = 0
        <5>1. Len(out') = 2 - 1
          BY <3>2, <4>1
        <5> QED BY <5>1 DEF Growing
      <4>2. CASE Len(rest) = 1
        <5>1. Len(out') = 2 /\ out'[2] = rest[1]
          BY <3>2, <3>3, <4>2
        <5> QED BY <2>3, <2>5, <4>2, <5>1 DEF Growing
      <4> QED BY <2>5, <4>1, <4>2
    <3>5. Opening(1)'
      BY <2>3, <2>4, <3>2, <3>4 DEF Opening
    <3>6. Following'
      BY <1>2, <1>4, <2>2, <2>6, <3>5 DEF Following, Had
    <3> QED BY <1>2, <2>3, <3>2, <3>6 DEF MessageInv
  <2>7. CASE tracker.open # "none"
    <3>1. PICK c \in Events : c = Event("content_block_stop", tracker.current, "none", <<>>)
                              /\ c.name = "content_block_stop"
      <4>1. "none" \in BlockKind \cup {"none"} /\ <<>> \in Seq(Nat) /\ tracker.current \in Nat
            /\ "content_block_stop" \in EventNames \cup {"content_block_stop"}
        BY <1>3 DEF TrackerInv
      <4>2. Event("content_block_stop", tracker.current, "none", <<>>) \in Events
        BY <4>1, EventTyped
      <4> QED BY <4>2 DEF Event
    <3>2. out' = (<<c>> \o <<s>>) \o rest
      BY <2>1, <2>4, <2>5, <2>7, <3>1 DEF CloseEvents
    <3>3. out' \in Seq(Events) /\ Len(out') = 2 + Len(rest) /\ out'[1] = c /\ out'[2] = s
      BY <3>2
    <3>4. Len(rest) = 1 => out'[3] = rest[1]
      <4>1. PICK both \in Seq(Events) : both = <<c>> \o <<s>> /\ Len(both) = 2
        <5>1. <<c>> \o <<s>> \in Seq(Events) /\ Len(<<c>> \o <<s>>) = 2
          OBVIOUS
        <5> QED BY <5>1
      <4>2. out' = both \o rest
        BY <3>2, <4>1
      <4>3. SUFFICES ASSUME Len(rest) = 1 PROVE out'[3] = rest[1]
        OBVIOUS
      <4>4. 1 \in 1 .. Len(rest)
        BY <4>3
      <4>5. (both \o rest)[Len(both) + 1] = rest[1]
        BY <4>4, ConcatAt
      <4>6. Len(both) + 1 = 3
        BY <4>1
      <4> QED BY <4>2, <4>5, <4>6
    <3>5. Growing(3)'
      <4>1. CASE Len(rest) = 0
        <5>1. Len(out') = 3 - 1
          BY <3>3, <4>1
        <5> QED BY <5>1 DEF Growing
      <4>2. CASE Len(rest) = 1
        <5>1. Len(out') = 3 /\ out'[3] = rest[1]
          BY <3>3, <3>4, <4>2
        <5> QED BY <2>3, <2>5, <4>2, <5>1 DEF Growing
      <4> QED BY <2>5, <4>1, <4>2
    <3>6. Opening(2)' /\ Len(out') >= 1
      BY <2>3, <2>4, <3>3, <3>5 DEF Opening
    <3>7. client'.open \in Nat
      BY <1>2, <1>3, <1>4, <2>7 DEF TrackerInv
    <3>8. Following'
      BY <1>2, <1>4, <2>2, <3>1, <3>3, <3>6, <3>7 DEF Following, Had
    <3> QED BY <1>2, <2>3, <3>3, <3>8 DEF MessageInv
  <2> QED BY <2>6, <2>7
<1> QED BY <1>6, <1>7

\* The events that end an answer.
LEMMA ClosingWords ==
  ASSUME TrackerInv
  PROVE  \E w \in Seq(Events) :
           /\ w = CloseEvents(tracker) \o <<Event("message_delta", 0, "none", <<>>),
                                            Event("message_stop", 0, "none", <<>>)>>
           /\ tracker.open = "none" =>
                Len(w) = 2 /\ w[1].name = "message_delta" /\ w[2].name = "message_stop"
           /\ tracker.open # "none" =>
                /\ Len(w) = 3 /\ w[1].name = "content_block_stop"
                /\ w[2].name = "message_delta" /\ w[3].name = "message_stop"
<1>1. /\ {"message_delta", "message_stop", "content_block_stop"}
           \subseteq EventNames \cup {"content_block_stop"}
      /\ "none" \in BlockKind \cup {"none"} /\ <<>> \in Seq(Nat) /\ 0 \in Nat
      /\ tracker.current \in Nat
  BY DEF EventNames, TrackerInv
<1>2. PICK d \in Events : d = Event("message_delta", 0, "none", <<>>) /\ d.name = "message_delta"
  <2>1. Event("message_delta", 0, "none", <<>>) \in Events
    BY <1>1, EventTyped
  <2> QED BY <2>1 DEF Event
<1>3. PICK s \in Events : s = Event("message_stop", 0, "none", <<>>) /\ s.name = "message_stop"
  <2>1. Event("message_stop", 0, "none", <<>>) \in Events
    BY <1>1, EventTyped
  <2> QED BY <2>1 DEF Event
<1>4. PICK c \in Events :
        c = Event("content_block_stop", tracker.current, "none", <<>>) /\ c.name = "content_block_stop"
  <2>1. Event("content_block_stop", tracker.current, "none", <<>>) \in Events
    BY <1>1, EventTyped
  <2> QED BY <2>1 DEF Event
<1>5. CASE tracker.open = "none"
  <2>1. CloseEvents(tracker) \o <<d, s>> = <<>> \o <<d, s>>
    BY <1>5 DEF CloseEvents
  <2>2. PICK w \in Seq(Events) : w = <<>> \o <<d, s>> /\ Len(w) = 2 /\ w[1] = d /\ w[2] = s
    <3>1. <<>> \o <<d, s>> = <<d, s>> /\ <<d, s>> \in Seq(Events)
      OBVIOUS
    <3> QED BY <3>1
  <2> QED BY <1>2, <1>3, <1>5, <2>1, <2>2
<1>6. CASE tracker.open # "none"
  <2>1. CloseEvents(tracker) \o <<d, s>> = <<c>> \o <<d, s>>
    BY <1>4, <1>6 DEF CloseEvents
  <2>2. PICK w \in Seq(Events) :
          w = <<c>> \o <<d, s>> /\ Len(w) = 3 /\ w[1] = c /\ w[2] = d /\ w[3] = s
    <3>1. PICK a \in Seq(Events) : a = <<c>> /\ Len(a) = 1 /\ a[1] = c
      <4>1. <<c>> \in Seq(Events) /\ Len(<<c>>) = 1 /\ <<c>>[1] = c
        OBVIOUS
      <4> QED BY <4>1
    <3>2. PICK b \in Seq(Events) : b = <<d, s>> /\ Len(b) = 2 /\ b[1] = d /\ b[2] = s
      <4>1. <<d, s>> \in Seq(Events) /\ Len(<<d, s>>) = 2 /\ <<d, s>>[1] = d /\ <<d, s>>[2] = s
        OBVIOUS
      <4> QED BY <4>1
    <3>3. a \o b \in Seq(Events) /\ Len(a \o b) = 3 /\ (a \o b)[1] = c
      BY <3>1, <3>2
    <3>4. 1 \in 1 .. Len(b) /\ 2 \in 1 .. Len(b) /\ Len(a) + 1 = 2 /\ Len(a) + 2 = 3
      BY <3>1, <3>2
    <3>5. (a \o b)[2] = d /\ (a \o b)[3] = s
      BY <3>2, <3>4, ConcatAt
    <3> QED BY <3>1, <3>2, <3>3, <3>5
  <2> QED BY <1>2, <1>3, <1>4, <1>6, <2>1, <2>2
<1> QED BY <1>5, <1>6

LEMMA EndLeaves ==
  ASSUME MessageInv, surface = "messages", EndOfStream
  PROVE  MessageInv'
<1>1. /\ out' = (IF link = "broken" THEN <<Event("error", 0, "none", <<>>)>> ELSE <<>>) \o Terminator
      /\ tracker' = Close(tracker)
      /\ client' = client /\ surface' = surface /\ at' = "closing" /\ at = "streaming" /\ out = <<>>
  BY DEF EndOfStream
<1>2. TrackerInv /\ Following
  BY <1>1 DEF MessageInv
<1>3. /\ client.phase = "message"
      /\ client.open = IF tracker.open = "none" THEN None ELSE tracker.current
      /\ tracker.current \in Nat
  BY <1>1, <1>2 DEF Following, Opening, TrackerInv
<1>4. TrackerInv'
  <2>1. CASE tracker.open = "tool"
    BY <1>1, <1>2, <2>1 DEF TrackerInv, Close, Restrict
  <2>2. CASE tracker.open # "tool"
    BY <1>1, <1>2, <2>2 DEF TrackerInv, Close
  <2> QED BY <2>1, <2>2
<1>5. PICK w \in Seq(Events) :
        /\ w = Terminator
        /\ tracker.open = "none" =>
             Len(w) = 2 /\ w[1].name = "message_delta" /\ w[2].name = "message_stop"
        /\ tracker.open # "none" =>
             /\ Len(w) = 3 /\ w[1].name = "content_block_stop"
             /\ w[2].name = "message_delta" /\ w[3].name = "message_stop"
  BY <1>2, ClosingWords DEF Terminator
<1>6. CASE link # "broken"
  <2>1. out' = <<>> \o w
    BY <1>1, <1>5, <1>6
  <2>2. out' = w
    BY <2>1
  <2>3. LastWords(1)'
    <3>1. CASE tracker.open = "none"
      <4>1. Stopping(2)'
        BY <1>5, <2>2, <3>1 DEF Stopping
      <4>2. Ending(1)'
        BY <1>5, <2>2, <3>1, <4>1 DEF Ending
      <4> QED BY <1>1, <1>3, <3>1, <4>2 DEF LastWords
    <3>2. CASE tracker.open # "none"
      <4>1. Stopping(3)'
        BY <1>5, <2>2, <3>2 DEF Stopping
      <4>2. Ending(2)'
        BY <1>5, <2>2, <3>2, <4>1 DEF Ending
      <4>3. Shutting(1)'
        BY <1>5, <2>2, <3>2, <4>2 DEF Shutting
      <4> QED BY <1>1, <1>3, <3>2, <4>3, StreamAssumption DEF LastWords
    <3> QED BY <3>1, <3>2
  <2> QED BY <1>1, <1>3, <1>4, <2>2, <2>3 DEF MessageInv, Leaving
<1>7. CASE link = "broken"
  <2>1. PICK e \in Events : e = Event("error", 0, "none", <<>>) /\ e.name = "error"
    <3>1. /\ "error" \in EventNames \cup {"content_block_stop"} /\ "none" \in BlockKind \cup {"none"}
          /\ <<>> \in Seq(Nat) /\ 0 \in Nat
      BY DEF EventNames
    <3>2. Event("error", 0, "none", <<>>) \in Events
      BY <3>1, EventTyped
    <3> QED BY <3>2 DEF Event
  <2>2. out' = <<e>> \o w
    BY <1>1, <1>5, <1>7, <2>1
  <2>3. <<e>> \in Seq(Events) /\ Len(<<e>>) = 1 /\ <<e>>[1] = e
    OBVIOUS
  <2>4. out' \in Seq(Events) /\ Len(out') = 1 + Len(w) /\ out'[1] = e
    BY <2>2, <2>3
  <2>5. \A i \in 1 .. Len(w) : out'[1 + i] = w[i]
    BY <2>2, <2>3, ConcatAt
  <2>6. LastWords(2)'
    <3>1. CASE tracker.open = "none"
      <4>1. 1 \in 1 .. Len(w) /\ 2 \in 1 .. Len(w) /\ 1 + 1 = 2 /\ 1 + 2 = 3
        BY <1>5, <3>1
      <4>2. out'[2] = w[1] /\ out'[3] = w[2] /\ Len(out') = 3
        BY <1>5, <2>4, <2>5, <3>1, <4>1
      <4>3. Stopping(3)'
        BY <1>5, <3>1, <4>2 DEF Stopping
      <4>4. Ending(2)'
        BY <1>5, <3>1, <4>2, <4>3 DEF Ending
      <4> QED BY <1>1, <1>3, <3>1, <4>4 DEF LastWords
    <3>2. CASE tracker.open # "none"
      <4>1. /\ 1 \in 1 .. Len(w) /\ 2 \in 1 .. Len(w) /\ 3 \in 1 .. Len(w)
            /\ 1 + 1 = 2 /\ 1 + 2 = 3 /\ 1 + 3 = 4
        BY <1>5, <3>2
      <4>2. out'[2] = w[1] /\ out'[3] = w[2] /\ out'[4] = w[3] /\ Len(out') = 4
        BY <1>5, <2>4, <2>5, <3>2, <4>1
      <4>3. Stopping(4)'
        BY <1>5, <3>2, <4>2 DEF Stopping
      <4>4. Ending(3)'
        BY <1>5, <3>2, <4>2, <4>3 DEF Ending
      <4>5. Shutting(2)'
        BY <1>5, <3>2, <4>2, <4>4 DEF Shutting
      <4> QED BY <1>1, <1>3, <3>2, <4>5, StreamAssumption DEF LastWords
    <3> QED BY <3>1, <3>2
  <2> QED BY <1>1, <1>3, <1>4, <2>1, <2>4, <2>6 DEF MessageInv, Leaving
<1> QED BY <1>6, <1>7

\* The next event, and what is left behind it.
LEMMA Taken ==
  ASSUME MessageInv, surface = "messages", Take
  PROVE  /\ out[1] \in Events /\ client' = OnEvent(client, out[1])
         /\ Len(out) \in Nat /\ Len(out) >= 1
         /\ out' \in Seq(Events) /\ Len(out') = Len(out) - 1
         /\ \A i \in 1 .. Len(out) - 1 : out'[i] = out[i + 1]
         /\ tracker' = tracker /\ surface' = surface /\ at' = at /\ TrackerInv'
<1>1. out \in Seq(Events) /\ out # <<>> /\ out' = Tail(out) /\ TrackerInv
  BY DEF MessageInv, Take
<1>2. Len(out) \in Nat /\ Len(out) >= 1
  BY <1>1
<1>3. out[1] \in Events /\ Head(out) = out[1]
  BY <1>1, <1>2
<1>4. out' \in Seq(Events) /\ Len(out') = Len(out) - 1
  BY <1>1
<1>5. \A i \in 1 .. Len(out) - 1 : out'[i] = out[i + 1]
  BY <1>1
<1>6. tracker' = tracker
  BY DEF Take
<1> QED BY <1>1, <1>2, <1>3, <1>4, <1>5, <1>6 DEF Take, TrackerInv

\* What is left to yield moves up by one.
LEMMA MovesUp ==
  ASSUME MessageInv, surface = "messages", Take, NEW i \in Nat \ {0}
  PROVE  /\ Growing(i + 1) => Growing(i)'
         /\ Opening(i + 1) => Opening(i)'
         /\ Stopping(i + 1) => Stopping(i)'
         /\ Ending(i + 1) => Ending(i)'
         /\ Shutting(i + 1) => Shutting(i)'
<1>1. /\ Len(out) \in Nat /\ Len(out') = Len(out) - 1 /\ tracker' = tracker
      /\ \A j \in 1 .. Len(out) - 1 : out'[j] = out[j + 1]
  BY Taken
<1>2. ASSUME NEW j \in Nat \ {0} PROVE Growing(j + 1) => Growing(j)'
  <2>1. CASE Len(out) = j + 1 - 1
    <3>1. Len(out') = j - 1
      BY <1>1, <2>1
    <3> QED BY <3>1 DEF Growing
  <2>2. CASE Len(out) = j + 1
    <3>1. Len(out') = j /\ out'[j] = out[j + 1]
      BY <1>1, <2>2
    <3> QED BY <1>1, <2>2, <3>1 DEF Growing
  <2> QED BY <2>1, <2>2 DEF Growing
<1>3. ASSUME NEW j \in Nat \ {0} PROVE Stopping(j + 1) => Stopping(j)'
  <2>1. CASE Len(out) = j + 1
    <3>1. Len(out') = j /\ out'[j] = out[j + 1]
      BY <1>1, <2>1
    <3> QED BY <3>1 DEF Stopping
  <2> QED BY <2>1 DEF Stopping
<1>4. ASSUME NEW j \in Nat \ {0}, j + 1 <= Len(out)
      PROVE  j <= Len(out') /\ out'[j] = out[j + 1] /\ j + 1 \in Nat \ {0}
  BY <1>1, <1>4
<1>5. ASSUME NEW j \in Nat \ {0} PROVE Opening(j + 1) => Opening(j)'
  <2> SUFFICES ASSUME Opening(j + 1) PROVE Opening(j)'
    OBVIOUS
  <2>1. j + 1 <= Len(out) /\ Growing(j + 1 + 1)
    BY DEF Opening
  <2>2. Growing(j + 1)'
    BY <1>2, <1>4, <2>1
  <2> QED BY <1>1, <1>4, <2>1, <2>2 DEF Opening
<1>6. ASSUME NEW j \in Nat \ {0} PROVE Ending(j + 1) => Ending(j)'
  <2> SUFFICES ASSUME Ending(j + 1) PROVE Ending(j)'
    OBVIOUS
  <2>1. j + 1 <= Len(out) /\ Stopping(j + 1 + 1)
    BY DEF Ending
  <2>2. Stopping(j + 1)'
    BY <1>3, <1>4, <2>1
  <2> QED BY <1>4, <2>1, <2>2 DEF Ending
<1>7. ASSUME NEW j \in Nat \ {0} PROVE Shutting(j + 1) => Shutting(j)'
  <2> SUFFICES ASSUME Shutting(j + 1) PROVE Shutting(j)'
    OBVIOUS
  <2>1. j + 1 <= Len(out) /\ Ending(j + 1 + 1)
    BY DEF Shutting
  <2>2. Ending(j + 1)'
    BY <1>4, <1>6, <2>1
  <2> QED BY <1>4, <2>1, <2>2 DEF Shutting
<1> QED BY <1>2, <1>3, <1>5, <1>6, <1>7

\* What the protocol sees of the client.
LEMMA MessageView ==
  ASSUME surface = "messages", surface' = surface
  PROVE  /\ MessagePhase = client.phase /\ MessagePhase' = client'.phase
         /\ MessageOpen = client.open /\ MessageOpen' = client'.open
         /\ MessageSizes = [i \in DOMAIN client.blocks |-> Len(client.blocks[i].pieces)]
         /\ MessageSizes' = [i \in DOMAIN client'.blocks |-> Len(client'.blocks[i].pieces)]
BY DEF MessagePhase, MessageOpen, MessageSizes

MessageStep == Protocol!Next \/ UNCHANGED <<MessagePhase, MessageOpen, MessageSizes>>

\* The first event.
LEMMA TakeStart ==
  ASSUME MessageInv, surface = "messages", Take, at = "streaming",
         client.phase = "before", client.open = None, Had(0), tracker.open = "none",
         tracker.next = 0, Len(out) = 1, out[1].name = "message_start"
  PROVE  MessageInv' /\ MessageStep
<1>1. client' = [client EXCEPT !.phase = "message"]
  BY Taken DEF OnEvent
<1>2. client = [phase |-> client.phase, open |-> client.open, blocks |-> client.blocks,
                failed |-> client.failed]
  BY DEF MessageInv
<1>3. client' = [phase |-> "message", open |-> client.open, blocks |-> client.blocks,
                 failed |-> client.failed]
  BY <1>1, <1>2
<1>4. Growing(1)'
  BY Taken DEF Growing
<1>5. Following'
  BY <1>3, <1>4, Taken DEF Following, Had
<1>6. Protocol!MessageStart
  BY <1>3, MessageView, Taken DEF Protocol!MessageStart
<1> QED BY <1>3, <1>5, <1>6, Taken DEF MessageInv, MessageStep, Protocol!Next

\* A delta reaches the open block.
LEMMA TakeDelta ==
  ASSUME MessageInv, surface = "messages", Take, at = "streaming",
         client.phase = "message", Had(tracker.next), Growing(1),
         client.open = IF tracker.open = "none" THEN None ELSE tracker.current
  PROVE  MessageInv' /\ MessageStep
<1> DEFINE e == out[1]
           n == tracker.current
<1>1. /\ Len(out) = 1 /\ tracker.open # "none" /\ e.name = "content_block_delta" /\ e.index = n
      /\ e.pieces # <<>> /\ e \in Events
  BY Taken DEF Growing
<1>2. e.pieces \in Seq(Nat)
  BY <1>1 DEF Events
<1>3. n \in Nat /\ tracker.next = n + 1
  BY <1>1 DEF MessageInv, TrackerInv
<1>4. n \in 0 .. tracker.next - 1 /\ client.blocks \in [0 .. tracker.next - 1 -> ContentBlocks]
  BY <1>3 DEF Had
<1>5. PICK b \in ContentBlocks : b = client.blocks[n]
  BY <1>4
<1>6. PICK c \in ContentBlocks : c = [b EXCEPT !.pieces = @ \o e.pieces] /\ c.pieces = b.pieces \o e.pieces
  <2>1. b.pieces \o e.pieces \in Seq(Nat)
    BY <1>2 DEF ContentBlocks
  <2>2. [b EXCEPT !.pieces = @ \o e.pieces] \in ContentBlocks
    BY <2>1 DEF ContentBlocks
  <2> QED BY <2>2 DEF ContentBlocks
<1>7. client' = [client EXCEPT !.blocks[n].pieces = @ \o e.pieces]
  BY <1>1, Taken DEF OnEvent
<1>8. client = [phase |-> client.phase, open |-> client.open, blocks |-> client.blocks,
                failed |-> client.failed]
  BY DEF MessageInv
<1>9. client' = [phase |-> client.phase, open |-> client.open,
                 blocks |-> [client.blocks EXCEPT ![n] = c], failed |-> client.failed]
  BY <1>5, <1>6, <1>7, <1>8
<1>10. Had(tracker.next)'
  BY <1>4, <1>9, Taken DEF Had
<1>11. Growing(1)'
  BY <1>1, Taken DEF Growing
<1>12. Following'
  BY <1>9, <1>10, <1>11, Taken DEF Following
<1>13. Protocol!BlockDelta
  <2>1. /\ Len(c.pieces) > Len(b.pieces)
    BY <1>2, <1>1, <1>6 DEF ContentBlocks
  <2>2. /\ DOMAIN client'.blocks = DOMAIN client.blocks /\ client'.blocks[n] = c
        /\ \A i \in DOMAIN client.blocks \ {n} : client'.blocks[i] = client.blocks[i]
        /\ DOMAIN client.blocks = 0 .. tracker.next - 1
    BY <1>4, <1>9
  <2>3. MessageOpen = n /\ MessageOpen' = n /\ n # None
    BY <1>1, <1>3, <1>9, MessageView, Taken, StreamAssumption
  <2>4. MessagePhase = "message" /\ MessagePhase' = "message"
    BY <1>9, MessageView, Taken
  <2>5. PICK f : f = client.blocks
    OBVIOUS
  <2>6. PICK g : g = client'.blocks
    OBVIOUS
  <2>7. /\ MessageSizes = [i \in DOMAIN f |-> Len(f[i].pieces)]
        /\ MessageSizes' = [i \in DOMAIN g |-> Len(g[i].pieces)]
    BY <2>5, <2>6, MessageView, Taken
  <2>8. /\ DOMAIN g = DOMAIN f /\ n \in DOMAIN f /\ g[n] = c /\ f[n] = b
        /\ \A i \in DOMAIN f \ {n} : g[i] = f[i]
    BY <1>4, <1>5, <2>2, <2>5, <2>6
  <2>9. DOMAIN MessageSizes' = DOMAIN MessageSizes /\ DOMAIN MessageSizes = DOMAIN f
    BY <2>7, <2>8
  <2>10. MessageSizes'[n] = Len(c.pieces) /\ MessageSizes[n] = Len(b.pieces)
    BY <2>7, <2>8
  <2>11. \A i \in DOMAIN MessageSizes \ {n} : MessageSizes'[i] = MessageSizes[i]
    BY <2>7, <2>8
  <2> QED BY <2>1, <2>3, <2>4, <2>9, <2>10, <2>11 DEF Protocol!BlockDelta
<1> QED BY <1>9, <1>12, <1>13, Taken DEF MessageInv, MessageStep, Protocol!Next


\* A block is opened under the next index.
LEMMA TakeOpen ==
  ASSUME MessageInv, surface = "messages", Take, at = "streaming",
         client.phase = "message", Had(tracker.current), client.open = None, Opening(1)
  PROVE  MessageInv' /\ MessageStep
<1> DEFINE e == out[1]
           n == tracker.current
<1>1. /\ tracker.open # "none" /\ e.name = "content_block_start" /\ e.index = n
      /\ e.kind \in BlockKind /\ Growing(2)
  BY DEF Opening
<1>2. n \in Nat /\ tracker.next = n + 1
  BY <1>1 DEF MessageInv, TrackerInv
<1>3. PICK b \in ContentBlocks : b = [kind |-> e.kind, pieces |-> <<>>] /\ b.pieces = <<>>
  <2>1. [kind |-> e.kind, pieces |-> <<>>] \in ContentBlocks
    BY <1>1 DEF ContentBlocks
  <2> QED BY <2>1
<1>4. client' = [client EXCEPT !.open = n, !.blocks = Put(@, n, b)]
  BY <1>1, <1>3, Taken DEF OnEvent
<1>5. client = [phase |-> client.phase, open |-> client.open, blocks |-> client.blocks,
                failed |-> client.failed]
  BY DEF MessageInv
<1>6. client' = [phase |-> client.phase, open |-> n, blocks |-> Put(client.blocks, n, b),
                 failed |-> client.failed]
  BY <1>4, <1>5
<1>7. PICK f \in [0 .. n - 1 -> ContentBlocks] : f = client.blocks
  BY DEF Had
<1>8. PICK g : g = client'.blocks
  OBVIOUS
<1>9. g = [i \in 0 .. n |-> IF i = n THEN b ELSE f[i]]
  <2>1. (0 .. n - 1) \cup {n} = 0 .. n
    BY <1>2
  <2>2. DOMAIN f = 0 .. n - 1
    BY <1>7
  <2>3. g = Put(f, n, b)
    BY <1>6, <1>7, <1>8
  <2> QED BY <2>1, <2>2, <2>3 DEF Put
<1>10. g \in [0 .. n -> ContentBlocks]
  <2>1. ASSUME NEW i \in 0 .. n, i # n PROVE i \in 0 .. n - 1
    BY <1>2, <2>1
  <2> QED BY <1>7, <1>9, <2>1
<1>11. Had(tracker.next)'
  <2>1. tracker.next - 1 = n /\ tracker' = tracker
    BY <1>2, Taken
  <2> QED BY <1>8, <1>10, <2>1 DEF Had
<1>12. Growing(1)'
  <2>1. 1 \in Nat \ {0} /\ 1 + 1 = 2
    OBVIOUS
  <2> QED BY <1>1, <2>1, MovesUp
<1>13. Following'
  BY <1>1, <1>6, <1>11, <1>12, Taken DEF Following
<1>14. Protocol!BlockStart
  <2>1. MessageSizes = [i \in DOMAIN f |-> Len(f[i].pieces)]
    BY <1>7, MessageView, Taken
  <2>2. MessageSizes' = [i \in DOMAIN g |-> Len(g[i].pieces)]
    BY <1>8, MessageView, Taken
  <2>3. DOMAIN MessageSizes = 0 .. n - 1
    BY <1>7, <2>1
  <2>4. Cardinality(DOMAIN MessageSizes) = n
    <3>1. Cardinality(0 .. n - 1) = IF 0 > n - 1 THEN 0 ELSE n - 1 - 0 + 1
      BY <1>2, FS_Interval
    <3> QED BY <1>2, <2>3, <3>1
  <2>5. MessageSizes' = [i \in 0 .. n |-> Len(g[i].pieces)]
    BY <1>9, <2>2
  <2>6. ASSUME NEW i \in 0 .. n
        PROVE  Len(g[i].pieces) = IF i = n THEN 0 ELSE MessageSizes[i]
    <3>1. CASE i = n
      <4>1. g[i] = b
        BY <1>9, <3>1
      <4> QED BY <1>3, <3>1, <4>1
    <3>2. CASE i # n
      <4>1. i \in 0 .. n - 1
        BY <1>2, <3>2
      <4>2. g[i] = f[i]
        BY <1>9, <3>2
      <4> QED BY <1>7, <2>1, <3>2, <4>1, <4>2
    <3> QED BY <3>1, <3>2
  <2>7. MessageSizes' = [i \in 0 .. n |-> IF i = n THEN 0 ELSE MessageSizes[i]]
    BY <2>5, <2>6
  <2>8. /\ MessagePhase = "message" /\ MessagePhase' = "message"
        /\ MessageOpen = None /\ MessageOpen' = n
    BY <1>6, MessageView, Taken
  <2>9. PICK m : m = Cardinality(DOMAIN MessageSizes) /\ m = Protocol!Cardinality(DOMAIN MessageSizes)
    BY DEF Cardinality, Protocol!Cardinality
  <2>10. m = n
    BY <2>4, <2>9
  <2>11. MessageSizes' = [i \in 0 .. m |-> IF i = m THEN 0 ELSE MessageSizes[i]]
    BY <2>7, <2>10
  <2>12. MessageOpen' = m
    BY <2>8, <2>10
  <2> QED BY <2>8, <2>9, <2>11, <2>12 DEF Protocol!BlockStart
<1> QED BY <1>6, <1>13, <1>14, Taken DEF MessageInv, MessageStep, Protocol!Next

\* The open block is closed before the next is opened.
LEMMA TakeStop ==
  ASSUME MessageInv, surface = "messages", Take, at = "streaming",
         client.phase = "message", Had(tracker.current), client.open \in Nat,
         out[1].name = "content_block_stop", Opening(2)
  PROVE  MessageInv' /\ MessageStep
<1>1. client' = [client EXCEPT !.open = None]
  BY Taken DEF OnEvent
<1>2. client = [phase |-> client.phase, open |-> client.open, blocks |-> client.blocks,
                failed |-> client.failed]
  BY DEF MessageInv
<1>3. client' = [phase |-> client.phase, open |-> None, blocks |-> client.blocks,
                 failed |-> client.failed]
  BY <1>1, <1>2
<1>4. Opening(1)'
  <2>1. 1 \in Nat \ {0} /\ 1 + 1 = 2
    OBVIOUS
  <2> QED BY <2>1, MovesUp
<1>5. Following'
  BY <1>3, <1>4, Taken DEF Following, Had
<1>6. Protocol!BlockStop
  BY <1>3, MessageView, Taken, StreamAssumption DEF Protocol!BlockStop
<1> QED BY <1>3, <1>5, <1>6, Taken DEF MessageInv, MessageStep, Protocol!Next

\* The last events.
LEMMA TakeLast ==
  ASSUME MessageInv, surface = "messages", Take, at = "closing"
  PROVE  MessageInv' /\ MessageStep
<1>1. client = [phase |-> client.phase, open |-> client.open, blocks |-> client.blocks,
                failed |-> client.failed]
  BY DEF MessageInv
<1>2. Leaving /\ out # <<>>
  BY DEF MessageInv, Take
<1>3. 1 \in Nat \ {0} /\ 1 + 1 = 2
  OBVIOUS
<1>4. CASE client.phase = "message" /\ client.open # None /\ LastWords(1)
  <2>1. client.open \in Nat /\ out[1].name = "content_block_stop" /\ Ending(2)
    BY <1>4 DEF LastWords, Shutting
  <2>2. client' = [client EXCEPT !.open = None]
    BY <2>1, Taken DEF OnEvent
  <2>3. client' = [phase |-> "message", open |-> None, blocks |-> client.blocks,
                   failed |-> client.failed]
    BY <1>1, <1>4, <2>2
  <2>4. Ending(1)'
    BY <1>3, <2>1, MovesUp
  <2>5. Leaving'
    BY <2>3, <2>4 DEF Leaving, LastWords
  <2>6. Protocol!BlockStop
    BY <1>4, <2>3, MessageView, Taken DEF Protocol!BlockStop
  <2> QED BY <2>3, <2>5, <2>6, Taken DEF MessageInv, MessageStep, Protocol!Next
<1>5. CASE client.phase = "message" /\ client.open = None /\ LastWords(1)
  <2>1. out[1].name = "message_delta" /\ Stopping(2)
    BY <1>5 DEF LastWords, Ending
  <2>2. client' = [client EXCEPT !.phase = "delta"]
    BY <2>1, Taken DEF OnEvent
  <2>3. client' = [phase |-> "delta", open |-> None, blocks |-> client.blocks,
                   failed |-> client.failed]
    BY <1>1, <1>5, <2>2
  <2>4. Stopping(1)'
    BY <1>3, <2>1, MovesUp
  <2>5. Leaving'
    BY <2>3, <2>4 DEF Leaving
  <2>6. Protocol!MessageDelta
    BY <1>5, <2>3, MessageView, Taken DEF Protocol!MessageDelta
  <2> QED BY <2>3, <2>5, <2>6, Taken DEF MessageInv, MessageStep, Protocol!Next
<1>6. CASE client.phase = "message" /\ out[1].name = "error" /\ LastWords(2)
  <2>2. client' = [client EXCEPT !.failed = TRUE]
    BY <1>6, Taken DEF OnEvent
  <2>3. client' = [phase |-> "message", open |-> client.open, blocks |-> client.blocks,
                   failed |-> TRUE]
    BY <1>1, <1>6, <2>2
  <2>4. LastWords(1)'
    <3>1. CASE client.open = None
      <4>1. Ending(1)'
        BY <1>3, <1>6, <3>1, MovesUp DEF LastWords
      <4> QED BY <2>3, <3>1, <4>1 DEF LastWords
    <3>2. CASE client.open # None
      <4>1. Shutting(1)' /\ client.open \in Nat
        BY <1>3, <1>6, <3>2, MovesUp DEF LastWords
      <4> QED BY <2>3, <3>2, <4>1 DEF LastWords
    <3> QED BY <3>1, <3>2
  <2>5. Leaving'
    BY <2>3, <2>4 DEF Leaving
  <2>6. UNCHANGED <<MessagePhase, MessageOpen, MessageSizes>>
    BY <1>6, <2>3, MessageView, Taken
  <2> QED BY <2>3, <2>5, <2>6, Taken DEF MessageInv, MessageStep
<1>7. CASE client.phase = "delta" /\ client.open = None /\ Stopping(1)
  <2>1. out[1].name = "message_stop" /\ Len(out) = 1
    BY <1>7 DEF Stopping
  <2>2. client' = [client EXCEPT !.phase = "stopped"]
    BY <2>1, Taken DEF OnEvent
  <2>3. client' = [phase |-> "stopped", open |-> None, blocks |-> client.blocks,
                   failed |-> client.failed]
    BY <1>1, <1>7, <2>2
  <2>4. out' = <<>>
    BY <2>1, Taken
  <2>5. Leaving'
    BY <2>3, <2>4 DEF Leaving
  <2>6. Protocol!MessageStop
    BY <1>7, <2>3, MessageView, Taken DEF Protocol!MessageStop
  <2> QED BY <2>3, <2>5, <2>6, Taken DEF MessageInv, MessageStep, Protocol!Next
<1> QED BY <1>2, <1>4, <1>5, <1>6, <1>7 DEF Leaving

LEMMA TakeFollows ==
  ASSUME MessageInv, surface = "messages", Take
  PROVE  MessageInv' /\ MessageStep
<1>1. CASE at = "closing"
  BY <1>1, TakeLast
<1>2. CASE at = "streaming"
  <2>1. Following
    BY <1>2 DEF MessageInv
  <2> QED BY <1>2, <2>1, TakeStart, TakeDelta, TakeOpen, TakeStop DEF Following
<1> QED BY <1>1, <1>2 DEF Take

\* Every step of a stream keeps the client on the protocol.
LEMMA MessageKept ==
  ASSUME FlowInv, MessageInv, [StreamNext]_streamVars
  PROVE  MessageInv' /\ MessageStep
<1>1. surface' = surface
  BY DEF StreamNext, Gateway, Upstream, Read, Pass, EndOfStream, Meter, Take, Start, Say, Call,
         Argue, CallWhole, Finish, ReportError, Break, HangUp, Writes, streamVars
<1>2. CASE surface # "messages"
  BY <1>1, <1>2 DEF MessageInv, MessageStep, MessagePhase, MessageOpen, MessageSizes
<1>3. ASSUME surface = "messages", client' = client PROVE MessageStep
  BY <1>1, <1>3 DEF MessageStep, MessagePhase, MessageOpen, MessageSizes
<1>4. ASSUME client' = client, tracker' = tracker, out' = out, at' \in {at, "done", "dropped"}
      PROVE  MessageInv'
  BY <1>1, <1>4 DEF MessageInv, TrackerInv, Following, Leaving, Had, Growing, Opening, Stopping, Ending,
     Shutting, LastWords
<1>5. ASSUME surface = "messages" PROVE MessageInv' /\ MessageStep
  <2>1. CASE Take
    BY <1>5, <2>1, TakeFollows
  <2>2. CASE Pass
    <3>1. client' = client
      BY <2>2 DEF Pass
    <3> QED BY <1>3, <1>5, <2>2, <3>1, PassFollows
  <2>3. CASE EndOfStream
    <3>1. client' = client
      BY <2>3 DEF EndOfStream
    <3> QED BY <1>3, <1>5, <2>3, <3>1, EndLeaves
  <2>4. CASE Read \/ Meter \/ HangUp \/ UNCHANGED streamVars
    <3>1. client' = client /\ tracker' = tracker /\ out' = out /\ at' \in {at, "done", "dropped"}
      BY <2>4 DEF Read, Meter, HangUp, streamVars
    <3> QED BY <1>3, <1>4, <1>5, <3>1
  <2>5. CASE Upstream
    <3>1. client' = client /\ tracker' = tracker /\ out' = out /\ at' \in {at, "done", "dropped"}
      BY <2>5 DEF Upstream, Start, Say, Call, Argue, CallWhole, Finish, ReportError, Break, Writes
    <3> QED BY <1>3, <1>4, <1>5, <3>1
  <2> QED BY <2>1, <2>2, <2>3, <2>4, <2>5 DEF StreamNext, Gateway
<1> QED BY <1>2, <1>5

\* The client of the Messages API is sent one legal sequence of events, from its start to a stop
\* of every block it saw opened, whatever the provider streams and wherever the socket cuts it
\* (stream_messages, BlockTracker).
THEOREM MessagesInOrder == Spec => MessageOrder
<1>1. Init => FlowInv /\ MessageInv /\ Protocol!Init
  <2> SUFFICES ASSUME Init PROVE FlowInv /\ MessageInv /\ Protocol!Init
    OBVIOUS
  <2>1. StreamInit
    BY DEF Init
  <2>2. FlowInv /\ MessageInv
    BY <2>1, FlowBegins, MessageBegins
  <2>3. client = [phase |-> "before", open |-> None, blocks |-> <<>>, failed |-> FALSE]
    BY <2>1 DEF StreamInit
  <2>4. MessagePhase = "before" /\ MessageOpen = None
    BY <2>3 DEF MessagePhase, MessageOpen
  <2>5. MessageSizes = <<>>
    <3>1. client.blocks = <<>> /\ DOMAIN client.blocks = {}
      BY <2>3
    <3>2. [i \in DOMAIN client.blocks |-> Len(client.blocks[i].pieces)] = <<>>
      BY <3>1
    <3> QED BY <3>2 DEF MessageSizes
  <2> QED BY <2>2, <2>4, <2>5 DEF Protocol!Init
<1>2. FlowInv /\ MessageInv /\ [Next]_vars => FlowInv' /\ MessageInv' /\ [Protocol!Next]_(Protocol!vars)
  <2> SUFFICES ASSUME FlowInv, MessageInv, [Next]_vars
               PROVE  FlowInv' /\ MessageInv' /\ [Protocol!Next]_(Protocol!vars)
    OBVIOUS
  <2>1. [StreamNext]_streamVars
    BY DEF Next, OfCalls, OfStream, vars
  <2>2. FlowInv' /\ MessageInv' /\ MessageStep
    BY <2>1, FlowStep, MessageKept
  <2> QED BY <2>2 DEF MessageStep, Protocol!vars
<1> QED BY <1>1, <1>2, PTL DEF Spec, MessageOrder, Protocol!Spec

===============================================================================
