--------------------------- MODULE RequestProofs ---------------------------
(***************************************************************************)
(* Proofs about what is decided for a request before and after a model     *)
(* answers it: the budget it is held to (BudgetLedger), the models that    *)
(* may answer it and what it cost and saved (MCPipeline).  The theorems    *)
(* are for any number of requests, turns, models and prices.               *)
(***************************************************************************)
EXTENDS BudgetLedger, MCPipeline, TLAPS

-----------------------------------------------------------------------------
(* The budget                                                              *)

(* The inductive invariant.  CounterIsSum alone is not inductive: that a    *)
(* pass visits a counter once is a fact about where each request is, and   *)
(* AdmittedWithinCap needs the reservations in progress as well.           *)

\* Whatever the store does.
PassShape(r) ==
  /\ pc[r] \in {"idle", "reserving"} => corrected[r] = {} /\ r \notin served
  /\ pc[r] = "idle" => held[r] = {} /\ keys[r] = {} /\ breached[r] = {}
  /\ pc[r] = "reserving" => todo[r] \subseteq Reserved(r) \ held[r] /\ keys[r] \subseteq held[r]
  /\ pc[r] = "running" => corrected[r] = {} /\ r \notin served /\ keys[r] \subseteq held[r]
  /\ pc[r] \in {"rolling_back", "releasing"} =>
       todo[r] \subseteq held[r] /\ corrected[r] = {} /\ r \notin served
  /\ pc[r] \in {"refused", "released", "leaked"} => corrected[r] = {} /\ r \notin served
  /\ pc[r] = "emitting" => todo[r] \subseteq Emitted(r) \ corrected[r]
  /\ pc[r] \in {"emitting", "done", "unmetered"} => r \in served
  /\ corrected[r] \subseteq Emitted(r)
  /\ r \notin served => corrected[r] = {}

\* What a working store adds.
CleanShape(r) ==
  /\ held[r] \subseteq Reserved(r)
  /\ breached[r] \subseteq Reserved(r)
  /\ pc[r] = "reserving" => held[r] = Reserved(r) \ todo[r] /\ keys[r] = held[r]
  /\ pc[r] \in {"rolling_back", "releasing"} => held[r] = todo[r]
  /\ pc[r] \in {"refused", "released"} => held[r] = {}
  /\ pc[r] = "running" \/ r \in served =>
       held[r] = Reserved(r) /\ keys[r] = Reserved(r) /\ breached[r] = {}
  /\ pc[r] = "emitting" => corrected[r] = Emitted(r) \ todo[r]
  /\ pc[r] = "done" => corrected[r] = Emitted(r)
  /\ pc[r] # "unmetered"

\* The part of c's ceiling r has passed the check with.
Occupied(r, c) ==
  IF c \in held[r] /\ c \notin breached[r] THEN Min2(Amount(r, c), Contribution(r, c)) ELSE 0

Occupation(c) == [r \in Requests |-> Occupied(r, c)]

OccupiedWithinCap ==
  faults = 0 => \A c \in HardCap \cap Counter : Total(Occupation(c), N) <= Limit[c]

Shape == \A r \in Requests : PassShape(r) /\ (faults = 0 => CleanShape(r))

IInv == TypeOK /\ Shape /\ CounterIsSum /\ OccupiedWithinCap

-----------------------------------------------------------------------------
(* The counters of a request                                               *)

\* scopes() and emit() name counters of the model, of a known unit; emit corrects no
\* capped counter that the reservation skipped.
LEMMA CounterFacts ==
  /\ \A r \in Requests : Reserved(r) \subseteq Counter /\ Emitted(r) \subseteq Counter
  /\ \A c \in Counter : c.unit \in Unit
  /\ \A r \in Requests : Emitted(r) \cap HardCap \subseteq Reserved(r)
<1>1. \A r \in Requests : Reserved(r) \subseteq Counter /\ Emitted(r) \subseteq Counter
  BY DEF Counter
<1>2. ASSUME NEW r \in Requests, NEW c \in Reserved(r) \cup Emitted(r) PROVE c.unit \in Unit
  BY DEF Reserved, Emitted, CounterOf, Unit
<1>3. \A c \in Counter : c.unit \in Unit
  BY <1>2 DEF Counter
<1>4. ASSUME NEW r \in Requests PROVE Emitted(r) \cap HardCap \subseteq Reserved(r)
  BY DEF Reserved, Emitted, Applies, Scope
<1> QED BY <1>1, <1>3, <1>4

\* The types of what a request adds to a counter, and of what it is charged.
LEMMA AmountTypes ==
  ASSUME TypeOK, NEW r \in Requests, NEW c \in Counter
  PROVE  /\ Amount(r, c) \in Nat
         /\ used[r][c.unit] \in Nat
         /\ HandedOver(r, c.unit) \in Nat
         /\ Correction(r, c) \in Int
         /\ Contribution(r, c) \in Int
         /\ Occupied(r, c) \in Int
<1>1. c.unit \in Unit
  BY CounterFacts
<1>2. Projected[r] \in Usage /\ used[r] \in Usage
  BY BudgetAssumption DEF TypeOK
<1>3. Projected[r][c.unit] \in Nat /\ used[r][c.unit] \in Nat
  BY <1>1, <1>2 DEF Usage
<1>4. Amount(r, c) \in Nat /\ HandedOver(r, c.unit) \in Nat
  BY <1>3 DEF Amount, HandedOver
<1>5. Correction(r, c) \in Int
  BY <1>3, <1>4 DEF Correction
<1>6. Contribution(r, c) \in Int
  BY <1>4, <1>5 DEF Contribution
<1>7. Occupied(r, c) \in Int
  BY <1>4, <1>6 DEF Occupied, Min2
<1> QED BY <1>3, <1>4, <1>5, <1>6, <1>7

Summable ==
  \A c \in Counter : /\ Contributions(c) \in [1 .. N -> Int]
                     /\ Occupation(c) \in [1 .. N -> Int]
                     /\ Charges(c) \in [1 .. N -> Int]
                     /\ Spendings(c) \in [1 .. N -> Int]

\* The summands of the sums the properties are about are integers.
LEMMA SummandTypes == TypeOK => Summable
<1> SUFFICES ASSUME TypeOK, NEW c \in Counter
             PROVE  /\ Contributions(c) \in [1 .. N -> Int]
                    /\ Occupation(c) \in [1 .. N -> Int]
                    /\ Charges(c) \in [1 .. N -> Int]
                    /\ Spendings(c) \in [1 .. N -> Int]
  BY DEF Summable
<1>1. \A r \in Requests : Contribution(r, c) \in Int /\ Occupied(r, c) \in Int
  BY AmountTypes
<1>2. \A r \in Requests : Charge(r, c) \in Int
  BY AmountTypes DEF Charge, Min2
<1>3. \A r \in Requests : Spent(r, c) \in Int
  BY AmountTypes DEF Spent
<1> QED BY <1>1, <1>2, <1>3 DEF Contributions, Occupation, Charges, Spendings, Requests

-----------------------------------------------------------------------------
(* Types                                                                   *)

\* No step leaves the type: what TypeOK says of each variable (all of BudgetLedger).
LEMMA TypeStep ==
  ASSUME TypeOK, [Next]_vars
  PROVE  TypeOK'
<1> USE BudgetAssumption DEF TypeOK
<1>1. CASE UNCHANGED vars
  BY <1>1 DEF vars
<1>2. ASSUME NEW r \in Requests, Arrive(r) \/ Progress(r) \/ Failure(r)
      PROVE  TypeOK'
  <2>0. Reserved(r) \subseteq Counter /\ Emitted(r) \subseteq Counter
    BY CounterFacts
  <2>1. \A c \in Counter : Amount(r, c) \in Int /\ Correction(r, c) \in Int
    BY AmountTypes
  <2>2. CASE Arrive(r)
    BY <2>0, <2>2 DEF Arrive, Phase
  <2>3. CASE ReserveScope(r)
    BY <2>1, <2>3 DEF ReserveScope, IsNext
  <2>4. CASE SkipScope(r)
    BY <2>1, <2>4 DEF SkipScope, IsNext
  <2>5. CASE Admit(r)
    BY <2>5 DEF Admit, Phase
  <2>6. CASE Refuse(r)
    BY <2>6 DEF Refuse, Phase
  <2>7. CASE ProviderFails(r)
    BY <2>7 DEF ProviderFails, Phase
  <2>8. CASE GiveBack(r)
    BY <2>1, <2>8 DEF GiveBack, IsNext
  <2>9. CASE GiveBackFails(r)
    BY <2>1, <2>9 DEF GiveBackFails, IsNext
  <2>10. CASE GivenBack(r)
    BY <2>10 DEF GivenBack, Phase
  <2>11. CASE Serve(r)
    BY <2>0, <2>11 DEF Serve, Phase
  <2>12. CASE AppendFails(r)
    BY <2>12 DEF AppendFails, Phase
  <2>13. CASE Correct(r)
    BY <2>1, <2>13 DEF Correct, IsNext
  <2>14. CASE CorrectFails(r)
    BY <2>1, <2>14 DEF CorrectFails, IsNext
  <2>15. CASE EmitDone(r)
    BY <2>15 DEF EmitDone, Phase
  <2>16. CASE Die(r)
    BY <2>16 DEF Die, Phase
  <2>17. CASE StreamRouteFails(r)
    BY <2>17 DEF StreamRouteFails, Phase
  <2> QED BY <1>2, <2>2, <2>3, <2>4, <2>5, <2>6, <2>7, <2>8, <2>9, <2>10, <2>11, <2>12,
             <2>13, <2>14, <2>15, <2>16, <2>17 DEF Progress, Failure
<1> QED BY <1>1, <1>2 DEF Next

\* Every variable keeps its type in every behaviour.
THEOREM TypeCorrect == Spec => []TypeOK
<1>1. Init => TypeOK
  BY BudgetAssumption DEF Init, TypeOK, Phase
<1>2. TypeOK /\ [Next]_vars => TypeOK'
  BY TypeStep
<1> QED BY <1>1, <1>2, PTL DEF Spec

-----------------------------------------------------------------------------
(* Where a pass is                                                         *)

\* A step of one request keeps the others where they are.
LEMMA OthersKeep ==
  ASSUME TypeOK, NEW r \in Requests, Arrive(r) \/ Progress(r) \/ Failure(r),
         NEW q \in Requests, q # r
  PROVE  /\ pc'[q] = pc[q] /\ todo'[q] = todo[q] /\ keys'[q] = keys[q]
         /\ held'[q] = held[q] /\ breached'[q] = breached[q]
         /\ corrected'[q] = corrected[q] /\ used'[q] = used[q]
         /\ (q \in served' <=> q \in served)
<1> USE DEF TypeOK
<1>1. CASE Arrive(r)
  BY <1>1 DEF Arrive
<1>2. CASE ReserveScope(r)
  BY <1>2 DEF ReserveScope
<1>3. CASE SkipScope(r)
  BY <1>3 DEF SkipScope
<1>4. CASE Admit(r)
  BY <1>4 DEF Admit
<1>5. CASE Refuse(r)
  BY <1>5 DEF Refuse
<1>6. CASE ProviderFails(r)
  BY <1>6 DEF ProviderFails
<1>7. CASE GiveBack(r)
  BY <1>7 DEF GiveBack
<1>8. CASE GiveBackFails(r)
  BY <1>8 DEF GiveBackFails
<1>9. CASE GivenBack(r)
  BY <1>9 DEF GivenBack
<1>10. CASE Serve(r)
  BY <1>10 DEF Serve
<1>11. CASE AppendFails(r)
  BY <1>11 DEF AppendFails
<1>12. CASE Correct(r)
  BY <1>12 DEF Correct
<1>13. CASE CorrectFails(r)
  BY <1>13 DEF CorrectFails
<1>14. CASE EmitDone(r)
  BY <1>14 DEF EmitDone
<1>15. CASE Die(r)
  BY <1>15 DEF Die
<1>16. CASE StreamRouteFails(r)
  BY <1>16 DEF StreamRouteFails
<1> QED BY <1>1, <1>2, <1>3, <1>4, <1>5, <1>6, <1>7, <1>8, <1>9, <1>10, <1>11, <1>12, <1>13, <1>14, <1>15, <1>16 DEF Progress, Failure

\* Each pass visits a counter once, and in the right direction (check_and_reserve,
\* its rollback, release, emit).
LEMMA ShapeStep ==
  ASSUME TypeOK, Shape, [Next]_vars
  PROVE  Shape'
<1>1. CASE UNCHANGED vars
  BY <1>1 DEF vars, Shape, PassShape, CleanShape
<1>2. ASSUME NEW r \in Requests, Arrive(r) \/ Progress(r) \/ Failure(r)
      PROVE  Shape'
  <2>1. PassShape(r) /\ (faults = 0 => CleanShape(r)) /\ faults \in Nat
    BY DEF Shape, TypeOK
  <2>2. faults' = 0 => faults = 0
    BY <1>2, <2>1 DEF Progress, Failure, Arrive, ReserveScope, SkipScope, Admit, Refuse,
      ProviderFails, GiveBack, GiveBackFails, GivenBack, Serve, AppendFails, Correct,
      CorrectFails, EmitDone, Die, StreamRouteFails
  <2>3. ASSUME NEW q \in Requests, q # r
        PROVE  PassShape(q)' /\ (faults' = 0 => CleanShape(q)')
    <3>1. PassShape(q) /\ (faults = 0 => CleanShape(q))
      BY DEF Shape
    <3> QED BY <1>2, <2>2, <2>3, <3>1, OthersKeep DEF PassShape, CleanShape
  <2>4. PassShape(r)'
    <3> USE DEF PassShape, TypeOK
    <3>1. CASE Arrive(r)
      BY <2>1, <3>1 DEF Arrive
    <3>2. CASE ReserveScope(r)
      BY <2>1, <3>2 DEF ReserveScope, IsNext
    <3>3. CASE SkipScope(r)
      BY <2>1, <3>3 DEF SkipScope, IsNext
    <3>4. CASE Admit(r)
      BY <2>1, <3>4 DEF Admit
    <3>5. CASE Refuse(r)
      BY <2>1, <3>5 DEF Refuse
    <3>6. CASE ProviderFails(r)
      BY <2>1, <3>6 DEF ProviderFails
    <3>7. CASE GiveBack(r)
      BY <2>1, <3>7 DEF GiveBack, IsNext
    <3>8. CASE GiveBackFails(r)
      BY <2>1, <3>8 DEF GiveBackFails, IsNext
    <3>9. CASE GivenBack(r)
      BY <2>1, <3>9 DEF GivenBack
    <3>10. CASE Serve(r)
      BY <2>1, <3>10 DEF Serve
    <3>11. CASE AppendFails(r)
      BY <2>1, <3>11 DEF AppendFails
    <3>12. CASE Correct(r)
      BY <2>1, <3>12 DEF Correct, IsNext
    <3>13. CASE CorrectFails(r)
      BY <2>1, <3>13 DEF CorrectFails, IsNext
    <3>14. CASE EmitDone(r)
      BY <2>1, <3>14 DEF EmitDone
    <3>15. CASE Die(r)
      BY <2>1, <3>15 DEF Die, Active
    <3>16. CASE StreamRouteFails(r)
      BY <2>1, <3>16 DEF StreamRouteFails
    <3> QED BY <1>2, <3>1, <3>2, <3>3, <3>4, <3>5, <3>6, <3>7, <3>8, <3>9, <3>10, <3>11, <3>12, <3>13, <3>14, <3>15, <3>16 DEF Progress, Failure
  <2>5. ASSUME faults' = 0 PROVE CleanShape(r)'
    <3>0. CleanShape(r) /\ PassShape(r) /\ faults \in Nat
      BY <2>1, <2>2, <2>5
    <3> USE DEF CleanShape, PassShape, TypeOK
    <3>1. CASE Arrive(r)
      BY <2>5, <3>0, <3>1 DEF Arrive
    <3>2. CASE ReserveScope(r)
      BY <2>5, <3>0, <3>2 DEF ReserveScope, IsNext
    <3>3. CASE SkipScope(r)
      BY <2>5, <3>0, <3>3 DEF SkipScope, IsNext
    <3>4. CASE Admit(r)
      BY <2>5, <3>0, <3>4 DEF Admit
    <3>5. CASE Refuse(r)
      BY <2>5, <3>0, <3>5 DEF Refuse
    <3>6. CASE ProviderFails(r)
      BY <2>5, <3>0, <3>6 DEF ProviderFails
    <3>7. CASE GiveBack(r)
      BY <2>5, <3>0, <3>7 DEF GiveBack, IsNext
    <3>8. CASE GiveBackFails(r)
      BY <2>5, <3>0, <3>8 DEF GiveBackFails, IsNext
    <3>9. CASE GivenBack(r)
      BY <2>5, <3>0, <3>9 DEF GivenBack
    <3>10. CASE Serve(r)
      BY <2>5, <3>0, <3>10 DEF Serve
    <3>11. CASE AppendFails(r)
      BY <2>5, <3>0, <3>11 DEF AppendFails
    <3>12. CASE Correct(r)
      BY <2>5, <3>0, <3>12 DEF Correct, IsNext
    <3>13. CASE CorrectFails(r)
      BY <2>5, <3>0, <3>13 DEF CorrectFails, IsNext
    <3>14. CASE EmitDone(r)
      BY <2>5, <3>0, <3>14 DEF EmitDone
    <3>15. CASE Die(r)
      BY <2>5, <3>0, <3>15 DEF Die, Active
    <3>16. CASE StreamRouteFails(r)
      BY <2>5, <3>0, <3>16 DEF StreamRouteFails
    <3> QED BY <1>2, <3>1, <3>2, <3>3, <3>4, <3>5, <3>6, <3>7, <3>8, <3>9, <3>10, <3>11, <3>12, <3>13, <3>14, <3>15, <3>16 DEF Progress, Failure
  <2> QED BY <2>3, <2>4, <2>5 DEF Shape
<1> QED BY <1>1, <1>2 DEF Next

-----------------------------------------------------------------------------
(* The counters are the sum of what the requests added                     *)

\* A step of one request leaves alone what the others contribute and occupy.
LEMMA OthersContribute ==
  ASSUME TypeOK, NEW r \in Requests, Arrive(r) \/ Progress(r) \/ Failure(r),
         NEW q \in Requests, q # r, NEW c \in Counter
  PROVE  Contribution(q, c)' = Contribution(q, c) /\ Occupied(q, c)' = Occupied(q, c)
<1>1. /\ keys'[q] = keys[q] /\ held'[q] = held[q] /\ corrected'[q] = corrected[q]
      /\ used'[q] = used[q] /\ breached'[q] = breached[q]
  BY OthersKeep
<1>2. HandedOver(q, c.unit)' = HandedOver(q, c.unit)
  BY <1>1 DEF HandedOver
<1>3. Correction(q, c)' = Correction(q, c)
  BY <1>1, <1>2 DEF Correction
<1>4. Contribution(q, c)' = Contribution(q, c)
  BY <1>1, <1>3 DEF Contribution, Amount
<1> QED BY <1>1, <1>4 DEF Occupied, Amount

\* A step moves a counter by exactly what it moves the contribution of its request
\* (every incr_by of budget.rs and usage.rs).
LEMMA OwnContribution ==
  ASSUME TypeOK, Shape, NEW r \in Requests, Arrive(r) \/ Progress(r) \/ Failure(r),
         NEW c \in Counter
  PROVE  counter'[c] = counter[c] - Contribution(r, c) + Contribution(r, c)'
<1>1. PassShape(r)
  BY DEF Shape
<1>2. /\ Amount(r, c) \in Nat /\ Correction(r, c) \in Int /\ counter[c] \in Int
      /\ Contribution(r, c) \in Int
  BY AmountTypes DEF TypeOK
<1>3. Amount(r, c)' = Amount(r, c)
  BY DEF Amount
<1>4. ASSUME keys'[r] = keys[r], used'[r] = used[r]
      PROVE  Correction(r, c)' = Correction(r, c)
  BY <1>4 DEF Correction, HandedOver
<1> USE DEF TypeOK
<1>5. CASE ReserveScope(r)
  <2>1. PICK d \in todo[r] :
          /\ counter' = [counter EXCEPT ![d] = @ + Amount(r, d)]
          /\ held' = [held EXCEPT ![r] = @ \cup {d}]
    BY <1>5 DEF ReserveScope
  <2>2. d \notin held[r] /\ corrected[r] = {} /\ corrected' = corrected
    BY <1>1, <1>5, <2>1 DEF PassShape, ReserveScope
  <2>3. CASE d = c
    BY <1>2, <1>3, <2>1, <2>2, <2>3 DEF Contribution
  <2>4. CASE d # c
    BY <1>2, <1>3, <2>1, <2>2, <2>4 DEF Contribution
  <2> QED BY <2>3, <2>4
<1>6. CASE SkipScope(r)
  <2>1. PICK d \in todo[r], applied \in BOOLEAN :
          /\ counter' = IF applied THEN [counter EXCEPT ![d] = @ + Amount(r, d)] ELSE counter
          /\ held' = IF applied THEN [held EXCEPT ![r] = @ \cup {d}] ELSE held
    BY <1>6 DEF SkipScope
  <2>2. d \notin held[r] /\ corrected[r] = {} /\ corrected' = corrected
    BY <1>1, <1>6, <2>1 DEF PassShape, SkipScope
  <2>3. CASE applied /\ d = c
    BY <1>2, <1>3, <2>1, <2>2, <2>3 DEF Contribution
  <2>4. CASE ~applied \/ d # c
    BY <1>2, <1>3, <2>1, <2>2, <2>4 DEF Contribution
  <2> QED BY <2>3, <2>4
<1>7. CASE GiveBack(r)
  <2>1. PICK d \in todo[r] :
          /\ counter' = [counter EXCEPT ![d] = @ - Amount(r, d)]
          /\ held' = [held EXCEPT ![r] = @ \ {d}]
    BY <1>7 DEF GiveBack
  <2>2. d \in held[r] /\ corrected[r] = {} /\ corrected' = corrected
    BY <1>1, <1>7, <2>1 DEF PassShape, GiveBack
  <2>3. CASE d = c
    BY <1>2, <1>3, <2>1, <2>2, <2>3 DEF Contribution
  <2>4. CASE d # c
    BY <1>2, <1>3, <2>1, <2>2, <2>4 DEF Contribution
  <2> QED BY <2>3, <2>4
<1>8. CASE Correct(r)
  <2>1. PICK d \in todo[r] :
          /\ counter' = [counter EXCEPT ![d] = @ + Correction(r, d)]
          /\ corrected' = [corrected EXCEPT ![r] = @ \cup {d}]
    BY <1>8 DEF Correct
  <2>2. d \notin corrected[r] /\ held' = held /\ keys' = keys /\ used' = used
    BY <1>1, <1>8, <2>1 DEF PassShape, Correct
  <2>3. CASE d = c
    BY <1>2, <1>3, <1>4, <2>1, <2>2, <2>3 DEF Contribution
  <2>4. CASE d # c
    BY <1>2, <1>3, <1>4, <2>1, <2>2, <2>4 DEF Contribution
  <2> QED BY <2>3, <2>4
<1>9. CASE Serve(r) \/ AppendFails(r)
  <2>1. corrected[r] = {} /\ corrected' = corrected /\ held' = held /\ counter' = counter
    BY <1>1, <1>9 DEF PassShape, Serve, AppendFails
  <2> QED BY <1>2, <1>3, <2>1 DEF Contribution
<1>10. CASE GiveBackFails(r)
  <2>1. PICK d \in todo[r], applied \in BOOLEAN :
          /\ counter' = IF applied THEN [counter EXCEPT ![d] = @ - Amount(r, d)] ELSE counter
          /\ held' = IF applied THEN [held EXCEPT ![r] = @ \ {d}] ELSE held
    BY <1>10 DEF GiveBackFails
  <2>2. d \in held[r] /\ corrected[r] = {} /\ corrected' = corrected
    BY <1>1, <1>10, <2>1 DEF PassShape, GiveBackFails
  <2>3. CASE applied /\ d = c
    BY <1>2, <1>3, <2>1, <2>2, <2>3 DEF Contribution
  <2>4. CASE ~applied \/ d # c
    BY <1>2, <1>3, <2>1, <2>2, <2>4 DEF Contribution
  <2> QED BY <2>3, <2>4
<1>11. CASE CorrectFails(r)
  <2>1. PICK d \in todo[r], applied \in BOOLEAN :
          /\ counter' = IF applied THEN [counter EXCEPT ![d] = @ + Correction(r, d)] ELSE counter
          /\ corrected' = IF applied THEN [corrected EXCEPT ![r] = @ \cup {d}] ELSE corrected
    BY <1>11 DEF CorrectFails
  <2>2. d \notin corrected[r] /\ held' = held /\ keys' = keys /\ used' = used
    BY <1>1, <1>11, <2>1 DEF PassShape, CorrectFails
  <2>3. CASE applied /\ d = c
    BY <1>2, <1>3, <1>4, <2>1, <2>2, <2>3 DEF Contribution
  <2>4. CASE ~applied \/ d # c
    BY <1>2, <1>3, <1>4, <2>1, <2>2, <2>4 DEF Contribution
  <2> QED BY <2>3, <2>4
<1>12. CASE \/ Arrive(r) \/ Admit(r) \/ Refuse(r) \/ ProviderFails(r)
            \/ GivenBack(r) \/ EmitDone(r) \/ Die(r) \/ StreamRouteFails(r)
  <2>1. /\ corrected' = corrected /\ held' = held /\ counter' = counter
        /\ keys' = keys /\ used' = used
    BY <1>12 DEF Arrive, Admit, Refuse, ProviderFails, GivenBack, EmitDone, Die,
      StreamRouteFails
  <2> QED BY <1>2, <1>3, <1>4, <2>1 DEF Contribution
<1> QED BY <1>5, <1>6, <1>7, <1>8, <1>9, <1>10, <1>11, <1>12 DEF Progress, Failure

\* The sum is preserved by every step, whatever store calls fail.
LEMMA SumStep ==
  ASSUME TypeOK, Shape, CounterIsSum, [Next]_vars
  PROVE  CounterIsSum'
<1>1. Summable /\ Summable'
  BY TypeStep, SummandTypes, PTL
<1>2. CASE UNCHANGED vars
  <2>1. \A c \in Counter : Contributions(c)' = Contributions(c)
    BY <1>2 DEF vars, Contributions, Contribution, Correction, HandedOver, Amount
  <2> QED BY <1>2, <2>1 DEF vars, CounterIsSum
<1>3. ASSUME NEW r \in Requests, Arrive(r) \/ Progress(r) \/ Failure(r)
      PROVE  CounterIsSum'
  <2>1. SUFFICES ASSUME NEW c \in Counter
                 PROVE  counter'[c] = Total(Contributions(c)', N)
    BY DEF CounterIsSum
  <2>2. Contributions(c) \in [1 .. N -> Int] /\ Contributions(c)' \in [1 .. N -> Int]
    BY <1>1 DEF Summable
  <2>3. \A q \in Requests : /\ Contributions(c)[q] = Contribution(q, c)
                            /\ Contributions(c)'[q] = Contribution(q, c)'
    BY DEF Contributions
  <2>4. \A q \in 1 .. N : q # r => Contributions(c)'[q] = Contributions(c)[q]
    BY <1>3, <2>3, OthersContribute DEF Requests
  <2>5. Total(Contributions(c)', N)
          = Total(Contributions(c), N) - Contributions(c)[r] + Contributions(c)'[r]
    <3> HIDE DEF Contributions
    <3> QED BY <2>2, <2>4, TotalStep, BudgetAssumption DEF Requests
  <2>6. counter'[c] = counter[c] - Contribution(r, c) + Contribution(r, c)'
    BY <1>3, OwnContribution
  <2>7. counter[c] = Total(Contributions(c), N)
    BY DEF CounterIsSum
  <2> QED BY <2>3, <2>5, <2>6, <2>7
<1> QED BY <1>2, <1>3 DEF Next

-----------------------------------------------------------------------------
(* Ceilings                                                                *)

\* While the store answers: what a request is charged is at most what it occupies, and
\* that is at most what it has added to the counter.
Bounded ==
  faults = 0 =>
    \A r \in Requests, c \in HardCap \cap Counter :
      Charge(r, c) <= Occupied(r, c) /\ Occupied(r, c) <= Contribution(r, c)

\* The estimate in the counter covers the charge until emit puts the bill in its place.
LEMMA ChargeBounds == TypeOK /\ Shape => Bounded
<1> SUFFICES ASSUME TypeOK, Shape, faults = 0, NEW r \in Requests, NEW c \in HardCap \cap Counter
             PROVE  Charge(r, c) <= Occupied(r, c) /\ Occupied(r, c) <= Contribution(r, c)
  BY DEF Bounded
<1>1. PassShape(r) /\ CleanShape(r)
  BY DEF Shape
<1>2. /\ Amount(r, c) \in Nat /\ Correction(r, c) \in Int /\ Contribution(r, c) \in Int
      /\ used[r][c.unit] \in Nat /\ HandedOver(r, c.unit) \in Nat
  BY AmountTypes
<1>3. c.unit \in Unit
  BY CounterFacts
<1>4. c \in keys[r] => HandedOver(r, c.unit) = Amount(r, c)
  BY DEF HandedOver, Amount
<1>5. c \in corrected[r] => r \in served /\ c \in Reserved(r)
  BY <1>1, CounterFacts DEF PassShape
<1>6. r \in served => (c \in held[r] <=> c \in Reserved(r)) /\ breached[r] = {} /\ keys[r] = held[r]
  BY <1>1 DEF CleanShape
<1>7. CASE c \in corrected[r]
  <2>1. c \in held[r] /\ c \in keys[r] /\ breached[r] = {}
    BY <1>5, <1>6, <1>7
  <2>2. Contribution(r, c) = used[r][c.unit]
    BY <1>2, <1>4, <1>7, <2>1 DEF Contribution, Correction
  <2>3. Occupied(r, c) = Min2(Amount(r, c), used[r][c.unit])
    BY <2>1, <2>2 DEF Occupied
  <2>4. Charge(r, c) = Min2(Amount(r, c), used[r][c.unit])
    BY <1>5, <1>7 DEF Charge
  <2> QED BY <1>2, <2>2, <2>3, <2>4 DEF Min2
<1>8. CASE c \notin corrected[r] /\ c \in held[r]
  <2>1. Contribution(r, c) = Amount(r, c)
    BY <1>2, <1>8 DEF Contribution
  <2>2. c \in breached[r] => r \notin served /\ pc[r] # "running"
    BY <1>1 DEF CleanShape
  <2>3. Charge(r, c) <= Occupied(r, c)
    BY <1>2, <1>8, <2>1, <2>2 DEF Charge, Occupied, Min2
  <2>4. Occupied(r, c) <= Contribution(r, c)
    BY <1>2, <2>1 DEF Occupied, Min2
  <2> QED BY <2>3, <2>4
<1>9. CASE c \notin corrected[r] /\ c \notin held[r]
  <2>1. Contribution(r, c) = 0 /\ Occupied(r, c) = 0
    BY <1>9 DEF Contribution, Occupied
  <2>2. Charge(r, c) = 0
    BY <1>1, <1>9 DEF Charge, CleanShape
  <2> QED BY <2>1, <2>2
<1> QED BY <1>7, <1>8, <1>9

\* A step other than a successful increment never makes a request occupy more.
LEMMA OccupationShrinks ==
  ASSUME TypeOK, Shape, NEW r \in Requests, Arrive(r) \/ Progress(r) \/ Failure(r),
         faults = 0, faults' = 0, NEW c \in HardCap \cap Counter,
         \/ ~ReserveScope(r)
         \/ c \in breached'[r]
         \/ c \notin held'[r]
         \/ c \in held[r]
  PROVE  Occupied(r, c)' <= Occupied(r, c)
<1>1. PassShape(r) /\ CleanShape(r)
  BY DEF Shape
<1>2. /\ Amount(r, c) \in Nat /\ Correction(r, c) \in Int /\ Contribution(r, c) \in Int
      /\ used[r][c.unit] \in Nat /\ HandedOver(r, c.unit) \in Nat /\ Occupied(r, c) \in Int
  BY AmountTypes
<1>3. Amount(r, c)' = Amount(r, c)
  BY DEF Amount
<1>4. c \in keys[r] => HandedOver(r, c.unit) = Amount(r, c)
  BY DEF HandedOver, Amount
<1>5. ASSUME keys'[r] = keys[r], used'[r] = used[r]
      PROVE  Correction(r, c)' = Correction(r, c)
  BY <1>5 DEF Correction, HandedOver
<1> USE DEF TypeOK
<1>6. CASE ReserveScope(r)
  <2>1. corrected[r] = {} /\ corrected' = corrected
    BY <1>1, <1>6 DEF PassShape, ReserveScope
  <2>2. held[r] \subseteq held'[r] /\ breached[r] \subseteq breached'[r]
    BY <1>6 DEF ReserveScope
  <2>3. c \in held[r] => Contribution(r, c)' = Contribution(r, c)
    BY <1>2, <1>3, <2>1, <2>2 DEF Contribution
  <2>4. CASE c \in breached'[r] \/ c \notin held'[r]
    <3>1. Occupied(r, c)' = 0
      BY <2>4 DEF Occupied
    <3>2. Contribution(r, c) = Amount(r, c) \/ c \notin held[r]
      BY <1>2, <2>1 DEF Contribution
    <3>3. Occupied(r, c) >= 0
      BY <1>2, <3>2 DEF Occupied, Min2
    <3> QED BY <1>2, <3>1, <3>3
  <2>5. CASE c \in held[r] /\ c \notin breached'[r]
    BY <1>2, <1>3, <2>2, <2>3, <2>5 DEF Occupied
  <2> QED BY <1>6, <2>4, <2>5
<1>7. CASE GiveBack(r)
  <2>1. corrected[r] = {} /\ corrected' = corrected /\ breached' = breached
    BY <1>1, <1>7 DEF PassShape, GiveBack
  <2>2. held'[r] \subseteq held[r]
    BY <1>7 DEF GiveBack
  <2>3. CASE c \in held'[r]
    <3>1. Contribution(r, c)' = Contribution(r, c)
      BY <1>3, <2>1, <2>2, <2>3 DEF Contribution
    <3> QED BY <1>2, <1>3, <2>1, <2>2, <2>3, <3>1 DEF Occupied
  <2>4. CASE c \notin held'[r]
    <3>1. Occupied(r, c)' = 0
      BY <2>4 DEF Occupied
    <3>2. Contribution(r, c) = Amount(r, c) \/ c \notin held[r]
      BY <1>2, <2>1 DEF Contribution
    <3> QED BY <1>2, <3>1, <3>2 DEF Occupied, Min2
  <2> QED BY <2>3, <2>4
<1>8. CASE Correct(r)
  <2>1. /\ held' = held /\ keys' = keys /\ used' = used /\ breached' = breached
        /\ corrected[r] \subseteq corrected'[r]
    BY <1>8 DEF Correct
  <2>2. Correction(r, c)' = Correction(r, c)
    BY <1>5, <2>1
  <2>3. r \in served
    BY <1>1, <1>8 DEF PassShape, Correct
  <2>4. CASE c \in held[r]
    <3>1. c \in keys[r]
      BY <1>1, <2>3, <2>4 DEF CleanShape
    <3>2. Amount(r, c) + Correction(r, c) = used[r][c.unit]
      BY <1>2, <1>4, <3>1 DEF Correction
    <3>3. \/ c \in corrected[r] /\ c \in corrected'[r]
          \/ c \notin corrected[r]
      BY <2>1
    <3>4. Contribution(r, c)' = Amount(r, c) \/ Contribution(r, c)' = used[r][c.unit]
      BY <1>2, <1>3, <2>1, <2>2, <2>4, <3>2 DEF Contribution
    <3>5. c \notin corrected[r] => Contribution(r, c) = Amount(r, c)
      BY <1>2, <2>4 DEF Contribution
    <3>6. c \in corrected[r] => Contribution(r, c)' = Contribution(r, c)
      BY <1>3, <2>1, <2>2 DEF Contribution
    <3> QED BY <1>2, <1>3, <2>1, <2>4, <3>3, <3>4, <3>5, <3>6 DEF Occupied, Min2
  <2>5. CASE c \notin held[r]
    BY <2>1, <2>5 DEF Occupied
  <2> QED BY <2>4, <2>5
<1>9. CASE Serve(r)
  <2>1. corrected[r] = {} /\ corrected' = corrected /\ held' = held /\ breached' = breached
    BY <1>1, <1>9 DEF PassShape, Serve
  <2>2. Contribution(r, c)' = Contribution(r, c)
    BY <1>3, <2>1 DEF Contribution
  <2> QED BY <1>2, <1>3, <2>1, <2>2 DEF Occupied
<1>10. CASE \/ Arrive(r) \/ Admit(r) \/ Refuse(r) \/ ProviderFails(r) \/ GivenBack(r)
            \/ EmitDone(r) \/ Die(r) \/ StreamRouteFails(r)
  <2>1. /\ corrected' = corrected /\ held' = held /\ breached' = breached
        /\ keys' = keys /\ used' = used
    BY <1>10 DEF Arrive, Admit, Refuse, ProviderFails, GivenBack, EmitDone, Die,
      StreamRouteFails
  <2>2. Contribution(r, c)' = Contribution(r, c)
    BY <1>3, <1>5, <2>1 DEF Contribution
  <2> QED BY <1>2, <1>3, <2>1, <2>2 DEF Occupied
<1>11. ~(SkipScope(r) \/ GiveBackFails(r) \/ AppendFails(r) \/ CorrectFails(r))
  BY DEF SkipScope, GiveBackFails, AppendFails, CorrectFails
<1> QED BY <1>6, <1>7, <1>8, <1>9, <1>10, <1>11 DEF Progress, Failure

\* A counter over its ceiling cannot be entered without a breach, so what is occupied
\* stays within the ceiling (the check on the value incr_by returned).
LEMMA CapStep ==
  ASSUME TypeOK, Shape, CounterIsSum, OccupiedWithinCap, [Next]_vars
  PROVE  OccupiedWithinCap'
<1>1. TypeOK' /\ Shape' /\ CounterIsSum'
  BY TypeStep, ShapeStep, SumStep
<1>2. Summable /\ Summable' /\ Bounded'
  BY <1>1, SummandTypes, ChargeBounds, PTL
<1>3. CASE UNCHANGED vars
  <2>1. \A c \in Counter : Occupation(c)' = Occupation(c)
    BY <1>3 DEF vars, Occupation, Occupied, Contribution, Correction, HandedOver, Amount
  <2> QED BY <1>3, <2>1 DEF vars, OccupiedWithinCap
<1>4. ASSUME NEW r \in Requests, Arrive(r) \/ Progress(r) \/ Failure(r)
      PROVE  OccupiedWithinCap'
  <2>1. SUFFICES ASSUME faults' = 0, NEW c \in HardCap \cap Counter
                 PROVE  Total(Occupation(c)', N) <= Limit[c]
    BY DEF OccupiedWithinCap
  <2>2. faults = 0
    BY <1>4, <2>1 DEF TypeOK, Progress, Failure, Arrive, ReserveScope, SkipScope, Admit, Refuse,
      ProviderFails, GiveBack, GiveBackFails, GivenBack, Serve, AppendFails, Correct,
      CorrectFails, EmitDone, Die, StreamRouteFails
  <2>3. Total(Occupation(c), N) <= Limit[c] /\ Limit[c] \in Nat
    BY <2>2, BudgetAssumption DEF OccupiedWithinCap
  <2>4. /\ Occupation(c) \in [1 .. N -> Int] /\ Occupation(c)' \in [1 .. N -> Int]
        /\ Contributions(c)' \in [1 .. N -> Int]
    BY <1>2 DEF Summable
  <2>5. \A q \in Requests : /\ Occupation(c)[q] = Occupied(q, c)
                            /\ Occupation(c)'[q] = Occupied(q, c)'
                            /\ Contributions(c)'[q] = Contribution(q, c)'
    BY DEF Occupation, Contributions
  <2>6. Total(Occupation(c), N) \in Int /\ Total(Occupation(c)', N) \in Int
        /\ Total(Contributions(c)', N) \in Int
    <3> HIDE DEF Occupation, Contributions
    <3> QED BY <2>4, TotalType, BudgetAssumption
  <2>7. CASE /\ ReserveScope(r)
             /\ c \notin breached'[r] /\ c \in held'[r] /\ c \notin held[r]
    <3>1. counter'[c] <= Limit[c]
      <4>1. PICK d \in todo[r] :
              /\ counter' = [counter EXCEPT ![d] = @ + Amount(r, d)]
              /\ held' = [held EXCEPT ![r] = @ \cup {d}]
              /\ breached' = IF OverLimit(r, d, counter[d] + Amount(r, d))
                                THEN [breached EXCEPT ![r] = @ \cup {d}] ELSE breached
        BY <2>7 DEF ReserveScope
      <4>2. d = c
        BY <2>7, <4>1 DEF TypeOK
      <4>3. ~OverLimit(r, c, counter[c] + Amount(r, c))
        BY <2>7, <4>1, <4>2 DEF TypeOK
      <4>4. counter'[c] = counter[c] + Amount(r, c) /\ counter[c] \in Int /\ Amount(r, c) \in Nat
        BY <4>1, <4>2, AmountTypes DEF TypeOK
      <4> QED BY <2>3, <4>3, <4>4 DEF OverLimit
    <3>2. counter'[c] = Total(Contributions(c)', N)
      BY <1>1 DEF CounterIsSum
    <3>3. \A q \in 1 .. N : Occupation(c)'[q] <= Contributions(c)'[q]
      BY <1>2, <2>1, <2>5 DEF Bounded, Requests
    <3>4. Total(Occupation(c)', N) <= Total(Contributions(c)', N)
      <4> HIDE DEF Occupation, Contributions
      <4> QED BY <2>4, <3>3, TotalMonotone, BudgetAssumption
    <3> QED BY <2>3, <2>6, <3>1, <3>2, <3>4
  <2>8. CASE ~(/\ ReserveScope(r)
               /\ c \notin breached'[r] /\ c \in held'[r] /\ c \notin held[r])
    <3>1. Occupied(r, c)' <= Occupied(r, c)
      BY <1>4, <2>1, <2>2, <2>8, OccupationShrinks
    <3>2. \A q \in Requests : q # r => Occupied(q, c)' = Occupied(q, c)
      BY <1>4, OthersContribute
    <3>3. \A q \in Requests : Occupied(q, c) \in Int
      BY AmountTypes
    <3>4. \A q \in 1 .. N : Occupation(c)'[q] <= Occupation(c)[q]
      <4>1. ASSUME NEW q \in Requests PROVE Occupied(q, c)' <= Occupied(q, c)
        <5>1. CASE q = r
          BY <3>1, <5>1
        <5>2. CASE q # r
          BY <3>2, <3>3, <5>2
        <5> QED BY <5>1, <5>2
      <4> QED BY <2>5, <4>1 DEF Requests
    <3>5. Total(Occupation(c)', N) <= Total(Occupation(c), N)
      <4> HIDE DEF Occupation
      <4> QED BY <2>4, <3>4, TotalMonotone, BudgetAssumption
    <3> QED BY <2>3, <2>6, <3>5
  <2> QED BY <2>7, <2>8
<1> QED BY <1>3, <1>4 DEF Next

-----------------------------------------------------------------------------
(* The theorems                                                            *)

\* The counters start at zero, and nobody holds anything.
LEMMA InitInvariant == Init => IInv
<1> SUFFICES ASSUME Init PROVE IInv
  OBVIOUS
<1>1. TypeOK
  BY BudgetAssumption DEF Init, TypeOK, Phase
<1>2. Shape
  BY <1>1 DEF Init, Shape, PassShape, CleanShape
<1>3. ASSUME NEW c \in Counter
      PROVE  /\ Contributions(c) = [r \in 1 .. N |-> 0]
             /\ Occupation(c) = [r \in 1 .. N |-> 0]
  BY <1>3 DEF Init, Contributions, Contribution, Occupation, Occupied, Requests
<1>4. Total([r \in 1 .. N |-> 0], N) = 0
  BY TotalZero, BudgetAssumption
<1>5. CounterIsSum
  BY <1>3, <1>4 DEF Init, CounterIsSum
<1>6. OccupiedWithinCap
  BY <1>3, <1>4, BudgetAssumption DEF OccupiedWithinCap
<1> QED BY <1>1, <1>2, <1>5, <1>6 DEF IInv

\* The inductive invariant holds in every reachable state.
THEOREM Invariance == Spec => []IInv
<1>1. IInv /\ [Next]_vars => IInv'
  BY TypeStep, ShapeStep, SumStep, CapStep DEF IInv
<1> QED BY <1>1, InitInvariant, PTL DEF Spec

\* No increment is lost or doubled, for any number of requests and store failures.
THEOREM CounterIsSumAlways == Spec => []CounterIsSum
<1>1. IInv => CounterIsSum
  BY DEF IInv
<1> QED BY <1>1, Invariance, PTL

\* Concurrent requests cannot be admitted past a hard ceiling (the property
\* check_and_reserve exists for), for any number of requests, ceilings and bills.
THEOREM CapsHold == Spec => []AdmittedWithinCap
<1>1. IInv => AdmittedWithinCap
  <2> SUFFICES ASSUME IInv, faults = 0, NEW c \in HardCap
               PROVE  Total(Charges(c), N) <= Limit[c]
    BY DEF AdmittedWithinCap
  <2>1. TypeOK /\ Shape /\ OccupiedWithinCap /\ Limit[c] \in Nat
    BY BudgetAssumption DEF IInv
  <2>2. CASE c \in Counter
    <3>1. Charges(c) \in [1 .. N -> Int] /\ Occupation(c) \in [1 .. N -> Int]
      BY <2>1, <2>2, SummandTypes DEF Summable
    <3>2. \A r \in 1 .. N : Charges(c)[r] <= Occupation(c)[r]
      BY <2>1, <2>2, ChargeBounds DEF Bounded, Charges, Occupation, Requests
    <3>3. Total(Charges(c), N) \in Int /\ Total(Occupation(c), N) \in Int
          /\ Total(Charges(c), N) <= Total(Occupation(c), N)
      <4> HIDE DEF Charges, Occupation
      <4> QED BY <3>1, <3>2, TotalType, TotalMonotone, BudgetAssumption
    <3> QED BY <2>1, <2>2, <3>3 DEF OccupiedWithinCap
  <2>3. CASE c \notin Counter
    <3>1. \A r \in Requests : c \notin Reserved(r)
      BY <2>3, CounterFacts
    <3>2. Charges(c) = [r \in 1 .. N |-> 0]
      BY <3>1 DEF Charges, Charge, Requests
    <3> QED BY <2>1, <3>2, TotalZero, BudgetAssumption
  <2> QED BY <2>2, <2>3
<1> QED BY <1>1, Invariance, PTL

\* A counter that emit corrects never shows less than the finished requests spent, for
\* any number of requests and any number of handlers dropped.
THEOREM NeverUnderstatedAlways == Spec => []NeverUnderstated
<1>1. IInv => NeverUnderstated
  <2> SUFFICES ASSUME IInv, faults = 0, NEW c \in Corrected
               PROVE  Total(Spendings(c), N) <= counter[c]
    BY DEF NeverUnderstated
  <2>1. TypeOK /\ Shape /\ CounterIsSum /\ c \in Counter
    BY DEF IInv, Corrected
  <2>2. ASSUME NEW r \in Requests PROVE Spent(r, c) <= Contribution(r, c)
    <3>1. PassShape(r) /\ CleanShape(r)
      BY <2>1 DEF Shape
    <3>2. /\ Amount(r, c) \in Nat /\ HandedOver(r, c.unit) \in Nat
          /\ used[r][c.unit] \in Nat
      BY <2>1, AmountTypes
    <3>3. c \in keys[r] => HandedOver(r, c.unit) = Amount(r, c)
      BY DEF HandedOver, Amount
    <3>4. c \in Reserved(r) <=> c \in Emitted(r)
      BY DEF Corrected
    <3>5. CASE c \in corrected[r]
      <4>1. c \in held[r] /\ c \in keys[r]
        BY <3>1, <3>4, <3>5 DEF PassShape, CleanShape
      <4>2. Contribution(r, c) = used[r][c.unit]
        BY <3>2, <3>3, <3>5, <4>1 DEF Contribution, Correction
      <4> QED BY <3>2, <4>2 DEF Spent
    <3>6. CASE c \notin corrected[r]
      <4>1. Contribution(r, c) >= 0
        BY <3>2, <3>6 DEF Contribution
      <4>2. Spent(r, c) = 0
        BY <3>1, <3>6 DEF Spent, CleanShape
      <4> QED BY <4>1, <4>2
    <3> QED BY <3>5, <3>6
  <2>3. Spendings(c) \in [1 .. N -> Int] /\ Contributions(c) \in [1 .. N -> Int]
    BY <2>1, SummandTypes DEF Summable
  <2>4. \A r \in 1 .. N : Spendings(c)[r] <= Contributions(c)[r]
    BY <2>2 DEF Spendings, Contributions, Requests
  <2>5. Total(Spendings(c), N) <= Total(Contributions(c), N)
    <3> HIDE DEF Spendings, Contributions
    <3> QED BY <2>3, <2>4, TotalMonotone, BudgetAssumption
  <2> QED BY <2>1, <2>5 DEF CounterIsSum
<1> QED BY <1>1, Invariance, PTL

\* When every request has been settled or released, a counter that emit corrects is
\* exactly the sum of the bills.
THEOREM SettlesAlways == Spec => []SettlesToTheBill
<1>1. IInv => SettlesToTheBill
  <2> SUFFICES ASSUME IInv, AllSettled, NEW c \in Corrected
               PROVE  counter[c] = Total(Spendings(c), N)
    BY DEF SettlesToTheBill
  <2>1. TypeOK /\ Shape /\ CounterIsSum /\ c \in Counter
    BY DEF IInv, Corrected
  <2>2. ASSUME NEW r \in Requests PROVE Contribution(r, c) = Spent(r, c)
    <3>1. PassShape(r) /\ CleanShape(r) /\ ~Active(r) /\ pc[r] \notin {"dropped", "leaked"}
      BY <2>1 DEF Shape, AllSettled
    <3>2. /\ Amount(r, c) \in Nat /\ HandedOver(r, c.unit) \in Nat
          /\ used[r][c.unit] \in Nat
      BY <2>1, AmountTypes
    <3>3. c \in keys[r] => HandedOver(r, c.unit) = Amount(r, c)
      BY DEF HandedOver, Amount
    <3>4. c \in Reserved(r) <=> c \in Emitted(r)
      BY DEF Corrected
    <3>5. pc[r] \in {"idle", "refused", "released", "done"}
      BY <2>1, <3>1 DEF TypeOK, Phase, Active, CleanShape
    <3>6. CASE pc[r] = "done"
      <4>1. /\ held[r] = Reserved(r) /\ keys[r] = Reserved(r) /\ corrected[r] = Emitted(r)
        BY <3>1, <3>6 DEF PassShape, CleanShape
      <4> QED BY <3>2, <3>3, <3>4, <3>6, <4>1 DEF Contribution, Correction, Spent
    <3>7. CASE pc[r] # "done"
      <4>1. held[r] = {} /\ corrected[r] = {}
        BY <3>1, <3>5, <3>7 DEF PassShape, CleanShape
      <4> QED BY <3>7, <4>1 DEF Contribution, Spent
    <3> QED BY <3>6, <3>7
  <2>3. Contributions(c) = Spendings(c)
    BY <2>2 DEF Contributions, Spendings
  <2> QED BY <2>1, <2>3 DEF CounterIsSum
<1> QED BY <1>1, Invariance, PTL

-----------------------------------------------------------------------------
(* Refinement                                                              *)

\* Under the refinement mapping the atomic charge is the charge.
AtomicCharges ==
  \A c \in HardCap \cap Counter : Atomic!Charged(c) = Total(Charges(c), N)

\* The two specifications agree on what a request occupies of a ceiling.
LEMMA SameCharges == TypeOK /\ Shape => AtomicCharges
<1> SUFFICES ASSUME TypeOK, Shape, NEW c \in HardCap \cap Counter
             PROVE  Atomic!Charged(c) = Total(Charges(c), N)
  BY DEF AtomicCharges
<1>1. ASSUME NEW r \in Requests PROVE Atomic!Charge(r, c) = Charge(r, c)
  <2>1. PassShape(r)
    BY DEF Shape
  <2>2. CASE c \notin Reserved(r)
    <3>1. [q \in Requests |-> Reserved(q) \cap HardCap][r] = Reserved(r) \cap HardCap
      OBVIOUS
    <3> QED BY <2>2, <3>1 DEF Atomic!Charge, Charge
  <2>3. CASE c \in Reserved(r) /\ r \in served
    BY <2>3 DEF Atomic!Charge, Charge, AtomicState, PerCounter, Amount, Atomic!Min2, Min2
  <2>4. CASE c \in Reserved(r) /\ r \notin served /\ pc[r] = "running"
    BY <2>4 DEF Atomic!Charge, Charge, AtomicState, PerCounter, Amount
  <2>5. CASE c \in Reserved(r) /\ r \notin served /\ pc[r] # "running"
    <3>1. AtomicState(r) \in {"new", "closed"}
      BY <2>5 DEF AtomicState
    <3> QED BY <2>5, <3>1 DEF Atomic!Charge, Charge
  <2> QED BY <2>2, <2>3, <2>4, <2>5
<1>2. [r \in Requests |-> Atomic!Charge(r, c)] = Charges(c)
  BY <1>1 DEF Charges
<1>3. Atomic!Charged(c) = Total([r \in Requests |-> Atomic!Charge(r, c)], N)
  BY DEF Atomic!Charged, Atomic!Requests, Requests, Atomic!Total, Atomic!Prefix, Total, Prefix
<1> QED BY <1>2, <1>3

\* When the last scope has been reserved without a breach, the ceilings have room for
\* the estimate: the counters were checked one by one and have moved since.
LEMMA RoomToAdmit ==
  ASSUME IInv, faults = 0, NEW r \in Requests, Admit(r), NEW c \in Reserved(r) \cap HardCap
  PROVE  Total(Charges(c), N) + Amount(r, c) <= Limit[c]
<1>1. TypeOK /\ Shape /\ OccupiedWithinCap /\ c \in Counter /\ Limit[c] \in Nat
  BY CounterFacts, BudgetAssumption DEF IInv
<1>2. PassShape(r) /\ CleanShape(r)
  BY <1>1 DEF Shape
<1>3. Amount(r, c) \in Nat
  BY <1>1, AmountTypes
<1>4. c \in held[r] /\ c \notin breached[r] /\ corrected[r] = {} /\ r \notin served
  BY <1>2 DEF Admit, PassShape, CleanShape
<1>5. Occupied(r, c) = Amount(r, c) /\ Charge(r, c) = 0
  BY <1>3, <1>4 DEF Occupied, Contribution, Charge, Min2, Admit
<1> DEFINE g == [Charges(c) EXCEPT ![r] = Amount(r, c)]
<1>6. Charges(c) \in [1 .. N -> Int] /\ Occupation(c) \in [1 .. N -> Int]
  BY <1>1, SummandTypes DEF Summable
<1>7. Charges(c)[r] = 0
  BY <1>5 DEF Charges
<1>8. g \in [1 .. N -> Int] /\ \A q \in 1 .. N : g[q] <= Occupation(c)[q]
  <2>1. \A q \in Requests : Charge(q, c) <= Occupied(q, c)
    BY <1>1, ChargeBounds DEF Bounded
  <2>2. \A q \in Requests : Charges(c)[q] = Charge(q, c) /\ Occupation(c)[q] = Occupied(q, c)
    BY DEF Charges, Occupation
  <2> HIDE DEF Charges, Occupation
  <2> QED BY <1>3, <1>5, <1>6, <2>1, <2>2 DEF Requests
<1>9. Total(g, N) = Total(Charges(c), N) - Charges(c)[r] + Amount(r, c)
  <2>1. r \in 1 .. N /\ N \in Nat /\ Amount(r, c) \in Int
    BY <1>3, BudgetAssumption DEF Requests
  <2> HIDE DEF Charges
  <2> QED BY <1>6, <2>1, TotalChange
<1>10. Total(g, N) <= Total(Occupation(c), N)
  <2> HIDE DEF Charges, Occupation, g
  <2> QED BY <1>6, <1>8, TotalMonotone, BudgetAssumption
<1>11. Total(Occupation(c), N) <= Limit[c]
  BY <1>1 DEF OccupiedWithinCap
<1>12. /\ Total(g, N) \in Int /\ Total(Charges(c), N) \in Int /\ Total(Occupation(c), N) \in Int
  <2> HIDE DEF Charges, Occupation, g
  <2> QED BY <1>6, <1>8, TotalType, BudgetAssumption
<1> QED BY <1>1, <1>3, <1>7, <1>9, <1>10, <1>11, <1>12

\* The atomic variables of a request are functions of these.
LEMMA MappedState ==
  ASSUME NEW r \in Requests, Arrive(r) \/ Progress(r) \/ Failure(r), TypeOK,
         AtomicState(r)' = AtomicState(r), used' = used
  PROVE  UNCHANGED Atomic!vars
<1>1. ASSUME NEW q \in Requests PROVE AtomicState(q)' = AtomicState(q)
  <2>1. CASE q = r
    BY <2>1
  <2>2. CASE q # r
    BY <2>2, OthersKeep DEF AtomicState
  <2> QED BY <2>1, <2>2
<1>2. [q \in Requests |-> AtomicState(q)]' = [q \in Requests |-> AtomicState(q)]
  BY <1>1
<1>3. [q \in Requests |-> PerCounter(q, used[q])]' = [q \in Requests |-> PerCounter(q, used[q])]
  BY DEF PerCounter
<1> QED BY <1>2, <1>3 DEF Atomic!vars

\* A step of a request whose atomic state changes without a bill is the atomic step of
\* that change.
LEMMA MappedChange ==
  ASSUME NEW r \in Requests, Arrive(r) \/ Progress(r) \/ Failure(r), TypeOK, used' = used
  PROVE  /\ [q \in Requests |-> AtomicState(q)]'
              = [[q \in Requests |-> AtomicState(q)] EXCEPT ![r] = AtomicState(r)']
         /\ [q \in Requests |-> PerCounter(q, used[q])]'
              = [q \in Requests |-> PerCounter(q, used[q])]
<1>1. \A q \in Requests : q # r => AtomicState(q)' = AtomicState(q)
  BY OthersKeep DEF AtomicState
<1> QED BY <1>1 DEF PerCounter

\* Every step of the concurrent reservation is a step of the atomic one or a stutter.
LEMMA AtomicStep ==
  ASSUME IInv, faults = 0, faults' = 0, [Next]_vars
  PROVE  [Atomic!Next]_Atomic!vars
<1>1. TypeOK /\ Shape
  BY DEF IInv
<1>2. CASE UNCHANGED vars
  <2>1. UNCHANGED <<pc, served, used>>
    BY <1>2 DEF vars
  <2>2. \A q \in Requests : AtomicState(q)' = AtomicState(q)
    BY <2>1 DEF AtomicState
  <2>3. /\ [q \in Requests |-> AtomicState(q)]' = [q \in Requests |-> AtomicState(q)]
        /\ [q \in Requests |-> PerCounter(q, used[q])]' = [q \in Requests |-> PerCounter(q, used[q])]
    BY <2>1, <2>2 DEF PerCounter
  <2> QED BY <2>3 DEF Atomic!vars
<1>3. ASSUME NEW r \in Requests, Arrive(r) \/ Progress(r) \/ Failure(r)
      PROVE  [Atomic!Next]_Atomic!vars
  <2>1. PassShape(r) /\ CleanShape(r)
    BY <1>1 DEF Shape
  <2>2. r \in Atomic!Requests
    BY DEF Atomic!Requests, Requests
  <2>3. CASE Admit(r)
    <3>1. AtomicState(r) = "new" /\ AtomicState(r)' = "admitted" /\ used' = used
      BY <1>1, <2>1, <2>3 DEF Admit, AtomicState, PassShape, TypeOK
    <3>2. ASSUME NEW c \in Reserved(r) \cap HardCap
          PROVE  Atomic!Charged(c) + PerCounter(r, Projected[r])[c] <= Limit[c]
      <4>1. Total(Charges(c), N) + Amount(r, c) <= Limit[c]
        BY <2>3, RoomToAdmit
      <4>2. c \in HardCap \cap Counter
        BY CounterFacts
      <4>3. Atomic!Charged(c) = Total(Charges(c), N)
        BY <1>1, <4>2, SameCharges DEF AtomicCharges
      <4> QED BY <4>1, <4>2, <4>3 DEF PerCounter, Amount
    <3>3. Atomic!Admit(r)
      BY <1>1, <1>3, <3>1, <3>2, MappedChange DEF Atomic!Admit
    <3> QED BY <2>2, <3>3 DEF Atomic!Next
  <2>4. CASE Serve(r)
    <3>1. PICK paid \in Bills : used' = [used EXCEPT ![r] = paid]
      BY <2>4 DEF Serve
    <3>2. AtomicState(r) = "admitted" /\ AtomicState(r)' = "billed"
      BY <1>1, <2>1, <2>4 DEF Serve, AtomicState, PassShape, TypeOK
    <3>3. \A q \in Requests : q # r => AtomicState(q)' = AtomicState(q) /\ used'[q] = used[q]
      BY <1>1, <1>3, OthersKeep DEF AtomicState
    <3>4. [q \in Requests |-> AtomicState(q)]'
            = [[q \in Requests |-> AtomicState(q)] EXCEPT ![r] = "billed"]
      BY <3>2, <3>3
    <3>5. [q \in Requests |-> PerCounter(q, used[q])]'
            = [[q \in Requests |-> PerCounter(q, used[q])] EXCEPT ![r] = PerCounter(r, paid)]
      BY <1>1, <3>1, <3>3 DEF PerCounter, TypeOK
    <3>6. Atomic!Bill(r)
      BY <3>1, <3>2, <3>4, <3>5 DEF Atomic!Bill
    <3> QED BY <2>2, <3>6 DEF Atomic!Next
  <2>5. CASE Refuse(r) \/ ProviderFails(r) \/ Die(r) \/ StreamRouteFails(r)
    <3>1. used' = used /\ served' = served /\ pc'[r] \in {"rolling_back", "releasing", "dropped", "leaked"}
          /\ Active(r)
      BY <1>1, <2>5 DEF Refuse, ProviderFails, Die, StreamRouteFails, TypeOK, Active
    <3>2. CASE r \in served
      <4>1. AtomicState(r)' = AtomicState(r)
        BY <3>1, <3>2 DEF AtomicState
      <4> QED BY <1>1, <1>3, <3>1, <4>1, MappedState
    <3>3. CASE r \notin served /\ AtomicState(r) = "closed"
      <4>1. AtomicState(r)' = AtomicState(r)
        BY <3>1, <3>3 DEF AtomicState
      <4> QED BY <1>1, <1>3, <3>1, <4>1, MappedState
    <3>4. CASE r \notin served /\ AtomicState(r) # "closed"
      <4>1. AtomicState(r) \in {"new", "admitted"} /\ AtomicState(r)' = "closed"
        BY <3>1, <3>4 DEF AtomicState
      <4>2. Atomic!Close(r)
        BY <1>1, <1>3, <3>1, <4>1, MappedChange DEF Atomic!Close
      <4> QED BY <2>2, <4>2 DEF Atomic!Next
    <3> QED BY <3>2, <3>3, <3>4
  <2>6. CASE \/ Arrive(r) \/ ReserveScope(r) \/ GiveBack(r) \/ GivenBack(r) \/ Correct(r)
             \/ EmitDone(r)
    <3>1. used' = used /\ AtomicState(r)' = AtomicState(r)
      BY <1>1, <2>1, <2>6 DEF Arrive, ReserveScope, GiveBack, GivenBack, Correct, EmitDone,
        AtomicState, PassShape, TypeOK
    <3> QED BY <1>1, <1>3, <3>1, MappedState
  <2>7. ~(SkipScope(r) \/ GiveBackFails(r) \/ AppendFails(r) \/ CorrectFails(r))
    BY DEF SkipScope, GiveBackFails, AppendFails, CorrectFails
  <2> QED BY <1>3, <2>3, <2>4, <2>5, <2>6, <2>7 DEF Progress, Failure
<1> QED BY <1>2, <1>3 DEF Next

\* The initial states map to the initial state.
LEMMA AtomicInit == Init => Atomic!Init
<1> SUFFICES ASSUME Init PROVE Atomic!Init
  OBVIOUS
<1>1. \A r \in Requests : AtomicState(r) = "new"
  BY DEF Init, AtomicState
<1>2. \A r \in Requests : used[r] = Projected[r]
  BY DEF Init
<1> QED BY <1>1, <1>2 DEF Atomic!Init, Atomic!Requests, Requests

\* While the store answers, the lock-free reservation implements atomic admission, for
\* any number of requests, ceilings, estimates and bills.
THEOREM ImplementsAtomic ==
  ASSUME MaxFaults = 0
  PROVE  Spec => AtomicSpec
<1>1. IInv => faults = 0
  BY DEF IInv, TypeOK
<1>2. IInv /\ IInv' /\ [Next]_vars => [Atomic!Next]_Atomic!vars
  <2>1. IInv' => faults' = 0
    BY DEF IInv, TypeOK
  <2> QED BY <1>1, <2>1, AtomicStep
<1> QED BY <1>2, AtomicInit, Invariance, PTL DEF Spec, AtomicSpec, Atomic!Spec

-----------------------------------------------------------------------------
(* Routing                                                                 *)

\* What a turn has at each of its stages.
Turns ==
  DOMAIN chain = Turn /\
  \A t \in Turn :
    /\ at[t] = "new" <=> ask[t] = None
    /\ at[t] \in {"new", "lookup", "load", "fill", "route"} =>
         reason[t] = None /\ chain[t] = <<>>
    /\ at[t] = "try" => chain[t] # <<>>
    /\ winner[t] # None =>
         /\ at[t] \in {"pin", "done"} /\ "chat" \in Feature[winner[t]]
         /\ \E i \in DOMAIN chain[t] : winner[t] = chain[t][i]
    /\ at[t] = "pin" => winner[t] # None

\* Before the first policy there is none anywhere.
NoPolicyYet ==
  created = 0 => policies = <<>> /\ cached = None /\ \A t \in Turn : rules[t] = None

\* m can do what q needs, but for answering a chat, with room for so many tokens.
CanDo(m, q, tokens) == (q.needs \ {"chat"}) \subseteq Feature[m] /\ Window[m] >= tokens

\* The models of a chain can take the prompt, the first of them the answer too.
ChainsFit ==
  \A t \in Turn : \A i \in DOMAIN chain[t] :
    reason[t] # "policy" /\ chain[t][i] # ask[t].model =>
      CanDo(chain[t][i], ask[t],
            IF chain[t][i] = chain[t][1] THEN RequiredContext(ask[t]) ELSE ask[t].prompt)

\* The models in the tier of some turn's model or a better one.
HighEnough == {m \in Model : \E u \in Asked : Tier[m] >= Tier[ask[u].model]}

AllComplex == \A t \in Asked : ask[t].band = "complex" /\ Unmoved(t)

Floor ==
  AllComplex =>
    /\ pinned # None => pinned \in HighEnough
    /\ \A t \in Turn :
         /\ affinity[t] # None => affinity[t] \in HighEnough
         /\ \A i \in DOMAIN chain[t] : chain[t][i] \in HighEnough

\* The models that cost no more than some turn's model.
LowEnough == {m \in Model : \E u \in Asked : Price[m] <= Price[ask[u].model]}

NoneFailed == \A t \in Asked : Unmoved(t) /\ (winner[t] # None => winner[t] = chain[t][1])

Lid ==
  NoneFailed =>
    /\ pinned # None => pinned \in LowEnough
    /\ \A t \in Turn :
         /\ affinity[t] # None => affinity[t] \in LowEnough
         /\ chain[t] # <<>> => chain[t][1] \in LowEnough
         /\ winner[t] # None => winner[t] \in LowEnough

RoutingInv == RoutingTypeOK /\ Turns /\ NoPolicyYet /\ ChainsFit /\ Floor /\ Lid

-----------------------------------------------------------------------------
(* Prices                                                                  *)

Shares == {0, 1000, 1500, 2000}

Counts == [input : Nat, output : Nat, cached : Nat, written : Nat]

Bill ==
  [pc : {"hit", "actual", "baseline", "input", "output", "emit"}, path : {"chat", "stream", "hit"},
   requested : Spelling, served : Spelling, tokens : Tokens, saved : Nat, bp : Shares,
   actual : Int \cup {None}, baseline : Int \cup {None}, input : Int \cup {None},
   output : Int \cup {None}]

Month == [requests : Nat, gross : Nat, fees : Int, shares : SUBSET Shares]

\* What a request has at each of its stages.
BillTyped ==
  bill # NoBill =>
    /\ bill \in Bill
    /\ bill.pc \in {"baseline", "input", "output", "emit"} => bill.actual \in Int
    /\ bill.pc \in {"input", "output", "emit"} => bill.baseline \in Int
    /\ bill.path = "hit" <=> bill.pc = "hit"

\* The fees of a month are those of its total, to half a unit for each request.
FeesFollow ==
  /\ month.requests = 0 => month.gross = 0 /\ month.fees = 0
  /\ \A bp \in Shares :
       month.shares \subseteq {bp} =>
         /\ 10000 * month.fees - bp * month.gross <= 5000 * month.requests
         /\ bp * month.gross - 10000 * month.fees <= 5000 * month.requests

MoneyInv ==
  /\ rows \in [Model -> Tariff \cup {None}] /\ table \in [Model -> Tariff \cup {None}]
  /\ month \in Month
  /\ BillTyped /\ FeesFollow /\ PartsMakeWhole /\ PricesServed

-----------------------------------------------------------------------------
(* What may be decided                                                     *)

\* The cheapest of some models is one of them (alternates_for, min_by).
LEMMA CheapestIsOne ==
  ASSUME NEW S \in SUBSET Model, S # {}
  PROVE  Cheapest(S) \in S
<1> DEFINE prices == {Price[m] : m \in S}
<1>1. prices \subseteq Nat /\ prices # {}
  BY RoutingAssumption
<1>2. PICK p \in prices : \A o \in prices : p <= o
  <2> HIDE DEF prices
  <2> QED BY <1>1, Minimum
<1>3. \E m \in S : \A n \in S : Price[m] <= Price[n]
  BY <1>2
<1> QED BY <1>3 DEF Cheapest

\* The best tier, and the dearest in it: the models above another are fewer the higher that
\* one is.
LEMMA BestIsOne ==
  ASSUME NEW S \in SUBSET Model, S # {}
  PROVE  Best(S) \in S
<1> DEFINE above == [m \in S |-> {n \in S : Tier[n] > Tier[m] \/ (Tier[n] = Tier[m] /\ Price[n] > Price[m])}]
           F == {above[m] : m \in S}
           R == StrictSubsetOrdering(S)
<1>1. \A m \in S : Tier[m] \in Int /\ Price[m] \in Int
  BY RoutingAssumption DEF Tiers, Cheap, Frontier
<1>2. /\ \A n \in S : n \notin above[n] /\ above[n] \subseteq S
      /\ \A n, m \in S : n \in above[m] => above[n] \subseteq above[m]
      /\ \A n, m \in S : n \notin above[m] =>
           Tier[n] < Tier[m] \/ (Tier[n] = Tier[m] /\ Price[n] <= Price[m])
  <2>1. \A n, m \in S : n \in above[m] <=>
          Tier[n] > Tier[m] \/ (Tier[n] = Tier[m] /\ Price[n] > Price[m])
    OBVIOUS
  <2>2. \A n \in S : above[n] \subseteq S
    OBVIOUS
  <2> HIDE DEF above
  <2>3. \A n \in S : n \notin above[n]
    BY <1>1, <2>1
  <2>4. ASSUME NEW n \in S, NEW m \in S, NEW o \in S, n \in above[m], o \in above[n]
        PROVE  o \in above[m]
    BY <1>1, <2>1, <2>4
  <2>5. ASSUME NEW n \in S, NEW m \in S, n \notin above[m]
        PROVE  Tier[n] < Tier[m] \/ (Tier[n] = Tier[m] /\ Price[n] <= Price[m])
    BY <1>1, <2>1, <2>5
  <2> QED BY <2>2, <2>3, <2>4, <2>5
<1> HIDE DEF above
<1>3. IsWellFoundedOn(R, FiniteSubsetsOf(S))
  BY FS_StrictSubsetOrderingWellFounded
<1>4. F \subseteq FiniteSubsetsOf(S)
  <2>1. IsFiniteSet(S)
    BY PricingAssumption, FS_Subset
  <2>2. \A m \in S : above[m] \subseteq S /\ IsFiniteSet(above[m])
    BY <1>2, <2>1, FS_Subset
  <2> QED BY <2>2 DEF FiniteSubsetsOf
<1>5. F # {}
  OBVIOUS
<1> HIDE DEF F, R
<1>6. \E s \in F : \A r \in F : ~ (<<r, s>> \in R)
  BY <1>3, <1>4, <1>5, WFMin, Zenon
<1> USE DEF F, R
<1>7. PICK m \in S : \A n \in S : ~ (<<above[n], above[m]>> \in R)
  BY <1>6
<1>8. \A n \in S : n \notin above[m]
  <2>1. SUFFICES ASSUME NEW n \in S, n \in above[m] PROVE FALSE
    OBVIOUS
  <2>2. n \in above[m] /\ n \notin above[n]
    BY <1>2, <2>1
  <2>3. above[n] \subseteq above[m] /\ above[m] \subseteq S
    BY <1>2, <2>1
  <2> QED BY <1>7, <2>2, <2>3 DEF StrictSubsetOrdering
<1>9. \E x \in S : \A n \in S : Tier[n] < Tier[x] \/ (Tier[n] = Tier[x] /\ Price[n] <= Price[x])
  BY <1>2, <1>8
<1> QED BY <1>9, Zenon DEF Best

\* What a decision has to do with its request.
Sound(d, q) ==
  /\ d.model \in Model \cup {q.model} /\ d.why \in Reason
  /\ d.why # "policy" /\ d.model # q.model => CanDo(d.model, q, RequiredContext(q))

\* A model nothing but the request and its pin led to.
Led(d, q, pin) ==
  d.why \notin {"policy", "provider_unavailable"} =>
    \/ d.model = q.model
    \/ d.model = pin /\ pin \in Model
    \/ q.band # "complex" /\ d.model \in Model /\ Price[d.model] < Price[q.model]

\* What select_at_tier may choose is cheaper than the model asked for, and can do what the
\* request needs.
LEMMA CandidatesSound ==
  ASSUME NEW q \in Ask, NEW tier, NEW why \in Reason, NEW d \in SelectAtTier(q, tier, why)
  PROVE  Sound(d, q) /\ d.model \in Model /\ Price[d.model] < Price[q.model] /\ d.why = why
<1>1. PICK m \in Candidates(q, tier) : d = To(m, why)
  BY DEF SelectAtTier
<1>2. d.model = m /\ d.why = why
  BY <1>1 DEF To
<1>3. m \in Model /\ Price[m] < Price[q.model] /\ Satisfies(m, q, RequiredContext(q))
  BY <1>1 DEF Candidates
<1>4. CanDo(m, q, RequiredContext(q))
  BY <1>3 DEF CanDo, Satisfies
<1> QED BY <1>2, <1>3, <1>4 DEF Sound, Name

\* passthrough_capped leaves the model asked for only because the key may not have it or its
\* provider is down, and then for one that can do what the request needs.
LEMMA CappedSound ==
  ASSUME NEW q \in Ask, NEW d \in Capped(q)
  PROVE  Sound(d, q) /\ (d.model = q.model \/ d.why \in {"policy", "provider_unavailable"})
<1> DEFINE ceiling == IF q.ceiling = None THEN Frontier ELSE q.ceiling
<1>1. CASE d = To(q.model, "passthrough")
  <2>1. d.model = q.model /\ d.why = "passthrough" /\ q.model \in Name
    BY <1>1, RoutingAssumption DEF To
  <2> QED BY <2>1 DEF Sound, Reason
<1>2. CASE /\ Capable(q, ceiling) # {}
           /\ d = To(Best(Capable(q, ceiling)),
                     IF IsAvailable(q.model) THEN "policy" ELSE "provider_unavailable")
  <2>1. Best(Capable(q, ceiling)) \in Capable(q, ceiling)
    BY <1>2, BestIsOne DEF Capable
  <2>2. PICK m \in Model : m = Best(Capable(q, ceiling)) /\ Satisfies(m, q, RequiredContext(q))
    BY <2>1 DEF Capable
  <2>3. d.model = m /\ d.why \in {"policy", "provider_unavailable"}
    BY <1>2, <2>2 DEF To
  <2>4. CanDo(m, q, RequiredContext(q))
    BY <2>2 DEF CanDo, Satisfies
  <2> QED BY <2>3, <2>4 DEF Sound, Name, Reason
<1> QED BY <1>1, <1>2 DEF Capped

\* Stages [2b] to [4] of route: the pin, a cheaper model of a request that is not complex, or
\* passthrough_capped.
LEMMA UnruledSound ==
  ASSUME NEW q \in Ask, NEW pin, NEW mode, NEW d \in Unruled(q, pin, mode)
  PROVE  Sound(d, q) /\ Led(d, q, pin)
<1>1. CASE MayPin(pin, q)
  <2>1. d.model = pin /\ d.why = "complexity"
    BY <1>1 DEF Unruled, To
  <2>2. pin \in Model /\ CanDo(pin, q, RequiredContext(q))
    BY <1>1 DEF MayPin, CanDo
  <2> QED BY <2>1, <2>2 DEF Sound, Led, Name, Reason
<1>2. CASE d \in Capped(q)
  BY <1>2, CappedSound DEF Led
<1>3. ASSUME NEW tier, d \in SelectAtTier(q, tier, "complexity"), TargetTier(mode, q.band) # None
      PROVE  Sound(d, q) /\ Led(d, q, pin)
  <2>1. "complexity" \in Reason
    BY DEF Reason
  <2>2. q.band # "complex"
    BY <1>3 DEF TargetTier
  <2> QED BY <1>3, <2>1, <2>2, CandidatesSound DEF Led
<1> QED BY <1>1, <1>2, <1>3 DEF Unruled, ByComplexity

\* A rule may move a request to its own pin, and otherwise to a model that can serve it.
LEMMA RuledSound ==
  ASSUME NEW q \in Ask, NEW pin, NEW act, NEW d \in Ruled(q, pin, act)
  PROVE  Sound(d, q)
<1>1. CASE d = To(q.model, "policy")
  <2>1. d.model = q.model /\ d.why = "policy" /\ q.model \in Name
    BY <1>1, RoutingAssumption DEF To
  <2> QED BY <2>1 DEF Sound, Reason
<1>2. CASE act.pin \in Model /\ d = To(act.pin, "policy")
  <2>1. d.model = act.pin /\ d.why = "policy"
    BY <1>2 DEF To
  <2> QED BY <1>2, <2>1 DEF Sound, Reason, Name
<1>3. ASSUME NEW tier, d \in SelectAtTier(q, tier, "policy") PROVE Sound(d, q)
  <2>1. "policy" \in Reason
    BY DEF Reason
  <2> QED BY <1>3, <2>1, CandidatesSound
<1>4. CASE d \in Unruled(q, pin, act.mode)
  BY <1>4, UnruledSound
<1> QED BY <1>1, <1>2, <1>3, <1>4 DEF Ruled

\* Without a policy no rule acts.
LEMMA NoPolicyNoAction ==
  ASSUME NEW q
  PROVE  ActionOf(None, q) = None
BY Zenon DEF ActionOf

\* Every decision of route, whatever the pin and the policy it has read.
LEMMA DecisionsSound ==
  ASSUME NEW q \in Ask, NEW pin, NEW policy, NEW d \in Decisions(q, pin, policy)
  PROVE  Sound(d, q) /\ (policy = None => Led(d, q, pin))
<1>1. CASE d.model = q.model /\ d.why \in {"passthrough", "user_override"}
  BY <1>1, RoutingAssumption DEF Sound, Led, Reason
<1>2. CASE d \in Unruled(q, pin, q.hint)
  BY <1>2, UnruledSound
<1>3. CASE ActionOf(policy, q) # None /\ d \in Ruled(q, pin, ActionOf(policy, q))
  BY <1>3, RuledSound, NoPolicyNoAction
<1> QED BY <1>1, <1>2, <1>3 DEF Decisions, To

-----------------------------------------------------------------------------
(* What a chain is made of                                                 *)

Alternates(first, q) == {m \in Model : first \in Model /\ Alternate(m, first, q)}

\* Sequences of one and of two elements.
LEMMA ShortSeqs ==
  \A S : \A a, b \in S : /\ <<a>> \in Seq(S) /\ Len(<<a>>) <= 2
                       /\ <<a, b>> \in Seq(S) /\ Len(<<a, b>>) <= 2
OBVIOUS

\* alternates_for returns at most two models, each of them an alternate.
LEMMA AlternatesTyped ==
  ASSUME NEW first, NEW q
  PROVE  AlternatesFor(first, q) \in Seq(Alternates(first, q)) /\ Len(AlternatesFor(first, q)) <= 2
<1> DEFINE all  == Alternates(first, q)
           rest == all \ {Cheapest(all)}
<1>1. AlternatesFor(first, q) =
        IF all = {} THEN <<>>
        ELSE IF rest = {} THEN <<Cheapest(all)>> ELSE <<Cheapest(all), Cheapest(rest)>>
  BY DEF AlternatesFor, Alternates
<1>2. all \subseteq Model /\ rest \subseteq Model
  BY DEF Alternates
<1>3. all # {} => Cheapest(all) \in all
  BY <1>2, CheapestIsOne
<1>4. rest # {} => Cheapest(rest) \in all
  BY <1>2, CheapestIsOne
<1> HIDE DEF all, rest
<1>5. CASE all = {}
  BY <1>1, <1>5
<1>6. CASE all # {} /\ rest = {}
  <2>1. AlternatesFor(first, q) = <<Cheapest(all)>>
    BY <1>1, <1>6
  <2>2. <<Cheapest(all)>> \in Seq(all) /\ Len(<<Cheapest(all)>>) <= 2
    BY <1>3, <1>6, ShortSeqs, Zenon
  <2> QED BY <2>1, <2>2, Zenon DEF all
<1>7. CASE all # {} /\ rest # {}
  <2>1. AlternatesFor(first, q) = <<Cheapest(all), Cheapest(rest)>>
    BY <1>1, <1>7
  <2>2. /\ <<Cheapest(all), Cheapest(rest)>> \in Seq(all)
        /\ Len(<<Cheapest(all), Cheapest(rest)>>) <= 2
    BY <1>3, <1>4, <1>7, ShortSeqs, Zenon
  <2> QED BY <2>1, <2>2, Zenon DEF all
<1> QED BY <1>5, <1>6, <1>7 DEF all

\* A chain has one to four models: the chosen one, its alternates and the one asked for
\* (FallbackChain::build).
LEMMA ChainMade ==
  ASSUME NEW first, NEW q
  PROVE  /\ Chain(first, q) \in Seq({first, q.model} \cup Alternates(first, q))
         /\ Len(Chain(first, q)) \in 1 .. 4 /\ Chain(first, q)[1] = first
<1> DEFINE S == {first, q.model} \cup Alternates(first, q)
<1>1. PICK others \in Seq(S) : others = AlternatesFor(first, q) /\ Len(others) <= 2
  <2>1. AlternatesFor(first, q) \in Seq(S)
    BY AlternatesTyped
  <2> QED BY <2>1, AlternatesTyped
<1>2. PICK one \in Seq(S) : one = <<first>> /\ Len(one) = 1 /\ one[1] = first
  <2>1. first \in S
    OBVIOUS
  <2>2. <<first>> \in Seq(S) /\ Len(<<first>>) = 1 /\ <<first>>[1] = first
    BY <2>1
  <2> QED BY <2>2
<1>3. PICK tried \in Seq(S) : tried = one \o others /\ Len(tried) \in 1 .. 3 /\ tried[1] = first
  <2>1. one \o others \in Seq(S) /\ Len(one \o others) \in 1 .. 3 /\ (one \o others)[1] = first
    BY <1>1, <1>2
  <2> QED BY <2>1
<1>4. q.model \in S
  OBVIOUS
<1>5. Append(tried, q.model) \in Seq(S) /\ Len(Append(tried, q.model)) \in 1 .. 4
      /\ Append(tried, q.model)[1] = first
  BY <1>3, <1>4
<1>6. Chain(first, q) \in {tried, Append(tried, q.model)}
  BY <1>1, <1>2, <1>3 DEF Chain
<1>7. CASE Chain(first, q) = tried
  BY <1>3, <1>7
<1>8. CASE Chain(first, q) = Append(tried, q.model)
  BY <1>5, <1>8
<1> QED BY <1>6, <1>7, <1>8

-----------------------------------------------------------------------------
(* The steps of the turns                                                  *)

\* What Route finds: a decision d and the chain c it leads to.
Found(t, d, c) ==
  /\ Sound(d, ask[t]) /\ (rules[t] = None => Led(d, ask[t], affinity[t]))
  /\ c \in Seq({d.model, ask[t].model} \cup Alternates(d.model, ask[t]))
  /\ Len(c) \in 1 .. 4 /\ c[1] = d.model
  /\ reason' = [reason EXCEPT ![t] = d.why]
  /\ chain' = [chain EXCEPT ![t] = c]

\* Route takes a sound decision and the chain that belongs to it.
LEMMA RouteFinds ==
  ASSUME RoutingTypeOK, Turns, NEW t \in Turn, Route(t)
  PROVE  \E d, c : Found(t, d, c)
<1>1. ask[t] \in Ask
  BY DEF Route, Goes, Turns, RoutingTypeOK
<1>2. PICK d \in Decisions(ask[t], affinity[t], rules[t]) :
        /\ reason' = [reason EXCEPT ![t] = d.why]
        /\ chain' = [chain EXCEPT ![t] = Chain(d.model, ask[t])]
  BY DEF Route
<1>3. Sound(d, ask[t]) /\ (rules[t] = None => Led(d, ask[t], affinity[t]))
  BY <1>1, DecisionsSound
<1>4. Found(t, d, Chain(d.model, ask[t]))
  BY <1>2, <1>3, ChainMade DEF Found
<1> QED BY <1>4

\* RemoveAt shortens a sequence (delete_policy).
LEMMA RemovedFrom ==
  ASSUME NEW S, NEW s \in Seq(S), NEW i \in DOMAIN s
  PROVE  RemoveAt(s, i) \in Seq(S) /\ Len(RemoveAt(s, i)) <= Len(s)
<1>1. i \in 1 .. Len(s)
  OBVIOUS
<1>2. SubSeq(s, 1, i - 1) \in Seq(S) /\ Len(SubSeq(s, 1, i - 1)) = i - 1
  BY <1>1
<1>3. SubSeq(s, i + 1, Len(s)) \in Seq(S) /\ Len(SubSeq(s, i + 1, Len(s))) = Len(s) - i
  BY <1>1
<1> QED BY <1>1, <1>2, <1>3 DEF RemoveAt

\* Routing a turn preserves the types, the stages and the absence of policies.
LEMMA RouteTyped ==
  ASSUME RoutingTypeOK, Turns, NoPolicyYet, NEW t \in Turn, Route(t)
  PROVE  RoutingTypeOK' /\ Turns' /\ NoPolicyYet'
<1>1. PICK d, c : Found(t, d, c)
  BY RouteFinds
<1>2. /\ d.why \in Reason /\ c \in Seq(Model \cup {ask[t].model}) /\ Len(c) <= 4 /\ c # <<>>
      /\ None \notin Reason
  <2>1. {d.model, ask[t].model} \cup Alternates(d.model, ask[t]) \subseteq Model \cup {ask[t].model}
    BY <1>1 DEF Found, Sound, Alternates
  <2>2. c \in Seq(Model \cup {ask[t].model}) /\ Len(c) \in 1 .. 4
    BY <1>1, <2>1 DEF Found
  <2>3. c # <<>> /\ Len(c) <= 4
    <3>1. Len(<<>>) = 0
      OBVIOUS
    <3>2. Len(c) \in 1 .. 4
      BY <1>1 DEF Found
    <3>3. \A k \in 1 .. 4 : k # 0 /\ k <= 4
      OBVIOUS
    <3> QED BY <3>1, <3>2, <3>3, Zenon
  <2>4. None \notin Reason
    BY RoutingAssumption
  <2>5. d.why \in Reason
    BY <1>1 DEF Found, Sound
  <2> QED BY <2>2, <2>3, <2>4, <2>5
<1>3. at[t] = "route" /\ at' = [at EXCEPT ![t] = "try"] /\ winner[t] = None
  BY DEF Route, Goes, Turns
<1>4. reason' = [reason EXCEPT ![t] = d.why] /\ chain' = [chain EXCEPT ![t] = c]
  BY <1>1 DEF Found
<1>5. /\ affinity' = [affinity EXCEPT ![t] = None] /\ rules' = [rules EXCEPT ![t] = None]
      /\ UNCHANGED <<ask, winner, sharedVars>>
  BY DEF Route
<1>6. RoutingTypeOK'
  <2>1. \A u \in Turn : Len(chain'[u]) <= 4
                         /\ (chain'[u] # <<>> => chain'[u] \in Seq(Model \cup {ask'[u].model}))
    <3> TAKE u \in Turn
    <3>1. chain'[u] = (IF u = t THEN c ELSE chain[u]) /\ ask'[u] = ask[u]
      BY <1>4, <1>5 DEF Turns
    <3> QED BY <1>2, <3>1 DEF RoutingTypeOK
  <2>2. reason' \in [Turn -> Reason \cup {None}]
    BY <1>2, <1>4 DEF RoutingTypeOK
  <2> QED BY <1>3, <1>5, <2>1, <2>2 DEF RoutingTypeOK, sharedVars
<1>7. Turns'
  BY <1>2, <1>3, <1>4, <1>5 DEF Turns, RoutingTypeOK
<1>8. NoPolicyYet'
  BY <1>5 DEF NoPolicyYet, RoutingTypeOK, sharedVars
<1> QED BY <1>6, <1>7, <1>8

\* The other steps of a turn.
LEMMA TurnTyped ==
  ASSUME RoutingTypeOK, Turns, NoPolicyYet, NEW t \in Turn, TakesTurn(t)
  PROVE  RoutingTypeOK' /\ Turns' /\ NoPolicyYet'
<1> USE DEF Goes, sharedVars
<1>1. CASE ReadAffinity(t)
  <2> USE DEF ReadAffinity
  <2>1. PICK q \in Ask : ask' = [ask EXCEPT ![t] = q]
    BY <1>1
  <2>2. None # q
    BY RoutingAssumption
  <2>3. chain[t] = <<>> /\ winner[t] = None /\ at[t] = "new"
    BY <1>1 DEF Turns
  <2>4. RoutingTypeOK'
    <3>1. \A u \in Turn : chain'[u] # <<>> => chain'[u] \in Seq(Model \cup {ask'[u].model})
      <4> TAKE u \in Turn
      <4>1. chain' = chain /\ (chain[u] # <<>> => ask'[u] = ask[u])
        BY <1>1, <2>1, <2>3 DEF RoutingTypeOK
      <4> QED BY <4>1 DEF RoutingTypeOK
    <3>2. \A u \in Turn : Len(chain'[u]) <= 4
      BY <1>1 DEF RoutingTypeOK
    <3>3. ask' \in [Turn -> Ask \cup {None}]
      BY <2>1 DEF RoutingTypeOK
    <3>4. affinity' \in [Turn -> Name \cup {None}]
      BY <1>1 DEF RoutingTypeOK
    <3> QED BY <1>1, <3>1, <3>2, <3>3, <3>4 DEF RoutingTypeOK
  <2>5. Turns'
    BY <1>1, <2>1, <2>2, <2>3 DEF Turns, RoutingTypeOK
  <2> QED BY <1>1, <2>4, <2>5 DEF NoPolicyYet
<1>2. CASE LookUpPolicy(t)
  <2> USE DEF LookUpPolicy
  <2>1. RoutingTypeOK'
    BY <1>2 DEF RoutingTypeOK
  <2>2. Turns'
    BY <1>2 DEF Turns, RoutingTypeOK
  <2> QED BY <1>2, <2>1, <2>2 DEF NoPolicyYet, RoutingTypeOK
<1>3. CASE LoadPolicy(t)
  <2> USE DEF LoadPolicy
  <2>1. PICK p : rules' = [rules EXCEPT ![t] = p] /\ (policies = <<>> => p = None)
                 /\ p \in Policy \cup {None}
    <3>1. policies # <<>> => Last(policies) \in Policy
      BY DEF RoutingTypeOK, Last
    <3> QED BY <1>3, <3>1
  <2>2. RoutingTypeOK'
    BY <1>3, <2>1 DEF RoutingTypeOK
  <2>3. Turns'
    BY <1>3 DEF Turns, RoutingTypeOK
  <2> QED BY <1>3, <2>1, <2>2, <2>3 DEF NoPolicyYet, RoutingTypeOK
<1>4. CASE FillPolicy(t)
  <2> USE DEF FillPolicy
  <2>1. RoutingTypeOK'
    BY <1>4 DEF RoutingTypeOK
  <2>2. Turns'
    BY <1>4 DEF Turns, RoutingTypeOK
  <2> QED BY <1>4, <2>1, <2>2 DEF NoPolicyYet, RoutingTypeOK
<1>5. CASE Route(t)
  BY <1>5, RouteTyped
<1>6. CASE Deny(t)
  <2> USE DEF Deny
  <2>1. RoutingTypeOK'
    BY <1>6 DEF RoutingTypeOK
  <2>2. Turns'
    BY <1>6 DEF Turns, RoutingTypeOK
  <2> QED BY <1>6, <2>1, <2>2 DEF NoPolicyYet, RoutingTypeOK
<1>7. CASE Answer(t)
  <2> USE DEF Answer
  <2>1. PICK i \in DOMAIN chain[t] : "chat" \in Feature[chain[t][i]] /\ winner' = [winner EXCEPT ![t] = chain[t][i]]
    BY <1>7
  <2>2. chain[t][i] \in Name
    <3>1. chain[t] \in Seq(Model \cup {ask[t].model}) /\ ask[t] \in Ask
      BY <1>7 DEF Turns, RoutingTypeOK
    <3> QED BY <3>1, RoutingAssumption DEF Name
  <2>3. RoutingTypeOK'
    BY <1>7, <2>1, <2>2 DEF RoutingTypeOK
  <2>4. Turns'
    BY <1>7, <2>1, <2>2, RoutingAssumption DEF Turns, RoutingTypeOK
  <2> QED BY <1>7, <2>3, <2>4 DEF NoPolicyYet, RoutingTypeOK
<1>8. CASE Fail(t)
  <2> USE DEF Fail
  <2>1. RoutingTypeOK'
    <3>1. \A u \in Turn : Len(chain'[u]) <= 4
                           /\ (chain'[u] # <<>> => chain'[u] \in Seq(Model \cup {ask'[u].model}))
      <4> TAKE u \in Turn
      <4>1. chain'[u] = (IF u = t THEN <<>> ELSE chain[u]) /\ ask' = ask
        BY <1>8 DEF Turns
      <4> QED BY <4>1 DEF RoutingTypeOK
    <3> QED BY <1>8, <3>1 DEF RoutingTypeOK
  <2>2. Turns'
    BY <1>8 DEF Turns, RoutingTypeOK
  <2> QED BY <1>8, <2>1, <2>2 DEF NoPolicyYet, RoutingTypeOK
<1>9. CASE Pin(t)
  <2> USE DEF Pin
  <2>1. RoutingTypeOK'
    BY <1>9 DEF RoutingTypeOK
  <2>2. Turns'
    BY <1>9 DEF Turns, RoutingTypeOK
  <2> QED BY <1>9, <2>1, <2>2 DEF NoPolicyYet, RoutingTypeOK
<1> QED BY <1>1, <1>2, <1>3, <1>4, <1>5, <1>6, <1>7, <1>8, <1>9 DEF TakesTurn

\* What happens around the turns.
LEMMA AroundTyped ==
  ASSUME RoutingTypeOK, Turns, NoPolicyYet,
         \/ ForgetPin \/ ExpirePolicy \/ CreatePolicy \/ DeletePolicy \/ DropCachedPolicy
         \/ CircuitOpens \/ CircuitCloses
  PROVE  RoutingTypeOK' /\ Turns' /\ NoPolicyYet'
<1>1. UNCHANGED turnVars
  BY DEF ForgetPin, ExpirePolicy, CreatePolicy, DeletePolicy, DropCachedPolicy, CircuitOpens, CircuitCloses
<1>2. Turns'
  BY <1>1 DEF Turns, turnVars
<1> USE <1>2 DEF turnVars
<1>3. CASE ForgetPin
  BY <1>3 DEF ForgetPin, RoutingTypeOK, NoPolicyYet
<1>4. CASE ExpirePolicy
  BY <1>4 DEF ExpirePolicy, RoutingTypeOK, NoPolicyYet
<1>5. CASE CreatePolicy
  <2>1. PICK p \in Policy : policies' = Append(policies, p)
    BY <1>5 DEF CreatePolicy
  <2>2. created' = created + 1 /\ created' + outages <= MaxChanges /\ created \in Nat /\ outages \in Nat
    BY <1>5, RoutingAssumption DEF CreatePolicy, RoutingTypeOK
  <2>3. policies' \in Seq(Policy) /\ Len(policies') <= created'
    BY <2>1, <2>2 DEF RoutingTypeOK
  <2> QED BY <1>5, <2>2, <2>3 DEF CreatePolicy, RoutingTypeOK, NoPolicyYet
<1>6. CASE DeletePolicy
  <2>1. PICK i \in DOMAIN policies : policies' = RemoveAt(policies, i)
    BY <1>6 DEF DeletePolicy
  <2>2. policies' \in Seq(Policy) /\ Len(policies') <= Len(policies) /\ policies # <<>>
    BY <2>1, RemovedFrom DEF RoutingTypeOK
  <2>3. Len(policies') <= created'
    <3>1. \A a, b, n \in Int : a <= b /\ b <= n => a <= n
      OBVIOUS
    <3>2. Len(policies') \in Int /\ Len(policies) \in Int /\ created \in Int
      BY <2>2 DEF RoutingTypeOK
    <3> QED BY <1>6, <2>2, <3>1, <3>2 DEF DeletePolicy, RoutingTypeOK
  <2>4. created # 0
    <3>1. policies = <<>> => DOMAIN policies = {}
      OBVIOUS
    <3> QED BY <2>1, <3>1 DEF NoPolicyYet
  <2> QED BY <1>6, <2>2, <2>3, <2>4 DEF DeletePolicy, RoutingTypeOK, NoPolicyYet
<1>7. CASE DropCachedPolicy
  BY <1>7 DEF DropCachedPolicy, RoutingTypeOK, NoPolicyYet
<1>8. CASE CircuitOpens
  BY <1>8, RoutingAssumption DEF CircuitOpens, RoutingTypeOK, NoPolicyYet
<1>9. CASE CircuitCloses
  BY <1>9 DEF CircuitCloses, RoutingTypeOK, NoPolicyYet
<1> QED BY <1>3, <1>4, <1>5, <1>6, <1>7, <1>8, <1>9

-----------------------------------------------------------------------------
(* What was free stays free                                                *)

\* A step forgets nothing of a turn that was asked, routed or answered, nor a policy.
Carried ==
  /\ created' = 0 => created = 0
  /\ \A u \in Turn :
       /\ ask[u] # None => ask'[u] = ask[u]
       /\ reason[u] # None => reason'[u] = reason[u]
       /\ winner[u] # None => winner'[u] = winner[u] /\ chain'[u] = chain[u]

\* If the turns are free after a step they were before it.
LEMMA PremisesStay ==
  ASSUME Carried
  PROVE  (AllComplex' => AllComplex) /\ (NoneFailed' => NoneFailed)
<1>1. ASSUME NEW u \in Asked, u \in Asked' => Unmoved(u)'
      PROVE  u \in Asked' /\ Unmoved(u) /\ ask'[u] = ask[u]
  <2>1. u \in Asked' /\ ask'[u] = ask[u]
    BY DEF Asked, Carried
  <2>2. reason[u] = None \/ reason'[u] = reason[u]
    BY DEF Asked, Carried
  <2>3. None \notin {"policy", "provider_unavailable"}
    BY RoutingAssumption DEF Reason
  <2> QED BY <1>1, <2>1, <2>2, <2>3 DEF Unmoved, Carried
<1>2. ASSUME AllComplex' PROVE AllComplex
  BY <1>1, <1>2 DEF AllComplex
<1>3. ASSUME NoneFailed' PROVE NoneFailed
  <2> SUFFICES ASSUME NEW u \in Asked
               PROVE  Unmoved(u) /\ (winner[u] # None => winner[u] = chain[u][1])
    BY DEF NoneFailed
  <2>1. u \in Turn
    BY DEF Asked
  <2> QED BY <1>1, <1>3, <2>1 DEF NoneFailed, Carried
<1> QED BY <1>2, <1>3

\* A model that was good enough stays good enough: turns are only added.
LEMMA EnoughStays ==
  ASSUME Carried
  PROVE  HighEnough \subseteq HighEnough' /\ LowEnough \subseteq LowEnough'
<1>1. \A u \in Asked : u \in Asked' /\ ask'[u] = ask[u]
  BY DEF Asked, Carried
<1> QED BY <1>1 DEF HighEnough, LowEnough

\* What the steps but Route do to the chains, the answers and the pins.
Kept ==
  /\ Carried
  /\ pinned' \in {pinned, None} \cup {winner[u] : u \in Turn}
  /\ \A u \in Turn :
       /\ chain'[u] # <<>> => chain'[u] = chain[u] /\ ask'[u] = ask[u] /\ reason'[u] = reason[u]
       /\ affinity'[u] \in {affinity[u], pinned, None}
       /\ winner'[u] = winner[u] \/ \E i \in DOMAIN chain'[u] : winner'[u] = chain'[u][i]

\* Steps that only hand on models preserve what is known of chains and pins.
LEMMA KeptSound ==
  ASSUME RoutingInv, Turns', Kept
  PROVE  ChainsFit' /\ Floor' /\ Lid'
<1>1. ChainsFit'
  <2> SUFFICES ASSUME NEW u \in Turn, NEW i \in DOMAIN chain'[u],
                      reason'[u] # "policy", chain'[u][i] # ask'[u].model
               PROVE  CanDo(chain'[u][i], ask'[u],
                        IF chain'[u][i] = chain'[u][1] THEN RequiredContext(ask'[u]) ELSE ask'[u].prompt)
    BY DEF ChainsFit
  <2>1. chain'[u] = chain[u] /\ ask'[u] = ask[u] /\ reason'[u] = reason[u]
    BY DEF Kept
  <2> QED BY <2>1 DEF RoutingInv, ChainsFit
<1>2. Floor'
  <2> SUFFICES ASSUME AllComplex'
               PROVE  /\ pinned' # None => pinned' \in HighEnough'
                      /\ \A u \in Turn :
                           /\ affinity'[u] # None => affinity'[u] \in HighEnough'
                           /\ \A i \in DOMAIN chain'[u] : chain'[u][i] \in HighEnough'
    BY DEF Floor
  <2>1. AllComplex /\ Carried
    BY PremisesStay DEF Kept
  <2>2. pinned # None => pinned \in HighEnough
    BY <2>1 DEF RoutingInv, Floor
  <2>3. \A u \in Turn : affinity[u] # None => affinity[u] \in HighEnough
    BY <2>1 DEF RoutingInv, Floor
  <2>4. \A u \in Turn : \A i \in DOMAIN chain[u] : chain[u][i] \in HighEnough
    BY <2>1 DEF RoutingInv, Floor
  <2>5. \A u \in Turn : winner[u] # None => winner[u] \in HighEnough
    BY <2>4 DEF RoutingInv, Turns
  <2>6. pinned' # None => pinned' \in HighEnough
    BY <2>2, <2>5 DEF Kept
  <2>7. \A u \in Turn : affinity'[u] # None => affinity'[u] \in HighEnough
    BY <2>2, <2>3 DEF Kept
  <2>8. \A u \in Turn : \A i \in DOMAIN chain'[u] : chain'[u][i] \in HighEnough
    <3> SUFFICES ASSUME NEW u \in Turn, NEW i \in DOMAIN chain'[u] PROVE chain'[u][i] \in HighEnough
      OBVIOUS
    <3>1. chain'[u] = chain[u]
      BY DEF Kept
    <3> QED BY <2>4, <3>1
  <2> QED BY <2>1, <2>6, <2>7, <2>8, EnoughStays
<1>3. Lid'
  <2> SUFFICES ASSUME NoneFailed'
               PROVE  /\ pinned' # None => pinned' \in LowEnough'
                      /\ \A u \in Turn :
                           /\ affinity'[u] # None => affinity'[u] \in LowEnough'
                           /\ chain'[u] # <<>> => chain'[u][1] \in LowEnough'
                           /\ winner'[u] # None => winner'[u] \in LowEnough'
    BY DEF Lid
  <2>1. NoneFailed /\ Carried
    BY PremisesStay DEF Kept
  <2>2. pinned # None => pinned \in LowEnough
    BY <2>1 DEF RoutingInv, Lid
  <2>3. \A u \in Turn : /\ affinity[u] # None => affinity[u] \in LowEnough
                        /\ chain[u] # <<>> => chain[u][1] \in LowEnough
                        /\ winner[u] # None => winner[u] \in LowEnough
    BY <2>1 DEF RoutingInv, Lid
  <2>4. pinned' # None => pinned' \in LowEnough
    BY <2>2, <2>3 DEF Kept
  <2>5. \A u \in Turn : affinity'[u] # None => affinity'[u] \in LowEnough
    BY <2>2, <2>3 DEF Kept
  <2>6. \A u \in Turn : chain'[u] # <<>> => chain'[u][1] \in LowEnough
    BY <2>3 DEF Kept
  <2>7. ASSUME NEW u \in Turn, winner'[u] # None PROVE winner'[u] \in LowEnough
    <3>1. CASE winner'[u] = winner[u]
      BY <2>3, <2>7, <3>1
    <3>2. CASE winner'[u] # winner[u]
      <4>1. winner'[u] = chain'[u][1]
        BY <2>7 DEF NoneFailed, Asked, Turns
      <4>2. chain'[u] # <<>>
        BY <3>2 DEF Kept
      <4> QED BY <2>6, <4>1, <4>2
    <3> QED BY <3>1, <3>2
  <2> QED BY <2>1, <2>4, <2>5, <2>6, <2>7, EnoughStays
<1> QED BY <1>1, <1>2, <1>3

\* The steps of a turn but Route only hand on models.
LEMMA TurnKeeps ==
  ASSUME RoutingTypeOK, Turns, NEW t \in Turn, TakesTurn(t), ~Route(t)
  PROVE  Kept
<1> USE DEF Kept, Carried, Goes, sharedVars
<1>1. CASE ReadAffinity(t)
  BY <1>1 DEF ReadAffinity, Turns, RoutingTypeOK
<1>2. CASE LookUpPolicy(t)
  BY <1>2 DEF LookUpPolicy
<1>3. CASE LoadPolicy(t)
  BY <1>3 DEF LoadPolicy
<1>4. CASE FillPolicy(t)
  BY <1>4 DEF FillPolicy
<1>5. CASE Deny(t)
  BY <1>5 DEF Deny, RoutingTypeOK
<1>6. CASE Answer(t)
  BY <1>6 DEF Answer, Turns, RoutingTypeOK
<1>7. CASE Fail(t)
  BY <1>7 DEF Fail, Turns
<1>8. CASE Pin(t)
  BY <1>8 DEF Pin
<1> QED BY <1>1, <1>2, <1>3, <1>4, <1>5, <1>6, <1>7, <1>8 DEF TakesTurn

\* What happens around the turns only hands on models.
LEMMA AroundKeeps ==
  ASSUME RoutingTypeOK,
         \/ ForgetPin \/ ExpirePolicy \/ CreatePolicy \/ DeletePolicy \/ DropCachedPolicy
         \/ CircuitOpens \/ CircuitCloses
  PROVE  Kept
BY DEF Kept, Carried, turnVars, RoutingTypeOK, ForgetPin, ExpirePolicy, CreatePolicy, DeletePolicy,
       DropCachedPolicy, CircuitOpens, CircuitCloses

\* The models Route may turn to are good enough, if what led to them was.
LEMMA RouteSound ==
  ASSUME RoutingInv, Turns', NEW t \in Turn, Route(t)
  PROVE  ChainsFit' /\ Floor' /\ Lid'
<1>1. PICK d, c : Found(t, d, c)
  BY RouteFinds DEF RoutingInv
<1>2. /\ ask[t] \in Ask /\ ask[t] # None /\ winner[t] = None /\ reason[t] = None
      /\ UNCHANGED <<ask, winner, sharedVars>> /\ affinity' = [affinity EXCEPT ![t] = None]
  BY RoutingAssumption DEF RoutingInv, Route, Goes, Turns, RoutingTypeOK
<1>3. \A u \in Turn : /\ chain'[u] = IF u = t THEN c ELSE chain[u]
                      /\ reason'[u] = IF u = t THEN d.why ELSE reason[u]
                      /\ affinity'[u] = IF u = t THEN None ELSE affinity[u]
  BY <1>1, <1>2 DEF Found, RoutingInv, RoutingTypeOK, Turns
<1>4. Carried
  BY <1>2, <1>3 DEF Carried, sharedVars
<1>5. DOMAIN c = 1 .. Len(c) /\ 1 \in DOMAIN c /\ c[1] = d.model
  <2>1. c \in Seq({d.model, ask[t].model} \cup Alternates(d.model, ask[t])) /\ Len(c) \in 1 .. 4
    BY <1>1 DEF Found
  <2>2. DOMAIN c = 1 .. Len(c)
    BY <2>1
  <2>3. \A k \in 1 .. 4 : 1 \in 1 .. k
    OBVIOUS
  <2> QED BY <1>1, <2>1, <2>2, <2>3 DEF Found
<1>6. \A i \in DOMAIN c : c[i] \in {d.model, ask[t].model} \cup Alternates(d.model, ask[t])
  BY <1>1, <1>5 DEF Found
<1>7. Sound(d, ask[t]) /\ (rules[t] = None => Led(d, ask[t], affinity[t]))
  BY <1>1 DEF Found
<1>8. ChainsFit'
  <2> SUFFICES ASSUME NEW u \in Turn, NEW i \in DOMAIN chain'[u],
                      reason'[u] # "policy", chain'[u][i] # ask'[u].model
               PROVE  CanDo(chain'[u][i], ask'[u],
                        IF chain'[u][i] = chain'[u][1] THEN RequiredContext(ask'[u]) ELSE ask'[u].prompt)
    BY DEF ChainsFit
  <2>1. CASE u # t
    BY <1>2, <1>3, <2>1 DEF RoutingInv, ChainsFit
  <2>2. CASE u = t
    <3>1. c[i] # ask[t].model /\ d.why # "policy" /\ i \in DOMAIN c
      BY <1>2, <1>3, <2>2
    <3>2. CASE c[i] = d.model
      BY <1>2, <1>3, <1>5, <1>7, <2>2, <3>1, <3>2 DEF Sound
    <3>3. CASE c[i] # d.model
      <4>1. CanDo(c[i], ask[t], ask[t].prompt)
        BY <1>6, <3>1, <3>3 DEF Alternates, Alternate, Satisfies, CanDo
      <4> QED BY <1>2, <1>3, <1>5, <2>2, <3>3, <4>1
    <3> QED BY <3>2, <3>3
  <2> QED BY <2>1, <2>2
\* Nothing but the request and its pin led to the decision.
<1>9. ASSUME Unmoved(t)'
      PROVE  /\ ask[t].model \in Model /\ d.model \in Model
             /\ \/ d.model = ask[t].model
                \/ d.model = affinity[t] /\ affinity[t] # None
                \/ ask[t].band # "complex" /\ Price[d.model] < Price[ask[t].model]
  <2>1. rules[t] = None /\ d.why \notin {"policy", "provider_unavailable"} /\ ask[t].model \in Model
    BY <1>2, <1>3, <1>9 DEF Unmoved, RoutingInv, NoPolicyYet, sharedVars
  <2>2. None \notin Model
    BY RoutingAssumption DEF Name
  <2> QED BY <1>7, <2>1, <2>2 DEF Sound, Led
<1>10. Floor'
  <2> SUFFICES ASSUME AllComplex'
               PROVE  /\ pinned' # None => pinned' \in HighEnough'
                      /\ \A u \in Turn :
                           /\ affinity'[u] # None => affinity'[u] \in HighEnough'
                           /\ \A i \in DOMAIN chain'[u] : chain'[u][i] \in HighEnough'
    BY DEF Floor
  <2>1. AllComplex /\ HighEnough \subseteq HighEnough'
    BY <1>4, PremisesStay, EnoughStays
  <2>2. /\ pinned # None => pinned \in HighEnough
        /\ \A u \in Turn : /\ affinity[u] # None => affinity[u] \in HighEnough
                           /\ \A i \in DOMAIN chain[u] : chain[u][i] \in HighEnough
    BY <2>1 DEF RoutingInv, Floor
  <2>3. t \in Asked /\ Unmoved(t)' /\ ask[t].band = "complex"
    BY <1>2, <2>1, RoutingAssumption DEF AllComplex, Asked
  <2>4. \A m \in Model : Tier[m] \in Int
    BY RoutingAssumption DEF Tiers, Cheap, Frontier
  <2>5. d.model \in HighEnough /\ ask[t].model \in HighEnough
    BY <1>9, <2>2, <2>3, <2>4 DEF HighEnough
  <2>6. Alternates(d.model, ask[t]) \subseteq HighEnough
    <3>1. PICK v \in Asked : Tier[d.model] >= Tier[ask[v].model] /\ ask[v].model \in Model
      BY <2>1, <2>5 DEF HighEnough, AllComplex, Unmoved
    <3> QED BY <2>4, <2>5, <3>1 DEF HighEnough, Alternates, Alternate
  <2>7. \A i \in DOMAIN c : c[i] \in HighEnough
    BY <1>6, <2>5, <2>6
  <2> QED BY <1>2, <1>3, <2>1, <2>2, <2>7 DEF sharedVars
<1>11. Lid'
  <2> SUFFICES ASSUME NoneFailed'
               PROVE  /\ pinned' # None => pinned' \in LowEnough'
                      /\ \A u \in Turn :
                           /\ affinity'[u] # None => affinity'[u] \in LowEnough'
                           /\ chain'[u] # <<>> => chain'[u][1] \in LowEnough'
                           /\ winner'[u] # None => winner'[u] \in LowEnough'
    BY DEF Lid
  <2>1. NoneFailed /\ LowEnough \subseteq LowEnough'
    BY <1>4, PremisesStay, EnoughStays
  <2>2. /\ pinned # None => pinned \in LowEnough
        /\ \A u \in Turn : /\ affinity[u] # None => affinity[u] \in LowEnough
                           /\ chain[u] # <<>> => chain[u][1] \in LowEnough
                           /\ winner[u] # None => winner[u] \in LowEnough
    BY <2>1 DEF RoutingInv, Lid
  <2>3. t \in Asked /\ Unmoved(t)'
    BY <1>2, RoutingAssumption DEF NoneFailed, Asked
  <2>4. \A m \in Model : Price[m] \in Int
    BY RoutingAssumption
  <2>5. d.model \in LowEnough
    BY <1>9, <2>2, <2>3, <2>4 DEF LowEnough
  <2> QED BY <1>2, <1>3, <1>5, <2>1, <2>2, <2>5 DEF sharedVars
<1> QED BY <1>8, <1>10, <1>11

\* Every step of the conversation preserves the invariant.
LEMMA RoutingStep ==
  ASSUME RoutingInv, Routes
  PROVE  RoutingInv'
<1>1. RoutingTypeOK' /\ Turns' /\ NoPolicyYet'
  BY TurnTyped, AroundTyped DEF Routes, RoutingInv
<1>2. CASE \E t \in Turn : Route(t)
  BY <1>1, <1>2, RouteSound DEF RoutingInv
<1>3. CASE Kept
  BY <1>1, <1>3, KeptSound DEF RoutingInv
<1>4. Kept \/ \E t \in Turn : Route(t)
  BY TurnKeeps, AroundKeeps DEF Routes, RoutingInv
<1> QED BY <1>2, <1>3, <1>4

\* A new conversation satisfies the invariant.
LEMMA RoutingStart ==
  ASSUME RoutingInit
  PROVE  RoutingInv
<1>1. RoutingTypeOK
  BY RoutingAssumption DEF RoutingInit, RoutingTypeOK
<1>2. Turns
  BY DEF RoutingInit, Turns
<1>3. NoPolicyYet /\ ChainsFit /\ Floor /\ Lid
  BY DEF RoutingInit, NoPolicyYet, ChainsFit, Floor, Lid
<1> QED BY <1>1, <1>2, <1>3 DEF RoutingInv

\* The invariant is strong enough for the floor, the lid and the fit of the answers.
LEMMA RoutingInvSafe ==
  ASSUME RoutingInv
  PROVE  RoutingSafety
<1>1. ComplexFloor
  <2> SUFFICES ASSUME AllComplex, NEW t \in Asked, winner[t] # None
               PROVE  \E u \in Asked : Tier[winner[t]] >= Tier[ask[u].model]
    BY DEF ComplexFloor, AllComplex
  <2>1. winner[t] \in HighEnough
    BY DEF Asked, RoutingInv, Turns, Floor
  <2> QED BY <2>1 DEF HighEnough
<1>2. NeverDearer
  <2> SUFFICES ASSUME NoneFailed, NEW t \in Asked, winner[t] # None
               PROVE  \E u \in Asked : Price[winner[t]] <= Price[ask[u].model]
    BY DEF NeverDearer, NoneFailed
  <2>1. winner[t] \in LowEnough
    BY DEF Asked, RoutingInv, Lid
  <2> QED BY <2>1 DEF LowEnough
<1>3. SubstituteFits
  <2> SUFFICES ASSUME NEW t \in Asked, winner[t] \notin {None, ask[t].model}, reason[t] # "policy"
               PROVE  Satisfies(winner[t], ask[t],
                        IF winner[t] = chain[t][1] THEN RequiredContext(ask[t]) ELSE ask[t].prompt)
    BY DEF SubstituteFits
  <2>1. PICK i \in DOMAIN chain[t] : winner[t] = chain[t][i]
    BY DEF Asked, RoutingInv, Turns
  <2>2. "chat" \in Feature[winner[t]]
    BY DEF Asked, RoutingInv, Turns
  <2>3. CanDo(winner[t], ask[t],
              IF winner[t] = chain[t][1] THEN RequiredContext(ask[t]) ELSE ask[t].prompt)
    BY <2>1 DEF Asked, RoutingInv, ChainsFit
  <2> QED BY <2>2, <2>3 DEF CanDo, Satisfies
<1> QED BY <1>1, <1>2, <1>3 DEF RoutingSafety

-----------------------------------------------------------------------------
(* Prices                                                                  *)

\* A price has rates, also for long prompts (rates_for).
LEMMA RatesTyped ==
  ASSUME NEW p \in Tariff, NEW n \in Nat
  PROVE  RatesFor(p, n).input \in Nat /\ RatesFor(p, n).output \in Nat
<1>1. p \in [input : Nat, output : Nat, readBp : Nat, writeBp : Nat, long : LongRate \cup {None}]
  BY AttributionAssumption
<1>2. p.long # None => p.long \in [threshold : Nat, input : Nat, output : Nat]
  BY <1>1 DEF LongRate
<1> QED BY <1>1, <1>2 DEF RatesFor

\* A cost is an amount (cost_for_tokens).
LEMMA CostTyped ==
  ASSUME NEW rate \in Nat, NEW n \in Nat
  PROVE  CostForTokens(rate, n) \in Int
<1>1. rate * n \in Int
  OBVIOUS
<1>2. \A k \in Int : Rounded(k, Million) \in Int
  BY DEF Rounded, Million
<1> QED BY <1>1, <1>2 DEF CostForTokens

\* A scaled rate is a rate (scale).
LEMMA ScaleTyped ==
  ASSUME NEW rate \in Nat, NEW bp \in Nat
  PROVE  Scale(rate, bp) \in Nat
<1>1. rate * bp \in Nat
  OBVIOUS
<1>2. \A k \in Nat : k \div WholeBp \in Nat
  BY DEF WholeBp
<1> QED BY <1>1, <1>2 DEF Scale

\* Every figure of a price is an amount.
LEMMA FiguresTyped ==
  ASSUME NEW p \in Tariff, NEW u \in Counts
  PROVE  /\ InputCostOf(p, u) \in Int /\ OutputCostOf(p, u) \in Int /\ CostOf(p, u) \in Int
         /\ CacheDiscountOf(p, u) \in Int
         /\ \A n \in Nat : CostForTokens(RatesFor(p, TotalInput(u)).input, n) \in Int
<1>1. TotalInput(u) \in Nat /\ u.input \in Nat /\ u.output \in Nat /\ u.cached \in Nat /\ u.written \in Nat
  BY DEF TotalInput, Counts
<1>2. p.readBp \in Nat /\ p.writeBp \in Nat
  BY AttributionAssumption
<1>3. PICK rate \in Nat : rate = RatesFor(p, TotalInput(u)).input
  BY <1>1, RatesTyped
<1>4. Scale(rate, p.readBp) \in Nat /\ Scale(rate, p.writeBp) \in Nat
  BY <1>2, ScaleTyped
<1>5. /\ CostForTokens(rate, u.input) \in Int /\ CostForTokens(rate, u.cached) \in Int
      /\ CostForTokens(Scale(rate, p.readBp), u.cached) \in Int
      /\ CostForTokens(Scale(rate, p.writeBp), u.written) \in Int
  BY <1>1, <1>4, CostTyped
<1>6. InputCostOf(p, u) \in Int
  BY <1>3, <1>5 DEF InputCostOf
<1>7. OutputCostOf(p, u) \in Int
  BY <1>1, RatesTyped, CostTyped DEF OutputCostOf
<1>8. CacheDiscountOf(p, u) \in Int
  BY <1>3, <1>5 DEF CacheDiscountOf, FloorAtZero
<1>9. \A n \in Nat : CostForTokens(RatesFor(p, TotalInput(u)).input, n) \in Int
  BY <1>3, CostTyped
<1> QED BY <1>6, <1>7, <1>8, <1>9 DEF CostOf

\* A name resolves to a model that has a price, if to any: of the rows that claim it one is
\* first (PricingTable::resolve).
LEMMA ResolveTyped ==
  ASSUME NEW prices \in [Model -> Tariff \cup {None}], NEW n
  PROVE  Resolve(prices, n) # None => Resolve(prices, n) \in Model /\ prices[Resolve(prices, n)] \in Tariff
<1> DEFINE known == Known(prices, n)
           ranks == {IdRank[m] : m \in known}
<1>1. known \subseteq Model /\ \A m \in known : prices[m] \in Tariff
  BY DEF Known
<1> SUFFICES ASSUME known # {}
             PROVE  Resolve(prices, n) # None => Resolve(prices, n) \in known
  BY <1>1 DEF Resolve
<1>2. ranks \subseteq Nat /\ ranks # {}
  BY <1>1, PricingAssumption
<1>3. PICK r \in ranks : \A o \in ranks : r <= o
  <2> HIDE DEF ranks
  <2> QED BY <1>2, Minimum
<1>4. \E m \in known : \A o \in known : IdRank[m] <= IdRank[o]
  BY <1>3
<1> HIDE DEF ranks
<1>5. (CHOOSE m \in known : \A o \in known : IdRank[m] <= IdRank[o]) \in known
  BY <1>4, Zenon
<1> QED BY <1>5 DEF Resolve

\* A priced request costs an amount, an unknown model the amount given for it (cost_of).
LEMMA CostOfModelTyped ==
  ASSUME NEW prices \in [Model -> Tariff \cup {None}], NEW n, NEW u \in Counts, NEW unknown \in Int
  PROVE  CostOfModel(prices, n, u, unknown) \in Int
<1>1. Resolve(prices, n) # None => CostOf(prices[Resolve(prices, n)], u) \in Int
  BY ResolveTyped, FiguresTyped
<1> QED BY <1>1 DEF CostOfModel

-----------------------------------------------------------------------------
(* A saving and its parts                                                  *)

\* The plans' shares of the savings (savings_share).
LEMMA ShareOfPlan ==
  ASSUME NEW p
  PROVE  SavingsShare(p) \in Shares
BY DEF SavingsShare, Shares

\* A share of an amount is at most the amount, and right to half a unit.
LEMMA ShareRounded ==
  ASSUME NEW amount \in Nat, NEW bp \in Shares
  PROVE  /\ MulBasisPoints(amount, bp) \in Nat /\ MulBasisPoints(amount, bp) <= amount
         /\ 10000 * MulBasisPoints(amount, bp) - bp * amount <= 5000
         /\ bp * amount - 10000 * MulBasisPoints(amount, bp) <= 5000
<1> USE DEF MulBasisPoints, Rounded, WholeBp
<1>1. CASE bp = 0
  BY <1>1
<1>2. CASE bp = 1000
  BY <1>2
<1>3. CASE bp = 1500
  BY <1>3
<1>4. CASE bp = 2000
  BY <1>4
<1> QED BY <1>1, <1>2, <1>3, <1>4 DEF Shares

\* A breakdown has a saving, a fee and a rest, none of them negative, that add up
\* (SavingsBreakdown::compute).
LEMMA SavingsTyped ==
  ASSUME NEW baseline \in Int, NEW actual \in Int, NEW bp \in Shares
  PROVE  LET s == Savings(baseline, actual, bp)
         IN  /\ s.gross \in Nat /\ s.fee \in Nat /\ s.net \in Nat /\ s.fee + s.net = s.gross
             /\ s.fee = MulBasisPoints(s.gross, bp)
<1>1. PICK gross \in Nat : gross = FloorAtZero(baseline - actual)
  BY DEF FloorAtZero
<1>2. PICK fee \in Nat : fee = MulBasisPoints(gross, bp) /\ fee <= gross
  BY ShareRounded
<1>3. Savings(baseline, actual, bp) =
        [baseline |-> baseline, actual |-> actual, gross |-> gross, fee |-> fee, net |-> gross - fee]
  BY <1>1, <1>2 DEF Savings
<1> QED BY <1>2, <1>3

\* The components are not negative and make up the saving (SavingsComponents::compute).
LEMMA PartsTyped ==
  ASSUME NEW gross \in Nat, NEW compressionRaw \in Int, NEW cacheRaw \in Int
  PROVE  LET p == Components(gross, compressionRaw, cacheRaw)
         IN  p.routing >= 0 /\ p.compression >= 0 /\ p.cache >= 0
             /\ p.routing + p.compression + p.cache = gross
<1>1. PICK compression \in 0 .. gross : compression = AtMost(FloorAtZero(compressionRaw), gross)
  BY DEF AtMost, FloorAtZero
<1>2. PICK left \in Nat : left = gross - compression
  BY <1>1
<1>3. PICK cache \in 0 .. left : cache = AtMost(FloorAtZero(cacheRaw), left)
  BY DEF AtMost, FloorAtZero
<1>4. Components(gross, compressionRaw, cacheRaw) =
        [routing |-> gross - compression - cache, compression |-> compression, cache |-> cache]
  BY <1>1, <1>2, <1>3 DEF Components, FloorAtZero
<1> QED BY <1>1, <1>2, <1>3, <1>4

-----------------------------------------------------------------------------
(* The steps of a request                                                  *)

\* A request being priced has token counts, also before compression.
LEMMA TokensTyped ==
  ASSUME MoneyInv, bill # NoBill
  PROVE  bill \in Bill /\ bill.tokens \in Counts /\ Uncompressed \in Counts /\ bill.saved \in Nat
<1>1. bill \in Bill
  BY DEF MoneyInv, BillTyped
<1>2. bill.tokens \in Counts /\ bill.saved \in Nat
  BY <1>1, AttributionAssumption DEF Bill, Counts
<1>3. [bill.tokens EXCEPT !.input = @ + bill.saved] \in Counts
  BY <1>2 DEF Counts
<1> QED BY <1>1, <1>2, <1>3 DEF Uncompressed

\* Each read of the table leaves the bill well typed.
LEMMA ReadsTyped ==
  ASSUME MoneyInv, ReadActual \/ ReadBaseline \/ ReadInput \/ ReadOutput
  PROVE  BillTyped'
<1>1. bill # NoBill
  BY DEF ReadActual, ReadBaseline, ReadInput, ReadOutput, Reads, NoBill
<1>2. bill \in Bill /\ bill.tokens \in Counts /\ Uncompressed \in Counts
  BY <1>1, TokensTyped
<1>3. table \in [Model -> Tariff \cup {None}]
  BY DEF MoneyInv
<1>4. Priced # None => Priced \in Tariff
  BY <1>3, ResolveTyped DEF Priced
<1>5. CASE ReadActual
  <2>1. PICK amount \in Int : amount = CostOfModel(table, bill.served, bill.tokens, 0)
    BY <1>2, <1>3, CostOfModelTyped
  <2>2. bill.pc = "actual" /\ bill' = [bill EXCEPT !.pc = "baseline", !.actual = amount]
    BY <1>5, <2>1 DEF ReadActual, Reads
  <2> QED BY <1>1, <1>2, <2>2 DEF MoneyInv, BillTyped, Bill
<1>6. CASE ReadBaseline
  <2>1. bill.pc = "baseline" /\ bill.actual \in Int
    BY <1>1, <1>6 DEF ReadBaseline, Reads, MoneyInv, BillTyped
  <2>2. PICK amount \in Int : amount = CostOfModel(table, bill.requested, Uncompressed, bill.actual)
    BY <1>2, <1>3, <2>1, CostOfModelTyped
  <2>3. bill' = [bill EXCEPT !.pc = "input", !.baseline = amount]
    BY <1>6, <2>2 DEF ReadBaseline, Reads
  <2> QED BY <1>1, <1>2, <2>1, <2>3 DEF MoneyInv, BillTyped, Bill
<1>7. CASE ReadInput
  <2>1. PICK amount \in Int : amount = IF Priced = None THEN 0 ELSE InputCostOf(Priced, bill.tokens)
    BY <1>2, <1>4, FiguresTyped
  <2>2. PICK other \in Int \cup {None} :
          other = IF bill.path = "chat" THEN None
                  ELSE IF Priced = None THEN 0 ELSE OutputCostOf(Priced, bill.tokens)
    <3>1. Priced # None => OutputCostOf(Priced, bill.tokens) \in Int
      BY <1>2, <1>4, FiguresTyped
    <3>2. (IF Priced = None THEN 0 ELSE OutputCostOf(Priced, bill.tokens)) \in Int
      BY <3>1
    <3> QED BY <3>2, Zenon
  <2>3. PICK next \in {"output", "emit"} : next = IF bill.path = "chat" THEN "output" ELSE "emit"
    OBVIOUS
  <2>4. bill.pc = "input" /\ bill' = [bill EXCEPT !.pc = next, !.input = amount, !.output = other]
    BY <1>7, <2>1, <2>2, <2>3 DEF ReadInput, Reads
  <2> QED BY <1>1, <1>2, <2>4 DEF MoneyInv, BillTyped, Bill
<1>8. CASE ReadOutput
  <2>1. PICK amount \in Int : amount = IF Priced = None THEN 0 ELSE OutputCostOf(Priced, bill.tokens)
    BY <1>2, <1>4, FiguresTyped
  <2>2. bill.pc = "output" /\ bill' = [bill EXCEPT !.pc = "emit", !.output = amount]
    BY <1>8, <2>1 DEF ReadOutput, Reads
  <2> QED BY <1>1, <1>2, <2>2 DEF MoneyInv, BillTyped, Bill
<1> QED BY <1>5, <1>6, <1>7, <1>8

\* The half unit by which each fee may be off adds up to half a unit for each request.
LEMMA FeesAdd ==
  ASSUME NEW bp \in Shares, NEW gross \in Nat, NEW fees \in Int, NEW requests \in Nat, NEW more \in Nat,
         10000 * fees - bp * gross <= 5000 * requests,
         bp * gross - 10000 * fees <= 5000 * requests
  PROVE  /\ 10000 * (fees + MulBasisPoints(more, bp)) - bp * (gross + more) <= 5000 * (requests + 1)
         /\ bp * (gross + more) - 10000 * (fees + MulBasisPoints(more, bp)) <= 5000 * (requests + 1)
<1>1. PICK fee \in Nat : /\ fee = MulBasisPoints(more, bp)
                         /\ 10000 * fee - bp * more <= 5000 /\ bp * more - 10000 * fee <= 5000
  BY ShareRounded
<1>2. PICK a \in Int, b \in Int : a = bp * gross /\ b = bp * more /\ bp * (gross + more) = a + b
  BY DEF Shares
<1>3. 10000 * fees - a <= 5000 * requests /\ a - 10000 * fees <= 5000 * requests
  BY <1>2
<1>4. 10000 * fee - b <= 5000 /\ b - 10000 * fee <= 5000
  BY <1>1, <1>2
<1>5. /\ 10000 * (fees + fee) - (a + b) <= 5000 * (requests + 1)
      /\ (a + b) - 10000 * (fees + fee) <= 5000 * (requests + 1)
  BY <1>3, <1>4
<1> QED BY <1>1, <1>2, <1>5

\* An event whose parts add up leaves the invariant true: its fee is added to the month's,
\* which stay within half a unit for each request.
LEMMA EmitsSound ==
  ASSUME MoneyInv, bill # NoBill, NEW baseline \in Int, NEW actual \in Int, NEW parts, NEW input, NEW output,
         Emits(Savings(baseline, actual, bill.bp), parts, input, output),
         bill.path # "stream" =>
           /\ parts.routing >= 0 /\ parts.compression >= 0 /\ parts.cache >= 0
           /\ parts.routing + parts.compression + parts.cache = Savings(baseline, actual, bill.bp).gross
  PROVE  MoneyInv'
<1>1. PICK s : /\ s = Savings(baseline, actual, bill.bp)
               /\ s.gross \in Nat /\ s.fee \in Nat /\ s.net \in Nat /\ s.fee + s.net = s.gross
               /\ s.fee = MulBasisPoints(s.gross, bill.bp)
  <2>1. bill.bp \in Shares
    BY TokensTyped DEF Bill
  <2> QED BY <2>1, SavingsTyped
<1>2. /\ event' = [path |-> bill.path, savings |-> s, parts |-> parts, input |-> input, output |-> output]
      /\ month' = [requests |-> month.requests + 1, gross |-> month.gross + s.gross,
                   fees |-> month.fees + s.fee, shares |-> month.shares \cup {bill.bp}]
      /\ bill' = NoBill /\ UNCHANGED <<rows, table>>
  BY <1>1 DEF Emits
<1>3. month \in Month /\ bill.bp \in Shares
  BY TokensTyped DEF MoneyInv, Bill
<1>4. PartsMakeWhole'
  BY <1>1, <1>2 DEF PartsMakeWhole
<1>5. month' \in Month
  BY <1>1, <1>2, <1>3 DEF Month
<1>6. FeesFollow'
  <2>1. month'.requests # 0
    BY <1>2, <1>3 DEF Month
  <2> SUFFICES ASSUME NEW bp \in Shares, month'.shares \subseteq {bp}
               PROVE  /\ 10000 * month'.fees - bp * month'.gross <= 5000 * month'.requests
                      /\ bp * month'.gross - 10000 * month'.fees <= 5000 * month'.requests
    BY <2>1 DEF FeesFollow
  <2>2. bp = bill.bp /\ month.shares \subseteq {bp}
    BY <1>2
  <2>3. /\ 10000 * month.fees - bp * month.gross <= 5000 * month.requests
        /\ bp * month.gross - 10000 * month.fees <= 5000 * month.requests
    BY <2>2 DEF MoneyInv, FeesFollow
  <2>4. /\ month.requests \in Nat /\ month.gross \in Nat /\ month.fees \in Int
        /\ s.fee = MulBasisPoints(s.gross, bp)
    BY <1>1, <1>3, <2>2 DEF Month
  <2>5. /\ month'.fees = month.fees + MulBasisPoints(s.gross, bp)
        /\ month'.gross = month.gross + s.gross /\ month'.requests = month.requests + 1
    BY <1>2, <2>4
  <2>6. PICK requests \in Nat, gross \in Nat, fees \in Int :
          requests = month.requests /\ gross = month.gross /\ fees = month.fees
    BY <2>4
  <2>7. /\ 10000 * (fees + MulBasisPoints(s.gross, bp)) - bp * (gross + s.gross) <= 5000 * (requests + 1)
        /\ bp * (gross + s.gross) - 10000 * (fees + MulBasisPoints(s.gross, bp)) <= 5000 * (requests + 1)
    <3>1. 10000 * fees - bp * gross <= 5000 * requests /\ bp * gross - 10000 * fees <= 5000 * requests
      BY <2>3, <2>6
    <3> QED BY <1>1, <3>1, FeesAdd
  <2> QED BY <2>5, <2>6, <2>7
<1> QED BY <1>2, <1>4, <1>5, <1>6 DEF MoneyInv, BillTyped, PricesServed

\* The events of hits, chats and streams are such events.
LEMMA EmitTyped ==
  ASSUME MoneyInv, EmitHit \/ Emit
  PROVE  MoneyInv'
<1>1. bill # NoBill
  BY DEF EmitHit, Emit, NoBill
<1>2. bill \in Bill /\ bill.tokens \in Counts /\ bill.saved \in Nat /\ bill.bp \in Shares
  BY <1>1, TokensTyped DEF Bill
<1>3. table \in [Model -> Tariff \cup {None}]
  BY DEF MoneyInv
<1>4. CASE EmitHit
  <2>1. PICK amount \in Int : amount = CostOfModel(table, bill.requested, bill.tokens, 0)
    BY <1>2, <1>3, CostOfModelTyped
  <2>2. PICK gross \in Nat : gross = Savings(amount, 0, bill.bp).gross
    BY <1>2, SavingsTyped
  <2>3. Emits(Savings(amount, 0, bill.bp), HitComponents(gross), 0, 0)
    BY <1>4, <2>1, <2>2 DEF EmitHit
  <2>4. LET parts == HitComponents(gross)
        IN  /\ parts.routing >= 0 /\ parts.compression >= 0 /\ parts.cache >= 0
            /\ parts.routing + parts.compression + parts.cache = gross
    BY DEF HitComponents
  <2> QED BY <1>1, <2>2, <2>3, <2>4, EmitsSound
<1>5. CASE Emit
  <2>1. bill.baseline \in Int /\ bill.actual \in Int /\ bill.path # "hit" /\ bill.path \in {"chat", "stream", "hit"}
    BY <1>1, <1>2, <1>5 DEF Emit, MoneyInv, BillTyped, Bill
  <2>2. PICK gross \in Nat : gross = Savings(bill.baseline, bill.actual, bill.bp).gross
    BY <1>2, <2>1, SavingsTyped
  <2>3. CASE bill.path = "chat"
    <3>1. Priced # None => Priced \in Tariff
      BY <1>3, ResolveTyped DEF Priced
    <3>2. CompressionRaw \in Int
      BY <1>2, <3>1, FiguresTyped DEF CompressionRaw
    <3>3. CacheRaw \in Int
      BY <1>2, <3>1, FiguresTyped DEF CacheRaw
    <3>4. PICK parts : /\ parts = Components(gross, CompressionRaw, CacheRaw)
                       /\ parts.routing >= 0 /\ parts.compression >= 0 /\ parts.cache >= 0
                       /\ parts.routing + parts.compression + parts.cache = gross
      BY <3>2, <3>3, PartsTyped
    <3>5. Emits(Savings(bill.baseline, bill.actual, bill.bp), parts, bill.input, bill.output)
      BY <1>5, <2>2, <2>3, <3>4 DEF Emit
    <3> QED BY <1>1, <2>1, <2>2, <3>4, <3>5, EmitsSound
  <2>4. CASE bill.path = "stream"
    <3>1. Emits(Savings(bill.baseline, bill.actual, bill.bp), NoComponents, bill.input, bill.output)
      BY <1>5, <2>4 DEF Emit
    <3> QED BY <1>1, <2>1, <2>4, <3>1, EmitsSound
  <2> QED BY <2>1, <2>3, <2>4
<1> QED BY <1>4, <1>5

\* Every step of the attribution preserves the invariant.
LEMMA MoneyStep ==
  ASSUME MoneyInv, Attribute
  PROVE  MoneyInv'
<1>1. CASE Asks
  <2>1. /\ bill = NoBill /\ UNCHANGED <<rows, table, plan, event, month, changes>>
        /\ bill' \in Bill /\ bill'.pc \in {"hit", "actual"}
        /\ bill'.path = "hit" <=> bill'.pc = "hit"
    <3>1. PICK path \in {"chat", "stream", "hit"}, requested \in Spelling, name \in Spelling,
                u \in Tokens, saved \in TokensSaved \cup {0} : Answered(path, requested, name, u, saved)
      BY <1>1 DEF Asks
    <3>2. saved \in Nat /\ SavingsShare(plan) \in Shares
      BY AttributionAssumption, ShareOfPlan
    <3>3. bill = NoBill
      BY <3>1 DEF Answered, MoneyInv, BillTyped, Bill
    <3>4. PICK begins \in {"hit", "actual"} : begins = IF path = "hit" THEN "hit" ELSE "actual"
      OBVIOUS
    <3>5. bill' = [pc |-> begins, path |-> path, requested |-> requested, served |-> name,
                   tokens |-> u, saved |-> saved, bp |-> SavingsShare(plan), actual |-> None,
                   baseline |-> None, input |-> None, output |-> None]
      BY <3>1, <3>4 DEF Answered
    <3>6. bill' \in Bill
      BY <3>2, <3>5 DEF Bill
    <3> QED BY <3>1, <3>3, <3>4, <3>5, <3>6 DEF Answered
  <2> QED BY <2>1 DEF MoneyInv, BillTyped, FeesFollow, PartsMakeWhole, PricesServed
<1>2. CASE ReadActual \/ ReadBaseline \/ ReadInput \/ ReadOutput
  <2>1. UNCHANGED <<rows, table, plan, event, month, changes>>
    BY <1>2 DEF ReadActual, ReadBaseline, ReadInput, ReadOutput, Reads
  <2> QED BY <1>2, <2>1, ReadsTyped DEF MoneyInv, FeesFollow, PartsMakeWhole, PricesServed
<1>3. CASE EmitHit \/ Emit
  BY <1>3, EmitTyped
<1>4. CASE RefreshOnce
  <2>1. UNCHANGED <<rows, plan, bill, event, month, changes>> /\ table' = Refreshed(table)
    BY <1>4 DEF RefreshOnce
  <2>2. table' \in [Model -> Tariff \cup {None}] /\ PricesServed'
    BY <2>1 DEF Refreshed, MoneyInv, PricesServed
  <2> QED BY <2>1, <2>2 DEF MoneyInv, BillTyped, FeesFollow, PartsMakeWhole
<1>5. CASE \E m \in Repriced : Retire(m) \/ \E p \in Tariff : UpsertPricing(m, p)
  <2>1. UNCHANGED <<table, bill, event, month>> /\ rows' \in [Model -> Tariff \cup {None}]
    BY <1>5, AttributionAssumption DEF Retire, UpsertPricing, Changes, MoneyInv
  <2> QED BY <2>1 DEF MoneyInv, BillTyped, FeesFollow, PartsMakeWhole, PricesServed
<1>6. CASE \E p \in Plan : ChangePlan(p)
  <2>1. UNCHANGED <<rows, table, bill, event, month>>
    BY <1>6 DEF ChangePlan, Changes
  <2> QED BY <2>1 DEF MoneyInv, BillTyped, FeesFollow, PartsMakeWhole, PricesServed
<1> QED BY <1>1, <1>2, <1>3, <1>4, <1>5, <1>6 DEF Attribute, Account

\* A table that has a price, a month without requests and no bill satisfy the invariant.
LEMMA MoneyStart ==
  ASSUME AttributionInit
  PROVE  MoneyInv
<1>1. FeesFollow
  BY DEF AttributionInit, FeesFollow, Shares
<1>2. month \in Month
  BY DEF AttributionInit, Month
<1> QED BY <1>1, <1>2 DEF AttributionInit, MoneyInv, BillTyped, PartsMakeWhole, PricesServed

-----------------------------------------------------------------------------
(* The invoice                                                             *)

\* The total of two sequences one after the other is the sum of theirs.
LEMMA TotalConcat ==
  ASSUME NEW s \in Seq(Int), NEW t \in Seq(Int)
  PROVE  s \o t \in Seq(Int) /\ Total(s \o t, Len(s \o t)) = Total(s, Len(s)) + Total(t, Len(t))
<1> DEFINE n == Len(s)
           k == Len(t)
           p == Prefix(s, n)
           q == Prefix(t, k)
           h == [i \in 0 .. n + k |-> IF i <= n THEN p[i] ELSE p[n] + q[i - n]]
<1>1. n \in Nat /\ k \in Nat /\ s \in [1 .. n -> Int] /\ t \in [1 .. k -> Int]
  <2> HIDE DEF h, p, q
  <2> QED OBVIOUS
<1>2. s \o t \in Seq(Int) /\ Len(s \o t) = n + k /\ s \o t \in [1 .. n + k -> Int]
  <2>1. s \o t \in Seq(Int) /\ Len(s \o t) = Len(s) + Len(t)
    OBVIOUS
  <2>2. \A z \in Seq(Int) : z \in [1 .. Len(z) -> Int]
    OBVIOUS
  <2> QED BY <2>1, <2>2, Zenon
<1>3. \A i \in 1 .. n + k : (s \o t)[i] = IF i <= n THEN s[i] ELSE t[i - n]
  OBVIOUS
<1>4. SumsUp(p, s, n) /\ SumsUp(q, t, k) /\ SumsUp(Prefix(s \o t, n + k), s \o t, n + k)
  <2>1. SumsUp(p, s, n) /\ SumsUp(q, t, k)
    BY <1>1, PrefixIs
  <2>2. n + k \in Nat
    BY <1>1
  <2> HIDE DEF h, p, q, n, k
  <2>3. SumsUp(Prefix(s \o t, n + k), s \o t, n + k)
    BY <1>2, <2>2, PrefixIs
  <2> QED BY <2>1, <2>3
<1>5. PICK u : u = s \o t
  OBVIOUS
<1> HIDE DEF n, k, p, q
<1>6. SumsUp(h, u, n + k)
  <2>1. p \in [0 .. n -> Int] /\ p[0] = 0 /\ q \in [0 .. k -> Int] /\ q[0] = 0
    BY <1>4 DEF SumsUp
  <2>2. h \in [0 .. n + k -> Int] /\ h[0] = 0
    BY <1>1, <2>1
  <2>3. ASSUME NEW i \in 1 .. n + k PROVE h[i] = h[i - 1] + u[i]
    <3>1. CASE i <= n
      <4>1. i \in 1 .. n /\ i - 1 <= n /\ i - 1 \in 0 .. n + k
        BY <1>1, <3>1
      <4>2. p[i] = p[i - 1] + s[i]
        BY <1>4, <4>1 DEF SumsUp
      <4>3. h[i] = p[i] /\ h[i - 1] = p[i - 1] /\ u[i] = s[i]
        BY <1>1, <1>3, <1>5, <3>1, <4>1
      <4> QED BY <4>2, <4>3
    <3>2. CASE i = n + 1
      <4>1. 1 \in 1 .. k /\ i - n = 1 /\ i - 1 = n /\ ~(i <= n) /\ n <= n /\ n \in 0 .. n + k
        BY <1>1, <3>2
      <4>2. q[1] = q[0] + t[1]
        BY <1>4, <4>1 DEF SumsUp
      <4>3. h[i] = p[n] + q[1] /\ h[i - 1] = p[n] /\ u[i] = t[1]
        BY <1>1, <1>3, <1>5, <3>2, <4>1
      <4>4. p[n] \in Int /\ q[1] \in Int /\ t[1] \in Int
        BY <1>1, <2>1, <4>1
      <4> QED BY <2>1, <4>2, <4>3, <4>4
    <3>3. CASE i > n + 1
      <4>1. i - n \in 1 .. k /\ (i - n) - 1 = (i - 1) - n /\ ~(i <= n) /\ ~(i - 1 <= n) /\ i - 1 \in 0 .. n + k
        BY <1>1, <3>3
      <4>2. q[i - n] = q[(i - 1) - n] + t[i - n]
        BY <1>4, <4>1 DEF SumsUp
      <4>3. h[i] = p[n] + q[i - n] /\ h[i - 1] = p[n] + q[(i - 1) - n] /\ u[i] = t[i - n]
        BY <1>1, <1>3, <1>5, <3>3, <4>1
      <4>4. p[n] \in Int /\ q[(i - 1) - n] \in Int /\ q[i - n] \in Int /\ t[i - n] \in Int
        BY <1>1, <2>1, <4>1
      <4> QED BY <4>2, <4>3, <4>4
    <3> QED BY <1>1, <3>1, <3>2, <3>3
  <2> HIDE DEF h
  <2> QED BY <2>2, <2>3 DEF SumsUp
<1>7. h = Prefix(u, n + k)
  <2> HIDE DEF h
  <2>1. n + k \in Nat /\ u \in [1 .. n + k -> Int] /\ SumsUp(Prefix(u, n + k), u, n + k)
    BY <1>1, <1>2, <1>4, <1>5
  <2> QED BY <1>6, <2>1, PrefixUnique
<1>8. h[n + k] = p[n] + q[k]
  <2>1. p \in [0 .. n -> Int] /\ q \in [0 .. k -> Int] /\ q[0] = 0
    BY <1>4 DEF SumsUp
  <2>2. CASE k = 0
    <3>1. h[n + k] = p[n] /\ p[n] \in Int
      BY <1>1, <2>1, <2>2
    <3> QED BY <2>1, <2>2, <3>1
  <2>3. CASE k # 0
    <3>1. ~(n + k <= n) /\ (n + k) - n = k /\ n + k \in 0 .. n + k
      BY <1>1, <2>3
    <3> QED BY <3>1
  <2> QED BY <2>2, <2>3
<1> QED BY <1>2, <1>5, <1>7, <1>8 DEF Total, n, k, p, q

\* A line is its amount, a line left out is nothing.
LEMMA LineTotal ==
  ASSUME NEW a \in Int
  PROVE  /\ <<a>> \in Seq(Int) /\ Total(<<a>>, Len(<<a>>)) = a
         /\ <<>> \in Seq(Int) /\ Total(<<>>, Len(<<>>)) = 0
         /\ Line(a) \in Seq(Int) /\ Total(Line(a), Len(Line(a))) = a
<1>1. <<>> \in Seq(Int) /\ Total(<<>>, Len(<<>>)) = 0
  <2>1. <<>> \in [1 .. 0 -> Int] /\ <<>> \in Seq(Int) /\ Len(<<>>) = 0
    OBVIOUS
  <2> QED BY <2>1, PrefixIs DEF Total, SumsUp
<1>2. <<a>> \in Seq(Int) /\ Total(<<a>>, Len(<<a>>)) = a
  <2>1. PICK s \in Seq(Int) : s = <<a>> /\ Len(s) = 1 /\ s[1] = a /\ s \in [1 .. 1 -> Int]
    <3>1. <<a>> \in Seq(Int) /\ Len(<<a>>) = 1 /\ <<a>>[1] = a
      OBVIOUS
    <3>2. <<a>> \in [1 .. 1 -> Int]
      OBVIOUS
    <3> QED BY <3>1, <3>2, Zenon
  <2>2. SumsUp(Prefix(s, 1), s, 1)
    BY <2>1, PrefixIs
  <2>3. Prefix(s, 1)[1] = a
    BY <2>1, <2>2 DEF SumsUp
  <2> QED BY <2>1, <2>3 DEF Total
<1>3. Line(a) = IF a = 0 THEN <<>> ELSE <<a>>
  BY DEF Line
<1> QED BY <1>1, <1>2, <1>3

\* With the fees of the month within half a unit for each request, the invoice's fee agrees
\* with them and its lines with its total.
LEMMA InvoiceIsRight ==
  ASSUME MoneyInv
  PROVE  InvoiceGoesOut
<1> SUFFICES ASSUME NEW p \in Plan, month.shares \subseteq {SavingsShare(p)}
             PROVE  LET invoice == Build(p, SavingsShare(p), month)
                    IN  FeeIsConsistent(invoice, month.fees) /\ LinesSumToTotal(invoice)
  BY DEF InvoiceGoesOut
<1>1. PICK bp \in Shares : bp = SavingsShare(p)
  BY ShareOfPlan
<1>2. PICK requests \in Nat, gross \in Nat, fees \in Int :
        requests = month.requests /\ gross = month.gross /\ fees = month.fees
  BY DEF MoneyInv, Month
<1>3. PICK fee \in Nat : /\ fee = MulBasisPoints(gross, bp)
                         /\ 10000 * fee - bp * gross <= 5000 /\ bp * gross - 10000 * fee <= 5000
  BY ShareRounded
<1>4. FloorAtZero(month.gross) = gross
  BY <1>2 DEF FloorAtZero
<1>5. PICK subscription \in Nat : subscription = SubscriptionPrice(p)
  BY DEF SubscriptionPrice
<1>6. PICK api \in Nat : api = ApiTierPerRequest * requests
  BY DEF ApiTierPerRequest
<1>7. PICK lines : lines = Line(subscription) \o (IF p = "api" THEN <<api>> ELSE <<>>) \o Line(fee)
  OBVIOUS
<1>8. PICK total \in Nat : total = subscription + (IF p = "api" THEN api ELSE 0) + fee
  OBVIOUS
<1>9. Build(p, SavingsShare(p), month) = [lines |-> lines, fee |-> fee, total |-> total, requests |-> requests]
  BY <1>1, <1>2, <1>3, <1>4, <1>5, <1>6, <1>7, <1>8 DEF Build
<1>10. Total(lines, Len(lines)) = total
  <2> subscription \in Int /\ api \in Int /\ fee \in Int
    OBVIOUS
  <2>1. PICK first \in Seq(Int) : first = Line(subscription) /\ Total(first, Len(first)) = subscription
    <3>1. Line(subscription) \in Seq(Int) /\ Total(Line(subscription), Len(Line(subscription))) = subscription
      BY LineTotal
    <3> QED BY <3>1, Zenon
  <2>2. PICK last \in Seq(Int) : last = Line(fee) /\ Total(last, Len(last)) = fee
    <3>1. Line(fee) \in Seq(Int) /\ Total(Line(fee), Len(Line(fee))) = fee
      BY LineTotal
    <3> QED BY <3>1, Zenon
  <2>3. CASE p = "api"
    <3>1. PICK extra \in Seq(Int) : extra = <<api>> /\ Total(extra, Len(extra)) = api
      <4>1. <<api>> \in Seq(Int) /\ Total(<<api>>, Len(<<api>>)) = api
        BY LineTotal
      <4> QED BY <4>1, Zenon
    <3>2. PICK both \in Seq(Int) : both = first \o extra /\ Total(both, Len(both)) = subscription + api
      <4>1. first \o extra \in Seq(Int)
            /\ Total(first \o extra, Len(first \o extra)) = Total(first, Len(first)) + Total(extra, Len(extra))
        BY TotalConcat
      <4> QED BY <2>1, <3>1, <4>1, Zenon
    <3>3. Total(both \o last, Len(both \o last)) = subscription + api + fee
      BY <2>2, <3>2, TotalConcat
    <3>4. lines = both \o last
      BY <1>7, <2>1, <2>2, <2>3, <3>1, <3>2
    <3> QED BY <1>8, <2>3, <3>3, <3>4
  <2>4. CASE p # "api"
    <3>1. Total(first \o last, Len(first \o last)) = subscription + fee
      BY <2>1, <2>2, TotalConcat
    <3>2. lines = first \o <<>> \o last
      BY <1>7, <2>1, <2>2, <2>4
    <3>3. first \o <<>> = first
      OBVIOUS
    <3> QED BY <1>8, <2>4, <3>1, <3>2, <3>3
  <2> QED BY <2>3, <2>4
<1>11. 10000 * fees - bp * gross <= 5000 * requests /\ bp * gross - 10000 * fees <= 5000 * requests
  BY <1>1, <1>2 DEF MoneyInv, FeesFollow
<1>12. requests = 0 => gross = 0 /\ fees = 0
  BY <1>2 DEF MoneyInv, FeesFollow
<1>13. LET apart == fee - fees
           tolerance == IF requests > 1 THEN requests ELSE 1
       IN  apart <= tolerance /\ -apart <= tolerance
  <2>1. PICK due \in Int : due = bp * gross
    BY DEF Shares
  <2>2. /\ 10000 * fees - due <= 5000 * requests /\ due - 10000 * fees <= 5000 * requests
        /\ 10000 * fee - due <= 5000 /\ due - 10000 * fee <= 5000
    BY <1>3, <1>11, <2>1
  <2> QED BY <2>2
<1> QED BY <1>2, <1>9, <1>10, <1>13 DEF FeeIsConsistent, LinesSumToTotal

-----------------------------------------------------------------------------
(* The prompt                                                              *)

\* What a body may be: what was said, and the wordings of the gateway.
Words == Body \cup {"omitted", "identical"}

\* The texts of messages, sent or given.
Texts ==
  [body : Words, size : Nat, form : {"plain", "loose", "pretty"}, cut : BOOLEAN, refers : Nat]

Messages == [role : {"system", "user", "assistant", "tool"}, text : Texts, image : BOOLEAN]

\* What Instructed picks from.
Bodies(ms) == [i \in DOMAIN ms |-> ms[i].text.body]

\* The body of m is an instruction before place n + 1.
SaidBefore(ms, m, n) == \E j \in 1 .. n : Instructs(ms[j]) /\ ms[j].text.body = m.text.body

\* The first of every instruction.
FirstPlaces(ms) == {i \in DOMAIN ms : Instructs(ms[i]) /\ ~SaidBefore(ms, ms[i], i - 1)}

\* The bodies of a conversation are words.
LEMMA BodiesTyped ==
  ASSUME NEW ms \in Seq(Messages)
  PROVE  Bodies(ms) \in Seq(Words) /\ Len(Bodies(ms)) = Len(ms)
<1>1. Bodies(ms) = [i \in 1 .. Len(ms) |-> ms[i].text.body]
  BY DEF Bodies
<1>2. ASSUME NEW i \in 1 .. Len(ms) PROVE ms[i].text.body \in Words
  <2>1. ms[i] \in Messages
    OBVIOUS
  <2> QED BY <2>1 DEF Messages, Texts
<1> QED BY <1>1, <1>2

\* One more message is one more instruction, if it instructs and none before has its body.
LEMMA InstructedAppend ==
  ASSUME NEW ms \in Seq(Messages), NEW e \in Messages
  PROVE  /\ Instructed(ms) \in Seq(Words)
         /\ Instructed(Append(ms, e)) =
              IF Instructs(e) /\ ~SaidBefore(ms, e, Len(ms)) THEN Append(Instructed(ms), e.text.body)
              ELSE Instructed(ms)
<1> DEFINE r == Append(ms, e)
           n == Len(ms)
<1>1. r \in Seq(Messages) /\ Len(r) = n + 1 /\ r[n + 1] = e /\ \A i \in 1 .. n : r[i] = ms[i]
  OBVIOUS
<1>2. n \in Nat /\ DOMAIN r = 1 .. n + 1 /\ DOMAIN ms = 1 .. n
  BY <1>1
<1> HIDE DEF r, n
<1>3. \A q \in Seq(Messages) : Instructed(q) = Where(Bodies(q), FirstPlaces(q))
  BY DEF Instructed, Bodies, FirstPlaces, SaidBefore
<1>4. \A i \in 1 .. n : i \in FirstPlaces(r) <=> i \in FirstPlaces(ms)
  BY <1>1, <1>2 DEF FirstPlaces, SaidBefore
<1>5. n + 1 \in FirstPlaces(r) <=> Instructs(e) /\ ~SaidBefore(ms, e, n)
  <2>1. n + 1 \in DOMAIN r /\ (n + 1) - 1 = n
    BY <1>2
  <2>2. SaidBefore(r, e, n) <=> SaidBefore(ms, e, n)
    BY <1>1 DEF SaidBefore
  <2> QED BY <1>1, <2>1, <2>2 DEF FirstPlaces
<1>6. Bodies(ms) \in Seq(Words) /\ Len(Bodies(ms)) = n /\ e.text.body \in Words
  BY BodiesTyped DEF n, Messages, Texts
<1>7. Bodies(r) = Append(Bodies(ms), e.text.body)
  <2>1. Bodies(r) \in Seq(Words) /\ Len(Bodies(r)) = n + 1
    BY <1>1, BodiesTyped
  <2>2. Append(Bodies(ms), e.text.body) \in Seq(Words) /\ Len(Append(Bodies(ms), e.text.body)) = n + 1
    BY <1>6
  <2>3. ASSUME NEW i \in 1 .. n + 1 PROVE Bodies(r)[i] = Append(Bodies(ms), e.text.body)[i]
    <3>1. Bodies(r)[i] = r[i].text.body
      BY <1>2 DEF Bodies
    <3>2. CASE i = n + 1
      <4>1. Append(Bodies(ms), e.text.body)[n + 1] = e.text.body
        BY <1>6
      <4> QED BY <1>1, <3>1, <3>2, <4>1
    <3>3. CASE i # n + 1
      <4>1. i \in 1 .. n
        BY <1>2, <3>3
      <4>2. Append(Bodies(ms), e.text.body)[i] = Bodies(ms)[i]
        BY <1>6, <4>1
      <4>3. Bodies(ms)[i] = ms[i].text.body
        BY <1>2, <4>1 DEF Bodies
      <4> QED BY <1>1, <3>1, <4>1, <4>2, <4>3
    <3> QED BY <3>2, <3>3
  <2> QED BY <2>1, <2>2, <2>3, SeqEqual
<1>8. Where(Bodies(ms), FirstPlaces(r)) = Where(Bodies(ms), FirstPlaces(ms))
  BY <1>4, <1>6, WhereSame
<1>9. /\ Where(Bodies(ms), FirstPlaces(r)) \in Seq(Words)
      /\ Where(Append(Bodies(ms), e.text.body), FirstPlaces(r)) =
           IF n + 1 \in FirstPlaces(r) THEN Append(Where(Bodies(ms), FirstPlaces(r)), e.text.body)
           ELSE Where(Bodies(ms), FirstPlaces(r))
  <2>1. PICK b \in Seq(Words) : b = Bodies(ms)
    BY <1>6
  <2>2. PICK x \in Words : x = e.text.body
    BY <1>6
  <2>3. PICK I : I = FirstPlaces(r)
    OBVIOUS
  <2>4. /\ Where(b, I) \in Seq(Words)
        /\ Where(Append(b, x), I) = IF Len(b) + 1 \in I THEN Append(Where(b, I), x) ELSE Where(b, I)
    BY WhereAppend
  <2> QED BY <1>6, <2>1, <2>2, <2>3, <2>4
<1>10. Instructed(ms) = Where(Bodies(ms), FirstPlaces(ms)) /\ Instructed(r) = Where(Bodies(r), FirstPlaces(r))
  BY <1>1, <1>3
<1> QED BY <1>5, <1>7, <1>8, <1>9, <1>10 DEF r, n

\* Whoever keeps the first of every instruction keeps the instructions.
LEMMA FirstsSuffice ==
  \A ms \in Seq(Messages) : \A I :
    FirstPlaces(ms) \subseteq I =>
      /\ Instructed(Where(ms, I)) = Instructed(ms)
      /\ \A m : SaidBefore(ms, m, Len(ms)) <=> SaidBefore(Where(ms, I), m, Len(Where(ms, I)))
<1> DEFINE X == {ms \in Seq(Messages) : \A I :
                   FirstPlaces(ms) \subseteq I =>
                     /\ Instructed(Where(ms, I)) = Instructed(ms)
                     /\ \A m : SaidBefore(ms, m, Len(ms)) <=> SaidBefore(Where(ms, I), m, Len(Where(ms, I)))}
<1>1. <<>> \in X
  BY WhereEmpty
<1>2. ASSUME NEW ms \in Seq(Messages), NEW e \in Messages, ms \in X PROVE Append(ms, e) \in X
  <2> SUFFICES ASSUME NEW I, FirstPlaces(Append(ms, e)) \subseteq I
               PROVE  /\ Instructed(Where(Append(ms, e), I)) = Instructed(Append(ms, e))
                      /\ \A m : SaidBefore(Append(ms, e), m, Len(Append(ms, e)))
                                <=> SaidBefore(Where(Append(ms, e), I), m, Len(Where(Append(ms, e), I)))
    OBVIOUS
  <2> DEFINE r == Append(ms, e)
             n == Len(ms)
             w == Where(ms, I)
             v == Where(r, I)
  <2>1. r \in Seq(Messages) /\ Len(r) = n + 1 /\ r[n + 1] = e /\ \A i \in 1 .. n : r[i] = ms[i]
    OBVIOUS
  <2>2. n \in Nat /\ DOMAIN r = 1 .. n + 1 /\ DOMAIN ms = 1 .. n
    BY <2>1
  <2>3. w \in Seq(Messages) /\ v = IF n + 1 \in I THEN Append(w, e) ELSE w
    BY WhereAppend
  <2>a. FirstPlaces(r) \subseteq I
    OBVIOUS
  <2> HIDE DEF r, n, v
  <2>4. FirstPlaces(ms) \subseteq I
    BY <2>1, <2>2, <2>a DEF FirstPlaces, SaidBefore
  <2>5. Instructed(w) = Instructed(ms) /\ \A m : SaidBefore(ms, m, n) <=> SaidBefore(w, m, Len(w))
    BY <1>2, <2>4 DEF n
  <2>6. Instructed(r) = IF Instructs(e) /\ ~SaidBefore(ms, e, n) THEN Append(Instructed(ms), e.text.body)
                        ELSE Instructed(ms)
    BY InstructedAppend DEF r, n
  <2>7. n + 1 \in FirstPlaces(r) <=> Instructs(e) /\ ~SaidBefore(ms, e, n)
    <3>1. n + 1 \in DOMAIN r /\ (n + 1) - 1 = n
      BY <2>2
    <3>2. SaidBefore(r, e, n) <=> SaidBefore(ms, e, n)
      BY <2>1 DEF SaidBefore
    <3> QED BY <2>1, <3>1, <3>2 DEF FirstPlaces
  <2>8. \A m : SaidBefore(r, m, n + 1) <=> SaidBefore(ms, m, n) \/ (Instructs(e) /\ e.text.body = m.text.body)
    BY <2>1, <2>2 DEF SaidBefore
  <2> HIDE DEF w
  <2>9. CASE n + 1 \in I
    <3>1. v = Append(w, e)
      BY <2>3, <2>9
    <3>2. Instructed(v) = IF Instructs(e) /\ ~SaidBefore(w, e, Len(w)) THEN Append(Instructed(w), e.text.body)
                          ELSE Instructed(w)
      BY <2>3, <3>1, InstructedAppend
    <3>3. \A m : SaidBefore(v, m, Len(v)) <=> SaidBefore(w, m, Len(w)) \/ (Instructs(e) /\ e.text.body = m.text.body)
      <4>1. Len(v) = Len(w) + 1 /\ v[Len(w) + 1] = e /\ Len(w) \in Nat /\ \A i \in 1 .. Len(w) : v[i] = w[i]
        BY <2>3, <3>1
      <4> QED BY <4>1 DEF SaidBefore
    <3> QED BY <2>1, <2>5, <2>6, <2>8, <3>2, <3>3 DEF r, v
  <2>10. CASE n + 1 \notin I
    <3>1. v = w /\ ~(Instructs(e) /\ ~SaidBefore(ms, e, n))
      BY <2>3, <2>7, <2>10, <2>a
    <3>2. Instructed(v) = Instructed(r)
      BY <2>5, <2>6, <3>1
    <3>3. \A m : SaidBefore(r, m, n + 1) <=> SaidBefore(ms, m, n)
      BY <2>8, <3>1 DEF SaidBefore
    <3> QED BY <2>1, <2>5, <3>1, <3>2, <3>3 DEF r, v
  <2> QED BY <2>9, <2>10
<1>3. Seq(Messages) \subseteq X
  <2> HIDE DEF X
  <2> QED BY <1>1, <1>2, ByAppending
<1> QED BY <1>3

\* What a rewriting of messages one by one leaves of them.
Rewrites(ns, ms) ==
  /\ ns \in Seq(Messages) /\ Len(ns) = Len(ms)
  /\ \A i \in 1 .. Len(ms) :
       /\ ns[i].role = ms[i].role
       /\ IsSystem(ms[i]) => /\ ns[i].text.body = ms[i].text.body
                             /\ ns[i].text.cut = ms[i].text.cut /\ ns[i].text.refers = ms[i].text.refers

\* Rewriting leaves the instructions.
LEMMA RewritesInstruct ==
  ASSUME NEW ms \in Seq(Messages), NEW ns, Rewrites(ns, ms)
  PROVE  Instructed(ns) = Instructed(ms)
<1>1. \A q \in Seq(Messages) : Instructed(q) = Where(Bodies(q), FirstPlaces(q))
  BY DEF Instructed, Bodies, FirstPlaces, SaidBefore
<1>2. ns \in Seq(Messages) /\ Len(ns) = Len(ms) /\ DOMAIN ns = 1 .. Len(ms) /\ DOMAIN ms = 1 .. Len(ms)
  BY DEF Rewrites
<1>3. Bodies(ms) \in Seq(Words) /\ Bodies(ns) \in Seq(Words)
      /\ Len(Bodies(ms)) = Len(ms) /\ Len(Bodies(ns)) = Len(ms)
  BY <1>2, BodiesTyped
<1>4. \A i \in 1 .. Len(ms) : /\ Instructs(ns[i]) <=> Instructs(ms[i])
                              /\ Instructs(ms[i]) => ns[i].text.body = ms[i].text.body
  BY DEF Rewrites, Instructs, IsSystem
<1>5. \A i \in 1 .. Len(ms) : i \in FirstPlaces(ns) <=> i \in FirstPlaces(ms)
  <2>1. TAKE i \in 1 .. Len(ms)
  <2>2. \A j \in 1 .. i - 1 : j \in 1 .. Len(ms)
    OBVIOUS
  <2>3. Instructs(ms[i]) => (SaidBefore(ns, ns[i], i - 1) <=> SaidBefore(ms, ms[i], i - 1))
    BY <1>4, <2>2 DEF SaidBefore
  <2> QED BY <1>2, <1>4, <2>3 DEF FirstPlaces
<1>6. \A i \in 1 .. Len(ms) : i \in FirstPlaces(ms) => Bodies(ns)[i] = Bodies(ms)[i]
  BY <1>2, <1>4 DEF Bodies, FirstPlaces
<1>7. Where(Bodies(ms), FirstPlaces(ms)) = Where(Bodies(ns), FirstPlaces(ns))
  BY <1>3, <1>5, <1>6, WhereSame
<1> QED BY <1>1, <1>2, <1>7

\* What does not instruct adds nothing.
LEMMA TailInstructsNothing ==
  ASSUME NEW ms \in Seq(Messages)
  PROVE  \A t \in Seq({m \in Messages : ~Instructs(m)}) : Instructed(ms \o t) = Instructed(ms)
<1> DEFINE T == {m \in Messages : ~Instructs(m)}
           X == {t \in Seq(T) : Instructed(ms \o t) = Instructed(ms)}
<1>1. <<>> \in X
  OBVIOUS
<1>2. ASSUME NEW t \in Seq(T), NEW e \in T, t \in X PROVE Append(t, e) \in X
  <2>1. t \in Seq(Messages) /\ e \in Messages /\ ~Instructs(e)
    OBVIOUS
  <2>2. ms \o t \in Seq(Messages) /\ ms \o Append(t, e) = Append(ms \o t, e)
    <3> HIDE DEF T, X
    <3> QED BY <2>1
  <2>3. Instructed(Append(ms \o t, e)) = Instructed(ms \o t)
    BY <2>1, <2>2, InstructedAppend
  <2>4. Append(t, e) \in Seq(T)
    <3> HIDE DEF T, X
    <3> QED OBVIOUS
  <2> QED BY <1>2, <2>2, <2>3, <2>4
<1>3. Seq(T) \subseteq X
  <2> HIDE DEF X, T
  <2> QED BY <1>1, <1>2, ByAppending
<1> QED BY <1>3

\* The text at place i is as it was.
Leaves(ns, ms, i) == ns[i].text.body = ms[i].text.body /\ ns[i].text.cut = ms[i].text.cut

\* What Text makes is a text.
LEMMA TextIs ==
  ASSUME NEW b \in Words, NEW n \in Nat, NEW f \in {"plain", "loose", "pretty"}
  PROVE  Text(b, n, f) \in Texts
BY DEF Text, Texts

\* The wordings of the gateway and of the model.
LEMMA WordsAreTexts ==
  /\ Text("identical", 110, "plain") \in Texts
  /\ Marker \in Messages /\ Marker.text.cut = FALSE /\ Marker.text.refers = 0 /\ ~Instructs(Marker)
  /\ Message("assistant", Text("reply", 20, "plain"), FALSE) \in Given
<1>1. "identical" \in Words /\ "omitted" \in Words /\ "reply" \in Body
  BY DEF Words, Body
<1>2. 110 \in Nat /\ 69 \in Nat /\ 20 \in Nat
  OBVIOUS
<1>3. Text("identical", 110, "plain") \in Texts
  BY <1>1, <1>2, TextIs
<1>4. Text("omitted", 69, "plain") \in Texts
  BY <1>1, <1>2, TextIs
<1>5. Marker \in Messages
  BY <1>4 DEF Marker, Message, Messages
<1>6. Marker.text.cut = FALSE /\ Marker.text.refers = 0 /\ Marker.text.body = "omitted"
  BY DEF Marker, Message, Text
<1>7. Message("assistant", Text("reply", 20, "plain"), FALSE) \in Given
  BY <1>1, <1>2 DEF Message, Text, Given
<1> QED BY <1>3, <1>5, <1>6, <1>7 DEF Instructs

\* What is rewritten is a message of the same role.
LEMMA RewrittenIs ==
  ASSUME NEW m \in Messages, NEW t \in Texts
  PROVE  Rewritten(m, t) \in Messages /\ Rewritten(m, t).role = m.role /\ Rewritten(m, t).text = t
BY DEF Rewritten, Messages

\* A message rewritten by itself keeps its body.
LEMMA OneByOne ==
  ASSUME NEW m \in Messages
  PROVE  /\ MinifyJson(m) \in Messages /\ MinifyJson(m).role = m.role
         /\ MinifyJson(m).text.body = m.text.body /\ MinifyJson(m).text.cut = m.text.cut
         /\ MinifyJson(m).text.refers = m.text.refers
         /\ CollapseWhitespace(m) \in Messages /\ CollapseWhitespace(m).role = m.role
         /\ CollapseWhitespace(m).text.body = m.text.body /\ CollapseWhitespace(m).text.cut = m.text.cut
         /\ CollapseWhitespace(m).text.refers = m.text.refers
<1> DEFINE t == [m.text EXCEPT !.form = "plain"]
           u == IF m.text.form = "pretty" /\ m.text.size >= 64 THEN t ELSE m.text
<1>1. m.text \in Texts
  BY DEF Messages
<1>2. t \in Texts /\ t.body = m.text.body /\ t.cut = m.text.cut /\ t.refers = m.text.refers
  BY <1>1 DEF Texts
<1>3. u \in Texts /\ u.body = m.text.body /\ u.cut = m.text.cut /\ u.refers = m.text.refers
  BY <1>1, <1>2
<1>4. MinifyJson(m) = Rewritten(m, u) /\ CollapseWhitespace(m) = Rewritten(m, t)
  BY DEF MinifyJson, CollapseWhitespace
<1> HIDE DEF t, u
<1> QED BY <1>2, <1>3, <1>4, RewrittenIs

\* minify_json_in_content leaves every body.
LEMMA MinifyRewrites ==
  ASSUME NEW ms \in Seq(Messages), NEW ns, ns = Each(ms, MinifyJson)
  PROVE  Rewrites(ns, ms) /\ \A i \in 1 .. Len(ms) : Leaves(ns, ms, i)
<1>1. ns = [i \in 1 .. Len(ms) |-> MinifyJson(ms[i])]
  BY DEF Each
<1>2. \A i \in 1 .. Len(ms) : ms[i] \in Messages
  OBVIOUS
<1>3. ns \in Seq(Messages) /\ Len(ns) = Len(ms)
  BY <1>1, <1>2, OneByOne
<1> QED BY <1>1, <1>2, <1>3, OneByOne DEF Rewrites, Leaves

\* collapse_whitespace_in_content leaves every body.
LEMMA CollapseRewrites ==
  ASSUME NEW ms \in Seq(Messages), NEW ns, ns = Each(ms, CollapseWhitespace)
  PROVE  Rewrites(ns, ms) /\ \A i \in 1 .. Len(ms) : Leaves(ns, ms, i)
<1>1. ns = [i \in 1 .. Len(ms) |-> CollapseWhitespace(ms[i])]
  BY DEF Each
<1>2. \A i \in 1 .. Len(ms) : ms[i] \in Messages
  OBVIOUS
<1>3. ns \in Seq(Messages) /\ Len(ns) = Len(ms)
  BY <1>1, <1>2, OneByOne
<1> QED BY <1>1, <1>2, <1>3, OneByOne DEF Rewrites, Leaves

\* A pointer takes the place of what is there already.
LEMMA ReferenceRewrites ==
  ASSUME NEW ms \in Seq(Messages), NEW ns, ns = ReferenceDuplicateBlocks(ms)
  PROVE  /\ Rewrites(ns, ms)
         /\ \A i \in 1 .. Len(ms) :
              (\A j \in 1 .. i - 1 : ms[j].text.body # ms[i].text.body) => Leaves(ns, ms, i)
<1> DEFINE copies(i) == {j \in 1 .. i - 1 : ~IsSystem(ms[j]) /\ ms[j].text = ms[i].text}
           first(i) == CHOOSE j \in copies(i) : \A k \in copies(i) : j <= k
<1>1. ns = [i \in 1 .. Len(ms) |->
              IF IsSystem(ms[i]) \/ ms[i].text.size < LargeBlock \/ copies(i) = {} THEN ms[i]
              ELSE Rewritten(ms[i], Pointer(first(i)))]
  BY DEF ReferenceDuplicateBlocks
<1>2. ASSUME NEW i \in 1 .. Len(ms)
      PROVE  /\ ns[i] \in Messages /\ ns[i].role = ms[i].role
             /\ IsSystem(ms[i]) \/ copies(i) = {} => ns[i] = ms[i]
  <2>1. ms[i] \in Messages
    OBVIOUS
  <2>2. CASE ns[i] = ms[i]
    BY <2>1, <2>2
  <2>3. CASE copies(i) # {} /\ ~IsSystem(ms[i]) /\ ns[i] = Rewritten(ms[i], Pointer(first(i)))
    <3>1. copies(i) \subseteq Nat
      OBVIOUS
    <3>2. \E j \in copies(i) : \A k \in copies(i) : j <= k
      <4> HIDE DEF copies
      <4> QED BY <2>3, <3>1, Minimum
    <3>3. first(i) \in Nat
      <4> HIDE DEF copies
      <4> QED BY <3>1, <3>2
    <3>4. Pointer(first(i)) \in Texts
      <4>1. PICK j \in Nat : j = first(i)
        BY <3>3
      <4>2. PICK t \in Texts : t = Text("identical", 110, "plain")
        <5>1. Text("identical", 110, "plain") \in Texts
          BY WordsAreTexts, Zenon
        <5> QED BY <5>1, Zenon
      <4>3. [t EXCEPT !.refers = j] \in Texts
        BY DEF Texts
      <4>4. Pointer(j) = [t EXCEPT !.refers = j]
        BY <4>2, Zenon DEF Pointer
      <4> HIDE DEF first
      <4> QED BY <4>1, <4>3, <4>4
    <3> HIDE DEF first, copies
    <3> QED BY <2>1, <2>3, <3>4, RewrittenIs
  <2>4. ns[i] = IF IsSystem(ms[i]) \/ ms[i].text.size < LargeBlock \/ copies(i) = {} THEN ms[i]
                ELSE Rewritten(ms[i], Pointer(first(i)))
    <3> HIDE DEF first, copies
    <3> QED BY <1>1
  <2> HIDE DEF first, copies
  <2> QED BY <2>2, <2>3, <2>4
<1>3. ns \in Seq(Messages) /\ Len(ns) = Len(ms)
  <2>1. DOMAIN ns = 1 .. Len(ms) /\ ns = [i \in 1 .. Len(ms) |-> ns[i]]
    <3> HIDE DEF first, copies
    <3> QED BY <1>1
  <2> QED BY <1>2, <2>1
<1>4. Rewrites(ns, ms)
  BY <1>2, <1>3 DEF Rewrites
<1>5. ASSUME NEW i \in 1 .. Len(ms), \A j \in 1 .. i - 1 : ms[j].text.body # ms[i].text.body
      PROVE  Leaves(ns, ms, i)
  <2>1. copies(i) = {}
    BY <1>5
  <2> QED BY <1>2, <2>1 DEF Leaves
<1> QED BY <1>4, <1>5

\* The last StaleAge messages stay whole.
LEMMA TrimRewrites ==
  ASSUME NEW ms \in Seq(Messages), NEW ns, ns = TrimStaleToolResults(ms)
  PROVE  /\ Rewrites(ns, ms)
         /\ \A i \in 1 .. Len(ms) : i > Len(ms) - StaleAge => Leaves(ns, ms, i)
<1> DEFINE short(i) == [ms[i].text EXCEPT !.cut = TRUE, !.size = 2 * KeepEdge + 75]
<1>0. DOMAIN ms = 1 .. Len(ms)
  OBVIOUS
<1>1. ns = [i \in 1 .. Len(ms) |-> IF Stale(ms, i) THEN Rewritten(ms[i], short(i)) ELSE ms[i]]
  BY <1>0, Zenon DEF TrimStaleToolResults
<1>2. ASSUME NEW i \in 1 .. Len(ms)
      PROVE  ns[i] \in Messages /\ ns[i].role = ms[i].role /\ (~Stale(ms, i) => ns[i] = ms[i])
  <2>0. ms[i] \in Messages
    OBVIOUS
  <2>1. ms[i] \in Messages /\ ms[i].text \in Texts
    BY <2>0 DEF Messages
  <2>2. 2 * KeepEdge + 75 \in Nat
    BY PromptAssumption
  <2>3. short(i) \in Texts
    BY <2>1, <2>2 DEF Texts
  <2>4. ns[i] = IF Stale(ms, i) THEN Rewritten(ms[i], short(i)) ELSE ms[i]
    BY <1>1
  <2> HIDE DEF short
  <2> QED BY <2>1, <2>3, <2>4, RewrittenIs
<1>3. ns \in Seq(Messages) /\ Len(ns) = Len(ms)
  <2>1. DOMAIN ns = 1 .. Len(ms) /\ ns = [i \in 1 .. Len(ms) |-> ns[i]]
    <3> HIDE DEF short
    <3> QED BY <1>1
  <2> QED BY <1>2, <2>1
<1>4. \A i \in 1 .. Len(ms) : Stale(ms, i) => ~IsSystem(ms[i]) /\ ~(i > Len(ms) - StaleAge)
  BY PromptAssumption DEF Stale, IsSystem
<1> QED BY <1>2, <1>3, <1>4 DEF Rewrites, Leaves

\* What truncation leaves: the instructions and the latest turns.
Truncated(ns, ms) ==
  /\ ns \in Seq(Messages) /\ Instructed(ns) = Instructed(ms)
  /\ \A k \in 1 .. Len(ns) : IsSystem(ns[k]) =>
       ns[k] = Marker \/ \E i \in 1 .. Len(ms) : ns[k] = ms[i]
  /\ \A i \in 1 .. Len(ms) : i > Len(ms) - StaleAge /\ ~IsSystem(ms[i]) =>
       \E k \in 1 .. Len(ns) : ns[k] = ms[i]

\* truncate_history.
LEMMA TruncateSound ==
  ASSUME NEW ms \in Seq(Messages), NEW tokens, NEW ns, ns = TruncateHistory(ms, tokens)
  PROVE  Truncated(ns, ms)
<1>1. CASE ns = ms
  BY <1>1 DEF Truncated
<1> DEFINE system == {i \in DOMAIN ms : IsSystem(ms[i])}
           others == DOMAIN ms \ system
           turns  == Where(ms, others)
           n      == Len(turns)
           recent == SubSeq(turns, n - KeepRecent + 1, n)
           a      == Where(ms, system)
           NI     == {m \in Messages : ~Instructs(m)}
<1>2. CASE n > KeepRecent /\ ns = a \o <<Marker>> \o recent
  <2>1. a \in Seq(Messages) /\ turns \in Seq(Messages)
    <3>1. PICK m \in Messages : m = Marker
      BY WordsAreTexts
    <3> QED BY WhereAppend
  <2>2. /\ \A i \in 1 .. Len(ms) : i \in others => Placed(ms, others, i)
        /\ \A k \in 1 .. n : \E i \in 1 .. Len(ms) : i \in others /\ turns[k] = ms[i]
        /\ \A k \in 1 .. Len(a) : \E i \in 1 .. Len(ms) : a[k] = ms[i]
    <3> HIDE DEF system, others
    <3>1. Whereabouts(ms, others) /\ Whereabouts(ms, system)
      BY WherePlaces
    <3> QED BY <3>1 DEF Whereabouts
  <2>3. Instructed(a) = Instructed(ms)
    <3>1. FirstPlaces(ms) \subseteq system
      BY DEF FirstPlaces, Instructs
    <3> QED BY <3>1, FirstsSuffice
  <2>4. \A k \in 1 .. n : turns[k] \in Messages /\ ~IsSystem(turns[k])
    <3>1. TAKE k \in 1 .. n
    <3>2. PICK i \in 1 .. Len(ms) : i \in others /\ turns[k] = ms[i]
      BY <2>2
    <3> QED BY <3>2
  <2> DEFINE b == Append(a, Marker)
  <2> HIDE DEF system, others, a
  <2>5. n \in Nat /\ KeepRecent \in Nat /\ n > KeepRecent /\ StaleAge \in Nat /\ StaleAge <= KeepRecent
    BY <1>2, <2>1, PromptAssumption
  <2>6. /\ recent \in Seq(NI) /\ Len(recent) = KeepRecent
        /\ \A x \in 1 .. KeepRecent : recent[x] = turns[n - KeepRecent + x] /\ ~IsSystem(recent[x])
    <3>1. \A x \in n - KeepRecent + 1 .. n : turns[x] \in NI /\ ~IsSystem(turns[x])
      <4>1. TAKE x \in n - KeepRecent + 1 .. n
      <4>2. x \in 1 .. n
        BY <2>5
      <4> HIDE DEF n, turns
      <4> QED BY <2>4, <4>2 DEF Instructs
    <3> HIDE DEF NI, turns, n
    <3>2. /\ recent \in Seq(NI) /\ Len(recent) = KeepRecent
          /\ \A x \in 1 .. KeepRecent : recent[x] = turns[n - KeepRecent + x]
      <4>1. n - KeepRecent + 1 \in Int /\ n \in Int /\ n - KeepRecent + 1 <= n + 1
        BY <2>5
      <4>2. /\ recent \in Seq(NI)
            /\ Len(recent) = IF n - KeepRecent + 1 <= n THEN n - (n - KeepRecent + 1) + 1 ELSE 0
            /\ \A x \in 1 .. n - (n - KeepRecent + 1) + 1 : recent[x] = turns[(n - KeepRecent + 1) + x - 1]
        BY <3>1, <4>1, SubSeqProperties
      <4>3. n - (n - KeepRecent + 1) + 1 = KeepRecent
            /\ (IF n - KeepRecent + 1 <= n THEN n - (n - KeepRecent + 1) + 1 ELSE 0) = KeepRecent
        BY <2>5
      <4>4. \A x \in 1 .. KeepRecent : (n - KeepRecent + 1) + x - 1 = n - KeepRecent + x
        BY <2>5
      <4> HIDE DEF recent
      <4> QED BY <4>2, <4>3, <4>4
    <3>3. \A x \in 1 .. KeepRecent : n - KeepRecent + x \in n - KeepRecent + 1 .. n
      BY <2>5
    <3> HIDE DEF recent
    <3> QED BY <3>1, <3>2, <3>3
  <2> HIDE DEF recent
  <2>7. b \in Seq(Messages) /\ Len(b) = Len(a) + 1 /\ b[Len(a) + 1] = Marker
        /\ \A k \in 1 .. Len(a) : b[k] = a[k]
    BY <2>1, WordsAreTexts
  <2>8. Instructed(b) = Instructed(a)
    BY <2>1, WordsAreTexts, InstructedAppend
  <2>9. recent \in Seq(Messages)
    <3>1. NI \subseteq Messages
      OBVIOUS
    <3> HIDE DEF NI
    <3> QED BY <2>6, <3>1
  <2>10. ns = b \o recent
    <3>1. a \o <<Marker>> = Append(a, Marker)
      BY <2>1, WordsAreTexts
    <3> QED BY <1>2, <3>1 DEF a, recent
  <2> HIDE DEF b
  <2>11. Instructed(ns) = Instructed(ms)
    BY <2>3, <2>6, <2>7, <2>8, <2>10, TailInstructsNothing
  <2>12. ns \in Seq(Messages) /\ Len(ns) = Len(b) + KeepRecent
         /\ \A k \in 1 .. Len(ns) : ns[k] = IF k <= Len(b) THEN b[k] ELSE recent[k - Len(b)]
    <3>1. /\ b \o recent \in Seq(Messages) /\ Len(b \o recent) = Len(b) + Len(recent)
          /\ \A k \in 1 .. Len(b) + Len(recent) :
               (b \o recent)[k] = IF k <= Len(b) THEN b[k] ELSE recent[k - Len(b)]
      BY <2>7, <2>9, ConcatProperties
    <3>2. Len(recent) = KeepRecent /\ KeepRecent \in Nat /\ Len(b) \in Nat
      BY <2>5, <2>6, <2>7
    <3> QED BY <2>10, <3>1, <3>2
  <2>13. ASSUME NEW k \in 1 .. Len(ns), IsSystem(ns[k])
         PROVE  ns[k] = Marker \/ \E i \in 1 .. Len(ms) : ns[k] = ms[i]
    <3>1. CASE k \in 1 .. Len(b)
      <4>1. k = Len(a) + 1 \/ k \in 1 .. Len(a)
        BY <2>1, <2>7, <3>1
      <4> QED BY <2>2, <2>7, <2>12, <3>1, <4>1
    <3>2. CASE k \notin 1 .. Len(b)
      <4>1. k - Len(b) \in 1 .. KeepRecent /\ k = Len(b) + (k - Len(b))
        BY <2>5, <2>7, <2>12, <3>2
      <4>2. ~(k <= Len(b))
        BY <2>7, <3>2
      <4>3. ns[k] = recent[k - Len(b)]
        BY <2>12, <4>2
      <4> QED BY <2>6, <2>13, <4>1, <4>3
    <3> QED BY <3>1, <3>2
  <2>14. ASSUME NEW i \in 1 .. Len(ms), i > Len(ms) - StaleAge, ~IsSystem(ms[i])
         PROVE  \E k \in 1 .. Len(ns) : ns[k] = ms[i]
    <3>1. i \in others
      BY <2>14 DEF others, system
    <3>2. PICK k \in 1 .. n : turns[k] = ms[i] /\ n - k <= Len(ms) - i
      BY <2>2, <3>1 DEF Placed
    <3> HIDE DEF n, turns
    <3>3. Len(ms) \in Nat /\ Len(b) \in Nat
      BY <2>7
    <3> DEFINE x == k - (n - KeepRecent)
    <3>4. x \in 1 .. KeepRecent /\ n - KeepRecent + x = k
      BY <2>5, <2>14, <3>2, <3>3
    <3>5. recent[x] = ms[i]
      BY <2>6, <3>2, <3>4
    <3> HIDE DEF x
    <3>6. PICK y \in 1 .. KeepRecent : recent[y] = ms[i]
      BY <3>4, <3>5
    <3>7. PICK z \in 1 .. Len(ns) : z - Len(b) = y /\ ~(z <= Len(b))
      <4>1. Len(b) + y \in 1 .. Len(ns) /\ (Len(b) + y) - Len(b) = y /\ ~(Len(b) + y <= Len(b))
        BY <2>5, <2>12, <3>3
      <4> QED BY <4>1
    <3> QED BY <2>12, <3>6, <3>7
  <2> QED BY <2>11, <2>12, <2>13, <2>14 DEF Truncated
<1>3. ns = ms \/ (n > KeepRecent /\ ns = a \o <<Marker>> \o recent)
  <2>1. ns = IF (Len(ms) <= TurnLimit /\ tokens <= TokenBudget) \/ Len(turns) <= KeepRecent THEN ms
             ELSE a \o <<Marker>> \o recent
    BY Zenon DEF TruncateHistory
  <2>2. n \in Nat /\ KeepRecent \in Nat
    <3>1. turns \in Seq(Messages)
      BY WhereAppend, WordsAreTexts
    <3> QED BY <3>1, PromptAssumption
  <2> HIDE DEF a, turns, recent
  <2> QED BY <2>1, <2>2
<1> QED BY <1>1, <1>2, <1>3

\* Only what was said before is taken out.
Deduped(d, ms) ==
  /\ d \in Seq(Messages) /\ Instructed(d) = Instructed(ms)
  /\ \A k \in 1 .. Len(d) : \E i \in 1 .. Len(ms) : d[k] = ms[i]
  /\ \A i \in 1 .. Len(ms) : ~IsSystem(ms[i]) =>
       \E k \in 1 .. Len(d) :
         /\ d[k] = ms[i] /\ Len(d) - k <= Len(ms) - i
         /\ \A j \in 1 .. k - 1 : \E l \in 1 .. i - 1 : d[j] = ms[l]

\* dedupe_system_messages.
LEMMA DedupeSound ==
  ASSUME NEW ms \in Seq(Messages), NEW d, d = DedupeSystemMessages(ms)
  PROVE  Deduped(d, ms)
<1> DEFINE I == {i \in DOMAIN ms :
                   ~\E j \in 1 .. i - 1 : IsSystem(ms[i]) /\ IsSystem(ms[j]) /\ ms[j].text = ms[i].text}
<1>1. d = Where(ms, I)
  BY DEF DedupeSystemMessages
<1>2. FirstPlaces(ms) \subseteq I
  BY DEF FirstPlaces, SaidBefore, Instructs
<1>3. \A i \in 1 .. Len(ms) : ~IsSystem(ms[i]) => i \in I
  OBVIOUS
<1> HIDE DEF I
<1>4. d \in Seq(Messages)
  BY <1>1, WhereAppend, WordsAreTexts
<1>5. Instructed(d) = Instructed(ms)
  BY <1>1, <1>2, FirstsSuffice
<1>6. /\ \A i \in 1 .. Len(ms) : i \in I => Placed(ms, I, i)
      /\ \A k \in 1 .. Len(Where(ms, I)) : \E i \in 1 .. Len(ms) : i \in I /\ Where(ms, I)[k] = ms[i]
  <2>1. Whereabouts(ms, I)
    BY WherePlaces
  <2> QED BY <2>1 DEF Whereabouts
<1>7. ASSUME NEW i \in 1 .. Len(ms), ~IsSystem(ms[i])
      PROVE  \E k \in 1 .. Len(d) :
                /\ d[k] = ms[i] /\ Len(d) - k <= Len(ms) - i
                /\ \A j \in 1 .. k - 1 : \E l \in 1 .. i - 1 : d[j] = ms[l]
  <2>1. Placed(ms, I, i)
    BY <1>3, <1>6, <1>7
  <2> QED BY <1>1, <2>1 DEF Placed
<1> QED BY <1>1, <1>4, <1>5, <1>6, <1>7 DEF Deduped

\* What a client sends is a message that nobody has cut.
LEMMA GivenAreMessages ==
  Given \subseteq Messages /\ \A m \in Given : ~m.text.cut /\ m.text.refers = 0
<1>1. Body \subseteq Words
  BY DEF Words
<1>2. ASSUME NEW m \in Given PROVE m \in Messages /\ ~m.text.cut /\ m.text.refers = 0
  <2>1. m.text.body \in Words /\ m.text.cut = FALSE /\ m.text.refers = 0
    BY <1>1 DEF Given
  <2>2. m.text = Text(m.text.body, m.text.size, m.text.form)
    BY DEF Given, Text
  <2>3. m.text.size \in Nat /\ m.text.form \in {"plain", "loose", "pretty"}
    BY DEF Given
  <2>4. m.text \in Texts
    BY <2>1, <2>2, <2>3, TextIs
  <2>5. m = [role |-> m.role, text |-> m.text, image |-> m.image]
        /\ m.role \in {"system", "user", "assistant", "tool"} /\ m.image \in BOOLEAN
    BY DEF Given
  <2>6. m \in Messages
    BY <2>4, <2>5 DEF Messages
  <2> QED BY <2>1, <2>6
<1> QED BY <1>2

\* Rewriting twice is rewriting.
LEMMA RewritesAgain ==
  ASSUME NEW a, NEW b, NEW c, Rewrites(b, a), Rewrites(c, b)
  PROVE  Rewrites(c, a)
BY DEF Rewrites, IsSystem

\* Whether the message at i is a tool's result that nothing before it repeats.
FirstResult(ms, i) ==
  ms[i].role = "tool" /\ \A j \in 1 .. i - 1 : ms[j].text.body # ms[i].text.body

\* The steps of compress together.
LEMMA CompressSound ==
  ASSUME NEW ms \in Seq(Given), NEW ns, ns = Compress(ms)
  PROVE  /\ ns \in Seq(Messages) /\ Instructed(ns) = Instructed(ms)
         /\ \A k \in 1 .. Len(ns) : IsSystem(ns[k]) => ~ns[k].text.cut /\ ns[k].text.refers = 0
         /\ \A i \in 1 .. Len(ms) : i > Len(ms) - StaleAge /\ FirstResult(ms, i) =>
              \E k \in 1 .. Len(ns) :
                ns[k].role = "tool" /\ ns[k].text.body = ms[i].text.body /\ ~ns[k].text.cut
<1>1. PICK d : d = DedupeSystemMessages(ms)
  OBVIOUS
<1>2. PICK e : e = Each(d, MinifyJson)
  OBVIOUS
<1>3. PICK f : f = ReferenceDuplicateBlocks(e)
  OBVIOUS
<1>4. PICK g : g = TrimStaleToolResults(f)
  OBVIOUS
<1>5. PICK h : h = Each(g, CollapseWhitespace)
  OBVIOUS
<1>6. ns = TruncateHistory(h, EstimatedTokens(ms))
  BY <1>1, <1>2, <1>3, <1>4, <1>5 DEF Compress
<1>7. ms \in Seq(Messages) /\ Len(ms) \in Nat
      /\ \A i \in 1 .. Len(ms) : ms[i] \in Messages /\ ~ms[i].text.cut /\ ms[i].text.refers = 0
  BY GivenAreMessages
<1>8. /\ d \in Seq(Messages) /\ Instructed(d) = Instructed(ms)
      /\ \A k \in 1 .. Len(d) : \E i \in 1 .. Len(ms) : d[k] = ms[i]
      /\ \A i \in 1 .. Len(ms) : ~IsSystem(ms[i]) =>
           \E k \in 1 .. Len(d) :
             /\ d[k] = ms[i] /\ Len(d) - k <= Len(ms) - i
             /\ \A j \in 1 .. k - 1 : \E l \in 1 .. i - 1 : d[j] = ms[l]
  <2>1. Deduped(d, ms)
    BY <1>1, <1>7, DedupeSound
  <2> QED BY <2>1 DEF Deduped
<1>9. Rewrites(e, d) /\ \A i \in 1 .. Len(d) : Leaves(e, d, i)
  BY <1>2, <1>8, MinifyRewrites
<1>10. Len(e) = Len(d) /\ e \in Seq(Messages)
  BY <1>9 DEF Rewrites
<1>11. /\ Rewrites(f, e)
       /\ \A i \in 1 .. Len(e) :
            (\A j \in 1 .. i - 1 : e[j].text.body # e[i].text.body) => Leaves(f, e, i)
  BY <1>3, <1>10, ReferenceRewrites
<1>12. Len(f) = Len(d) /\ f \in Seq(Messages)
  BY <1>10, <1>11 DEF Rewrites
<1>13. Rewrites(g, f) /\ \A i \in 1 .. Len(f) : i > Len(f) - StaleAge => Leaves(g, f, i)
  BY <1>4, <1>12, TrimRewrites
<1>14. Len(g) = Len(d) /\ g \in Seq(Messages)
  BY <1>12, <1>13 DEF Rewrites
<1>15. Rewrites(h, g) /\ \A i \in 1 .. Len(g) : Leaves(h, g, i)
  BY <1>5, <1>14, CollapseRewrites
<1>16. Len(h) = Len(d) /\ h \in Seq(Messages)
  BY <1>14, <1>15 DEF Rewrites
<1>17. /\ ns \in Seq(Messages) /\ Instructed(ns) = Instructed(h)
       /\ \A k \in 1 .. Len(ns) : IsSystem(ns[k]) =>
            ns[k] = Marker \/ \E i \in 1 .. Len(h) : ns[k] = h[i]
       /\ \A i \in 1 .. Len(h) : i > Len(h) - StaleAge /\ ~IsSystem(h[i]) =>
            \E k \in 1 .. Len(ns) : ns[k] = h[i]
  <2>1. Truncated(ns, h)
    BY <1>6, <1>16, TruncateSound
  <2> QED BY <2>1 DEF Truncated
<1>18. Instructed(ns) = Instructed(ms)
  <2>1. Instructed(e) = Instructed(d) /\ Instructed(f) = Instructed(e)
        /\ Instructed(g) = Instructed(f) /\ Instructed(h) = Instructed(g)
    BY <1>8, <1>9, <1>10, <1>11, <1>12, <1>13, <1>14, <1>15, RewritesInstruct
  <2> QED BY <1>8, <1>17, <2>1
<1>19. Rewrites(h, d)
  <2>1. Rewrites(f, d)
    BY <1>9, <1>11, RewritesAgain
  <2>2. Rewrites(g, d)
    BY <1>13, <2>1, RewritesAgain
  <2> QED BY <1>15, <2>2, RewritesAgain
<1>20. ASSUME NEW k \in 1 .. Len(ns), IsSystem(ns[k])
       PROVE  ~ns[k].text.cut /\ ns[k].text.refers = 0
  <2>1. CASE ns[k] = Marker
    BY <2>1, WordsAreTexts
  <2>2. ASSUME NEW i \in 1 .. Len(h), ns[k] = h[i] PROVE ~ns[k].text.cut /\ ns[k].text.refers = 0
    <3>1. i \in 1 .. Len(d) /\ IsSystem(d[i]) /\ h[i].text.cut = d[i].text.cut
          /\ h[i].text.refers = d[i].text.refers
      BY <1>16, <1>19, <1>20, <2>2 DEF Rewrites, IsSystem
    <3>2. PICK l \in 1 .. Len(ms) : d[i] = ms[l]
      BY <1>8, <3>1
    <3> QED BY <1>7, <2>2, <3>1, <3>2
  <2> QED BY <1>17, <1>20, <2>1, <2>2
<1>21. ASSUME NEW i \in 1 .. Len(ms), i > Len(ms) - StaleAge, FirstResult(ms, i)
       PROVE  \E k \in 1 .. Len(ns) :
                ns[k].role = "tool" /\ ns[k].text.body = ms[i].text.body /\ ~ns[k].text.cut
  <2>1. ~IsSystem(ms[i])
    BY <1>21 DEF FirstResult, IsSystem
  <2>2. PICK p \in 1 .. Len(d) : /\ d[p] = ms[i] /\ Len(d) - p <= Len(ms) - i
                                 /\ \A j \in 1 .. p - 1 : \E l \in 1 .. i - 1 : d[j] = ms[l]
    BY <1>8, <2>1
  <2>3. \A j \in 1 .. p - 1 : d[j].text.body # d[p].text.body
    BY <1>21, <2>2 DEF FirstResult
  <2>4. p > Len(d) - StaleAge
    BY <1>7, <1>8, <1>21, <2>2, PromptAssumption
  <2>5. \A j \in 1 .. p - 1 : e[j].text.body # e[p].text.body
    <3>1. TAKE j \in 1 .. p - 1
    <3>2. j \in 1 .. Len(d)
      BY <1>8
    <3> QED BY <1>9, <2>3, <3>2 DEF Leaves
  <2>6. Leaves(e, d, p) /\ Leaves(f, e, p) /\ Leaves(g, f, p) /\ Leaves(h, g, p)
    BY <1>9, <1>10, <1>11, <1>12, <1>13, <1>14, <1>15, <2>4, <2>5
  <2>7. h[p].text.body = ms[i].text.body /\ ~h[p].text.cut
    BY <1>7, <2>2, <2>6 DEF Leaves
  <2>8. h[p].role = "tool"
    BY <1>19, <1>21, <2>2 DEF Rewrites, FirstResult
  <2>9. PICK k \in 1 .. Len(ns) : ns[k] = h[p]
    BY <1>16, <1>17, <2>4, <2>8 DEF IsSystem
  <2> QED BY <2>7, <2>8, <2>9
<1> QED BY <1>17, <1>18, <1>20, <1>21

-----------------------------------------------------------------------------

\* What was sent last: the history as it is, or compressed; it has all that was ever instructed.
PromptInv ==
  /\ history \in Seq(Given)
  /\ sent \in Seq(Messages)
  /\ waiting = "model" => sent = IF private THEN history ELSE Compress(history)
  /\ InstructionsArrive

\* One more request is sent with all that was instructed.
LEMMA SendsSound ==
  ASSUME PromptInv, NEW ms \in Seq(Given), Sends(ms)
  PROVE  PromptInv'
<1>1. history' \in Seq(Given) /\ history' = history \o ms
  BY DEF PromptInv, Sends
<1>2. sent' = IF private' THEN history' ELSE Compress(history')
  BY DEF Sends
<1>3. /\ sent' \in Seq(Messages) /\ Instructed(sent') = Instructed(history')
      /\ \A k \in 1 .. Len(sent') : IsSystem(sent'[k]) => ~sent'[k].text.cut /\ sent'[k].text.refers = 0
  <2>1. CASE sent' = history'
    <3>1. PICK h \in Seq(Given) : h = history'
      BY <1>1
    <3>2. h \in Seq(Messages) /\ \A k \in 1 .. Len(h) : ~h[k].text.cut /\ h[k].text.refers = 0
      BY GivenAreMessages
    <3> QED BY <2>1, <3>1, <3>2
  <2>2. CASE sent' = Compress(history')
    BY <1>1, <2>2, CompressSound
  <2> QED BY <1>2, <2>1, <2>2
<1>4. \A m \in ToSet(sent') : IsSystem(m) => ~m.text.cut /\ m.text.refers = 0
  BY <1>3 DEF ToSet
<1>5. InstructionsArrive'
  BY <1>3, <1>4 DEF InstructionsArrive
<1> QED BY <1>1, <1>2, <1>3, <1>5 DEF PromptInv

\* Every step of the conversation preserves the invariant.
LEMMA PromptStep ==
  ASSUME PromptInv, Converse
  PROVE  PromptInv'
<1>1. ASSUME NEW q \in Question, NEW s \in Instruction, Sends(<<q>>) \/ Sends(<<s, q>>)
      PROVE  PromptInv'
  <2>1. q \in Given /\ s \in Given
    BY PromptAssumption
  <2>2. <<q>> \in Seq(Given) /\ <<s, q>> \in Seq(Given)
    BY <2>1
  <2> QED BY <1>1, <2>2, SendsSound
<1>2. ASSUME NEW q \in Given, Sends(<<q>>)
      PROVE  PromptInv'
  <2>1. <<q>> \in Seq(Given)
    OBVIOUS
  <2> QED BY <1>2, <2>1, SendsSound
<1>3. CASE Replies
  <2> DEFINE reply == Message("assistant", Text("reply", 20, "plain"), FALSE)
  <2>1. reply \in Given /\ ~Instructs(reply)
    BY WordsAreTexts DEF Message, Instructs, IsSystem
  <2>2. history' = Append(history, reply) /\ sent' = sent /\ private' = private /\ waiting' # "model"
    BY <1>3 DEF Replies
  <2> HIDE DEF reply
  <2>3. history \in Seq(Given) /\ history \in Seq(Messages) /\ reply \in Messages
    BY <2>1, GivenAreMessages DEF PromptInv
  <2>4. Instructed(Append(history, reply)) = Instructed(history)
    BY <2>1, <2>3, InstructedAppend
  <2>5. InstructionsArrive'
    BY <2>2, <2>4 DEF PromptInv, InstructionsArrive
  <2>6. Append(history, reply) \in Seq(Given)
    BY <2>1, <2>3
  <2> QED BY <2>2, <2>5, <2>6 DEF PromptInv
<1>4. CASE AsksMore \/ ToolReturns
  BY <1>1, <1>2, <1>4, PromptAssumption DEF AsksMore, ToolReturns
<1> QED BY <1>3, <1>4 DEF Converse

\* The initial states satisfy the invariant.
LEMMA PromptStart ==
  ASSUME PromptInit
  PROVE  PromptInv
BY DEF PromptInit, PromptInv, InstructionsArrive, ToSet

\* The invariant says what arrives while the model is asked.
LEMMA PromptInvSafe ==
  ASSUME PromptInv
  PROVE  PromptSafety
<1> SUFFICES ASSUME NEW i \in Fresh,
                    history[i].role = "tool" /\ \A j \in 1 .. i - 1 : history[j].text.body # history[i].text.body
             PROVE  \E m \in ToSet(sent) : m.role = "tool" /\ m.text.body = history[i].text.body /\ ~m.text.cut
  BY DEF PromptInv, PromptSafety, FreshOutputWhole
<1>1. waiting = "model" /\ i \in 1 .. Len(history) /\ i > Len(history) - StaleAge
  BY DEF Fresh, PromptInv
<1>2. FirstResult(history, i)
  BY DEF FirstResult
<1>3. history \in Seq(Given) /\ sent \in Seq(Messages)
  BY DEF PromptInv
<1>4. \A k \in 1 .. Len(sent) : sent[k] \in ToSet(sent)
  BY <1>3 DEF ToSet
<1>5. CASE sent = history
  <2>1. history[i] \in Given
    BY <1>1, <1>3
  <2> QED BY <1>1, <1>2, <1>4, <1>5, <2>1, GivenAreMessages DEF FirstResult
<1>6. CASE sent = Compress(history)
  <2>1. PICK k \in 1 .. Len(sent) :
          sent[k].role = "tool" /\ sent[k].text.body = history[i].text.body /\ ~sent[k].text.cut
    BY <1>1, <1>2, <1>3, <1>6, CompressSound
  <2> QED BY <1>4, <2>1
<1> QED BY <1>1, <1>5, <1>6 DEF PromptInv

-----------------------------------------------------------------------------
(* The theorems                                                            *)

\* What holds in every stage.
PipelineInv == RoutingInv /\ MoneyInv /\ PromptInv

\* The initial states satisfy the invariants.
LEMMA PipelineStart ==
  ASSUME PipelineInit
  PROVE  PipelineInv
BY RoutingStart, MoneyStart, PromptStart DEF PipelineInit, PipelineInv

\* Steps of the other stages leave the conversation's invariant true.
LEMMA RoutingUntouched ==
  ASSUME RoutingInv, UNCHANGED routingVars
  PROVE  RoutingInv'
<1> USE DEF routingVars, turnVars, sharedVars
<1>1. RoutingTypeOK' /\ Turns' /\ NoPolicyYet' /\ ChainsFit'
  BY DEF RoutingInv, RoutingTypeOK, Turns, NoPolicyYet, ChainsFit
<1>2. Kept
  BY DEF Kept, Carried, RoutingInv
<1> QED BY <1>1, <1>2, KeptSound DEF RoutingInv

\* Steps of the other stages leave the money's invariant true.
LEMMA MoneyUntouched ==
  ASSUME MoneyInv, UNCHANGED attributionVars
  PROVE  MoneyInv'
BY DEF MoneyInv, attributionVars, BillTyped, FeesFollow, PartsMakeWhole, PricesServed

\* Steps of the other stages leave the prompt's invariant true.
LEMMA PromptUntouched ==
  ASSUME PromptInv, UNCHANGED promptVars
  PROVE  PromptInv'
BY DEF PromptInv, promptVars, InstructionsArrive

\* Every step of the pipeline preserves the invariants.
LEMMA PipelineStep ==
  ASSUME PipelineInv, [PipelineNext]_pipelineVars
  PROVE  PipelineInv'
<1>1. CASE InCompression(Converse)
  BY <1>1, RoutingUntouched, MoneyUntouched, PromptStep DEF InCompression, PipelineInv
<1>2. CASE InRouting(Routes)
  BY <1>2, RoutingStep, MoneyUntouched, PromptUntouched DEF InRouting, PipelineInv
<1>3. CASE InPricing(Attribute)
  BY <1>3, RoutingUntouched, MoneyStep, PromptUntouched DEF InPricing, PipelineInv
<1>4. CASE UNCHANGED pipelineVars
  BY <1>4, RoutingUntouched, MoneyUntouched, PromptUntouched DEF pipelineVars, PipelineInv
<1> QED BY <1>1, <1>2, <1>3, <1>4 DEF PipelineNext

\* The inductive invariant of the three stages.
LEMMA PipelineInvariant == PipelineSpec => []PipelineInv
<1>1. PipelineInit => PipelineInv
  BY PipelineStart
<1>2. PipelineInv /\ [PipelineNext]_pipelineVars => PipelineInv'
  BY PipelineStep
<1> QED BY <1>1, <1>2, PTL DEF PipelineSpec

\* The pins and alternates of a conversation never downgrade its complex turns, never answer an
\* unmoved turn at a dearer price, and never substitute a model that cannot take the request, for
\* any number of turns and any models (route, alternates_for, FallbackChain::build).
THEOREM RouteSafe == PipelineSpec => []RoutingSafety
<1>1. PipelineInv => RoutingSafety
  BY RoutingInvSafe DEF PipelineInv
<1> QED BY <1>1, PipelineInvariant, PTL

\* The parts make up the saving, the invoice agrees with the fees of its month, and a replica
\* keeps its prices, for any prices, token counts and interleaving of their changes
\* (SavingsComponents::compute, invoice.rs build, refresh_once).
THEOREM MoneySafe == PipelineSpec => []MoneyAddsUp
<1>1. PipelineInv => MoneyAddsUp
  BY InvoiceIsRight DEF PipelineInv, MoneyInv, MoneyAddsUp
<1> QED BY <1>1, PipelineInvariant, PTL

\* Whatever is compressed, turn after turn, the model is given every instruction the client has
\* given it, uncut and in the order they were first given, and every fresh result of a tool
\* whole unless it repeats what was said: for any conversation, sizes and limits (compress,
\* dedupe_system_messages, truncate_history, reference_duplicate_large_blocks, trim_tool_results).
THEOREM PromptSafe == PipelineSpec => []PromptSafety
<1>1. PipelineInv => PromptSafety
  BY PromptInvSafe DEF PipelineInv
<1> QED BY <1>1, PipelineInvariant, PTL

===============================================================================
