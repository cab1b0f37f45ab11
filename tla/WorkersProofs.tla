---------------------------- MODULE WorkersProofs ----------------------------
(***************************************************************************)
(* Proofs about the workers of a deployment, for any number of replicas    *)
(* and any bounds on failures and restarts: the usage writers              *)
(* (UsagePipeline), the budget alerts and the reconcilers (MCWorkers).     *)
(***************************************************************************)
EXTENDS MCWorkers, UsagePipeline, FiniteSetTheorems, TLAPS

USE DEF failures, FailuresTypeOK

-----------------------------------------------------------------------------
(* The usage writers: any number of events, any bounds of the batch and    *)
(* the stream.                                                             *)
(*                                                                         *)
(* The inductive invariant.  NothingSkipped says where the cursor may be,  *)
(* but a cursor is written from a batch read long before: it takes the     *)
(* shape of a batch (Gapless) to know that the entries before last are     *)
(* settled.  RollupFollows needs that no two writers are about to fold the *)
(* same entry, which is what the unique key of usage_records is for.       *)

\* Nobody needs to look at these entries again.
Settled == records \cup Malformed \cup 1 .. trimmed

\* A batch begins after last and has no gap but what the stream dropped.
Gapless(w) ==
  \A b \in batch[w] :
    /\ last[w] < b
    /\ \A d \in 1 .. b : d <= last[w] \/ d \in batch[w] \/ d <= trimmed

\* A writer about to fold holds a row it has just inserted.
FoldsNewRow(w) ==
  phase[w] = "folding" =>
    \E e \in batch[w] : First(e, batch[w]) /\ e \in records \ Malformed /\ rollup[e] = 0

FoldsAlone(v, w) ==
  v # w /\ phase[v] = "folding" /\ phase[w] = "folding" =>
    \A e \in batch[v] \cap batch[w] : ~(First(e, batch[v]) /\ First(e, batch[w]))

BatchOnlyInUse(w) == phase[w] \notin {"inserting", "folding"} => batch[w] = {}

RollupOnce == \A e \in Events : rollup[e] \in {0, 1} /\ (rollup[e] = 1 => e \in records)

CursorSettled == 1 .. cursor \subseteq Settled

LastSettled(w) == 1 .. last[w] \subseteq Settled

UsageInv ==
  /\ UsageTypeOK
  /\ CursorSettled
  /\ RollupOnce
  /\ \A w \in Replica : LastSettled(w) /\ Gapless(w) /\ FoldsNewRow(w) /\ BatchOnlyInUse(w)
  /\ \A v, w \in Replica : FoldsAlone(v, w)
  /\ RollupFollows

-----------------------------------------------------------------------------

LEMMA FailureBounds == MaxFaults \in Nat /\ MaxCrashes \in Nat
BY DeploymentAssumption

LEMMA InitUsageInv == UsageInit => UsageInv
BY UsageAssumption, FailureBounds DEF UsageInit, UsageInv, UsageTypeOK, CursorSettled,
  RollupOnce, LastSettled, Gapless, FoldsNewRow, BatchOnlyInUse, FoldsAlone, RollupFollows,
  Events, Step, First

\* A batch is a prefix of what is unread: ReadStream leaves no gap.
LEMMA BatchGapless ==
  ASSUME UsageTypeOK, NEW w \in Replica,
         NEW S, S = {e \in Unread(w) : Cardinality({d \in Unread(w) : d <= e}) <= BatchSize}
  PROVE  /\ S \subseteq 1 .. appended
         /\ \A b \in S :
              /\ last[w] < b
              /\ \A d \in 1 .. b : d <= last[w] \/ d \in S \/ d <= trimmed
<1>1. Unread(w) \subseteq 1 .. appended /\ IsFiniteSet(1 .. appended)
  BY FS_Interval DEF Unread, UsageTypeOK
<1>2. \A e \in Unread(w) : last[w] < e
  BY DEF Unread
<1>3. ASSUME NEW b \in S, NEW d \in 1 .. b, last[w] < d, trimmed < d
      PROVE  d \in S
  <2> DEFINE Upto(e) == {x \in Unread(w) : x <= e}
  <2>1. d \in Unread(w)
    BY <1>1, <1>3 DEF Unread, UsageTypeOK
  <2>2. Upto(d) \subseteq Upto(b) /\ IsFiniteSet(Upto(b))
    <3>1. Upto(b) \subseteq 1 .. appended
      BY <1>1
    <3>2. IsFiniteSet(Upto(b))
      BY <3>1, <1>1, FS_Subset
    <3>3. \A x \in Upto(d) : x <= b
      BY <1>1, <1>3 DEF UsageTypeOK
    <3> QED BY <3>2, <3>3
  <2>3. /\ Cardinality(Upto(d)) <= Cardinality(Upto(b))
        /\ Cardinality(Upto(d)) \in Nat /\ Cardinality(Upto(b)) \in Nat
    BY <2>2, FS_Subset, FS_CardinalityType
  <2>4. Cardinality(Upto(b)) <= BatchSize
    BY <1>3
  <2> HIDE DEF Upto
  <2>5. Cardinality(Upto(d)) <= BatchSize
    BY <2>3, <2>4, UsageAssumption
  <2> QED BY <2>1, <2>5 DEF Upto
<1>4. S \subseteq Unread(w) /\ S \subseteq 1 .. appended
  BY <1>1
<1>5. ASSUME NEW b \in S, NEW d \in 1 .. b
      PROVE  d <= last[w] \/ d \in S \/ d <= trimmed
  <2>1. d \in Nat /\ last[w] \in Nat /\ trimmed \in Nat
    BY <1>4 DEF UsageTypeOK
  <2>2. CASE last[w] < d /\ trimmed < d
    BY <1>3, <2>2
  <2> QED BY <2>1, <2>2
<1> QED BY <1>2, <1>4, <1>5

\* What passing over the first entry of a batch does: it is the next in line, and what is
\* left has no gap after it.
LEMMA PassesOver ==
  ASSUME UsageInv, NEW w \in Replica, NEW e \in batch[w], First(e, batch[w]), e \in Settled
  PROVE  /\ e \in 1 .. appended
         /\ 1 .. e \subseteq Settled
         /\ \A b \in batch[w] \ {e} :
              /\ e < b
              /\ \A d \in 1 .. b : d <= e \/ d \in batch[w] \ {e} \/ d <= trimmed
<1>1. batch[w] \subseteq 1 .. appended /\ last[w] \in Nat /\ trimmed \in Nat /\ appended \in Nat
  BY DEF UsageInv, UsageTypeOK
<1>2. Gapless(w) /\ LastSettled(w)
  BY DEF UsageInv
<1>3. ASSUME NEW d \in 1 .. e
      PROVE  d \in Settled
  BY <1>1, <1>2, <1>3 DEF Gapless, LastSettled, Settled, First
<1>4. ASSUME NEW b \in batch[w] \ {e}
      PROVE  e < b
  BY <1>1 DEF First
<1>5. ASSUME NEW b \in batch[w] \ {e}, NEW d \in 1 .. b
      PROVE  d <= e \/ d \in batch[w] \ {e} \/ d <= trimmed
  BY <1>1, <1>2, <1>4 DEF Gapless, First
<1> QED BY <1>1, <1>3, <1>4, <1>5

\* A writer that is folding folds a row it has just inserted.
LEMMA FoldsThis ==
  ASSUME UsageInv, NEW w \in Replica, phase[w] = "folding", NEW e \in batch[w], First(e, batch[w])
  PROVE  e \in records \ Malformed /\ rollup[e] = 0
<1>1. PICK f \in batch[w] : First(f, batch[w]) /\ f \in records \ Malformed /\ rollup[f] = 0
  BY DEF UsageInv, FoldsNewRow
<1>2. e \in Nat /\ f \in Nat /\ e <= f /\ f <= e
  BY <1>1 DEF First, UsageInv, UsageTypeOK
<1> QED BY <1>1, <1>2

-----------------------------------------------------------------------------
(* Each action keeps the invariant.                                        *)

LEMMA AppendIInv ==
  ASSUME UsageInv, StreamAppend
  PROVE  UsageInv'
<1> USE DEF StreamAppend
<1>1. UsageTypeOK' /\ (CursorSettled /\ RollupOnce /\ RollupFollows)'
  BY UsageAssumption, FailureBounds DEF UsageInv, UsageTypeOK, Step, Events, CursorSettled,
    LastSettled, Settled, RollupOnce, RollupFollows, First
<1>2. ASSUME NEW x \in Replica
      PROVE  (LastSettled(x) /\ Gapless(x) /\ FoldsNewRow(x) /\ BatchOnlyInUse(x))'
  BY UsageAssumption, FailureBounds DEF UsageInv, UsageTypeOK, Step, Events, LastSettled,
    Settled, CursorSettled, Gapless, BatchOnlyInUse, FoldsNewRow, RollupOnce, First
<1>3. ASSUME NEW v \in Replica, NEW x \in Replica
      PROVE  FoldsAlone(v, x)'
  BY DEF UsageInv, UsageTypeOK, FoldsAlone, First
<1> QED BY <1>1, <1>2, <1>3 DEF UsageInv

LEMMA ReadCursorIInv ==
  ASSUME UsageInv, NEW w \in Replica, ReadCursor(w)
  PROVE  UsageInv'
<1> USE DEF ReadCursor
<1>1. UsageTypeOK' /\ (CursorSettled /\ RollupOnce /\ RollupFollows)'
  BY UsageAssumption, FailureBounds DEF UsageInv, UsageTypeOK, Step, Events, CursorSettled,
    LastSettled, Settled, RollupOnce, RollupFollows, First
<1>2. ASSUME NEW x \in Replica
      PROVE  (LastSettled(x) /\ Gapless(x) /\ FoldsNewRow(x) /\ BatchOnlyInUse(x))'
  BY UsageAssumption, FailureBounds DEF UsageInv, UsageTypeOK, Step, Events, LastSettled,
    Settled, CursorSettled, Gapless, BatchOnlyInUse, FoldsNewRow, RollupOnce, First
<1>3. ASSUME NEW v \in Replica, NEW x \in Replica
      PROVE  FoldsAlone(v, x)'
  BY DEF UsageInv, UsageTypeOK, FoldsAlone, First
<1> QED BY <1>1, <1>2, <1>3 DEF UsageInv

LEMMA ReadCursorFailsIInv ==
  ASSUME UsageInv, NEW w \in Replica, ReadCursorFails(w)
  PROVE  UsageInv'
<1> USE DEF ReadCursorFails, Fault
<1>1. UsageTypeOK' /\ (CursorSettled /\ RollupOnce /\ RollupFollows)'
  BY UsageAssumption, FailureBounds DEF UsageInv, UsageTypeOK, Step, Events, CursorSettled,
    LastSettled, Settled, RollupOnce, RollupFollows, First
<1>2. ASSUME NEW x \in Replica
      PROVE  (LastSettled(x) /\ Gapless(x) /\ FoldsNewRow(x) /\ BatchOnlyInUse(x))'
  BY UsageAssumption, FailureBounds DEF UsageInv, UsageTypeOK, Step, Events, LastSettled,
    Settled, CursorSettled, Gapless, BatchOnlyInUse, FoldsNewRow, RollupOnce, First
<1>3. ASSUME NEW v \in Replica, NEW x \in Replica
      PROVE  FoldsAlone(v, x)'
  BY DEF UsageInv, UsageTypeOK, FoldsAlone, First
<1> QED BY <1>1, <1>2, <1>3 DEF UsageInv

LEMMA ReadStreamFailsIInv ==
  ASSUME UsageInv, NEW w \in Replica, ReadStreamFails(w)
  PROVE  UsageInv'
<1> USE DEF ReadStreamFails, Fault
<1>1. UsageTypeOK' /\ (CursorSettled /\ RollupOnce /\ RollupFollows)'
  BY UsageAssumption, FailureBounds DEF UsageInv, UsageTypeOK, Step, Events, CursorSettled,
    LastSettled, Settled, RollupOnce, RollupFollows, First
<1>2. ASSUME NEW x \in Replica
      PROVE  (LastSettled(x) /\ Gapless(x) /\ FoldsNewRow(x) /\ BatchOnlyInUse(x))'
  BY UsageAssumption, FailureBounds DEF UsageInv, UsageTypeOK, Step, Events, LastSettled,
    Settled, CursorSettled, Gapless, BatchOnlyInUse, FoldsNewRow, RollupOnce, First
<1>3. ASSUME NEW v \in Replica, NEW x \in Replica
      PROVE  FoldsAlone(v, x)'
  BY DEF UsageInv, UsageTypeOK, FoldsAlone, First
<1> QED BY <1>1, <1>2, <1>3 DEF UsageInv

LEMMA InsertFailsIInv ==
  ASSUME UsageInv, NEW w \in Replica, InsertFails(w)
  PROVE  UsageInv'
<1> USE DEF InsertFails, Fault
<1>1. UsageTypeOK' /\ (CursorSettled /\ RollupOnce /\ RollupFollows)'
  BY UsageAssumption, FailureBounds DEF UsageInv, UsageTypeOK, Step, Events, CursorSettled,
    LastSettled, Settled, RollupOnce, RollupFollows, First
<1>2. ASSUME NEW x \in Replica
      PROVE  (LastSettled(x) /\ Gapless(x) /\ FoldsNewRow(x) /\ BatchOnlyInUse(x))'
  BY UsageAssumption, FailureBounds DEF UsageInv, UsageTypeOK, Step, Events, LastSettled,
    Settled, CursorSettled, Gapless, BatchOnlyInUse, FoldsNewRow, RollupOnce, First
<1>3. ASSUME NEW v \in Replica, NEW x \in Replica
      PROVE  FoldsAlone(v, x)'
  BY DEF UsageInv, UsageTypeOK, FoldsAlone, First
<1> QED BY <1>1, <1>2, <1>3 DEF UsageInv

LEMMA SaveCursorIInv ==
  ASSUME UsageInv, NEW w \in Replica, SaveCursor(w)
  PROVE  UsageInv'
<1> USE DEF SaveCursor, Finished
<1>1. UsageTypeOK' /\ (CursorSettled /\ RollupOnce /\ RollupFollows)'
  BY UsageAssumption, FailureBounds DEF UsageInv, UsageTypeOK, Step, Events, CursorSettled,
    LastSettled, Settled, RollupOnce, RollupFollows, First
<1>2. ASSUME NEW x \in Replica
      PROVE  (LastSettled(x) /\ Gapless(x) /\ FoldsNewRow(x) /\ BatchOnlyInUse(x))'
  BY UsageAssumption, FailureBounds DEF UsageInv, UsageTypeOK, Step, Events, LastSettled,
    Settled, CursorSettled, Gapless, BatchOnlyInUse, FoldsNewRow, RollupOnce, First
<1>3. ASSUME NEW v \in Replica, NEW x \in Replica
      PROVE  FoldsAlone(v, x)'
  BY DEF UsageInv, UsageTypeOK, FoldsAlone, First
<1> QED BY <1>1, <1>2, <1>3 DEF UsageInv

LEMMA SaveCursorFailsIInv ==
  ASSUME UsageInv, NEW w \in Replica, SaveCursorFails(w)
  PROVE  UsageInv'
<1> USE DEF SaveCursorFails, Fault, Finished
<1>a. cursor' \in Nat /\ (cursor' = cursor \/ cursor' = last[w])
  BY DEF UsageInv, UsageTypeOK
<1>b. UsageTypeOK'
  BY <1>a, UsageAssumption, FailureBounds DEF UsageInv, UsageTypeOK, Step, Events
<1>c. CursorSettled'
  BY <1>a DEF UsageInv, UsageTypeOK, CursorSettled, LastSettled, Settled, Events
<1>d. (RollupOnce /\ RollupFollows)'
  BY UsageAssumption, FailureBounds DEF UsageInv, UsageTypeOK, Events, RollupOnce, RollupFollows
<1>1. UsageTypeOK' /\ (CursorSettled /\ RollupOnce /\ RollupFollows)'
  BY <1>b, <1>c, <1>d
<1>2. ASSUME NEW x \in Replica
      PROVE  (LastSettled(x) /\ Gapless(x) /\ FoldsNewRow(x) /\ BatchOnlyInUse(x))'
  BY UsageAssumption, FailureBounds DEF UsageInv, UsageTypeOK, Step, Events, LastSettled,
    Settled, CursorSettled, Gapless, BatchOnlyInUse, FoldsNewRow, RollupOnce, First
<1>3. ASSUME NEW v \in Replica, NEW x \in Replica
      PROVE  FoldsAlone(v, x)'
  BY DEF UsageInv, UsageTypeOK, FoldsAlone, First
<1> QED BY <1>1, <1>2, <1>3 DEF UsageInv

LEMMA RestartIInv ==
  ASSUME UsageInv, NEW w \in Replica, Restart(w)
  PROVE  UsageInv'
<1> USE DEF Restart, Crash
<1>1. UsageTypeOK' /\ (CursorSettled /\ RollupOnce /\ RollupFollows)'
  BY UsageAssumption, FailureBounds DEF UsageInv, UsageTypeOK, Step, Events, CursorSettled,
    LastSettled, Settled, RollupOnce, RollupFollows, First
<1>2. ASSUME NEW x \in Replica
      PROVE  (LastSettled(x) /\ Gapless(x) /\ FoldsNewRow(x) /\ BatchOnlyInUse(x))'
  BY UsageAssumption, FailureBounds DEF UsageInv, UsageTypeOK, Step, Events, LastSettled,
    Settled, CursorSettled, Gapless, BatchOnlyInUse, FoldsNewRow, RollupOnce, First
<1>3. ASSUME NEW v \in Replica, NEW x \in Replica
      PROVE  FoldsAlone(v, x)'
  BY DEF UsageInv, UsageTypeOK, FoldsAlone, First
<1> QED BY <1>1, <1>2, <1>3 DEF UsageInv

LEMMA ReadStreamIInv ==
  ASSUME UsageInv, NEW w \in Replica, ReadStream(w)
  PROVE  UsageInv'
<1> USE DEF ReadStream
<1> DEFINE S == {e \in Unread(w) : Cardinality({d \in Unread(w) : d <= e}) <= BatchSize}
<1>0. /\ batch' = [batch EXCEPT ![w] = S]
      /\ phase' = [phase EXCEPT ![w] = IF Unread(w) = {} THEN "idle" ELSE "inserting"]
      /\ S \subseteq 1 .. appended
      /\ Unread(w) = {} => S = {}
      /\ \A b \in S :
           /\ last[w] < b
           /\ \A d \in 1 .. b : d <= last[w] \/ d \in S \/ d <= trimmed
  BY BatchGapless DEF UsageInv
<1> HIDE DEF S
<1>1. UsageTypeOK'
  BY <1>0, UsageAssumption, FailureBounds DEF UsageInv, UsageTypeOK, Step, Events
<1>2. CursorSettled'
  BY <1>0, UsageAssumption, FailureBounds DEF UsageInv, UsageTypeOK, CursorSettled,
    LastSettled, Settled
<1>3. RollupOnce'
  BY <1>0, UsageAssumption, FailureBounds DEF UsageInv, UsageTypeOK, RollupOnce, FoldsNewRow,
    First, Events
<1>4. ASSUME NEW x \in Replica
      PROVE  LastSettled(x)'
  BY <1>0, UsageAssumption, FailureBounds DEF UsageInv, UsageTypeOK, LastSettled, Settled,
    CursorSettled
<1>5. ASSUME NEW x \in Replica
      PROVE  Gapless(x)'
  BY <1>0, UsageAssumption, FailureBounds DEF UsageInv, UsageTypeOK, Gapless, BatchOnlyInUse
<1>6. ASSUME NEW x \in Replica
      PROVE  FoldsNewRow(x)'
  BY <1>0, UsageAssumption, FailureBounds DEF UsageInv, UsageTypeOK, FoldsNewRow, FoldsAlone,
    RollupOnce, First, Step, Events
<1>7. ASSUME NEW x \in Replica
      PROVE  BatchOnlyInUse(x)'
  BY <1>0, UsageAssumption, FailureBounds DEF UsageInv, UsageTypeOK, BatchOnlyInUse, Step
<1>8. ASSUME NEW v \in Replica, NEW x \in Replica
      PROVE  FoldsAlone(v, x)'
  <2>1. FoldsAlone(v, x)
    BY DEF UsageInv
  <2>2. phase'[w] # "folding" /\ \A y \in Replica \ {w} : phase'[y] = phase[y] /\ batch'[y] = batch[y]
    BY <1>0 DEF UsageInv, UsageTypeOK
  <2> QED BY <2>1, <2>2 DEF FoldsAlone, First
<1>9. RollupFollows'
  BY <1>0, UsageAssumption, FailureBounds DEF UsageInv, UsageTypeOK, RollupFollows, First,
    Step, Events
<1> QED BY <1>1, <1>2, <1>3, <1>4, <1>5, <1>6, <1>7, <1>8, <1>9 DEF UsageInv

LEMMA SkipIInv ==
  ASSUME UsageInv, NEW w \in Replica, Skip(w)
  PROVE  UsageInv'
<1> USE DEF Skip
<1>p. PICK e \in batch[w] : /\ e \in Malformed /\ First(e, batch[w])
                         /\ batch' = [batch EXCEPT ![w] = @ \ {e}]
                         /\ last' = [last EXCEPT ![w] = e]
  BY FoldsThis DEF UsageInv, First
<1>0. /\ First(e, batch[w])
      /\ e \in 1 .. appended
      /\ 1 .. e \subseteq Settled
      /\ \A b \in batch[w] \ {e} :
           /\ e < b
           /\ \A d \in 1 .. b : d <= e \/ d \in batch[w] \ {e} \/ d <= trimmed
  BY <1>p, PassesOver DEF Settled
<1>1. UsageTypeOK'
  BY <1>p, <1>0, UsageAssumption, FailureBounds DEF UsageInv, UsageTypeOK, Step, Events
<1>2. CursorSettled'
  BY <1>p, <1>0, UsageAssumption, FailureBounds DEF UsageInv, UsageTypeOK, CursorSettled,
    LastSettled, Settled
<1>3. RollupOnce'
  BY <1>p, <1>0, UsageAssumption, FailureBounds DEF UsageInv, UsageTypeOK, RollupOnce,
    FoldsNewRow, First, Events
<1>4. ASSUME NEW x \in Replica
      PROVE  LastSettled(x)'
  BY <1>p, <1>0, UsageAssumption, FailureBounds DEF UsageInv, UsageTypeOK, LastSettled,
    Settled, CursorSettled
<1>5. ASSUME NEW x \in Replica
      PROVE  Gapless(x)'
  BY <1>p, <1>0, UsageAssumption, FailureBounds DEF UsageInv, UsageTypeOK, Gapless,
    BatchOnlyInUse
<1>6. ASSUME NEW x \in Replica
      PROVE  FoldsNewRow(x)'
  BY <1>p, <1>0, UsageAssumption, FailureBounds DEF UsageInv, UsageTypeOK, FoldsNewRow,
    FoldsAlone, RollupOnce, First, Step, Events
<1>7. ASSUME NEW x \in Replica
      PROVE  BatchOnlyInUse(x)'
  BY <1>p, <1>0, UsageAssumption, FailureBounds DEF UsageInv, UsageTypeOK, BatchOnlyInUse,
    Step
<1>8. ASSUME NEW v \in Replica, NEW x \in Replica
      PROVE  FoldsAlone(v, x)'
  BY <1>p, <1>0, UsageAssumption, FailureBounds DEF UsageInv, UsageTypeOK, FoldsAlone,
    FoldsNewRow, First, Step
<1>9. RollupFollows'
  BY <1>p, <1>0, UsageAssumption, FailureBounds DEF UsageInv, UsageTypeOK, RollupFollows,
    First, Step, Events
<1> QED BY <1>1, <1>2, <1>3, <1>4, <1>5, <1>6, <1>7, <1>8, <1>9 DEF UsageInv

LEMMA FoldIInv ==
  ASSUME UsageInv, NEW w \in Replica, Fold(w)
  PROVE  UsageInv'
<1> USE DEF Fold
<1>p. PICK e \in batch[w] : /\ e \in records \ Malformed /\ First(e, batch[w]) /\ rollup[e] = 0
                         /\ rollup' = [rollup EXCEPT ![e] = @ + 1]
                         /\ batch' = [batch EXCEPT ![w] = @ \ {e}]
                         /\ last' = [last EXCEPT ![w] = e]
  BY FoldsThis DEF UsageInv, First
<1>0. /\ First(e, batch[w])
      /\ e \in 1 .. appended
      /\ 1 .. e \subseteq Settled
      /\ \A b \in batch[w] \ {e} :
           /\ e < b
           /\ \A d \in 1 .. b : d <= e \/ d \in batch[w] \ {e} \/ d <= trimmed
  BY <1>p, PassesOver DEF Settled
<1>1. UsageTypeOK'
  BY <1>p, <1>0, UsageAssumption, FailureBounds DEF UsageInv, UsageTypeOK, Step, Events
<1>2. CursorSettled'
  BY <1>p, <1>0, UsageAssumption, FailureBounds DEF UsageInv, UsageTypeOK, CursorSettled,
    LastSettled, Settled
<1>3. RollupOnce'
  BY <1>p, <1>0, UsageAssumption, FailureBounds DEF UsageInv, UsageTypeOK, RollupOnce,
    FoldsNewRow, First, Events
<1>4. ASSUME NEW x \in Replica
      PROVE  LastSettled(x)'
  BY <1>p, <1>0, UsageAssumption, FailureBounds DEF UsageInv, UsageTypeOK, LastSettled,
    Settled, CursorSettled
<1>5. ASSUME NEW x \in Replica
      PROVE  Gapless(x)'
  BY <1>p, <1>0, UsageAssumption, FailureBounds DEF UsageInv, UsageTypeOK, Gapless,
    BatchOnlyInUse
<1>6. ASSUME NEW x \in Replica
      PROVE  FoldsNewRow(x)'
  BY <1>p, <1>0, UsageAssumption, FailureBounds DEF UsageInv, UsageTypeOK, FoldsNewRow,
    FoldsAlone, RollupOnce, First, Step, Events
<1>7. ASSUME NEW x \in Replica
      PROVE  BatchOnlyInUse(x)'
  BY <1>p, <1>0, UsageAssumption, FailureBounds DEF UsageInv, UsageTypeOK, BatchOnlyInUse,
    Step
<1>8. ASSUME NEW v \in Replica, NEW x \in Replica
      PROVE  FoldsAlone(v, x)'
  BY <1>p, <1>0, UsageAssumption, FailureBounds DEF UsageInv, UsageTypeOK, FoldsAlone,
    FoldsNewRow, First, Step
<1>9. RollupFollows'
  <2> SUFFICES ASSUME faults = 0, crashes = 0, NEW d \in records
               PROVE  rollup'[d] = 1
                        \/ \E v \in Replica : phase'[v] = "folding" /\ First(d, batch'[v])
    BY DEF RollupFollows, First
  <2>1. CASE d = e
    BY <1>p, <1>0, <2>1, UsageAssumption DEF UsageInv, UsageTypeOK, Events
  <2>2. CASE d # e /\ rollup[d] = 1
    BY <1>p, <2>2 DEF UsageInv, UsageTypeOK
  <2>3. ASSUME d # e, NEW v \in Replica, phase[v] = "folding", First(d, batch[v])
        PROVE  phase'[v] = "folding" /\ First(d, batch'[v])
    <3>1. v # w
      <4>1. ASSUME v = w PROVE FALSE
        <5>1. d \in Nat /\ e \in Nat /\ d <= e /\ e <= d
          BY <1>p, <2>3, <4>1 DEF First, UsageInv, UsageTypeOK
        <5> QED BY <2>3, <5>1
      <4> QED BY <4>1
    <3>2. phase'[v] = phase[v] /\ batch'[v] = batch[v]
      BY <1>p, <3>1 DEF UsageInv, UsageTypeOK
    <3> QED BY <2>3, <3>2
  <2> QED BY <2>1, <2>2, <2>3 DEF UsageInv, RollupFollows
<1> QED BY <1>1, <1>2, <1>3, <1>4, <1>5, <1>6, <1>7, <1>8, <1>9 DEF UsageInv

LEMMA FoldFailsIInv ==
  ASSUME UsageInv, NEW w \in Replica, FoldFails(w)
  PROVE  UsageInv'
<1> USE DEF FoldFails, Fault
<1>p. PICK e \in batch[w] : /\ e \in records \ Malformed /\ First(e, batch[w]) /\ rollup[e] = 0
                         /\ rollup' \in {rollup, [rollup EXCEPT ![e] = @ + 1]}
                         /\ batch' = [batch EXCEPT ![w] = @ \ {e}]
                         /\ last' = [last EXCEPT ![w] = e]
  BY FoldsThis DEF UsageInv, First
<1>0. /\ First(e, batch[w])
      /\ e \in 1 .. appended
      /\ 1 .. e \subseteq Settled
      /\ \A b \in batch[w] \ {e} :
           /\ e < b
           /\ \A d \in 1 .. b : d <= e \/ d \in batch[w] \ {e} \/ d <= trimmed
  BY <1>p, PassesOver DEF Settled
<1>1. UsageTypeOK'
  BY <1>p, <1>0, UsageAssumption, FailureBounds DEF UsageInv, UsageTypeOK, Step, Events
<1>2. CursorSettled'
  BY <1>p, <1>0, UsageAssumption, FailureBounds DEF UsageInv, UsageTypeOK, CursorSettled,
    LastSettled, Settled
<1>3. RollupOnce'
  BY <1>p, <1>0, UsageAssumption, FailureBounds DEF UsageInv, UsageTypeOK, RollupOnce,
    FoldsNewRow, First, Events
<1>4. ASSUME NEW x \in Replica
      PROVE  LastSettled(x)'
  BY <1>p, <1>0, UsageAssumption, FailureBounds DEF UsageInv, UsageTypeOK, LastSettled,
    Settled, CursorSettled
<1>5. ASSUME NEW x \in Replica
      PROVE  Gapless(x)'
  BY <1>p, <1>0, UsageAssumption, FailureBounds DEF UsageInv, UsageTypeOK, Gapless,
    BatchOnlyInUse
<1>6. ASSUME NEW x \in Replica
      PROVE  FoldsNewRow(x)'
  BY <1>p, <1>0, UsageAssumption, FailureBounds DEF UsageInv, UsageTypeOK, FoldsNewRow,
    FoldsAlone, RollupOnce, First, Step, Events
<1>7. ASSUME NEW x \in Replica
      PROVE  BatchOnlyInUse(x)'
  BY <1>p, <1>0, UsageAssumption, FailureBounds DEF UsageInv, UsageTypeOK, BatchOnlyInUse,
    Step
<1>8. ASSUME NEW v \in Replica, NEW x \in Replica
      PROVE  FoldsAlone(v, x)'
  BY <1>p, <1>0, UsageAssumption, FailureBounds DEF UsageInv, UsageTypeOK, FoldsAlone,
    FoldsNewRow, First, Step
<1>9. RollupFollows'
  BY <1>p, <1>0, UsageAssumption, FailureBounds DEF UsageInv, UsageTypeOK, RollupFollows,
    First, Step, Events
<1> QED BY <1>1, <1>2, <1>3, <1>4, <1>5, <1>6, <1>7, <1>8, <1>9 DEF UsageInv

LEMMA InsertIInv ==
  ASSUME UsageInv, NEW w \in Replica, Insert(w)
  PROVE  UsageInv'
<1>1. PICK e \in batch[w] \ Malformed :
        /\ First(e, batch[w])
        /\ IF e \notin records
             THEN /\ records' = records \cup {e}
                  /\ phase' = [phase EXCEPT ![w] = "folding"]
                  /\ UNCHANGED <<batch, last>>
             ELSE /\ batch' = [batch EXCEPT ![w] = @ \ {e}]
                  /\ last' = [last EXCEPT ![w] = e]
                  /\ UNCHANGED <<records, phase>>
  BY DEF Insert, IsNew
<1>2. CASE e \in records
  <2>0. /\ batch' = [batch EXCEPT ![w] = @ \ {e}]
        /\ last' = [last EXCEPT ![w] = e]
        /\ UNCHANGED <<appended, trimmed, cursor, records, rollup, phase, failures>>
    BY <1>1, <1>2 DEF Insert
  <2>p. /\ e \in 1 .. appended
        /\ 1 .. e \subseteq Settled
        /\ \A b \in batch[w] \ {e} :
             /\ e < b
             /\ \A d \in 1 .. b : d <= e \/ d \in batch[w] \ {e} \/ d <= trimmed
    BY <1>1, <1>2, PassesOver DEF Settled
  <2>q. phase[w] = "inserting"
    BY DEF Insert
  <2>1. UsageTypeOK'
    BY <1>1, <1>2, <2>0, <2>p, <2>q, UsageAssumption, FailureBounds DEF UsageInv, UsageTypeOK,
      Step, Events
  <2>2. CursorSettled'
    BY <1>1, <1>2, <2>0, <2>p, <2>q, UsageAssumption, FailureBounds DEF UsageInv, UsageTypeOK,
      CursorSettled, LastSettled, Settled
  <2>3. RollupOnce'
    BY <1>1, <1>2, <2>0, <2>p, <2>q, UsageAssumption, FailureBounds DEF UsageInv, UsageTypeOK,
      RollupOnce, FoldsNewRow, First, Events
  <2>4. ASSUME NEW x \in Replica
        PROVE  LastSettled(x)'
    BY <1>1, <1>2, <2>0, <2>p, <2>q, UsageAssumption, FailureBounds DEF UsageInv, UsageTypeOK,
      LastSettled, Settled, CursorSettled
  <2>5. ASSUME NEW x \in Replica
        PROVE  Gapless(x)'
    BY <1>1, <1>2, <2>0, <2>p, <2>q, UsageAssumption, FailureBounds DEF UsageInv, UsageTypeOK,
      Gapless, BatchOnlyInUse
  <2>6. ASSUME NEW x \in Replica
        PROVE  FoldsNewRow(x)'
    BY <1>1, <1>2, <2>0, <2>p, <2>q, UsageAssumption, FailureBounds DEF UsageInv, UsageTypeOK,
      FoldsNewRow, FoldsAlone, RollupOnce, First, Step, Events
  <2>7. ASSUME NEW x \in Replica
        PROVE  BatchOnlyInUse(x)'
    BY <1>1, <1>2, <2>0, <2>p, <2>q, UsageAssumption, FailureBounds DEF UsageInv, UsageTypeOK,
      BatchOnlyInUse, Step
  <2>8. ASSUME NEW v \in Replica, NEW x \in Replica
        PROVE  FoldsAlone(v, x)'
    BY <1>1, <1>2, <2>0, <2>p, <2>q, UsageAssumption, FailureBounds DEF UsageInv, UsageTypeOK,
      FoldsAlone, FoldsNewRow, First, Step
  <2>9. RollupFollows'
    BY <1>1, <1>2, <2>0, <2>p, <2>q, UsageAssumption, FailureBounds DEF UsageInv, UsageTypeOK,
      RollupFollows, First, Step, Events
  <2> QED BY <2>1, <2>2, <2>3, <2>4, <2>5, <2>6, <2>7, <2>8, <2>9 DEF UsageInv
<1>3. CASE e \notin records
  <2>0. /\ phase[w] = "inserting"
        /\ records' = records \cup {e}
        /\ phase' = [phase EXCEPT ![w] = "folding"]
        /\ UNCHANGED <<appended, trimmed, cursor, rollup, batch, last, failures>>
    BY <1>1, <1>3 DEF Insert
  <2>1. UsageTypeOK'
    BY <1>1, <1>3, <2>0, UsageAssumption, FailureBounds DEF UsageInv, UsageTypeOK, Step,
      Events
  <2>2. CursorSettled'
    BY <1>1, <1>3, <2>0, UsageAssumption, FailureBounds DEF UsageInv, UsageTypeOK,
      CursorSettled, LastSettled, Settled
  <2>3. RollupOnce'
    BY <1>1, <1>3, <2>0, UsageAssumption, FailureBounds DEF UsageInv, UsageTypeOK, RollupOnce,
      FoldsNewRow, First, Events
  <2>4. ASSUME NEW x \in Replica
        PROVE  LastSettled(x)'
    BY <1>1, <1>3, <2>0, UsageAssumption, FailureBounds DEF UsageInv, UsageTypeOK,
      LastSettled, Settled, CursorSettled
  <2>5. ASSUME NEW x \in Replica
        PROVE  Gapless(x)'
    BY <1>1, <1>3, <2>0, UsageAssumption, FailureBounds DEF UsageInv, UsageTypeOK, Gapless,
      BatchOnlyInUse
  <2>6. ASSUME NEW x \in Replica
        PROVE  FoldsNewRow(x)'
    BY <1>1, <1>3, <2>0, UsageAssumption, FailureBounds DEF UsageInv, UsageTypeOK,
      FoldsNewRow, FoldsAlone, RollupOnce, First, Step, Events
  <2>7. ASSUME NEW x \in Replica
        PROVE  BatchOnlyInUse(x)'
    BY <1>1, <1>3, <2>0, UsageAssumption, FailureBounds DEF UsageInv, UsageTypeOK,
      BatchOnlyInUse, Step
  <2>8. ASSUME NEW v \in Replica, NEW x \in Replica
        PROVE  FoldsAlone(v, x)'
    BY <1>1, <1>3, <2>0, UsageAssumption, FailureBounds DEF UsageInv, UsageTypeOK, FoldsAlone,
      FoldsNewRow, First, Step
  <2>9. RollupFollows'
    BY <1>1, <1>3, <2>0, UsageAssumption, FailureBounds DEF UsageInv, UsageTypeOK,
      RollupFollows, First, Step, Events
  <2> QED BY <2>1, <2>2, <2>3, <2>4, <2>5, <2>6, <2>7, <2>8, <2>9 DEF UsageInv
<1> QED BY <1>2, <1>3
-----------------------------------------------------------------------------

LEMMA NextUsageInv == UsageInv /\ [UsageNext]_usageVars => UsageInv'
<1> SUFFICES ASSUME UsageInv, [UsageNext]_usageVars
             PROVE  UsageInv'
  OBVIOUS
<1>1. CASE StreamAppend
  BY <1>1, AppendIInv
<1>2. ASSUME NEW w \in Replica, Work(w)
      PROVE  UsageInv'
  BY <1>2, ReadCursorIInv, ReadStreamIInv, SkipIInv, InsertIInv, FoldIInv, SaveCursorIInv DEF
    Work
<1>3. ASSUME NEW w \in Replica, WriterTrouble(w)
      PROVE  UsageInv'
  BY <1>3, ReadCursorFailsIInv, ReadStreamFailsIInv, InsertFailsIInv, FoldFailsIInv,
    SaveCursorFailsIInv, RestartIInv DEF WriterTrouble
<1>4. CASE UNCHANGED usageVars
  BY <1>4 DEF usageVars, UsageInv, UsageTypeOK, Step, Events, CursorSettled, LastSettled,
    Settled, RollupOnce, RollupFollows, Gapless, BatchOnlyInUse, FoldsNewRow, FoldsAlone, First
<1> QED BY <1>1, <1>2, <1>3, <1>4 DEF UsageNext

\* The inductive invariant, from which the theorems below follow.
THEOREM UsageInvariance == UsageSpec => []UsageInv
BY InitUsageInv, NextUsageInv, PTL DEF UsageSpec

\* Every reachable state is well typed.
THEOREM UsageTypeCorrect == UsageSpec => []UsageTypeOK
<1>1. UsageInv => UsageTypeOK
  BY DEF UsageInv
<1> QED BY <1>1, UsageInvariance, PTL

\* However the replicas interleave, fail and restart, the stored cursor and every writer's
\* own position are past settled entries only: nothing the stream retains is lost between
\* emit and usage_records (process_batch).
THEOREM NothingSkippedAlways == UsageSpec => []NothingSkipped
<1>1. UsageInv => NothingSkipped
  BY DEF UsageInv, NothingSkipped, Passed, CursorSettled, LastSettled, Settled
<1> QED BY <1>1, UsageInvariance, PTL

\* Without failures, a new row is folded once or is about to be, by exactly the writer that
\* inserted it.
THEOREM RollupFollowsAlways == UsageSpec => []RollupFollows
<1>1. UsageInv => RollupFollows
  BY DEF UsageInv
<1> QED BY <1>1, UsageInvariance, PTL

-----------------------------------------------------------------------------
(* The refinement: each step of the pipeline is a step of the billing log   *)
(* or changes nothing it sees.                                             *)

LEMMA LogStep == UsageInv /\ [UsageNext]_usageVars => [Log!Next]_<<appended, records, rollup>>
<1> SUFFICES ASSUME UsageInv, [UsageNext]_usageVars
             PROVE  Log!Next \/ UNCHANGED <<appended, records, rollup>>
  OBVIOUS
<1>1. CASE StreamAppend
  BY <1>1 DEF StreamAppend, Log!Next, Log!Emit
<1>2. ASSUME NEW w \in Replica, Insert(w) \/ InsertFails(w)
      PROVE  Log!Next \/ UNCHANGED <<appended, records, rollup>>
  <2>1. PICK e \in batch[w] \ Malformed : records' \in {records, records \cup {e}}
    BY <1>2 DEF Insert, InsertFails, IsNew
  <2>2. e \in Events /\ e \in 1 .. appended
    BY <2>1, UsageAssumption, FailureBounds DEF UsageInv, UsageTypeOK, Events
  <2>3. UNCHANGED <<appended, rollup>>
    BY <1>2 DEF Insert, InsertFails
  <2>4. CASE e \notin records /\ records' = records \cup {e}
    BY <2>1, <2>2, <2>3, <2>4 DEF Log!Next, Log!Persist, Log!Events, Events
  <2> QED BY <2>1, <2>3, <2>4
<1>3. ASSUME NEW w \in Replica, Fold(w) \/ FoldFails(w)
      PROVE  Log!Next \/ UNCHANGED <<appended, records, rollup>>
  <2>1. PICK e \in batch[w] : First(e, batch[w]) /\ rollup' \in {rollup,
  [rollup EXCEPT ![e] = @ + 1]}
    BY <1>3 DEF Fold, FoldFails
  <2>2. e \in Events /\ e \in records /\ rollup[e] = 0
    <3>1. phase[w] = "folding"
      BY <1>3 DEF Fold, FoldFails
    <3>2. e \in records /\ rollup[e] = 0
      BY <2>1, <3>1, FoldsThis
    <3> QED BY <3>2, UsageAssumption, FailureBounds DEF UsageInv, UsageTypeOK, Events
  <2>3. UNCHANGED <<appended, records>>
    BY <1>3 DEF Fold, FoldFails
  <2>4. CASE rollup' = [rollup EXCEPT ![e] = 1]
    BY <2>2, <2>3, <2>4 DEF Log!Next, Log!Fold, Log!Events, Events
  <2>5. [rollup EXCEPT ![e] = @ + 1] = [rollup EXCEPT ![e] = 1]
    BY <2>2
  <2> QED BY <2>1, <2>3, <2>4, <2>5
<1>4. ASSUME NEW w \in Replica,
             \/ ReadCursor(w) \/ ReadStream(w) \/ Skip(w) \/ SaveCursor(w)
             \/ ReadCursorFails(w) \/ ReadStreamFails(w) \/ SaveCursorFails(w) \/ Restart(w)
      PROVE  UNCHANGED <<appended, records, rollup>>
  BY <1>4 DEF ReadCursor, ReadStream, Skip, SaveCursor, ReadCursorFails, ReadStreamFails,
    SaveCursorFails, Restart
<1>5. CASE UNCHANGED usageVars
  BY <1>5 DEF usageVars
<1> QED BY <1>1, <1>2, <1>3, <1>4, <1>5 DEF UsageNext, Work, WriterTrouble

\* At-least-once delivery has an exactly-once effect: whatever the writers of the replicas
\* do, rows and rollups change as BillingLog lets them, each row and each fold at most once.
THEOREM ImplementsLog == UsageSpec => LogSpec
<1>1. UsageInit => Log!Init
  BY DEF UsageInit, Log!Init, Log!Events, Events
<1>2. UsageInv /\ [UsageNext]_usageVars => [Log!Next]_<<appended, records, rollup>>
  BY LogStep
<1> QED BY <1>1, <1>2, UsageInvariance, PTL DEF UsageSpec, LogSpec, Log!Spec

HIDE DEF FailuresTypeOK

-----------------------------------------------------------------------------
(***************************************************************************)
(* Budget alerts.  AlertsBounded counts the alerts sent; what may still be *)
(* sent is up to the sweeps under way.  An alert of this month is paid for *)
(* by the month itself, by a failed call, by a restart or by an overlap,   *)
(* and a sweep that may yet deliver one has been paid for already.         *)
(***************************************************************************)

\* What excuses a second alert: the failures so far and the sweeps that overlapped.
Excuses == faults + crashes + overlaps

\* n may yet deliver an alert of this month for rule x.
MayDeliver(n, x) ==
  \/ sweep[n] = "loading" /\ x \notin stamped
  \/ sweep[n] = "sweeping" /\ x \in pending[n] \ loaded[n]
  \/ sweep[n] = "stamping" /\ x \in pending[n] \ loaded[n] /\ ~At(n, x)

\* n has delivered one and is about to stamp x.
MayStamp(n, x) == sweep[n] = "stamping" /\ At(n, x)

Awake == {n \in Replica : sweep[n] # "asleep"}

DeliverersOf(x) == {n \in Replica : MayDeliver(n, x)}

AlertsPaidFor(x) == alerts[x] + Cardinality(DeliverersOf(x)) <= Excuses + 1

\* A rule without a stamp, which nobody is about to alert or to stamp, can be alerted by a
\* sweep of its own yet.
RoomForOne(x) ==
  x \notin stamped /\ (\A n \in Replica : ~MayDeliver(n, x) /\ ~MayStamp(n, x))
    => alerts[x] <= Excuses

AlertsInv ==
  /\ AlertsTypeOK
  /\ FailuresTypeOK
  /\ Cardinality(Awake) <= overlaps + 1
  /\ \A x \in Rule : AlertsPaidFor(x) /\ RoomForOne(x)

\* What one replica more or less does to a number of replicas.
LEMMA ReplicaCount ==
  ASSUME NEW V \in SUBSET Replica, NEW W \in SUBSET Replica, NEW n \in Replica
  PROVE  /\ Cardinality(V) \in Nat /\ Cardinality(W) \in Nat
         /\ Cardinality({}) = 0
         /\ W \subseteq V => Cardinality(W) <= Cardinality(V)
         /\ W \subseteq V \cup {n} => Cardinality(W) <= Cardinality(V) + 1
         /\ n \in V /\ W \subseteq V \ {n} => Cardinality(W) + 1 <= Cardinality(V)
<1>1. IsFiniteSet(V) /\ IsFiniteSet(W) /\ IsFiniteSet(V \cup {n}) /\ IsFiniteSet(V \ {n})
  BY DeploymentAssumption, FS_Subset DEF FailuresTypeOK
<1>2. Cardinality(V) \in Nat /\ Cardinality(W) \in Nat
  BY <1>1, FS_CardinalityType
<1>3. W \subseteq V => Cardinality(W) <= Cardinality(V)
  BY <1>1, FS_Subset
<1>4. ASSUME W \subseteq V \cup {n}
      PROVE  Cardinality(W) <= Cardinality(V) + 1
  <2>1. Cardinality(W) <= Cardinality(V \cup {n}) /\ Cardinality(V \cup {n}) \in Nat
    BY <1>1, <1>4, FS_Subset, FS_CardinalityType
  <2>2. Cardinality(V \cup {n}) \in {Cardinality(V), Cardinality(V) + 1}
    BY <1>1, FS_AddElement
  <2> QED BY <1>2, <2>1, <2>2
<1>5. ASSUME n \in V, W \subseteq V \ {n}
      PROVE  Cardinality(W) + 1 <= Cardinality(V)
  <2>1. Cardinality(W) <= Cardinality(V \ {n}) /\ Cardinality(V \ {n}) \in Nat
    BY <1>1, <1>5, FS_Subset, FS_CardinalityType
  <2>2. Cardinality(V \ {n}) = Cardinality(V) - 1
    BY <1>1, <1>5, FS_RemoveElement
  <2> QED BY <1>2, <2>1, <2>2
<1>6. Cardinality({}) = 0
  BY FS_EmptySet
<1> QED BY <1>2, <1>3, <1>4, <1>5, <1>6

LEMMA InitAlertsInv == Init => AlertsInv
<1> SUFFICES ASSUME Init PROVE AlertsInv
  OBVIOUS
<1> USE DEF Init, AlertsInit
<1>1. AlertsTypeOK /\ FailuresTypeOK
  <2>1. FailuresTypeOK /\ overlaps \in 0 .. MaxOverlaps /\ months \in 0 .. MaxMonths
    BY AlertsAssumption, DeploymentAssumption DEF FailuresTypeOK
  <2>2. silenced \subseteq stamped /\ stale \subseteq {n \in Replica : sweep[n] = "stamping"}
    OBVIOUS
  <2> QED BY <2>1, <2>2 DEF AlertsTypeOK
<1>2. Awake = {} /\ Cardinality(Awake) = 0
  BY FS_EmptySet DEF Awake
<1>3. ASSUME NEW x \in Rule
      PROVE  AlertsPaidFor(x) /\ RoomForOne(x)
  <2>1. DeliverersOf(x) = {} /\ Cardinality(DeliverersOf(x)) = 0
    BY FS_EmptySet DEF DeliverersOf, MayDeliver
  <2> QED BY <1>3, <2>1 DEF AlertsPaidFor, RoomForOne, Excuses
<1> QED BY <1>1, <1>2, <1>3 DEF AlertsInv

\* The rules a sweep has left are taken one at a time.
LEMMA AtOne ==
  ASSUME AlertsTypeOK, NEW n \in Replica, NEW x \in Rule, NEW y \in Rule, At(n, x), At(n, y)
  PROVE  x = y
<1>1. x \in Nat /\ y \in Nat /\ x <= y /\ y <= x
  BY DEF At, Rule
<1> QED BY <1>1

LEMMA AlertsTypes ==
  ASSUME AlertsTypeOK, FailuresTypeOK
  PROVE  Excuses \in Nat /\ \A x \in Rule : alerts[x] \in Nat
<1>1. faults \in Nat /\ crashes \in Nat
  BY DeploymentAssumption DEF FailuresTypeOK
<1>2. overlaps \in Nat
  BY AlertsAssumption DEF AlertsTypeOK
<1>3. alerts \in [Rule -> Nat]
  BY DEF AlertsTypeOK
<1> QED BY <1>1, <1>2, <1>3 DEF Excuses

LEMMA AlertsTypesNext ==
  ASSUME AlertsTypeOK', FailuresTypeOK'
  PROVE  Excuses' \in Nat /\ \A x \in Rule : alerts'[x] \in Nat
<1>1. faults' \in Nat /\ crashes' \in Nat
  BY DeploymentAssumption DEF FailuresTypeOK
<1>2. overlaps' \in Nat
  BY AlertsAssumption DEF AlertsTypeOK
<1>3. alerts' \in [Rule -> Nat]
  BY DEF AlertsTypeOK
<1>4. Excuses' \in Nat
  <2>1. \A f, c, o \in Nat : f + c + o \in Nat
    OBVIOUS
  <2>2. faults' + crashes' + overlaps' \in Nat
    BY <1>1, <1>2, <2>1
  <2>3. Excuses' = faults' + crashes' + overlaps'
    BY DEF Excuses
  <2> QED BY <2>2, <2>3
<1>5. \A x \in Rule : alerts'[x] \in Nat
  BY <1>3
<1> QED BY <1>4, <1>5

\* How the account of a rule may change: nothing is added to it, an alert that was paid for
\* is delivered, or one more failure, restart or overlap pays for one more sweep.
LEMMA AccountStep ==
  ASSUME AlertsInv, AlertsTypeOK', FailuresTypeOK', NEW x \in Rule, NEW n \in Replica,
         \/ /\ alerts'[x] = alerts[x]
            /\ DeliverersOf(x)' \subseteq DeliverersOf(x)
            /\ Excuses' >= Excuses
         \/ /\ alerts'[x] \in {alerts[x], alerts[x] + 1}
            /\ n \in DeliverersOf(x)
            /\ DeliverersOf(x)' \subseteq DeliverersOf(x) \ {n}
            /\ Excuses' >= Excuses
         \/ /\ alerts'[x] = alerts[x]
            /\ DeliverersOf(x)' \subseteq DeliverersOf(x) \cup {n}
            /\ Excuses' > Excuses
         \/ /\ alerts'[x] = alerts[x]
            /\ alerts[x] <= Excuses
            /\ DeliverersOf(x) = {}
            /\ DeliverersOf(x)' \subseteq {n}
            /\ Excuses' = Excuses
  PROVE  AlertsPaidFor(x)'
<1> DEFINE V == DeliverersOf(x)
<1>0. PICK W : W = DeliverersOf(x)'
  OBVIOUS
<1>1. V \in SUBSET Replica /\ W \in SUBSET Replica
  BY <1>0 DEF DeliverersOf
<1>2. alerts[x] \in Nat /\ Excuses \in Nat
  BY AlertsTypes DEF AlertsInv
<1>02. alerts'[x] \in Nat /\ Excuses' \in Nat
  BY AlertsTypesNext
<1>3. alerts[x] + Cardinality(V) <= Excuses + 1
  BY DEF AlertsInv, AlertsPaidFor
<1>4. AlertsPaidFor(x)' <=> alerts'[x] + Cardinality(W) <= Excuses' + 1
  BY <1>0 DEF AlertsPaidFor
<1>5. /\ Cardinality(V) \in Nat /\ Cardinality(W) \in Nat
      /\ V = {} => Cardinality(V) = 0
      /\ W \subseteq V => Cardinality(W) <= Cardinality(V)
      /\ W \subseteq V \cup {n} => Cardinality(W) <= Cardinality(V) + 1
      /\ n \in V /\ W \subseteq V \ {n} => Cardinality(W) + 1 <= Cardinality(V)
  <2> HIDE DEF V
  <2> QED BY <1>1, ReplicaCount
<1>6. \/ alerts'[x] = alerts[x] /\ W \subseteq V /\ Excuses' >= Excuses
      \/ /\ alerts'[x] \in {alerts[x], alerts[x] + 1}
         /\ n \in V /\ W \subseteq V \ {n} /\ Excuses' >= Excuses
      \/ alerts'[x] = alerts[x] /\ W \subseteq V \cup {n} /\ Excuses' > Excuses
      \/ /\ alerts'[x] = alerts[x] /\ alerts[x] <= Excuses
         /\ V = {} /\ W \subseteq {n} /\ Excuses' = Excuses
  BY <1>0
<1> HIDE DEF V
<1>7. alerts'[x] + Cardinality(W) <= Excuses' + 1
  BY <1>2, <1>02, <1>3, <1>5, <1>6
<1> QED BY <1>4, <1>7

\* What the account of a rule leaves.
LEMMA AccountRoom ==
  ASSUME AlertsInv, NEW x \in Rule
  PROVE  /\ alerts[x] \in Nat /\ Excuses \in Nat
         /\ alerts[x] <= Excuses + 1
         /\ \A n \in Replica : MayDeliver(n, x) => alerts[x] <= Excuses
<1>1. alerts[x] \in Nat /\ Excuses \in Nat
  BY AlertsTypes DEF AlertsInv
<1>2. alerts[x] + Cardinality(DeliverersOf(x)) <= Excuses + 1
  BY DEF AlertsInv, AlertsPaidFor
<1>3. DeliverersOf(x) \in SUBSET Replica /\ {} \in SUBSET Replica
  BY DEF DeliverersOf
<1>4. Cardinality(DeliverersOf(x)) \in Nat
  BY <1>3, ReplicaCount, DeploymentAssumption DEF FailuresTypeOK
<1>5. ASSUME NEW n \in Replica, MayDeliver(n, x)
      PROVE  Cardinality(DeliverersOf(x)) >= 1
  <2>1. n \in DeliverersOf(x) /\ {} \subseteq DeliverersOf(x) \ {n}
    BY <1>5 DEF DeliverersOf
  <2>2. Cardinality({}) + 1 <= Cardinality(DeliverersOf(x)) /\ Cardinality({}) = 0
    BY <1>3, <2>1, ReplicaCount
  <2> QED BY <2>2
<1> QED BY <1>1, <1>2, <1>4, <1>5

-----------------------------------------------------------------------------
(* Each action keeps it.                                                   *)

\* A failed call or a restart pays for one more alert of every rule.
LEMMA MoreExcuses ==
  ASSUME AlertsTypeOK, FailuresTypeOK, UNCHANGED overlaps, Fault \/ Crash
  PROVE  FailuresTypeOK' /\ Excuses \in Nat /\ Excuses' = Excuses + 1
<1>1. faults \in Nat /\ crashes \in Nat /\ MaxFaults \in Nat /\ MaxCrashes \in Nat
  BY DeploymentAssumption DEF FailuresTypeOK
<1>2. overlaps \in Nat
  BY AlertsAssumption DEF AlertsTypeOK
<1>3. FailuresTypeOK'
  BY <1>1 DEF Fault, Crash, FailuresTypeOK
<1>4. \/ faults' = faults + 1 /\ crashes' = crashes
      \/ crashes' = crashes + 1 /\ faults' = faults
  BY DEF Fault, Crash
<1>5. Excuses = faults + crashes + overlaps /\ Excuses' = faults' + crashes' + overlaps'
  BY DEF Excuses
<1>6. Excuses \in Nat
  BY <1>1, <1>2, <1>5
<1>7. Excuses' = Excuses + 1
  BY <1>1, <1>2, <1>4, <1>5
<1> QED BY <1>3, <1>6, <1>7

\* A sweep that goes on, or ends, does not raise the number of replicas awake.
LEMMA NoneWakes ==
  ASSUME AlertsInv, UNCHANGED overlaps, Awake' \subseteq Awake
  PROVE  (Cardinality(Awake) <= overlaps + 1)'
<1>0. PICK W : W = Awake'
  OBVIOUS
<1>1. Awake \in SUBSET Replica /\ W \in SUBSET Replica /\ W \subseteq Awake
  BY <1>0 DEF Awake
<1>2. Replica # {} /\ overlaps \in Nat
  BY DeploymentAssumption, AlertsAssumption DEF AlertsInv, AlertsTypeOK
<1>3. /\ Cardinality(W) <= Cardinality(Awake)
      /\ Cardinality(W) \in Nat /\ Cardinality(Awake) \in Nat
  BY <1>1, <1>2, ReplicaCount
<1>4. Cardinality(Awake) <= overlaps + 1
  BY DEF AlertsInv
<1>5. Cardinality(W) <= overlaps + 1
  BY <1>2, <1>3, <1>4
<1> QED BY <1>0, <1>5

LEMMA ClaimWindowInv ==
  ASSUME AlertsInv, NEW n \in Replica, ClaimWindow(n)
  PROVE  AlertsInv'
<1> USE DEF ClaimWindow, Becomes
<1>1. AlertsTypeOK'
  BY AlertsAssumption DEF AlertsInv, AlertsTypeOK
<1>2. FailuresTypeOK'
  BY DEF AlertsInv, FailuresTypeOK
<1>3. sweep[n] = "asleep" /\ sweep'[n] = "loading"
       /\ \A m \in Replica \ {n} : sweep'[m] = sweep[m]
  BY DEF AlertsInv, AlertsTypeOK
<1>4. overlaps \in Nat /\ faults \in Nat /\ crashes \in Nat
  BY AlertsAssumption, DeploymentAssumption DEF AlertsInv, AlertsTypeOK, FailuresTypeOK
<1>5. \/ (\E m \in Replica : sweep[m] # "asleep") /\ overlaps' = overlaps + 1
      \/ (\A m \in Replica : sweep[m] = "asleep") /\ overlaps' = overlaps
  BY <1>4
<1>6. Excuses \in Nat /\ Excuses' = Excuses + (overlaps' - overlaps)
  BY <1>4, <1>5 DEF Excuses
<1>7. (Cardinality(Awake) <= overlaps + 1)'
  <2>0. PICK W : W = Awake'
    OBVIOUS
  <2>1. Awake \in SUBSET Replica /\ W \in SUBSET Replica /\ W \subseteq Awake \cup {n}
    BY <2>0, <1>3 DEF Awake
  <2>2. /\ Cardinality(W) <= Cardinality(Awake) + 1 /\ Cardinality({}) = 0
        /\ Cardinality(W) \in Nat /\ Cardinality(Awake) \in Nat
    BY <2>1, ReplicaCount
  <2>3. Cardinality(Awake) <= overlaps + 1
    BY DEF AlertsInv
  <2>4. (\A m \in Replica : sweep[m] = "asleep") => Awake = {}
    BY DEF Awake
  <2>5. Cardinality(W) <= overlaps' + 1
    <3>1. CASE overlaps' = overlaps + 1
      BY <3>1, <1>4, <2>2, <2>3
    <3>2. CASE (\A m \in Replica : sweep[m] = "asleep") /\ overlaps' = overlaps
      <4>1. Cardinality(Awake) = 0
        BY <3>2, <2>2, <2>4
      <4> QED BY <4>1, <3>2, <1>4, <2>2
    <3> QED BY <3>1, <3>2, <1>5
  <2> QED BY <2>0, <2>5
<1>8. ASSUME NEW x \in Rule
      PROVE  AlertsPaidFor(x)' /\ RoomForOne(x)'
  <2>1. alerts'[x] = alerts[x] /\ stamped' = stamped
    OBVIOUS
  <2>2. \A m \in Replica \ {n} : (MayDeliver(m, x)' <=> MayDeliver(m, x))
                                  /\ (MayStamp(m, x)' <=> MayStamp(m, x))
    BY <1>3 DEF MayDeliver, MayStamp, At
  <2>3. ~MayDeliver(n, x) /\ ~MayStamp(n, x) /\ (MayDeliver(n, x)' <=> x \notin stamped)
    BY <1>3, <2>1 DEF MayDeliver, MayStamp
  <2>4. DeliverersOf(x)' \subseteq DeliverersOf(x) \cup {n}
    BY <2>2 DEF DeliverersOf
  <2>5. x \in stamped => DeliverersOf(x)' \subseteq DeliverersOf(x)
    BY <2>2, <2>3 DEF DeliverersOf
  <2>6. AlertsPaidFor(x)'
    <3>1. CASE overlaps' = overlaps + 1
      <4>1. Excuses' > Excuses
        BY <1>4, <1>6, <3>1
      <4> QED BY <4>1, <2>1, <2>4, <1>1, <1>2, AccountStep
    <3>2. CASE (\A m \in Replica : sweep[m] = "asleep") /\ overlaps' = overlaps
      <4>1. Excuses' = Excuses /\ Excuses' >= Excuses
        BY <1>4, <1>6, <3>2
      <4>2. CASE x \in stamped
        BY <4>1, <4>2, <2>1, <2>5, <1>1, <1>2, AccountStep
      <4>3. CASE x \notin stamped
        <5>1. \A m \in Replica : ~MayDeliver(m, x) /\ ~MayStamp(m, x)
          BY <3>2 DEF MayDeliver, MayStamp
        <5>2. alerts[x] <= Excuses
          BY <4>3, <5>1 DEF AlertsInv, RoomForOne
        <5>3. DeliverersOf(x) = {}
          BY <5>1 DEF DeliverersOf
        <5>4. DeliverersOf(x)' \subseteq {n}
          BY <2>4, <5>3
        <5> QED BY <5>2, <5>3, <5>4, <4>1, <2>1, <1>1, <1>2, AccountStep
      <4> QED BY <4>2, <4>3
    <3> QED BY <3>1, <3>2, <1>5
  <2>7. RoomForOne(x)'
    BY <2>1, <2>3 DEF RoomForOne
  <2> QED BY <2>6, <2>7
<1> QED BY <1>1, <1>2, <1>7, <1>8 DEF AlertsInv

\* A step of a failure that neither wakes a replica nor gives one a rule to alert.
LEMMA ExcusedStep ==
  ASSUME AlertsInv, AlertsTypeOK', UNCHANGED <<stamped, overlaps>>, Fault \/ Crash,
         Awake' \subseteq Awake,
         \A x \in Rule :
           \/ alerts'[x] = alerts[x] /\ DeliverersOf(x)' \subseteq DeliverersOf(x)
           \/ /\ alerts'[x] \in {alerts[x], alerts[x] + 1}
              /\ \E n \in DeliverersOf(x) : DeliverersOf(x)' \subseteq DeliverersOf(x) \ {n}
  PROVE  AlertsInv'
<1>1. FailuresTypeOK' /\ Excuses \in Nat /\ Excuses' = Excuses + 1
  BY MoreExcuses DEF AlertsInv
<1>2. Excuses' >= Excuses
  BY <1>1
<1>3. ASSUME NEW x \in Rule
      PROVE  AlertsPaidFor(x)' /\ RoomForOne(x)'
  <2>1. /\ alerts[x] \in Nat /\ alerts[x] <= Excuses + 1
        /\ \A n \in Replica : MayDeliver(n, x) => alerts[x] <= Excuses
    BY AccountRoom
  <2>2. CASE alerts'[x] = alerts[x] /\ DeliverersOf(x)' \subseteq DeliverersOf(x)
    <3>1. PICK n \in Replica : TRUE
      BY DeploymentAssumption
    <3>2. AlertsPaidFor(x)'
      BY <3>1, <2>2, <1>1, <1>2, AccountStep
    <3>3. alerts'[x] <= Excuses'
      BY <2>1, <2>2, <1>1
    <3> QED BY <3>2, <3>3 DEF RoomForOne
  <2>3. ASSUME alerts'[x] \in {alerts[x], alerts[x] + 1}, NEW n \in DeliverersOf(x),
               DeliverersOf(x)' \subseteq DeliverersOf(x) \ {n}
        PROVE  AlertsPaidFor(x)' /\ RoomForOne(x)'
    <3>1. n \in Replica /\ MayDeliver(n, x)
      BY <2>3 DEF DeliverersOf
    <3>2. AlertsPaidFor(x)'
      BY <3>1, <2>3, <1>1, <1>2, AccountStep
    <3>3. alerts'[x] <= Excuses'
      BY <3>1, <2>1, <2>3, <1>1
    <3> QED BY <3>2, <3>3 DEF RoomForOne
  <2> QED BY <2>2, <2>3
<1>4. (Cardinality(Awake) <= overlaps + 1)'
  BY NoneWakes
<1> QED BY <1>1, <1>3, <1>4 DEF AlertsInv

LEMMA ClaimWindowFailsInv ==
  ASSUME AlertsInv, NEW n \in Replica, ClaimWindowFails(n)
  PROVE  AlertsInv'
<1> USE DEF ClaimWindowFails, Becomes
<1>1. AlertsTypeOK'
  BY DEF AlertsInv, AlertsTypeOK
<1>2. sweep' = sweep
  BY DEF AlertsInv, AlertsTypeOK
<1>3. Awake' \subseteq Awake
  BY <1>2 DEF Awake
<1>4. ASSUME NEW x \in Rule
      PROVE  alerts'[x] = alerts[x] /\ DeliverersOf(x)' \subseteq DeliverersOf(x)
  BY <1>2 DEF DeliverersOf, MayDeliver, At
<1> QED BY <1>1, <1>3, <1>4, ExcusedStep

LEMMA LoadRulesFailsInv ==
  ASSUME AlertsInv, NEW n \in Replica, LoadRulesFails(n)
  PROVE  AlertsInv'
<1> USE DEF LoadRulesFails, Becomes
<1>1. AlertsTypeOK'
  BY DEF AlertsInv, AlertsTypeOK
<1>2. sweep'[n] = "asleep" /\ \A m \in Replica \ {n} : sweep'[m] = sweep[m]
  BY DEF AlertsInv, AlertsTypeOK
<1>3. Awake' \subseteq Awake
  BY <1>2 DEF Awake
<1>4. ASSUME NEW x \in Rule
      PROVE  alerts'[x] = alerts[x] /\ DeliverersOf(x)' \subseteq DeliverersOf(x)
  BY <1>2 DEF DeliverersOf, MayDeliver, At
<1> QED BY <1>1, <1>3, <1>4, ExcusedStep

LEMMA DeliverFailsInv ==
  ASSUME AlertsInv, NEW n \in Replica, DeliverFails(n)
  PROVE  AlertsInv'
<1> USE DEF DeliverFails, Becomes
<1>1. PICK y \in Rule : /\ At(n, y) /\ Due(n, y)
                        /\ pending' = [pending EXCEPT ![n] = @ \ {y}]
                        /\ alerts' \in {alerts, [alerts EXCEPT ![y] = @ + 1]}
  BY DEF Finishes
<1>2. AlertsTypeOK'
  BY <1>1 DEF AlertsInv, AlertsTypeOK
<1>3. /\ sweep' = sweep /\ sweep[n] = "sweeping"
      /\ pending'[n] = pending[n] \ {y}
      /\ \A m \in Replica \ {n} : pending'[m] = pending[m]
  BY <1>1 DEF AlertsInv, AlertsTypeOK
<1>4. Awake' \subseteq Awake
  BY <1>3 DEF Awake
<1>5. ASSUME NEW x \in Rule
      PROVE  \A m \in Replica : MayDeliver(m, x)' => MayDeliver(m, x)
  BY <1>3 DEF MayDeliver, At
<1>6. MayDeliver(n, y) /\ ~MayDeliver(n, y)'
  BY <1>1, <1>3 DEF MayDeliver, At, Due
<1>7. ASSUME NEW x \in Rule
      PROVE  \/ alerts'[x] = alerts[x] /\ DeliverersOf(x)' \subseteq DeliverersOf(x)
             \/ /\ alerts'[x] \in {alerts[x], alerts[x] + 1}
                /\ \E m \in DeliverersOf(x) : DeliverersOf(x)' \subseteq DeliverersOf(x) \ {m}
  <2>1. CASE x # y
    <3>1. alerts'[x] = alerts[x]
      BY <1>1, <2>1 DEF AlertsInv, AlertsTypeOK
    <3> QED BY <3>1, <1>5 DEF DeliverersOf
  <2>2. CASE x = y
    <3>1. alerts'[y] \in {alerts[y], alerts[y] + 1}
      BY <1>1 DEF AlertsInv, AlertsTypeOK
    <3>2. n \in DeliverersOf(y) /\ DeliverersOf(y)' \subseteq DeliverersOf(y) \ {n}
      BY <1>5, <1>6 DEF DeliverersOf
    <3> QED BY <2>2, <3>1, <3>2
  <2> QED BY <2>1, <2>2
<1> QED BY <1>2, <1>4, <1>7, ExcusedStep

LEMMA StampFailsInv ==
  ASSUME AlertsInv, NEW n \in Replica, StampFails(n)
  PROVE  AlertsInv'
<1> USE DEF StampFails, Becomes
<1>1. PICK y \in Rule : At(n, y) /\ pending' = [pending EXCEPT ![n] = @ \ {y}]
  BY DEF Finishes
<1>2. AlertsTypeOK'
  BY <1>1 DEF AlertsInv, AlertsTypeOK
<1>3. /\ sweep[n] = "stamping" /\ sweep'[n] = "sweeping"
      /\ pending'[n] = pending[n] \ {y}
      /\ \A m \in Replica \ {n} : pending'[m] = pending[m] /\ sweep'[m] = sweep[m]
  BY <1>1 DEF AlertsInv, AlertsTypeOK
<1>4. Awake' \subseteq Awake
  BY <1>3 DEF Awake
<1>5. ASSUME NEW x \in Rule, NEW m \in Replica, MayDeliver(m, x)'
      PROVE  MayDeliver(m, x)
  <2>1. CASE m = n
    <3>1. x \in pending[n] \ loaded[n] /\ x # y
      BY <1>3, <1>5, <2>1 DEF MayDeliver
    <3>2. ~At(n, x)
      BY <3>1, <1>1, AtOne DEF AlertsInv
    <3> QED BY <1>3, <2>1, <3>1, <3>2 DEF MayDeliver
  <2>2. CASE m # n
    BY <1>3, <1>5, <2>2 DEF MayDeliver, At
  <2> QED BY <2>1, <2>2
<1>6. ASSUME NEW x \in Rule
      PROVE  alerts'[x] = alerts[x] /\ DeliverersOf(x)' \subseteq DeliverersOf(x)
  BY <1>5 DEF DeliverersOf
<1> QED BY <1>2, <1>4, <1>6, ExcusedStep

LEMMA AlertsRestartInv ==
  ASSUME AlertsInv, NEW n \in Replica, Crash, AlertsRestart(n)
  PROVE  AlertsInv'
<1> USE DEF AlertsRestart
<1>1. AlertsTypeOK'
  BY DEF AlertsInv, AlertsTypeOK
<1>2. /\ sweep'[n] = "asleep"
      /\ \A m \in Replica \ {n} :
           pending'[m] = pending[m] /\ sweep'[m] = sweep[m] /\ loaded'[m] = loaded[m]
  BY DEF AlertsInv, AlertsTypeOK
<1>3. Awake' \subseteq Awake
  BY <1>2 DEF Awake
<1>4. ASSUME NEW x \in Rule
      PROVE  alerts'[x] = alerts[x] /\ DeliverersOf(x)' \subseteq DeliverersOf(x)
  BY <1>2 DEF DeliverersOf, MayDeliver, At
<1> QED BY <1>1, <1>3, <1>4, ExcusedStep

\* A step without a failure: what it must not do to any rule's account.
LEMMA PlainStep ==
  ASSUME AlertsInv, AlertsTypeOK', UNCHANGED <<failures, overlaps>>,
         Awake' \subseteq Awake,
         \A x \in Rule :
           \/ alerts'[x] = alerts[x] /\ DeliverersOf(x)' \subseteq DeliverersOf(x)
           \/ /\ alerts'[x] = alerts[x] + 1
              /\ \E n \in DeliverersOf(x) : DeliverersOf(x)' \subseteq DeliverersOf(x) \ {n},
         \A x \in Rule :
           \/ x \in stamped'
           \/ \E n \in Replica : MayDeliver(n, x)' \/ MayStamp(n, x)'
           \/ alerts'[x] = alerts[x] /\ \E n \in Replica : MayDeliver(n, x)
           \/ /\ alerts'[x] = alerts[x] /\ x \notin stamped
              /\ \A n \in Replica : ~MayDeliver(n, x) /\ ~MayStamp(n, x)
  PROVE  AlertsInv'
<1>1. FailuresTypeOK' /\ Excuses \in Nat /\ Excuses' = Excuses
  BY AlertsTypes DEF AlertsInv, FailuresTypeOK, Excuses
<1>2. Excuses' >= Excuses
  BY <1>1
<1>3. ASSUME NEW x \in Rule
      PROVE  AlertsPaidFor(x)'
  <2>1. CASE alerts'[x] = alerts[x] /\ DeliverersOf(x)' \subseteq DeliverersOf(x)
    <3>1. PICK n \in Replica : TRUE
      BY DeploymentAssumption
    <3> QED BY <3>1, <2>1, <1>1, <1>2, AccountStep
  <2>2. ASSUME alerts'[x] = alerts[x] + 1, NEW n \in DeliverersOf(x),
               DeliverersOf(x)' \subseteq DeliverersOf(x) \ {n}
        PROVE  AlertsPaidFor(x)'
    <3>1. n \in Replica
      BY DEF DeliverersOf
    <3> QED BY <3>1, <2>2, <1>1, <1>2, AccountStep
  <2> QED BY <2>1, <2>2
<1>4. ASSUME NEW x \in Rule
      PROVE  RoomForOne(x)'
  <2>1. CASE x \in stamped' \/ \E n \in Replica : MayDeliver(n, x)' \/ MayStamp(n, x)'
    BY <2>1 DEF RoomForOne
  <2>2. CASE alerts'[x] = alerts[x] /\ \E n \in Replica : MayDeliver(n, x)
    <3>1. alerts'[x] <= Excuses'
      BY <2>2, <1>1, AccountRoom
    <3> QED BY <3>1 DEF RoomForOne
  <2>3. CASE /\ alerts'[x] = alerts[x] /\ x \notin stamped
             /\ \A n \in Replica : ~MayDeliver(n, x) /\ ~MayStamp(n, x)
    <3>1. alerts[x] <= Excuses
      BY <2>3 DEF AlertsInv, RoomForOne
    <3>2. alerts'[x] <= Excuses'
      BY <2>3, <3>1, <1>1
    <3> QED BY <3>2 DEF RoomForOne
  <2> QED BY <2>1, <2>2, <2>3
<1>5. (Cardinality(Awake) <= overlaps + 1)'
  BY NoneWakes
<1> QED BY <1>1, <1>3, <1>4, <1>5 DEF AlertsInv

LEMMA LoadRulesInv ==
  ASSUME AlertsInv, NEW n \in Replica, LoadRules(n)
  PROVE  AlertsInv'
<1> USE DEF LoadRules, Becomes
<1>1. AlertsTypeOK'
  BY DEF AlertsInv, AlertsTypeOK
<1>2. /\ sweep[n] = "loading" /\ sweep'[n] = "sweeping"
      /\ pending'[n] = Rule /\ loaded'[n] = stamped
      /\ \A m \in Replica \ {n} :
           pending'[m] = pending[m] /\ sweep'[m] = sweep[m] /\ loaded'[m] = loaded[m]
  BY DEF AlertsInv, AlertsTypeOK
<1>3. Awake' \subseteq Awake
  BY <1>2 DEF Awake
<1>4. ASSUME NEW x \in Rule, NEW m \in Replica
      PROVE  /\ MayDeliver(m, x)' <=> MayDeliver(m, x)
             /\ MayStamp(m, x)' <=> MayStamp(m, x)
  BY <1>2 DEF MayDeliver, MayStamp, At
<1>5. ASSUME NEW x \in Rule
      PROVE  alerts'[x] = alerts[x] /\ DeliverersOf(x)' \subseteq DeliverersOf(x)
  BY <1>4 DEF DeliverersOf
<1>6. ASSUME NEW x \in Rule
      PROVE  \/ x \in stamped'
             \/ \E m \in Replica : MayDeliver(m, x)' \/ MayStamp(m, x)'
             \/ /\ alerts'[x] = alerts[x] /\ x \notin stamped
                /\ \A m \in Replica : ~MayDeliver(m, x) /\ ~MayStamp(m, x)
  BY <1>4
<1> QED BY <1>1, <1>3, <1>5, <1>6, PlainStep

LEMMA PassOverInv ==
  ASSUME AlertsInv, NEW n \in Replica, PassOver(n)
  PROVE  AlertsInv'
<1> USE DEF PassOver, Becomes
<1>1. PICK y \in Rule : At(n, y) /\ pending' = [pending EXCEPT ![n] = @ \ {y}]
  BY DEF Finishes
<1>2. AlertsTypeOK'
  BY <1>1 DEF AlertsInv, AlertsTypeOK
<1>3. /\ sweep' = sweep /\ sweep[n] = "sweeping"
      /\ pending'[n] = pending[n] \ {y}
      /\ \A m \in Replica \ {n} : pending'[m] = pending[m]
  BY <1>1 DEF AlertsInv, AlertsTypeOK
<1>4. Awake' \subseteq Awake
  BY <1>3 DEF Awake
<1>5. ASSUME NEW x \in Rule, NEW m \in Replica
      PROVE  /\ MayDeliver(m, x)' => MayDeliver(m, x)
             /\ MayStamp(m, x)' <=> MayStamp(m, x)
  BY <1>3 DEF MayDeliver, MayStamp, At
<1>6. ASSUME NEW x \in Rule
      PROVE  alerts'[x] = alerts[x] /\ DeliverersOf(x)' \subseteq DeliverersOf(x)
  BY <1>5 DEF DeliverersOf
<1>7. ASSUME NEW x \in Rule
      PROVE  \/ x \in stamped'
             \/ \E m \in Replica : MayDeliver(m, x)' \/ MayStamp(m, x)'
             \/ alerts'[x] = alerts[x] /\ \E m \in Replica : MayDeliver(m, x)
             \/ /\ alerts'[x] = alerts[x] /\ x \notin stamped
                /\ \A m \in Replica : ~MayDeliver(m, x) /\ ~MayStamp(m, x)
  BY <1>5
<1> QED BY <1>2, <1>4, <1>6, <1>7, PlainStep

LEMMA DeliverInv ==
  ASSUME AlertsInv, NEW n \in Replica, Deliver(n)
  PROVE  AlertsInv'
<1> USE DEF Deliver, Becomes
<1>1. PICK y \in Rule : At(n, y) /\ Due(n, y) /\ alerts' = [alerts EXCEPT ![y] = @ + 1]
  OBVIOUS
<1>2. AlertsTypeOK'
  BY <1>1 DEF AlertsInv, AlertsTypeOK
<1>3. /\ sweep[n] = "sweeping" /\ sweep'[n] = "stamping"
      /\ \A m \in Replica \ {n} : sweep'[m] = sweep[m]
  BY <1>1 DEF AlertsInv, AlertsTypeOK
<1>4. Awake' \subseteq Awake
  BY <1>3 DEF Awake
<1>5. ASSUME NEW x \in Rule, NEW m \in Replica
      PROVE  /\ MayDeliver(m, x)' => MayDeliver(m, x)
             /\ MayStamp(m, x) => MayStamp(m, x)'
  BY <1>3 DEF MayDeliver, MayStamp, At
<1>6. MayDeliver(n, y) /\ ~MayDeliver(n, y)' /\ MayStamp(n, y)'
  BY <1>1, <1>3 DEF MayDeliver, MayStamp, At, Due
<1>7. ASSUME NEW x \in Rule, x # y
      PROVE  MayDeliver(n, x) => MayDeliver(n, x)'
  <2>1. ~At(n, x)
    BY <1>1, <1>7, AtOne DEF AlertsInv
  <2> QED BY <1>3, <2>1 DEF MayDeliver, At
<1>8. ASSUME NEW x \in Rule, x # y
      PROVE  /\ alerts'[x] = alerts[x]
             /\ \A m \in Replica : MayDeliver(m, x) => MayDeliver(m, x)'
  <2>1. alerts'[x] = alerts[x]
    BY <1>1, <1>8 DEF AlertsInv, AlertsTypeOK
  <2>2. ASSUME NEW m \in Replica \ {n}
        PROVE  MayDeliver(m, x) => MayDeliver(m, x)'
    BY <1>3 DEF MayDeliver, At
  <2> QED BY <2>1, <2>2, <1>7, <1>8
<1>9. ASSUME NEW x \in Rule
      PROVE  \/ alerts'[x] = alerts[x] /\ DeliverersOf(x)' \subseteq DeliverersOf(x)
             \/ /\ alerts'[x] = alerts[x] + 1
                /\ \E m \in DeliverersOf(x) : DeliverersOf(x)' \subseteq DeliverersOf(x) \ {m}
  <2>1. CASE x # y
    BY <1>5, <1>8, <2>1 DEF DeliverersOf
  <2>2. CASE x = y
    <3>1. alerts'[y] = alerts[y] + 1
      BY <1>1 DEF AlertsInv, AlertsTypeOK
    <3>2. n \in DeliverersOf(y) /\ DeliverersOf(y)' \subseteq DeliverersOf(y) \ {n}
      BY <1>5, <1>6 DEF DeliverersOf
    <3> QED BY <2>2, <3>1, <3>2
  <2> QED BY <2>1, <2>2
<1>10. ASSUME NEW x \in Rule
       PROVE  \/ x \in stamped'
              \/ \E m \in Replica : MayDeliver(m, x)' \/ MayStamp(m, x)'
              \/ /\ alerts'[x] = alerts[x] /\ x \notin stamped
                 /\ \A m \in Replica : ~MayDeliver(m, x) /\ ~MayStamp(m, x)
  <2>1. CASE x = y
    BY <1>6, <2>1
  <2>2. CASE x # y
    BY <1>5, <1>8, <2>2
  <2> QED BY <2>1, <2>2
<1> QED BY <1>2, <1>4, <1>9, <1>10, PlainStep

LEMMA StampInv ==
  ASSUME AlertsInv, NEW n \in Replica, Stamp(n)
  PROVE  AlertsInv'
<1> USE DEF Stamp, Becomes
<1>1. PICK y \in Rule :
        /\ At(n, y) /\ pending' = [pending EXCEPT ![n] = @ \ {y}]
        /\ stamped' = stamped \cup {y}
        /\ silenced' = IF n \in stale /\ alerts[y] = 0 THEN silenced \cup {y} ELSE silenced
  BY DEF Finishes
<1>2. AlertsTypeOK'
  BY <1>1 DEF AlertsInv, AlertsTypeOK
<1>3. /\ sweep[n] = "stamping" /\ sweep'[n] = "sweeping"
      /\ pending'[n] = pending[n] \ {y}
      /\ \A m \in Replica \ {n} : pending'[m] = pending[m] /\ sweep'[m] = sweep[m]
  BY <1>1 DEF AlertsInv, AlertsTypeOK
<1>4. Awake' \subseteq Awake
  BY <1>3 DEF Awake
<1>5. ASSUME NEW x \in Rule, x # y
      PROVE  ~At(n, x)
  BY <1>1, <1>5, AtOne DEF AlertsInv
<1>6. ASSUME NEW x \in Rule, NEW m \in Replica
      PROVE  /\ MayDeliver(m, x)' => MayDeliver(m, x)
             /\ x # y /\ MayDeliver(m, x) => MayDeliver(m, x)'
             /\ x # y /\ MayStamp(m, x) => MayStamp(m, x)'
  <2>1. CASE m = n
    BY <1>1, <1>3, <1>5, <2>1 DEF MayDeliver, MayStamp
  <2>2. CASE m # n
    BY <1>1, <1>3, <2>2 DEF MayDeliver, MayStamp, At
  <2> QED BY <2>1, <2>2
<1>7. ASSUME NEW x \in Rule
      PROVE  alerts'[x] = alerts[x] /\ DeliverersOf(x)' \subseteq DeliverersOf(x)
  BY <1>6 DEF DeliverersOf
<1>8. ASSUME NEW x \in Rule
      PROVE  \/ x \in stamped'
             \/ \E m \in Replica : MayDeliver(m, x)' \/ MayStamp(m, x)'
             \/ /\ alerts'[x] = alerts[x] /\ x \notin stamped
                /\ \A m \in Replica : ~MayDeliver(m, x) /\ ~MayStamp(m, x)
  <2>1. x = y \/ x \in stamped => x \in stamped'
    BY <1>1
  <2>2. x # y => \A m \in Replica : /\ MayDeliver(m, x) => MayDeliver(m, x)'
                                    /\ MayStamp(m, x) => MayStamp(m, x)'
    BY <1>6
  <2>3. alerts'[x] = alerts[x]
    BY <1>7
  <2> QED BY <2>1, <2>2, <2>3
<1> QED BY <1>2, <1>4, <1>7, <1>8, PlainStep

LEMMA SweepDoneInv ==
  ASSUME AlertsInv, NEW n \in Replica, SweepDone(n)
  PROVE  AlertsInv'
<1> USE DEF SweepDone, Becomes
<1>1. AlertsTypeOK'
  BY DEF AlertsInv, AlertsTypeOK
<1>2. /\ sweep[n] = "sweeping" /\ sweep'[n] = "asleep"
      /\ \A m \in Replica \ {n} : sweep'[m] = sweep[m] /\ loaded'[m] = loaded[m]
  BY DEF AlertsInv, AlertsTypeOK
<1>3. Awake' \subseteq Awake
  BY <1>2 DEF Awake
<1>4. ASSUME NEW x \in Rule, NEW m \in Replica
      PROVE  /\ MayDeliver(m, x)' <=> MayDeliver(m, x)
             /\ MayStamp(m, x)' <=> MayStamp(m, x)
  BY <1>2 DEF MayDeliver, MayStamp, At
<1>5. ASSUME NEW x \in Rule
      PROVE  alerts'[x] = alerts[x] /\ DeliverersOf(x)' \subseteq DeliverersOf(x)
  BY <1>4 DEF DeliverersOf
<1>6. ASSUME NEW x \in Rule
      PROVE  \/ x \in stamped'
             \/ \E m \in Replica : MayDeliver(m, x)' \/ MayStamp(m, x)'
             \/ /\ alerts'[x] = alerts[x] /\ x \notin stamped
                /\ \A m \in Replica : ~MayDeliver(m, x) /\ ~MayStamp(m, x)
  BY <1>4
<1> QED BY <1>1, <1>3, <1>5, <1>6, PlainStep

LEMMA NewMonthInv ==
  ASSUME AlertsInv, NewMonth
  PROVE  AlertsInv'
<1> USE DEF NewMonth
<1>1. AlertsTypeOK'
  BY AlertsAssumption DEF AlertsInv, AlertsTypeOK
<1>2. FailuresTypeOK' /\ Excuses \in Nat /\ Excuses' = Excuses
  BY AlertsTypes DEF AlertsInv, FailuresTypeOK, Excuses
<1>3. Awake' = Awake
  BY DEF Awake
<1>4. Cardinality(Awake) <= overlaps + 1
  BY DEF AlertsInv
<1>5. faults \in Nat /\ crashes \in Nat /\ overlaps \in Nat
  BY AlertsAssumption, DeploymentAssumption DEF AlertsInv, AlertsTypeOK, FailuresTypeOK
<1>6. overlaps <= Excuses
  BY <1>5 DEF Excuses
<1>7. ASSUME NEW x \in Rule
      PROVE  AlertsPaidFor(x)' /\ RoomForOne(x)'
  <2>0. PICK W : W = DeliverersOf(x)'
    OBVIOUS
  <2>1. W \in SUBSET Replica /\ Awake \in SUBSET Replica /\ W \subseteq Awake
    BY <2>0 DEF DeliverersOf, MayDeliver, Awake
  <2>2. PICK n \in Replica : TRUE
    BY DeploymentAssumption
  <2>3. /\ Cardinality(W) <= Cardinality(Awake)
        /\ Cardinality(W) \in Nat /\ Cardinality(Awake) \in Nat
    BY <2>1, <2>2, ReplicaCount
  <2>4. Cardinality(W) <= Excuses + 1
    BY <2>3, <1>2, <1>4, <1>5, <1>6
  <2>5. alerts'[x] = 0
    OBVIOUS
  <2>6. 0 + Cardinality(W) <= Excuses' + 1 /\ 0 <= Excuses'
    BY <2>3, <2>4, <1>2
  <2> QED BY <2>0, <2>5, <2>6 DEF AlertsPaidFor, RoomForOne
<1>8. (Cardinality(Awake) <= overlaps + 1)'
  BY <1>3, <1>4
<1> QED BY <1>1, <1>2, <1>7, <1>8 DEF AlertsInv

\* A step that no rule's account sees: the other workers', or time passing.
LEMMA QuietStep ==
  ASSUME AlertsInv, AlertsTypeOK', FailuresTypeOK', Excuses' >= Excuses,
         UNCHANGED <<stamped, alerts, sweep, pending, loaded, overlaps>>
  PROVE  AlertsInv'
<1>1. Awake' \subseteq Awake
  BY DEF Awake
<1>2. ASSUME NEW x \in Rule
      PROVE  AlertsPaidFor(x)' /\ RoomForOne(x)'
  <2>1. /\ DeliverersOf(x)' = DeliverersOf(x)
        /\ \A m \in Replica : /\ MayDeliver(m, x)' <=> MayDeliver(m, x)
                              /\ MayStamp(m, x)' <=> MayStamp(m, x)
    BY DEF DeliverersOf, MayDeliver, MayStamp, At
  <2>2. PICK n \in Replica : TRUE
    BY DeploymentAssumption
  <2>3. AlertsPaidFor(x)'
    BY <2>1, <2>2, AccountStep
  <2>4. alerts[x] \in Nat /\ Excuses \in Nat /\ Excuses' \in Nat
    BY AlertsTypes, AlertsTypesNext DEF AlertsInv
  <2>5. RoomForOne(x)
    BY DEF AlertsInv
  <2>6. alerts[x] <= Excuses => alerts'[x] <= Excuses'
    BY <2>4
  <2> QED BY <2>1, <2>3, <2>5, <2>6 DEF RoomForOne
<1>3. (Cardinality(Awake) <= overlaps + 1)'
  BY <1>1, NoneWakes
<1> QED BY <1>2, <1>3 DEF AlertsInv

-----------------------------------------------------------------------------

\* What any step of any worker does to the failures.
LEMMA FailuresGrow ==
  ASSUME AlertsInv, UNCHANGED overlaps, UNCHANGED failures \/ Fault \/ Crash
  PROVE  FailuresTypeOK' /\ Excuses' >= Excuses
<1>1. CASE Fault \/ Crash
  <2>1. FailuresTypeOK' /\ Excuses \in Nat /\ Excuses' = Excuses + 1
    BY <1>1, MoreExcuses DEF AlertsInv
  <2> QED BY <2>1
<1>2. CASE UNCHANGED failures
  <2>1. FailuresTypeOK' /\ Excuses \in Nat /\ Excuses' = Excuses
    BY <1>2, AlertsTypes DEF AlertsInv, FailuresTypeOK, Excuses
  <2> QED BY <2>1
<1> QED BY <1>1, <1>2

LEMMA AlertsNextInv ==
  ASSUME AlertsInv, AlertsNext
  PROVE  AlertsInv'
<1>1. ASSUME NEW n \in Replica, Sweep(n)
      PROVE  AlertsInv'
  BY <1>1, ClaimWindowInv, LoadRulesInv, PassOverInv, DeliverInv, StampInv, SweepDoneInv DEF
    Sweep
<1>2. ASSUME NEW n \in Replica, SweepTrouble(n)
      PROVE  AlertsInv'
  BY <1>2, ClaimWindowFailsInv, LoadRulesFailsInv, DeliverFailsInv, StampFailsInv DEF
    SweepTrouble
<1>3. ASSUME NEW n \in Replica, Crash, AlertsRestart(n)
      PROVE  AlertsInv'
  BY <1>3, AlertsRestartInv
<1>4. CASE NewMonth
  BY <1>4, NewMonthInv
<1>5. CASE NewWindow \/ \E x \in Rule : Cross(x)
  <2>1. UNCHANGED <<stamped, alerts, sweep, pending, loaded, overlaps, failures>>
    BY <1>5 DEF NewWindow, Cross
  <2>2. AlertsTypeOK'
    BY <1>5 DEF NewWindow, Cross, AlertsInv, AlertsTypeOK
  <2>3. FailuresTypeOK' /\ Excuses' >= Excuses
    BY <2>1, FailuresGrow
  <2> QED BY <2>1, <2>2, <2>3, QuietStep
<1> QED BY <1>1, <1>2, <1>3, <1>4, <1>5 DEF AlertsNext

\* The other workers leave the alerts alone; their calls fail too.
LEMMA OthersInv ==
  ASSUME AlertsInv, UNCHANGED alertVars, UNCHANGED failures \/ Fault \/ Crash
  PROVE  AlertsInv'
<1>1. FailuresTypeOK' /\ Excuses' >= Excuses
  BY FailuresGrow DEF alertVars
<1>2. AlertsTypeOK'
  BY DEF alertVars, AlertsInv, AlertsTypeOK
<1> QED BY <1>1, <1>2, QuietStep DEF alertVars

LEMMA NextAlertsInv == AlertsInv /\ [Next]_vars => AlertsInv'
<1> SUFFICES ASSUME AlertsInv, [Next]_vars
             PROVE  AlertsInv'
  OBVIOUS
<1>1. CASE OfAlerts(AlertsNext)
  BY <1>1, AlertsNextInv DEF OfAlerts
<1>2. CASE OfScheduler(SchedulerNext)
  <2>1. UNCHANGED failures \/ Fault \/ Crash
    BY <1>2 DEF OfScheduler, SchedulerNext, Tick, Digest, DigestTrouble, Claim, SetExpiry, Send,
      DigestsDone, ClaimFails, SetExpiryFails, SendFails, SummaryFails
  <2> QED BY <1>2, <2>1, OthersInv DEF OfScheduler
<1>3. CASE OfReconciliation(ReconcileNext)
  <2>1. UNCHANGED faults \/ Fault
    BY <1>3 DEF OfReconciliation, ReconcileNext, Handle, Persist, Pass, Trouble, Reserve,
      Release,
      Emit, Correct, Die, ReadCounter, ReadRecords, Compare, Remember, Repair, Clear,
      ReadCounterFails, ReadRecordsFails, CompareFails, RememberFails, RepairFails, ClearFails
  <2>2. UNCHANGED alertVars /\ UNCHANGED crashes
    BY <1>3 DEF OfReconciliation
  <2> QED BY <2>1, <2>2, OthersInv DEF failures
<1>4. CASE UNCHANGED vars
  BY <1>4, OthersInv DEF vars
<1> QED BY <1>1, <1>2, <1>3, <1>4 DEF Next

\* Replicas, windows and months may overlap as they like: a rule alerts once a month, and
\* once more for each failed call, each restart and each sweep that began while another
\* was running.
THEOREM AlertsBoundedAlways == Spec => []AlertsBounded
<1>1. AlertsInv => AlertsBounded
  <2> SUFFICES ASSUME AlertsInv, NEW x \in Rule
               PROVE  alerts[x] <= 1 + faults + crashes + overlaps
    BY DEF AlertsBounded
  <2>1. alerts[x] \in Nat /\ alerts[x] <= Excuses + 1
    BY AccountRoom
  <2>2. faults \in Nat /\ crashes \in Nat /\ overlaps \in Nat
    BY AlertsAssumption, DeploymentAssumption DEF AlertsInv, AlertsTypeOK, FailuresTypeOK
  <2> QED BY <2>1, <2>2 DEF Excuses
<1> QED BY <1>1, InitAlertsInv, NextAlertsInv, PTL DEF Spec

-----------------------------------------------------------------------------
(***************************************************************************)
(* Reconciliation.  A repair takes off what a pass saw, and several passes *)
(* may have seen the same drift.  Forgiven is what repairs have taken off  *)
(* altogether; with what every pass under way may still take, it stays     *)
(* within one weight of the requests for every replica, because a pass     *)
(* that reads the counter sees what earlier repairs have left of it.       *)
(***************************************************************************)

\* What r has on the counter, repairs aside.
Contribution(r) ==
  IF request[r] \in {"held", "orphaned", "emitted", "cut"} THEN Projected[r]
  ELSE IF request[r] = "settled" THEN Actual[r] ELSE 0

\* The most r has had on the counter so far.
Weight(r) ==
  IF request[r] = "new" THEN 0
  ELSE IF request[r] = "settled" /\ Actual[r] > Projected[r] THEN Actual[r]
  ELSE Projected[r]

Contributions == [r \in Requests |-> Contribution(r)]
WeightsOf == [r \in Requests |-> Weight(r)]
RecordsOf == [r \in Requests |-> IF r \in recorded THEN Actual[r] ELSE 0]
Exposures == [r \in Requests |-> Exposure(r)]

Weights == Total(WeightsOf, N)

Forgiven == Total(Contributions, N) - counter

\* What the pass of w may still take off.
Repairing(w) ==
  IF pc[w] = "counted" /\ counted[w] > RecordedSpend THEN counted[w] - RecordedSpend
  ELSE IF pc[w] \in {"significant", "remember", "repair"} THEN drift[w] ELSE 0

Replicas == Cardinality(Replica)

IsOrder(f) ==
  /\ f \in [1 .. Replicas -> Replica]
  /\ \A n \in Replica : \E i \in 1 .. Replicas : f[i] = n
  /\ \A i, j \in 1 .. Replicas : f[i] = f[j] => i = j

\* The replicas, numbered.
Order == CHOOSE f \in [1 .. Replicas -> Replica] : IsOrder(f)

RepairsOf == [i \in 1 .. Replicas |-> Repairing(Order[i])]

Repairs == Total(RepairsOf, Replicas)

ForgivenessInv ==
  /\ ReconcileTypeOK
  /\ \A r \in recorded : request[r] \in {"emitted", "cut", "settled"}
  /\ Forgiven >= 0
  /\ \A w \in Replica : Repairing(w) <= Weights
  /\ Forgiven + Repairs <= Replicas * Weights

LEMMA OrderIs == IsOrder(Order) /\ Replicas \in Nat /\ Replicas >= 1
<1>1. Replicas \in Nat /\ Replicas # 0
  BY DeploymentAssumption, FS_CardinalityType, FS_EmptySet DEF Replicas
<1>2. PICK f : f \in Bijection(1 .. Replicas, Replica)
  <2>1. ExistsBijection(1 .. Replicas, Replica)
    BY DeploymentAssumption, FS_CardinalityType DEF Replicas
  <2> QED BY <2>1 DEF ExistsBijection
<1>3. f \in [1 .. Replicas -> Replica]
  BY <1>2 DEF Bijection, Injection
<1>4. \A n \in Replica : \E i \in 1 .. Replicas : f[i] = n
  BY <1>2 DEF Bijection, Surjection
<1>5. \A i, j \in 1 .. Replicas : f[i] = f[j] => i = j
  BY <1>2 DEF Bijection, Injection, IsInjective
<1>6. IsOrder(f)
  BY <1>3, <1>4, <1>5 DEF IsOrder
<1> QED BY <1>1, <1>3, <1>6 DEF Order

LEMMA ReconcileTypes ==
  ASSUME ReconcileTypeOK
  PROVE  /\ N \in Nat /\ counter \in Int
         /\ Contributions \in [1 .. N -> Int] /\ WeightsOf \in [1 .. N -> Int]
         /\ RecordsOf \in [1 .. N -> Int] /\ Exposures \in [1 .. N -> Int]
         /\ \A r \in 1 .. N : /\ Contributions[r] <= WeightsOf[r]
                              /\ 0 <= WeightsOf[r] /\ WeightsOf[r] <= Exposures[r]
                              /\ 0 <= RecordsOf[r]
<1> USE ReconciliationAssumption DEF Requests
<1>1. N \in Nat /\ counter \in Int
  BY DEF ReconcileTypeOK
<1>2. ASSUME NEW r \in 1 .. N
      PROVE  Projected[r] \in Nat /\ Actual[r] \in Nat
  OBVIOUS
<1>3. ASSUME NEW r \in 1 .. N
      PROVE  /\ Contribution(r) \in Int /\ Weight(r) \in Int /\ Exposure(r) \in Int
             /\ Contribution(r) <= Weight(r) /\ 0 <= Weight(r) /\ Weight(r) <= Exposure(r)
  BY <1>2 DEF Contribution, Weight, Exposure
<1>4. RecordsOf \in [1 .. N -> Int] /\ \A r \in 1 .. N : 0 <= RecordsOf[r]
  BY <1>2 DEF RecordsOf
<1> QED BY <1>1, <1>3, <1>4 DEF Contributions, WeightsOf, Exposures

\* The sums the invariant speaks of are numbers.
LEMMA SumTypes ==
  ASSUME ReconcileTypeOK
  PROVE  /\ Total(Contributions, N) \in Int /\ Weights \in Int /\ RecordedSpend \in Int
         /\ Total(Exposures, N) \in Int /\ Forgiven \in Int
         /\ RecordedSpend = Total(RecordsOf, N)
         /\ Weights >= 0 /\ RecordedSpend >= 0
<1>1. /\ N \in Nat /\ counter \in Int
      /\ Contributions \in [1 .. N -> Int] /\ WeightsOf \in [1 .. N -> Int]
      /\ RecordsOf \in [1 .. N -> Int] /\ Exposures \in [1 .. N -> Int]
  BY ReconcileTypes
<1>2. /\ Total(Contributions, N) \in Int /\ Total(WeightsOf, N) \in Int
      /\ Total(RecordsOf, N) \in Int /\ Total(Exposures, N) \in Int
  BY <1>1, TotalType
<1>3. RecordedSpend = Total(RecordsOf, N)
  BY DEF RecordedSpend, RecordsOf
<1>4. Total(WeightsOf, N) >= 0 /\ Total(RecordsOf, N) >= 0
  <2> DEFINE z == [r \in 1 .. N |-> 0]
  <2>1. z \in [1 .. N -> Int] /\ Total(z, N) = 0
    BY <1>1, TotalZero
  <2>2. \A r \in 1 .. N : z[r] <= WeightsOf[r] /\ z[r] <= RecordsOf[r]
    BY ReconcileTypes
  <2> HIDE DEF z
  <2>3. Total(z, N) <= Total(WeightsOf, N) /\ Total(z, N) <= Total(RecordsOf, N)
    BY <1>1, <2>1, <2>2, TotalMonotone
  <2> QED BY <1>2, <2>1, <2>3
<1>5. Forgiven \in Int
  BY <1>1, <1>2 DEF Forgiven
<1> QED BY <1>2, <1>3, <1>4, <1>5 DEF Weights

LEMMA RepairingTypes ==
  ASSUME ReconcileTypeOK
  PROVE  /\ \A w \in Replica : Repairing(w) \in Nat
         /\ RepairsOf \in [1 .. Replicas -> Int]
         /\ Repairs \in Int
<1>1. RecordedSpend \in Int
  BY SumTypes
<1>2. ASSUME NEW w \in Replica
      PROVE  Repairing(w) \in Nat
  <2>1. counted[w] \in Int /\ drift[w] \in Nat
    BY DEF ReconcileTypeOK, Reconciler
  <2> QED BY <1>1, <2>1 DEF Repairing
<1>3. RepairsOf \in [1 .. Replicas -> Int]
  BY <1>2, OrderIs DEF RepairsOf, IsOrder
<1>4. Repairs \in Int
  BY <1>3, OrderIs, TotalType DEF Repairs
<1> QED BY <1>2, <1>3, <1>4

\* The records never fall short of what is on the counter by more than the weights: what a
\* pass that reads the counter can find.
LEMMA DriftBounded ==
  ASSUME ReconcileTypeOK
  PROVE  Total(Contributions, N) - RecordedSpend <= Weights
<1>1. /\ N \in Nat
      /\ Contributions \in [1 .. N -> Int] /\ WeightsOf \in [1 .. N -> Int]
      /\ \A r \in 1 .. N : Contributions[r] <= WeightsOf[r]
  BY ReconcileTypes
<1>2. Total(Contributions, N) <= Total(WeightsOf, N)
  BY <1>1, TotalMonotone
<1>3. Total(Contributions, N) \in Int /\ Weights \in Int /\ RecordedSpend \in Int
      /\ RecordedSpend >= 0
  BY SumTypes
<1> QED BY <1>2, <1>3 DEF Weights

LEMMA SumTypesHere ==
  ReconcileTypeOK =>
    /\ Weights \in Int /\ RecordedSpend \in Int
    /\ RepairsOf \in [1 .. Replicas -> Int]
    /\ \A w \in Replica : Repairing(w) \in Nat
BY SumTypes, RepairingTypes

\* The same of the next state.
LEMMA SumTypesNext ==
  ( ReconcileTypeOK =>
    /\ Weights \in Int /\ RecordedSpend \in Int
    /\ RepairsOf \in [1 .. Replicas -> Int]
    /\ \A w \in Replica : Repairing(w) \in Nat )'
BY SumTypesHere, PTL

LEMMA InitForgivenessInv == Init => ForgivenessInv
<1> SUFFICES ASSUME Init PROVE ForgivenessInv
  OBVIOUS
<1> USE DEF Init, ReconcileInit
<1>1. ReconcileTypeOK
  BY ReconciliationAssumption DEF ReconcileTypeOK, State, Place
<1>2. N \in Nat
  BY ReconciliationAssumption
<1>3. Contributions = [r \in 1 .. N |-> 0]
  BY DEF Contributions, Contribution, Requests
<1>4. Total(Contributions, N) = 0
  BY <1>2, <1>3, TotalZero
<1>5. Forgiven = 0
  BY <1>4 DEF Forgiven
<1>6. \A w \in Replica : Repairing(w) = 0
  BY DEF Repairing, Reconciler
<1>7. RepairsOf = [i \in 1 .. Replicas |-> 0]
  BY <1>6, OrderIs DEF RepairsOf, IsOrder
<1>8. Repairs = 0
  BY <1>7, OrderIs, TotalZero DEF Repairs
<1>9. Weights \in Int /\ Weights >= 0
  BY <1>1, SumTypes
<1>10. Replicas * Weights >= 0
  <2>1. \A k \in Nat, m \in Int : m >= 0 => k * m >= 0
    OBVIOUS
  <2> QED BY <2>1, <1>9, OrderIs
<1> QED BY <1>1, <1>5, <1>6, <1>8, <1>9, <1>10 DEF ForgivenessInv

\* How the sums change when one request does.
LEMMA RequestSums ==
  ASSUME ReconcileTypeOK, ReconcileTypeOK', NEW r \in Requests,
         \A q \in Requests : q # r => request'[q] = request[q],
         Weight(r) <= Weight(r)'
  PROVE  /\ Total(Contributions, N)'
              = Total(Contributions, N) - Contribution(r) + Contribution(r)'
         /\ Weights <= Weights'
<1>1. /\ N \in Nat
      /\ Contributions \in [1 .. N -> Int] /\ WeightsOf \in [1 .. N -> Int]
  BY ReconcileTypes
<1>2. PICK g, h : g = Contributions' /\ h = WeightsOf'
  OBVIOUS
<1>3. \A q \in 1 .. N : request'[q] \in State /\ Projected[q] \in Nat /\ Actual[q] \in Nat
  BY ReconciliationAssumption DEF ReconcileTypeOK, Requests
<1>4. g \in [1 .. N -> Int] /\ h \in [1 .. N -> Int]
  BY <1>2, <1>3 DEF Contributions, Contribution, WeightsOf, Weight, Requests
<1>5. \A q \in 1 .. N : q # r => g[q] = Contributions[q] /\ h[q] = WeightsOf[q]
  BY <1>2 DEF Contributions, Contribution, WeightsOf, Weight, Requests
<1>6. /\ Contributions[r] = Contribution(r) /\ WeightsOf[r] = Weight(r)
      /\ g[r] = Contribution(r)' /\ h[r] = Weight(r)'
  BY <1>2 DEF Contributions, WeightsOf
<1>7. r \in 1 .. N
  BY DEF Requests
<1>8. Total(g, N) = Total(Contributions, N) - Contribution(r) + Contribution(r)'
  BY <1>1, <1>4, <1>5, <1>6, <1>7, TotalStep
<1>9. Total(WeightsOf, N) <= Total(h, N)
  <2>1. \A q \in 1 .. N : WeightsOf[q] <= h[q]
    <3>1. WeightsOf[r] <= h[r]
      BY <1>6
    <3>2. \A q \in 1 .. N : WeightsOf[q] <= WeightsOf[q]
      BY <1>1
    <3> QED BY <3>1, <3>2, <1>5
  <2> QED BY <2>1, <1>1, <1>4, TotalMonotone
<1> QED BY <1>2, <1>8, <1>9 DEF Weights

LEMMA Multiples == \A k \in Nat, i, j \in Int : i <= j => k * i <= k * j
  <1>1. ASSUME NEW k \in Nat, NEW i \in Int, NEW j \in Int, i <= j
        PROVE  k * i <= k * j
    <2>1. k * (j - i) >= 0
      BY <1>1
    <2>2. k * (j - i) = k * j - k * i
      OBVIOUS
    <2>3. k * i \in Int /\ k * j \in Int
      OBVIOUS
    <2> QED BY <2>1, <2>2, <2>3
  <1> QED BY <1>1

\* Every pass under way takes no more than before, and repairs have forgiven no more.
LEMMA NoMoreForgiven ==
  ASSUME ForgivenessInv, ReconcileTypeOK',
         \A r \in recorded' : request'[r] \in {"emitted", "cut", "settled"},
         Forgiven' = Forgiven, Weights <= Weights',
         \A w \in Replica : Repairing(w)' <= Repairing(w)
  PROVE  ForgivenessInv'
<1>1. PICK W, R, f : W = Weights' /\ R = Repairs' /\ f = RepairsOf'
  OBVIOUS
<1>2. /\ Weights \in Int /\ Forgiven \in Int /\ Repairs \in Int
      /\ RepairsOf \in [1 .. Replicas -> Int]
      /\ \A w \in Replica : Repairing(w) \in Nat
  BY SumTypes, RepairingTypes DEF ForgivenessInv
<1>3. W \in Int
  BY <1>1, SumTypesNext
<1>4. R = Total(f, Replicas) /\ f \in [1 .. Replicas -> Int]
      /\ \A w \in Replica : Repairing(w)' \in Nat
  BY <1>1, SumTypesNext DEF Repairs
<1>5. \A i \in 1 .. Replicas : f[i] <= RepairsOf[i]
  BY <1>1, OrderIs DEF RepairsOf, IsOrder
<1>6. R <= Repairs /\ R \in Int
  BY <1>2, <1>4, <1>5, OrderIs, TotalMonotone, TotalType DEF Repairs
<1>7. Replicas * Weights <= Replicas * W
  BY <1>1, <1>2, <1>3, OrderIs, Multiples
<1>8. Forgiven + Repairs <= Replicas * Weights /\ Forgiven >= 0
  BY DEF ForgivenessInv
<1>9. Replicas * Weights \in Int /\ Replicas * W \in Int
  BY <1>2, <1>3, OrderIs
<1>10. Forgiven + R <= Replicas * W
  BY <1>2, <1>6, <1>7, <1>8, <1>9
<1>11. ASSUME NEW w \in Replica
       PROVE  Repairing(w)' <= W
  <2>1. Repairing(w) <= Weights
    BY DEF ForgivenessInv
  <2> QED BY <2>1, <1>1, <1>2, <1>3, <1>4
<1> QED BY <1>1, <1>8, <1>10, <1>11 DEF ForgivenessInv

\* One pass gives up what it may take off, or takes it off; the other passes and the
\* requests do not move.
LEMMA PassStep ==
  ASSUME ForgivenessInv, ReconcileTypeOK', NEW w \in Replica,
         UNCHANGED <<request, recorded>>,
         \A v \in Replica : v # w => Repairing(v)' = Repairing(v),
         counter' <= counter,
         counter - counter' + Repairing(w)' <= Repairing(w)
  PROVE  ForgivenessInv'
<1>1. PICK R, f : R = Repairs' /\ f = RepairsOf'
  OBVIOUS
<1>2. /\ Weights \in Int /\ Forgiven \in Int /\ Repairs \in Int /\ counter \in Int
      /\ RepairsOf \in [1 .. Replicas -> Int]
      /\ \A v \in Replica : Repairing(v) \in Nat
  BY SumTypes, RepairingTypes, ReconcileTypes DEF ForgivenessInv
<1>3. R = Total(f, Replicas) /\ f \in [1 .. Replicas -> Int]
      /\ \A v \in Replica : Repairing(v)' \in Nat
  BY <1>1, SumTypesNext DEF Repairs
<1>4. PICK j \in 1 .. Replicas : Order[j] = w
  BY OrderIs DEF IsOrder
<1>5. \A i \in 1 .. Replicas : i # j => f[i] = RepairsOf[i]
  BY <1>1, <1>4, OrderIs DEF RepairsOf, IsOrder
<1>6. f[j] = Repairing(w)' /\ RepairsOf[j] = Repairing(w)
  BY <1>1, <1>4 DEF RepairsOf
<1>7. R = Repairs - Repairing(w) + Repairing(w)' /\ R \in Int
  <2>1. Total(f, Replicas) = Total(RepairsOf, Replicas) - RepairsOf[j] + f[j]
    BY <1>2, <1>3, <1>5, OrderIs, TotalStep
  <2>2. Total(f, Replicas) \in Int
    BY <1>3, OrderIs, TotalType
  <2> QED BY <2>1, <2>2, <1>3, <1>6 DEF Repairs
<1>8. Weights' = Weights /\ Total(Contributions, N)' = Total(Contributions, N)
  BY DEF Weights, WeightsOf, Weight, Contributions, Contribution
<1>9. Total(Contributions, N) \in Int /\ counter' \in Int
  BY SumTypes DEF ForgivenessInv, ReconcileTypeOK
<1>10. Forgiven = Total(Contributions, N) - counter
       /\ Forgiven' = Total(Contributions, N) - counter'
  BY <1>8 DEF Forgiven
<1>11. Forgiven + Repairs <= Replicas * Weights /\ Forgiven >= 0
  BY DEF ForgivenessInv
<1>12. Replicas * Weights \in Int
  BY <1>2, OrderIs
<1>13. PICK p, q : p = Repairing(w) /\ q = Repairing(w)' /\ p \in Nat /\ q \in Nat
  BY <1>2, <1>3
<1>14. Forgiven' = Forgiven + (counter - counter') /\ Forgiven' >= 0
  <2>1. PICK t, k, l \in Int : t = Total(Contributions, N) /\ k = counter /\ l = counter'
    BY <1>2, <1>9
  <2>2. t - l = (t - k) + (k - l) /\ (k >= l /\ t - k >= 0 => t - l >= 0)
    OBVIOUS
  <2>3. Forgiven = t - k /\ Forgiven' = t - l /\ l <= k
    BY <1>10, <2>1
  <2> QED BY <1>11, <2>1, <2>2, <2>3
<1>15. Forgiven' + R <= Replicas * Weights
  <2>1. PICK m \in Int : m = Replicas * Weights
    BY <1>12
  <2>0. PICK k \in Int, l \in Int : k = counter /\ l = counter'
    BY <1>2, <1>9
  <2>1z. PICK c \in Int : c = k - l
    OBVIOUS
  <2>2. c = counter - counter'
    BY <2>0, <2>1z
  <2>3. c + q <= p
    BY <1>13, <2>2
  <2>4. R = Repairs - p + q
    BY <1>7, <1>13
  <2>5. Forgiven' = Forgiven + c
    BY <1>14, <2>2
  <2>6. Forgiven + Repairs <= m
    BY <1>11, <2>1
  <2>7. Forgiven' + R <= m
    <3>1. PICK x, y \in Int : x = Forgiven /\ y = Repairs
      BY <1>2
    <3>2. x + y <= m /\ (x + c) + (y - p + q) <= m
      BY <1>13, <2>3, <2>6, <3>1
    <3> QED BY <2>4, <2>5, <3>1, <3>2
  <2> QED BY <2>1, <2>7
<1>16. q <= p
  BY <1>2, <1>9, <1>13
<1>17. ASSUME NEW v \in Replica
       PROVE  Repairing(v)' <= Weights
  <2>1. Repairing(v) <= Weights
    BY DEF ForgivenessInv
  <2>2. CASE v = w
    BY <2>1, <2>2, <1>2, <1>13, <1>16
  <2>3. CASE v # w
    BY <2>1, <2>3
  <2> QED BY <2>2, <2>3
<1> QED BY <1>1, <1>8, <1>14, <1>15, <1>17 DEF ForgivenessInv

\* A pass begins: what it finds beyond the records is one weight of the requests at most,
\* less what repairs have forgiven already.
LEMMA ReadCounterInv ==
  ASSUME ForgivenessInv, NEW w \in Replica, ReadCounter(w)
  PROVE  ForgivenessInv'
<1> USE DEF ReadCounter, Begin, Goes
<1>1. ReconcileTypeOK'
  BY DEF ForgivenessInv, ReconcileTypeOK, Reconciler, Place, Requests
<1>2. /\ pc[w] = "asleep" /\ pc'[w] = "counted" /\ counted'[w] = counter
      /\ \A v \in Replica : v # w => pc'[v] = pc[v] /\ counted'[v] = counted[v]
  BY DEF ForgivenessInv, ReconcileTypeOK, Reconciler
<1>3. RecordedSpend' = RecordedSpend
  BY DEF RecordedSpend
<1>4. Repairing(w) = 0
  BY <1>2 DEF Repairing
<1>5. \A v \in Replica : v # w => Repairing(v)' = Repairing(v)
  BY <1>2, <1>3 DEF Repairing
<1>6. Repairing(w)' = IF counter > RecordedSpend THEN counter - RecordedSpend ELSE 0
  BY <1>2, <1>3 DEF Repairing
<1>7. counter \in Int /\ RecordedSpend \in Int
  BY SumTypes, ReconcileTypes DEF ForgivenessInv
<1>8. CASE ~(counter > RecordedSpend)
  <2>1. Repairing(w)' = 0
    BY <1>6, <1>8
  <2>2. counter' <= counter /\ counter - counter' + Repairing(w)' <= Repairing(w)
    BY <1>4, <1>7, <2>1
  <2> QED BY <1>1, <1>5, <2>2, PassStep
<1>9. CASE counter > RecordedSpend
  <2>1. PICK R, f : R = Repairs' /\ f = RepairsOf'
    OBVIOUS
  <2>2. Weights \in Int /\ Forgiven \in Int /\ Total(Contributions, N) \in Int /\ Weights >= 0
    BY SumTypes DEF ForgivenessInv
  <2>3. R = Total(f, Replicas) /\ f \in [1 .. Replicas -> Int]
    BY <1>1, <2>1, SumTypesNext DEF Repairs
  <2>4. PICK j \in 1 .. Replicas : Order[j] = w
    BY OrderIs DEF IsOrder
  <2> DEFINE g == [i \in 1 .. Replicas |-> Weights]
             h == [g EXCEPT ![j] = counter - RecordedSpend]
  <2>5. g \in [1 .. Replicas -> Int] /\ h \in [1 .. Replicas -> Int] /\ g[j] = Weights
    BY <2>2, <1>7
  <2>6. ASSUME NEW i \in 1 .. Replicas
        PROVE  f[i] <= h[i]
    <3>1. f[i] = Repairing(Order[i])' /\ Order[i] \in Replica
      BY <2>1, OrderIs DEF RepairsOf, IsOrder
    <3>2. CASE i = j
      <4>1. f[i] = counter - RecordedSpend /\ h[i] = counter - RecordedSpend
        BY <3>1, <3>2, <2>4, <1>6, <1>9
      <4> QED BY <4>1, <1>7
    <3>3. CASE i # j
      <4>1. Order[i] # w
        BY <3>3, <2>4, OrderIs DEF IsOrder
      <4>2. f[i] <= Weights
        BY <3>1, <4>1, <1>5 DEF ForgivenessInv
      <4> QED BY <4>2, <3>3
    <3> QED BY <3>2, <3>3
  <2>7. Total(g, Replicas) = Replicas * Weights
    BY <2>2, OrderIs, TotalConstant
  <2>8. Total(h, Replicas) = Total(g, Replicas) - Weights + (counter - RecordedSpend)
    <3>1. PICK x \in Int : x = counter - RecordedSpend
      BY <1>7
    <3>2. h = [g EXCEPT ![j] = x]
      BY <3>1
    <3> HIDE DEF g, h
    <3>3. Total([g EXCEPT ![j] = x], Replicas) = Total(g, Replicas) - g[j] + x
      BY <2>5, OrderIs, TotalChange
    <3> QED BY <3>1, <3>2, <3>3, <2>5
  <2>9. R <= Total(h, Replicas)
    <3> HIDE DEF h
    <3> QED BY <2>3, <2>5, <2>6, OrderIs, TotalMonotone
  <2> HIDE DEF g, h
  <2>10. Total(Contributions, N) - RecordedSpend <= Weights
    BY DriftBounded DEF ForgivenessInv
  <2>11. Forgiven = Total(Contributions, N) - counter /\ Forgiven >= 0
    BY DEF ForgivenessInv, Forgiven
  <2>12. R \in Int /\ Replicas * Weights \in Int
    BY <2>2, <2>3, OrderIs, TotalType
  <2>13. Forgiven + R <= Replicas * Weights
    BY <1>7, <2>2, <2>7, <2>8, <2>9, <2>10, <2>11, <2>12
  <2>14. counter - RecordedSpend <= Weights
    BY <1>7, <2>2, <2>10, <2>11
  <2>15. Weights' = Weights /\ Forgiven' = Forgiven
    BY DEF Weights, WeightsOf, Weight, Forgiven, Contributions, Contribution
  <2>16. ASSUME NEW v \in Replica
         PROVE  Repairing(v)' <= Weights
    <3>1. CASE v = w
      BY <3>1, <2>14, <1>6, <1>9
    <3>2. CASE v # w
      BY <3>2, <1>5 DEF ForgivenessInv
    <3> QED BY <3>1, <3>2
  <2> QED BY <1>1, <2>1, <2>11, <2>13, <2>15, <2>16 DEF ForgivenessInv
<1> QED BY <1>8, <1>9

\* Every other step of a pass, failed calls included.
LEMMA OtherPassInv ==
  ASSUME ForgivenessInv, NEW w \in Replica,
         \/ ReadRecords(w) \/ Compare(w) \/ Remember(w) \/ Repair(w) \/ Clear(w)
         \/ Trouble(w)
  PROVE  ForgivenessInv'
<1>1. ReconcileTypeOK
  BY DEF ForgivenessInv
<1>2. /\ counter \in Int /\ RecordedSpend \in Int /\ RecordedSpend >= 0
      /\ counted[w] \in Int /\ drift[w] \in Nat /\ Threshold \in Nat
      /\ Repairing(w) \in Nat
  BY <1>1, SumTypes, RepairingTypes, ReconciliationAssumption DEF ReconcileTypeOK, Reconciler
<1>3. UNCHANGED <<request, recorded>> /\ RecordedSpend' = RecordedSpend
  <2>1. UNCHANGED <<request, recorded>>
    BY DEF ReadRecords, Compare, Remember, Repair, Clear, Trouble, ReadCounterFails,
      ReadRecordsFails, CompareFails, RememberFails, RepairFails, ClearFails
  <2> QED BY <2>1 DEF RecordedSpend
<1>4. \A v \in Replica : v # w =>
        pc'[v] = pc[v] /\ counted'[v] = counted[v] /\ drift'[v] = drift[v]
  BY <1>1 DEF ReconcileTypeOK, Reconciler, Goes, ReadRecords, Compare, Remember, Repair, Clear,
    Trouble, Begin, ReadCounterFails, ReadRecordsFails, CompareFails, RememberFails,
    RepairFails, ClearFails
<1>5. \A v \in Replica : v # w => Repairing(v)' = Repairing(v)
  BY <1>3, <1>4 DEF Repairing
<1>6. CASE ReadRecords(w)
  <2> DEFINE d == counted[w] - RecordedSpend
  <2>1. /\ pc[w] = "counted" /\ pc'[w] = Verdict(d) /\ counter' = counter
        /\ drift'[w] = IF Verdict(d) = "significant" THEN d ELSE 0
        /\ pc' = [pc EXCEPT ![w] = Verdict(d)]
        /\ drift' = [drift EXCEPT ![w] = IF Verdict(d) = "significant" THEN d ELSE 0]
        /\ counted' = [counted EXCEPT ![w] = 0]
    BY <1>1, <1>6 DEF ReadRecords, Goes, ReconcileTypeOK, Reconciler
  <2>2. Verdict(d) \in {"significant", "asleep", "clear"} /\ d \in Int
        /\ (Verdict(d) = "significant" => d > 0)
    BY <1>2 DEF Verdict
  <2>3. ReconcileTypeOK'
    BY <1>1, <1>6, <2>1, <2>2 DEF ReadRecords, ReconcileTypeOK, Reconciler, Place
  <2>4. Repairing(w) = IF d > 0 THEN d ELSE 0
    BY <1>2, <2>1, <2>2 DEF Repairing
  <2>5. Repairing(w)' = IF Verdict(d) = "significant" THEN d ELSE 0
    BY <2>1, <2>2 DEF Repairing
  <2> HIDE DEF d
  <2>6. counter' <= counter /\ counter - counter' + Repairing(w)' <= Repairing(w)
    BY <1>2, <2>1, <2>2, <2>4, <2>5
  <2> QED BY <1>3, <1>5, <2>3, <2>6, PassStep
<1>7. CASE Compare(w) \/ CompareFails(w)
  <2>1. pc[w] = "significant" /\ pc'[w] \in {"repair", "remember"} /\ counter' = counter
        /\ drift' = drift
    BY <1>1, <1>7 DEF Compare, CompareFails, Goes, ReconcileTypeOK, Reconciler
  <2>2. ReconcileTypeOK'
    BY <1>1, <1>7 DEF Compare, CompareFails, Goes, ReconcileTypeOK, Reconciler, Place
  <2>3. Repairing(w)' = Repairing(w)
    BY <2>1 DEF Repairing
  <2>4. counter' <= counter /\ counter - counter' + Repairing(w)' <= Repairing(w)
    BY <1>2, <2>1, <2>3
  <2> QED BY <1>3, <1>5, <2>2, <2>4, PassStep
<1>8. CASE Repair(w) \/ RepairFails(w)
  <2>1. pc[w] = "repair" /\ pc'[w] \in {"clear", "asleep"}
        /\ counter' \in {counter, counter - drift[w]}
    BY <1>1, <1>8 DEF Repair, RepairFails, Goes, ReconcileTypeOK, Reconciler
  <2>2. ReconcileTypeOK'
    BY <1>1, <1>2, <1>8, <2>1 DEF Repair, RepairFails, Goes, ReconcileTypeOK, Reconciler, Place
  <2>3. Repairing(w) = drift[w] /\ Repairing(w)' = 0
    BY <2>1 DEF Repairing
  <2>4. counter' <= counter /\ counter - counter' + Repairing(w)' <= Repairing(w)
    BY <1>2, <2>1, <2>3
  <2> QED BY <1>3, <1>5, <2>2, <2>4, PassStep
<1>9. CASE Remember(w) \/ RememberFails(w) \/ Clear(w) \/ ClearFails(w) \/ ReadRecordsFails(w)
  <2>1. pc'[w] = "asleep" /\ counter' = counter
    BY <1>1, <1>9 DEF Remember, RememberFails, Clear, ClearFails, ReadRecordsFails, Goes,
      ReconcileTypeOK, Reconciler
  <2>2. ReconcileTypeOK'
    BY <1>1, <1>2, <1>9 DEF Remember, RememberFails, Clear, ClearFails, ReadRecordsFails, Goes,
      ReconcileTypeOK, Reconciler, Place
  <2>3. Repairing(w)' = 0
    BY <2>1 DEF Repairing
  <2>4. counter' <= counter /\ counter - counter' + Repairing(w)' <= Repairing(w)
    BY <1>2, <2>1, <2>3
  <2> QED BY <1>3, <1>5, <2>2, <2>4, PassStep
<1>10. CASE ReadCounterFails(w)
  <2>1. pc'[w] = "counted" /\ counted'[w] = 0 /\ counter' = counter
    BY <1>1, <1>10 DEF ReadCounterFails, Begin, Goes, ReconcileTypeOK, Reconciler
  <2>2. ReconcileTypeOK'
    BY <1>1, <1>10 DEF ReadCounterFails, Begin, Goes, ReconcileTypeOK, Reconciler, Place,
      Requests
  <2>3. Repairing(w)' = 0
    BY <1>2, <1>3, <2>1 DEF Repairing
  <2>4. counter' <= counter /\ counter - counter' + Repairing(w)' <= Repairing(w)
    BY <1>2, <2>1, <2>3
  <2> QED BY <1>3, <1>5, <2>2, <2>4, PassStep
<1> QED BY <1>6, <1>7, <1>8, <1>9, <1>10 DEF Trouble

\* What the handlers and the usage writer do leaves what was forgiven as it is.
LEMMA RequestInv ==
  ASSUME ForgivenessInv, NEW r \in Requests, Handle(r) \/ Persist(r)
  PROVE  ForgivenessInv'
<1>1. ReconcileTypeOK
  BY DEF ForgivenessInv
<1>2. N \in Nat /\ counter \in Int /\ Projected[r] \in Nat /\ Actual[r] \in Nat
  BY <1>1, ReconciliationAssumption DEF ReconcileTypeOK
<1>3. UNCHANGED <<pc, counted, drift>>
  BY DEF Handle, Reserve, Release, Emit, Correct, Die, Persist
<1>4. CASE Handle(r)
  <2>1. ReconcileTypeOK'
    BY <1>1, <1>2, <1>4, ReconciliationAssumption DEF Handle, Reserve, Release, Emit, Correct,
      Die, Advances, Ends, ReconcileTypeOK, Reconciler, State
  <2>2. PICK s \in State : request' = [request EXCEPT ![r] = s]
    BY <1>4 DEF Handle, Reserve, Release, Emit, Correct, Die, Advances, State
  <2>3. request'[r] = s /\ \A q \in Requests : q # r => request'[q] = request[q]
    BY <1>1, <2>2 DEF ReconcileTypeOK
  <2>4. /\ Contribution(r) \in Int /\ Contribution(r)' \in Int
        /\ counter' - counter = Contribution(r)' - Contribution(r)
        /\ Weight(r) <= Weight(r)'
    <3>1. PICK k \in Int, p \in Nat, a \in Nat :
            k = counter /\ p = Projected[r] /\ a = Actual[r]
      BY <1>2
    <3>2. \/ request[r] = "new" /\ s = "held" /\ counter' = k + p
          \/ request[r] = "held" /\ s = "released" /\ counter' = k - p
          \/ request[r] = "held" /\ s \in {"emitted", "orphaned"} /\ counter' = k
          \/ request[r] = "emitted" /\ s = "cut" /\ counter' = k
          \/ request[r] = "emitted" /\ s = "settled" /\ counter' = k + a - p
      BY <1>1, <1>4, <2>3, <3>1 DEF Handle, Reserve, Release, Emit, Correct, Die, Advances,
        ReconcileTypeOK
    <3>3. CASE request[r] = "new" /\ s = "held" /\ counter' = k + p
      <4>1. Contribution(r) = 0 /\ Contribution(r)' = p /\ Weight(r) = 0 /\ Weight(r)' = p
        BY <2>3, <3>1, <3>3 DEF Contribution, Weight
      <4> QED BY <3>1, <3>3, <4>1
    <3>4. CASE request[r] = "held" /\ s = "released" /\ counter' = k - p
      <4>1. Contribution(r) = p /\ Contribution(r)' = 0 /\ Weight(r) = p /\ Weight(r)' = p
        BY <2>3, <3>1, <3>4 DEF Contribution, Weight
      <4> QED BY <3>1, <3>4, <4>1
    <3>5. CASE /\ request[r] \in {"held", "emitted"}
               /\ s \in {"emitted", "orphaned", "cut"} /\ counter' = k
      <4>1. Contribution(r) = p /\ Contribution(r)' = p /\ Weight(r) = p /\ Weight(r)' = p
        BY <2>3, <3>1, <3>5 DEF Contribution, Weight
      <4> QED BY <3>1, <3>5, <4>1
    <3>6. CASE request[r] = "emitted" /\ s = "settled" /\ counter' = k + a - p
      <4>1. Contribution(r) = p /\ Contribution(r)' = a
        BY <2>3, <3>1, <3>6 DEF Contribution
      <4>2. Weight(r) = p /\ Weight(r)' = IF a > p THEN a ELSE p
        BY <2>3, <3>1, <3>6 DEF Weight
      <4> QED BY <3>1, <3>6, <4>1, <4>2
    <3> QED BY <3>2, <3>3, <3>4, <3>5, <3>6
  <2>5. /\ Total(Contributions, N)'
              = Total(Contributions, N) - Contribution(r) + Contribution(r)'
        /\ Weights <= Weights'
    BY <1>1, <2>1, <2>3, <2>4, RequestSums
  <2>6. Forgiven' = Forgiven
    <3>1. Total(Contributions, N) \in Int /\ counter' \in Int
      BY <1>1, <2>1, SumTypes DEF ReconcileTypeOK
    <3>2. Forgiven' = Total(Contributions, N)' - counter'
      BY DEF Forgiven
    <3>3. Forgiven = Total(Contributions, N) - counter
      BY DEF Forgiven
    <3>4. PICK c, d \in Int : c = Contribution(r) /\ d = Contribution(r)'
      BY <2>4
    <3>5. counter' - counter = d - c
      BY <2>4, <3>4
    <3>6. Total(Contributions, N)' = Total(Contributions, N) - c + d
      BY <2>5, <3>4
    <3>7. PICK t, k, l \in Int : t = Total(Contributions, N) /\ k = counter /\ l = counter'
      BY <1>2, <3>1
    <3>8. l - k = d - c
      BY <3>5, <3>7
    <3>9. t - c + d - l = t - k
      BY <3>8
    <3> QED BY <3>2, <3>3, <3>6, <3>7, <3>9
  <2>7. recorded' = recorded
    BY <1>4 DEF Handle, Reserve, Release, Emit, Correct, Die
  <2>8. \A q \in recorded' : request'[q] \in {"emitted", "cut", "settled"}
    <3>1. request[r] \in {"emitted", "cut", "settled"} => s \in {"emitted", "cut", "settled"}
      BY <1>1, <1>4, <2>3 DEF Handle, Reserve, Release, Emit, Correct, Die, Advances,
        ReconcileTypeOK
    <3>2. recorded \subseteq Requests
      BY <1>1 DEF ReconcileTypeOK
    <3> QED BY <2>3, <2>7, <3>1, <3>2 DEF ForgivenessInv
  <2>9. \A w \in Replica : Repairing(w)' <= Repairing(w)
    <3>1. RecordedSpend' = RecordedSpend
      BY <2>7 DEF RecordedSpend
    <3>2. \A w \in Replica : Repairing(w)' = Repairing(w) /\ Repairing(w) \in Nat
      BY <1>1, <1>3, <3>1, RepairingTypes DEF Repairing
    <3> QED BY <3>2
  <2> QED BY <2>1, <2>5, <2>6, <2>8, <2>9, NoMoreForgiven
<1>5. CASE Persist(r)
  <2>1. ReconcileTypeOK'
    BY <1>1, <1>5 DEF Persist, ReconcileTypeOK
  <2>2. Weights' = Weights /\ Forgiven' = Forgiven
    BY <1>5 DEF Persist, Weights, WeightsOf, Weight, Forgiven, Contributions, Contribution
  <2>3. Weights <= Weights'
    BY <1>1, <2>2, SumTypes
  <2>4. \A q \in recorded' : request'[q] \in {"emitted", "cut", "settled"}
    BY <1>5 DEF Persist, ForgivenessInv
  <2>5. RecordedSpend <= RecordedSpend' /\ RecordedSpend \in Int /\ RecordedSpend' \in Int
    <3>1. PICK g : g = RecordsOf'
      OBVIOUS
    <3>2. \A q \in 1 .. N : Actual[q] \in Nat
      BY ReconciliationAssumption DEF Requests
    <3>3. g \in [1 .. N -> Int] /\ RecordsOf \in [1 .. N -> Int]
      BY <3>1, <3>2 DEF RecordsOf, Requests
    <3>4. \A q \in 1 .. N : RecordsOf[q] <= g[q]
      BY <1>5, <3>1, <3>2 DEF RecordsOf, Requests, Persist
    <3>5. Total(RecordsOf, N) <= Total(g, N)
      BY <1>2, <3>3, <3>4, TotalMonotone
    <3>6. RecordedSpend = Total(RecordsOf, N) /\ RecordedSpend' = Total(g, N)
      BY <3>1 DEF RecordedSpend, RecordsOf
    <3> QED BY <1>2, <3>3, <3>5, <3>6, TotalType
  <2>6. ASSUME NEW w \in Replica
        PROVE  Repairing(w)' <= Repairing(w)
    <3>1. counted[w] \in Int /\ drift[w] \in Nat
      BY <1>1 DEF ReconcileTypeOK, Reconciler
    <3> QED BY <1>3, <2>5, <3>1 DEF Repairing
  <2> QED BY <2>1, <2>2, <2>3, <2>4, <2>6, NoMoreForgiven
<1> QED BY <1>4, <1>5

LEMMA NextForgivenessInv == ForgivenessInv /\ [Next]_vars => ForgivenessInv'
<1> SUFFICES ASSUME ForgivenessInv, [Next]_vars
             PROVE  ForgivenessInv'
  OBVIOUS
<1>1. CASE OfReconciliation(ReconcileNext)
  <2>1. ASSUME NEW r \in Requests, Handle(r) \/ Persist(r)
        PROVE  ForgivenessInv'
    BY <2>1, RequestInv
  <2>2. ASSUME NEW w \in Replica, Pass(w) \/ Trouble(w)
        PROVE  ForgivenessInv'
    BY <2>2, ReadCounterInv, OtherPassInv DEF Pass
  <2> QED BY <1>1, <2>1, <2>2 DEF OfReconciliation, ReconcileNext, Reconciler
<1>2. CASE UNCHANGED reconcileVars
  BY <1>2 DEF reconcileVars, ForgivenessInv, ReconcileTypeOK, Forgiven, Contributions,
    Contribution,
    Weights, WeightsOf, Weight, Repairs, RepairsOf, Repairing, RecordedSpend
<1> QED BY <1>1, <1>2 DEF Next, OfScheduler, OfAlerts, vars

\* What a repair forgives beyond the bill is bounded: one exposure of the requests for every
\* replica that may repair.
LEMMA ForgivenessFollows == ForgivenessInv => ForgivenessBounded
<1> SUFFICES ASSUME ForgivenessInv PROVE ForgivenessBounded
  OBVIOUS
<1>1. ReconcileTypeOK
  BY DEF ForgivenessInv
<1>2. /\ N \in Nat /\ counter \in Int
      /\ Contributions \in [1 .. N -> Int] /\ WeightsOf \in [1 .. N -> Int]
      /\ RecordsOf \in [1 .. N -> Int] /\ Exposures \in [1 .. N -> Int]
      /\ \A r \in 1 .. N : WeightsOf[r] <= Exposures[r]
  BY <1>1, ReconcileTypes
<1>3. /\ Total(Contributions, N) \in Int /\ Weights \in Int /\ RecordedSpend \in Int
      /\ Total(Exposures, N) \in Int /\ Forgiven \in Int
      /\ RecordedSpend = Total(RecordsOf, N)
  BY <1>1, SumTypes
<1>4. RecordedSpend + Weights <= Total(Exposures, N) + Total(Contributions, N)
  <2> DEFINE f == [r \in 1 .. N |-> RecordsOf[r] + WeightsOf[r]]
             g == [r \in 1 .. N |-> Exposures[r] + Contributions[r]]
  <2>0. \A r \in 1 .. N : /\ RecordsOf[r] \in Int /\ WeightsOf[r] \in Int
                          /\ Exposures[r] \in Int /\ Contributions[r] \in Int
    BY <1>2
  <2>1. f \in [1 .. N -> Int] /\ g \in [1 .. N -> Int]
    BY <2>0
  <2>2. ASSUME NEW r \in 1 .. N
        PROVE  f[r] <= g[r]
    <3>1. Projected[r] \in Nat /\ Actual[r] \in Nat
      BY ReconciliationAssumption DEF Requests
    <3>2. r \in recorded => request[r] \in {"emitted", "cut", "settled"}
      BY DEF ForgivenessInv
    <3>3. f[r] = (IF r \in recorded THEN Actual[r] ELSE 0) + Weight(r)
      BY DEF RecordsOf, WeightsOf, Requests
    <3>4. g[r] = Exposure(r) + Contribution(r)
      BY DEF Exposures, Contributions, Requests
    <3> HIDE DEF f, g
    <3> QED BY <3>1, <3>2, <3>3, <3>4 DEF Weight, Exposure, Contribution
  <2>3. Total(f, N) = Total(RecordsOf, N) + Total(WeightsOf, N)
        /\ Total(g, N) = Total(Exposures, N) + Total(Contributions, N)
    BY <1>2, TotalSum
  <2>4. Total(f, N) <= Total(g, N)
    <3> HIDE DEF f, g
    <3> QED BY <1>2, <2>1, <2>2, TotalMonotone
  <2> HIDE DEF f, g
  <2> QED BY <1>3, <2>3, <2>4 DEF Weights
<1>5. Repairs \in Int /\ Repairs >= 0
  <2> DEFINE z == [i \in 1 .. Replicas |-> 0]
  <2>1. z \in [1 .. Replicas -> Int] /\ Total(z, Replicas) = 0
    BY OrderIs, TotalZero
  <2>2. RepairsOf \in [1 .. Replicas -> Int] /\ Repairs \in Int
    BY <1>1, RepairingTypes
  <2>3. \A i \in 1 .. Replicas : z[i] <= RepairsOf[i]
    BY <1>1, RepairingTypes, OrderIs DEF RepairsOf, IsOrder
  <2> HIDE DEF z
  <2>4. Total(z, Replicas) <= Total(RepairsOf, Replicas)
    BY <2>1, <2>2, <2>3, OrderIs, TotalMonotone
  <2> QED BY <2>1, <2>2, <2>4 DEF Repairs
<1>6. Weights <= Total(Exposures, N)
  BY <1>2, TotalMonotone DEF Weights
<1>7. PICK k, x, y \in Int : k = Replicas /\ x = Weights /\ y = Total(Exposures, N)
  BY <1>3, OrderIs
<1>8. k * x - x <= k * y - y
  <2>1. k - 1 \in Nat
    BY <1>7, OrderIs
  <2>2. (k - 1) * x <= (k - 1) * y
    BY <2>1, <1>6, <1>7, Multiples
  <2>3. (k - 1) * x = k * x - x /\ (k - 1) * y = k * y - y
    BY <1>7
  <2> QED BY <2>2, <2>3
<1>9. Forgiven + Repairs <= k * x
  BY <1>7 DEF ForgivenessInv
<1>10. PICK m, n \in Int : m = k * x /\ n = k * y
  BY <1>7
<1>11. m - x <= n - y /\ Forgiven + Repairs <= m
  BY <1>8, <1>9, <1>10
<1>12. Forgiven = Total(Contributions, N) - counter
  BY DEF Forgiven
<1>13. RecordedSpend + x <= y + Total(Contributions, N)
  BY <1>4, <1>7
<1>14. RecordedSpend - counter <= n
  <2>1. PICK c, t, s, f, d \in Int :
          /\ c = counter /\ t = Total(Contributions, N) /\ s = RecordedSpend
          /\ f = Forgiven /\ d = Repairs
    BY <1>2, <1>3, <1>5
  <2>2. f = t - c /\ s + x <= y + t /\ m - x <= n - y /\ f + d <= m /\ d >= 0
    BY <1>5, <1>11, <1>12, <1>13, <2>1
  <2>3. s - c <= n
    BY <2>2
  <2> QED BY <2>1, <2>3
<1>15. n = Cardinality(Reconciler) * Total([r \in Requests |-> Exposure(r)], N)
  BY <1>7, <1>10 DEF Replicas, Reconciler, Exposures
<1> QED BY <1>14, <1>15 DEF ForgivenessBounded

\* However passes of different replicas overlap with each other and with traffic, the
\* counter never falls below the records by more than one exposure for every replica that
\* may repair.
THEOREM ForgivenessBoundedAlways == Spec => []ForgivenessBounded
BY InitForgivenessInv, NextForgivenessInv, ForgivenessFollows, PTL DEF Spec

===============================================================================
