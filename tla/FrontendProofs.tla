---------------------------- MODULE FrontendProofs ----------------------------
(***************************************************************************)
(* What MCFrontend checks of the windows and of the door, for any number   *)
(* of callers, keys and replicas, clocks, limits and lives.                *)
(***************************************************************************)
EXTENDS MCFrontend, Totals

-----------------------------------------------------------------------------
(* Clocks and counts                                                       *)

Most == Max({Skew[r] : r \in Replica})
Least == Min({Skew[r] : r \in Replica})

\* A non-empty set of numbers has the least one that Min chooses.
LEMMA MinIs ==
  ASSUME NEW T, T \subseteq Nat, T # {}
  PROVE  Min(T) \in T /\ \A y \in T : Min(T) <= y
<1>1. \E x \in T : \A y \in T : x <= y
  BY Minimum
<1> QED BY <1>1 DEF Min

\* Some replica's clock is ahead of all others: the one ahead of which the fewest are.
LEMMA MaxIs == Most \in Nat /\ \A r \in Replica : Skew[r] <= Most
<1> DEFINE Ahead(r) == {s \in Replica : Skew[s] > Skew[r]}
           F == {Ahead(r) : r \in Replica}
           R == StrictSubsetOrdering(Replica)
<1>0. Skew \in [Replica -> Nat] /\ Replica # {} /\ IsFiniteSet(Replica)
  BY LimiterAssumption
<1>1. IsWellFoundedOn(R, FiniteSubsetsOf(Replica))
  BY FS_StrictSubsetOrderingWellFounded
<1>2. F \subseteq FiniteSubsetsOf(Replica) /\ F # {}
  <2>1. \A r \in Replica : Ahead(r) \subseteq Replica /\ IsFiniteSet(Ahead(r))
    BY <1>0, FS_Subset
  <2> HIDE DEF Ahead
  <2> QED BY <1>0, <2>1 DEF FiniteSubsetsOf
<1> HIDE DEF F, R
<1>3. \E x \in F : \A y \in F : ~ (<<y, x>> \in R)
  BY <1>1, <1>2, WFMin, Zenon
<1> USE DEF F, R
<1>4. PICK r \in Replica : \A s \in Replica : ~ (<<Ahead(s), Ahead(r)>> \in R)
  BY <1>3
<1>5. ASSUME NEW s \in Replica PROVE Skew[s] <= Skew[r]
  <2>1. SUFFICES ASSUME Skew[s] > Skew[r] PROVE FALSE
    BY <1>0
  <2>2. Ahead(s) \subseteq Ahead(r) /\ s \in Ahead(r) /\ s \notin Ahead(s)
    BY <1>0, <2>1
  <2>3. Ahead(s) # Ahead(r) /\ Ahead(r) \subseteq Replica /\ Ahead(s) \subseteq Replica
    BY <2>2
  <2> QED BY <1>4, <2>2, <2>3 DEF StrictSubsetOrdering
<1>6. \E x \in {Skew[s] : s \in Replica} : \A y \in {Skew[s] : s \in Replica} : x >= y
  BY <1>0, <1>5
<1> QED BY <1>0, <1>6 DEF Most, Max

\* Two clocks differ by MaxSkew at most.
LEMMA Clocks ==
  /\ Most \in Nat /\ Least \in Nat /\ MaxSkew \in Nat /\ MaxSkew = Most - Least
  /\ \A r \in Replica : Skew[r] \in Nat /\ Least <= Skew[r] /\ Skew[r] <= Most
<1>1. {Skew[r] : r \in Replica} \subseteq Nat /\ {Skew[r] : r \in Replica} # {}
  BY LimiterAssumption
<1>2. Least \in {Skew[r] : r \in Replica} /\ \A r \in Replica : Least <= Skew[r]
  BY <1>1, MinIs DEF Least
<1>3. MaxSkew = Most - Least
  BY DEF MaxSkew, Most, Least
<1> QED BY <1>1, <1>2, <1>3, MaxIs, LimiterAssumption

\* A set that gains or loses one element.
LEMMA CountMoves ==
  ASSUME NEW S, NEW T, NEW c, IsFiniteSet(S), S \ {c} = T \ {c}
  PROVE  /\ IsFiniteSet(T) /\ Cardinality(S) \in Nat /\ Cardinality(T) \in Nat
         /\ c \in T /\ c \notin S => Cardinality(T) = Cardinality(S) + 1
         /\ c \notin T /\ c \in S => Cardinality(T) = Cardinality(S) - 1
         /\ (c \in T <=> c \in S) => Cardinality(T) = Cardinality(S)
<1>1. CASE c \in T /\ c \notin S
  <2>1. T = S \cup {c}
    BY <1>1
  <2> QED BY <1>1, <2>1, FS_AddElement, FS_CardinalityType
<1>2. CASE c \notin T /\ c \in S
  <2>1. T = S \ {c}
    BY <1>2
  <2> QED BY <1>2, <2>1, FS_RemoveElement, FS_CardinalityType
<1>3. CASE c \in T <=> c \in S
  <2>1. T = S
    BY <1>3
  <2> QED BY <1>3, <2>1, FS_CardinalityType
<1> QED BY <1>1, <1>2, <1>3

-----------------------------------------------------------------------------
(* The windows                                                             *)

Entries == [score : Nat, member : Nat]

Windows == [entries : SUBSET Entries, expires : Nat]

Checks == [pc : {"idle", "checking"}, bucket : Bucket \cup {None}, replica : Replica \cup {None}]

LimiterTyped ==
  /\ now \in Nat
  /\ windows \in [Bucket -> Windows]
  /\ checks \in [Caller -> Checks]
  /\ \A c \in Caller :
       checks[c].pc = "checking" => checks[c].bucket \in Bucket /\ checks[c].replica \in Replica
  /\ admissions \in [Bucket -> Seq([at : Nat, entry : Entries])]
  /\ DOMAIN refusals = Bucket

\* A window never holds more entries than it admits.
Fits(b) ==
  /\ IsFiniteSet(windows[b].entries) /\ Cardinality(windows[b].entries) <= Limit[b]
  /\ windows[b].expires <= now + Window

\* Admissions follow each other, and their window outlasts them.
Ordered(b) ==
  \A i \in DOMAIN admissions[b] :
    /\ admissions[b][i].at <= now /\ admissions[b][i].at + Window <= windows[b].expires
    /\ admissions[b][i].entry.score >= admissions[b][i].at + Least
    /\ \A j \in i .. Len(admissions[b]) : admissions[b][i].at <= admissions[b][j].at

\* No clock can have dropped the entry of an admission so recent.
Recent(b, i) == now < admissions[b][i].at + Window - MaxSkew

\* The entries of recent admissions are still there, and each its own.
Remembered(b) ==
  \A i \in DOMAIN admissions[b] :
    Recent(b, i) =>
      /\ admissions[b][i].entry \in windows[b].entries
      /\ \A j \in DOMAIN admissions[b] :
           Recent(b, j) /\ admissions[b][j].entry = admissions[b][i].entry => j = i

\* Once a client has waited as told, some entry it waited for is gone by every clock.
Awaited(b) ==
  LET f == refusals[b]
  IN  f # None =>
        /\ f.at \in Nat /\ f.wait \in Nat
        /\ \E e \in windows[b].entries :
             e.score + Window <= f.at + Most + (f.wait + 1) * Second

After(b, i) ==
  {j \in i .. Len(admissions[b]) :
     admissions[b][j].at < admissions[b][i].at + Window - MaxSkew}

Holds(b) == \A i \in DOMAIN admissions[b] : Cardinality(After(b, i)) <= Limit[b]

WindowInv(b) == Fits(b) /\ Ordered(b) /\ Remembered(b) /\ Awaited(b) /\ Holds(b)

LimiterInv == LimiterTyped /\ \A b \in Bucket : WindowInv(b)

LEMMA Bounds ==
  /\ Window \in Nat /\ Second \in Nat /\ 1 <= Window /\ 1 <= Second
  /\ \A b \in Bucket : Limit[b] \in Nat /\ 1 <= Limit[b]
  BY LimiterAssumption

\* The elements of a sequence of admissions.
LEMMA AdmissionFacts ==
  ASSUME NEW s \in Seq([at : Nat, entry : Entries])
  PROVE  /\ Len(s) \in Nat /\ DOMAIN s = 1 .. Len(s)
         /\ \A i \in DOMAIN s :
              /\ i \in Nat /\ s[i] \in [at : Nat, entry : Entries]
              /\ s[i].at \in Nat /\ s[i].entry \in Entries /\ s[i].entry.score \in Nat
<1> DEFINE A == [at : Nat, entry : Entries]
<1>0. s \in Seq(A)
  OBVIOUS
<1> HIDE DEF A
<1>1. Len(s) \in Nat /\ DOMAIN s = 1 .. Len(s) /\ \A i \in DOMAIN s : i \in Nat /\ s[i] \in A
  BY <1>0
<1> USE DEF A
<1>2. ASSUME NEW x \in [at : Nat, entry : Entries]
      PROVE  x.at \in Nat /\ x.entry \in Entries /\ x.entry.score \in Nat
  BY DEF Entries
<1> QED BY <1>1, <1>2

LEMMA LimiterBegin == now = 0 /\ LimiterInit => LimiterInv
<1> SUFFICES ASSUME now = 0, LimiterInit PROVE LimiterInv
  OBVIOUS
<1>1. LimiterTyped
  BY DEF LimiterInit, LimiterTyped, Windows, Checks, Idle
<1>2. ASSUME NEW b \in Bucket PROVE WindowInv(b)
  <2>1. /\ windows[b].entries = {} /\ windows[b].expires = 0 /\ admissions[b] = <<>>
        /\ refusals[b] = None
    BY DEF LimiterInit
  <2>2. DOMAIN admissions[b] = {}
    BY <2>1
  <2>3. Fits(b)
    BY <2>1, Bounds, FS_EmptySet DEF Fits
  <2>4. Awaited(b)
    BY <2>1 DEF Awaited
  <2> QED BY <2>2, <2>3, <2>4 DEF WindowInv, Ordered, Remembered, Holds
<1> QED BY <1>1, <1>2 DEF LimiterInv

\* What a check keeps of a window holds the entries of recent admissions.
LEMMA TrimmedFacts ==
  ASSUME LimiterInv, NEW b \in Bucket, NEW r \in Replica
  PROVE  LET kept == Trimmed(b, Clock(r)) IN
         /\ kept \subseteq windows[b].entries /\ IsFiniteSet(kept) /\ Cardinality(kept) \in Nat
         /\ Cardinality(kept) <= Limit[b] /\ kept \subseteq Entries
         /\ \A e \in kept : e.score + Window > Clock(r)
         /\ \A i \in DOMAIN admissions[b] : Recent(b, i) => admissions[b][i].entry \in kept
<1> DEFINE kept == Trimmed(b, Clock(r))
<1>0. /\ LimiterTyped /\ Fits(b) /\ Ordered(b) /\ Remembered(b)
      /\ windows[b] \in Windows /\ now \in Nat
      /\ admissions[b] \in Seq([at : Nat, entry : Entries])
  BY DEF LimiterInv, WindowInv, LimiterTyped
<1>1. kept \subseteq windows[b].entries /\ \A e \in kept : e.score + Window > Clock(r)
  BY DEF Trimmed
<1>2. /\ IsFiniteSet(kept) /\ Cardinality(kept) \in Nat /\ kept \subseteq Entries
      /\ Cardinality(kept) <= Limit[b]
  BY <1>0, <1>1, Bounds, FS_Subset, FS_CardinalityType DEF Fits, Windows
<1>3. ASSUME NEW i \in DOMAIN admissions[b], Recent(b, i) PROVE admissions[b][i].entry \in kept
  <2> DEFINE a == admissions[b][i]
  <2>1. a.at \in Nat /\ a.entry.score \in Nat
    BY <1>0, AdmissionFacts
  <2>2. /\ a.at + Window <= windows[b].expires /\ a.entry.score >= a.at + Least
        /\ now < a.at + Window - MaxSkew
    BY <1>0, <1>3 DEF Ordered, Recent
  <2>3. windows[b].expires \in Nat /\ Skew[r] <= Most /\ Skew[r] \in Nat
    BY <1>0, Clocks DEF Windows
  <2> HIDE DEF a
  <2>4. now < windows[b].expires /\ a.entry.score + Window > now + Skew[r]
    <3>1. now \in Nat /\ Most \in Nat /\ Least \in Nat /\ MaxSkew = Most - Least /\ MaxSkew \in Nat
      BY <1>0, Clocks
    <3> QED BY <2>1, <2>2, <2>3, <3>1, Bounds
  <2> USE DEF a
  <2> QED BY <1>0, <1>3, <2>4 DEF Remembered, Trimmed, Clock
<1> QED BY <1>1, <1>2, <1>3

\* A new entry is none of those kept.
LEMMA EntryIsNew ==
  ASSUME NEW kept \in SUBSET Entries, IsFiniteSet(kept), NEW clock \in Nat
  PROVE  /\ Entry(kept, clock) \in Entries /\ Entry(kept, clock) \notin kept
         /\ Entry(kept, clock).score = clock
<1> DEFINE members == {e.member : e \in kept}
           n == Cardinality(kept)
           free == 1 .. n + 1 \ members
<1>1. n \in Nat
  BY FS_CardinalityType
<1>2. free # {}
  <2>1. SUFFICES ASSUME 1 .. n + 1 \subseteq members PROVE FALSE
    OBVIOUS
  <2>2. IsFiniteSet(1 .. n + 1) /\ Cardinality(1 .. n + 1) = n + 1
    BY <1>1, FS_Interval
  <2> DEFINE f == [m \in 1 .. n + 1 |-> CHOOSE e \in kept : e.member = m]
  <2>3. \A m \in 1 .. n + 1 : f[m] \in kept /\ f[m].member = m
    BY <2>1
  <2>4. f \in [1 .. n + 1 -> kept]
    BY <2>3
  <2> HIDE DEF f
  <2>5. n < n + 1
    BY <1>1
  <2>6. \E x, y \in 1 .. n + 1 : x # y /\ f[x] = f[y]
    BY <2>2, <2>4, <2>5, FS_PigeonHole
  <2> QED BY <2>3, <2>6
<1>3. free \subseteq Nat
  BY <1>1
<1> HIDE DEF free
<1>4. Min(free) \in free
  BY <1>2, <1>3, MinIs
<1> USE DEF free
<1>5. Min(free) \in Nat /\ Min(free) \notin members
  BY <1>1, <1>4
<1>6. Entry(kept, clock) = [score |-> clock, member |-> Min(free)]
  BY DEF Entry
<1>7. Entry(kept, clock).score = clock /\ Entry(kept, clock).member = Min(free)
  BY <1>6
<1>8. \A e \in kept : e.member \in members
  OBVIOUS
<1> HIDE DEF members, free
<1>9. Entry(kept, clock) \in Entries
  BY <1>5, <1>6 DEF Entries
<1> QED BY <1>5, <1>7, <1>8, <1>9

\* A window nobody asks keeps its invariant while time passes.
LEMMA OtherWindows ==
  ASSUME LimiterInv, NEW b \in Bucket, now' \in {now, now + 1},
         windows'[b] = windows[b], admissions'[b] = admissions[b], refusals'[b] = refusals[b]
  PROVE  WindowInv(b)'
<1>0. WindowInv(b) /\ now \in Nat /\ windows[b] \in Windows
      /\ admissions[b] \in Seq([at : Nat, entry : Entries])
  BY DEF LimiterInv, LimiterTyped
<1>1. \A i \in DOMAIN admissions[b] : admissions[b][i].at \in Nat
  BY <1>0, AdmissionFacts
<1>2. Fits(b)'
  BY <1>0, Bounds DEF WindowInv, Fits, Windows
<1>3. Ordered(b)'
  BY <1>0, <1>1 DEF WindowInv, Ordered
<1>4. Remembered(b)'
  <2>1. ASSUME NEW i \in DOMAIN admissions[b], Recent(b, i)' PROVE Recent(b, i)
    <3>1. now' < admissions[b][i].at + Window - MaxSkew
      BY <2>1 DEF Recent
    <3>2. now <= now' /\ now' \in Nat /\ now \in Nat
      BY <1>0
    <3>3. admissions[b][i].at + Window - MaxSkew \in Int
      BY <1>1, Bounds, Clocks
    <3> QED BY <3>1, <3>2, <3>3 DEF Recent
  <2> QED BY <1>0, <2>1 DEF WindowInv, Remembered
<1>5. Awaited(b)'
  BY <1>0 DEF WindowInv, Awaited
<1>6. Holds(b)'
  BY <1>0 DEF WindowInv, Holds, After
<1> QED BY <1>2, <1>3, <1>4, <1>5, <1>6 DEF WindowInv

\* Whoever is let in is one more of those since any recent admission, and the window had room.
LEMMA AdmitHolds ==
  ASSUME LimiterInv, NEW b \in Bucket, NEW r \in Replica,
         Cardinality(Trimmed(b, Clock(r))) < Limit[b],
         NEW a \in [at : Nat, entry : Entries], a.at = now,
         admissions'[b] = Append(admissions[b], a)
  PROVE  Holds(b)'
<1> DEFINE s == admissions[b]
           kept == Trimmed(b, Clock(r))
<1>0. /\ s \in Seq([at : Nat, entry : Entries]) /\ now \in Nat
      /\ Ordered(b) /\ Remembered(b) /\ Holds(b)
  BY DEF LimiterInv, LimiterTyped, WindowInv
<1>1. PICK n \in Nat :
        n = Len(s) /\ DOMAIN s = 1 .. n /\ \A i \in 1 .. n : i \in Nat /\ s[i].at \in Nat
  BY <1>0, AdmissionFacts
<1>2. /\ admissions'[b] \in Seq([at : Nat, entry : Entries])
      /\ Len(admissions'[b]) = n + 1 /\ DOMAIN admissions'[b] = 1 .. n + 1
      /\ admissions'[b][n + 1] = a /\ \A i \in 1 .. n : admissions'[b][i] = s[i]
  <2> DEFINE A == [at : Nat, entry : Entries]
  <2>1. s \in Seq(A) /\ a \in A
    BY <1>0
  <2> HIDE DEF A, s
  <2>2. /\ Append(s, a) \in Seq(A) /\ Len(Append(s, a)) = n + 1
        /\ DOMAIN Append(s, a) = 1 .. n + 1
        /\ Append(s, a)[n + 1] = a /\ \A i \in 1 .. n : Append(s, a)[i] = s[i]
    BY <1>1, <2>1
  <2> USE DEF A, s
  <2> QED BY <2>2
<1>3. /\ IsFiniteSet(kept) /\ Cardinality(kept) \in Nat /\ Limit[b] \in Nat /\ 1 <= Limit[b]
      /\ Cardinality(kept) + 1 <= Limit[b]
  BY TrimmedFacts, Bounds
<1> HIDE DEF s, kept
<1>4. \A i \in 1 .. n + 1 : After(b, i)' \subseteq i .. n + 1
  BY <1>2 DEF After
<1>5. Cardinality(After(b, n + 1)') <= Limit[b]
  <2>1. n + 1 \in 1 .. n + 1 /\ n + 1 .. n + 1 = {n + 1}
    BY <1>1
  <2>2. After(b, n + 1)' \subseteq {n + 1}
    BY <1>4, <2>1
  <2>3. IsFiniteSet({n + 1}) /\ Cardinality({n + 1}) = 1
    BY FS_Singleton
  <2>4. /\ IsFiniteSet(After(b, n + 1)') /\ Cardinality(After(b, n + 1)') <= 1
    BY <2>2, <2>3, FS_Subset
  <2>5. Cardinality(After(b, n + 1)') \in Nat
    BY <2>4, FS_CardinalityType
  <2> QED BY <1>3, <2>4, <2>5
<1>6. ASSUME NEW i \in 1 .. n, Recent(b, i) PROVE Cardinality(After(b, i)') <= Limit[b]
  <2>0. i \in Nat /\ i <= n /\ 1 <= i
    BY <1>1
  <2>1. ASSUME NEW j \in i .. n PROVE j \in 1 .. n /\ Recent(b, j)
    <3>1. j \in 1 .. n
      BY <1>1, <2>0
    <3>2. s[i].at <= s[j].at /\ s[i].at \in Nat /\ s[j].at \in Nat
      BY <1>0, <1>1, <3>1 DEF Ordered, s
    <3>3. now < s[i].at + Window - MaxSkew
      BY <1>6 DEF Recent, s
    <3>4. now < s[j].at + Window - MaxSkew
      <4>1. now \in Nat /\ Window \in Nat /\ MaxSkew \in Nat
        BY <1>0, Bounds, Clocks
      <4> QED BY <3>2, <3>3, <4>1
    <3> QED BY <3>1, <3>4 DEF Recent, s
  <2>2. \A j \in i .. n : s[j].entry \in kept
    BY <1>1, <2>1, TrimmedFacts DEF s, kept
  <2> DEFINE f == [j \in i .. n |-> s[j].entry]
  <2>3. f \in [i .. n -> kept]
    BY <2>2
  <2>4. \A j, k \in i .. n : f[j] = f[k] => j = k
    BY <1>0, <1>1, <2>1 DEF Remembered, s
  <2>5. IsFiniteSet(i .. n) /\ Cardinality(i .. n) = n - i + 1
    BY <1>1, <2>0, FS_Interval
  <2>6. IsFiniteSet(i .. n + 1) /\ Cardinality(i .. n + 1) = n + 1 - i + 1
    <3> DEFINE m == n + 1
    <3>1. i \in Int /\ m \in Int /\ ~ (i > m)
      BY <1>1, <2>0
    <3> HIDE DEF m
    <3>2. IsFiniteSet(i .. m) /\ Cardinality(i .. m) = m - i + 1
      BY <3>1, FS_Interval
    <3> QED BY <3>2 DEF m
  <2> HIDE DEF f
  <2>7. ~ (Cardinality(kept) < Cardinality(i .. n))
    BY <1>3, <2>3, <2>4, <2>5, FS_PigeonHole
  <2>8. n + 1 - i + 1 <= Limit[b]
    BY <1>1, <1>3, <2>0, <2>5, <2>7
  <2>9. After(b, i)' \subseteq i .. n + 1
    BY <1>1, <1>4, <2>0
  <2>10. Cardinality(After(b, i)') <= Cardinality(i .. n + 1) /\ Cardinality(After(b, i)') \in Nat
    BY <2>6, <2>9, FS_Subset, FS_CardinalityType
  <2> QED BY <1>1, <1>3, <2>0, <2>6, <2>8, <2>10
<1>7. ASSUME NEW i \in 1 .. n, ~ Recent(b, i) PROVE Cardinality(After(b, i)') <= Limit[b]
  <2>1. n + 1 \notin After(b, i)'
    <3>1. ~ (now < s[i].at + Window - MaxSkew) /\ admissions'[b][i] = s[i]
      BY <1>2, <1>7 DEF Recent, s
    <3> QED BY <1>2, <3>1 DEF After
  <2>2. After(b, i)' = After(b, i)
    <3>1. \A j \in i .. n : admissions'[b][j] = s[j]
      BY <1>1, <1>2
    <3>2. admissions'[b][i] = s[i] /\ i .. n + 1 = i .. n \cup {n + 1}
      BY <1>1, <1>2
    <3> DEFINE bound == s[i].at + Window - MaxSkew
    <3>3. After(b, i)' = {j \in i .. n + 1 : admissions'[b][j].at < bound}
      BY <1>2, <3>2 DEF After
    <3>4. After(b, i) = {j \in i .. n : s[j].at < bound}
      BY <1>1 DEF After, s
    <3> HIDE DEF bound
    <3> QED BY <2>1, <3>1, <3>2, <3>3, <3>4
  <2> QED BY <1>0, <1>1, <2>2 DEF Holds, s
<1>8. \A i \in 1 .. n + 1 : i \in 1 .. n \/ i = n + 1
  BY <1>1
<1> QED BY <1>2, <1>5, <1>6, <1>7, <1>8 DEF Holds

\* What an answered check reads.
LEMMA CheckFacts ==
  ASSUME LimiterInv, NEW c \in Caller, checks[c].pc = "checking"
  PROVE  /\ checks[c].bucket \in Bucket /\ checks[c].replica \in Replica
         /\ checks[c] \in Checks
         /\ Clock(checks[c].replica) \in Nat
         /\ Clock(checks[c].replica) <= now + Most /\ Clock(checks[c].replica) >= now + Least
<1>1. /\ checks[c].bucket \in Bucket /\ checks[c].replica \in Replica /\ checks[c] \in Checks
      /\ now \in Nat
  BY DEF LimiterInv, LimiterTyped
<1>2. Skew[checks[c].replica] \in Nat
  BY <1>1, Clocks
<1> QED BY <1>1, <1>2, Clocks DEF Clock

\* What becomes of the checks keeps their type.
LEMMA ChecksTyped ==
  ASSUME LimiterTyped, NEW c \in Caller, NEW k \in Checks, checks' = [checks EXCEPT ![c] = k],
         k.pc = "checking" => k.bucket \in Bucket /\ k.replica \in Replica
  PROVE  /\ checks' \in [Caller -> Checks]
         /\ \A d \in Caller : checks'[d].pc = "checking" =>
              checks'[d].bucket \in Bucket /\ checks'[d].replica \in Replica
  BY DEF LimiterTyped

LEMMA IdleTyped == Idle \in Checks /\ Idle.pc # "checking"
  BY DEF Idle, Checks

LEMMA AdmitStep ==
  ASSUME LimiterInv, now' = now, NEW c \in Caller, Admit(c)
  PROVE  LimiterInv'
<1>a. PICK b \in Bucket, r \in Replica : b = checks[c].bucket /\ r = checks[c].replica
  BY CheckFacts DEF Admit
<1> DEFINE clock == Clock(r)
           kept == Trimmed(b, clock)
           e == Entry(kept, clock)
           s == admissions[b]
<1>0. /\ checks[c].pc = "checking" /\ Cardinality(kept) < Limit[b]
      /\ windows' = [windows EXCEPT ![b] = [entries |-> kept \cup {e}, expires |-> now + Window]]
      /\ admissions' = [admissions EXCEPT ![b] = Append(s, [at |-> now, entry |-> e])]
      /\ refusals' = [refusals EXCEPT ![b] = None]
      /\ checks' = [checks EXCEPT ![c] = IF b \in Key THEN [checks[c] EXCEPT !.bucket = "org"]
                                                      ELSE Idle]
  BY <1>a DEF Admit
<1>1. /\ b \in Bucket /\ r \in Replica /\ checks[c] \in Checks
      /\ clock \in Nat /\ clock >= now + Least
  BY <1>0, <1>a, CheckFacts
<1>2. /\ LimiterTyped /\ Ordered(b) /\ Remembered(b) /\ now \in Nat
      /\ s \in Seq([at : Nat, entry : Entries])
  BY <1>1 DEF LimiterInv, WindowInv, LimiterTyped
<1>3. /\ kept \subseteq Entries /\ IsFiniteSet(kept) /\ Cardinality(kept) \in Nat
      /\ \A i \in DOMAIN s : Recent(b, i) => s[i].entry \in kept
  BY <1>1, TrimmedFacts
<1>4. e \in Entries /\ e \notin kept /\ e.score = clock
  BY <1>1, <1>3, EntryIsNew
<1> HIDE DEF e
<1> DEFINE a == [at |-> now, entry |-> e]
<1>5. a \in [at : Nat, entry : Entries] /\ a.at = now /\ a.entry = e
  BY <1>2, <1>4
<1> HIDE DEF a
<1>6. /\ windows'[b].entries = kept \cup {e} /\ windows'[b].expires = now + Window
      /\ admissions'[b] = Append(s, a) /\ refusals'[b] = None
  BY <1>0, <1>1, <1>2 DEF LimiterTyped, a
<1>7. Fits(b)'
  <2>1. IsFiniteSet(kept \cup {e}) /\ Cardinality(kept \cup {e}) = Cardinality(kept) + 1
    BY <1>3, <1>4, FS_AddElement
  <2>2. Cardinality(kept) + 1 <= Limit[b]
    <3>1. Cardinality(kept) < Limit[b] /\ Limit[b] \in Nat /\ Cardinality(kept) \in Nat
      BY <1>0, <1>3, Bounds
    <3> HIDE DEF kept
    <3> QED BY <3>1
  <2>3. windows'[b].expires <= now' + Window
    BY <1>2, <1>6, Bounds
  <2> HIDE DEF kept
  <2> QED BY <1>6, <2>1, <2>2, <2>3 DEF Fits
<1>b. PICK n \in Nat : n = Len(s)
  BY <1>2, AdmissionFacts
<1>8. /\ DOMAIN s = 1 .. n
      /\ Len(admissions'[b]) = n + 1 /\ DOMAIN admissions'[b] = 1 .. n + 1
      /\ admissions'[b] \in Seq([at : Nat, entry : Entries])
      /\ admissions'[b][n + 1] = a
      /\ \A i \in 1 .. n : /\ i \in Nat /\ admissions'[b][i] = s[i]
                           /\ s[i].at \in Nat /\ s[i].entry.score \in Nat
  <2>1. /\ DOMAIN s = 1 .. n
        /\ \A i \in DOMAIN s : i \in Nat /\ s[i].at \in Nat /\ s[i].entry.score \in Nat
    BY <1>2, <1>b, AdmissionFacts
  <2> DEFINE A == [at : Nat, entry : Entries]
  <2>2. s \in Seq(A) /\ a \in A
    BY <1>2, <1>5
  <2> HIDE DEF A, s
  <2>3. /\ Append(s, a) \in Seq(A) /\ Len(Append(s, a)) = n + 1
        /\ DOMAIN Append(s, a) = 1 .. n + 1
        /\ Append(s, a)[n + 1] = a /\ \A i \in 1 .. n : Append(s, a)[i] = s[i]
    BY <1>b, <2>1, <2>2
  <2>4. /\ admissions'[b] \in Seq(A) /\ Len(admissions'[b]) = n + 1
        /\ DOMAIN admissions'[b] = 1 .. n + 1
        /\ admissions'[b][n + 1] = a /\ \A i \in 1 .. n : admissions'[b][i] = s[i]
    BY <1>6, <2>3
  <2>5. admissions'[b] \in Seq([at : Nat, entry : Entries])
    BY <2>4 DEF A
  <2> QED BY <2>1, <2>4, <2>5
<1>9. \A i \in 1 .. n + 1 : i \in 1 .. n \/ i = n + 1
  BY <1>8
<1>10. Ordered(b)'
  <2>1. ASSUME NEW i \in 1 .. n
        PROVE  /\ s[i].at <= now /\ s[i].at + Window <= now + Window
               /\ s[i].entry.score >= s[i].at + Least
               /\ \A j \in i .. n + 1 : s[i].at <= admissions'[b][j].at
    <3>1. /\ s[i].at <= now /\ s[i].entry.score >= s[i].at + Least
          /\ \A j \in i .. n : s[i].at <= s[j].at
      BY <1>2, <1>b, <1>8 DEF Ordered
    <3>2. ASSUME NEW j \in i .. n + 1 PROVE s[i].at <= admissions'[b][j].at
      <4>1. (j \in 1 .. n /\ j \in i .. n) \/ j = n + 1
        BY <1>8
      <4> QED BY <1>5, <1>8, <3>1, <4>1
    <3>3. s[i].at + Window <= now + Window
      <4>1. now \in Nat /\ Window \in Nat /\ s[i].at \in Nat
        BY <1>2, <1>8, Bounds
      <4> QED BY <3>1, <4>1
    <3> QED BY <3>1, <3>2, <3>3
  <2>2. /\ a.at <= now /\ a.at + Window <= now + Window /\ a.entry.score >= a.at + Least
        /\ \A j \in n + 1 .. n + 1 : a.at <= admissions'[b][j].at
    <3>1. \A j \in n + 1 .. n + 1 : j = n + 1
      BY <1>8
    <3> QED BY <1>1, <1>2, <1>4, <1>5, <1>8, <3>1, Bounds
  <2> QED BY <1>6, <1>8, <1>9, <2>1, <2>2 DEF Ordered
<1>11. Remembered(b)'
  <2>1. \A i \in 1 .. n : Recent(b, i)' => Recent(b, i) /\ s[i].entry \in kept
    BY <1>3, <1>8 DEF Recent
  <2>2. ASSUME NEW i \in 1 .. n + 1, Recent(b, i)'
        PROVE  /\ admissions'[b][i].entry \in kept \cup {e}
               /\ i \in 1 .. n => admissions'[b][i].entry = s[i].entry /\ s[i].entry \in kept
               /\ i = n + 1 => admissions'[b][i].entry = e
    BY <1>5, <1>8, <1>9, <2>1, <2>2
  <2>3. ASSUME NEW i \in 1 .. n + 1, NEW j \in 1 .. n + 1, Recent(b, i)', Recent(b, j)',
               admissions'[b][j].entry = admissions'[b][i].entry
        PROVE  j = i
    <3>1. CASE i \in 1 .. n /\ j \in 1 .. n
      BY <1>2, <1>8, <2>1, <2>3, <3>1 DEF Remembered
    <3>2. CASE i = n + 1 \/ j = n + 1
      BY <1>4, <1>9, <2>2, <2>3, <3>2
    <3> QED BY <1>9, <3>1, <3>2
  <2> QED BY <1>6, <1>8, <2>2, <2>3 DEF Remembered
<1>12. Awaited(b)'
  BY <1>6 DEF Awaited
<1>13. Holds(b)'
  BY <1>0, <1>1, <1>5, <1>6, AdmitHolds
<1>14. ASSUME NEW d \in Bucket PROVE WindowInv(d)'
  <2>1. CASE d = b
    BY <1>7, <1>10, <1>11, <1>12, <1>13, <2>1 DEF WindowInv
  <2>2. CASE d # b
    <3>1. /\ windows'[d] = windows[d] /\ admissions'[d] = admissions[d]
          /\ refusals'[d] = refusals[d]
      BY <1>0, <1>2, <2>2 DEF LimiterTyped
    <3> QED BY <3>1, OtherWindows
  <2> QED BY <2>1, <2>2
<1>15. LimiterTyped'
  <2> DEFINE k == IF b \in Key THEN [checks[c] EXCEPT !.bucket = "org"] ELSE Idle
  <2>1. k \in Checks /\ (k.pc = "checking" => k.bucket \in Bucket /\ k.replica \in Replica)
    BY <1>1, <1>a, IdleTyped DEF Checks, Bucket
  <2> HIDE DEF k
  <2>2. checks' = [checks EXCEPT ![c] = k]
    BY <1>0 DEF k
  <2>3. /\ checks' \in [Caller -> Checks]
        /\ \A d \in Caller : checks'[d].pc = "checking" =>
             checks'[d].bucket \in Bucket /\ checks'[d].replica \in Replica
    BY <1>2, <2>1, <2>2, ChecksTyped
  <2>4. windows' \in [Bucket -> Windows]
    <3>1. [entries |-> kept \cup {e}, expires |-> now + Window] \in Windows
      BY <1>2, <1>3, <1>4, Bounds DEF Windows
    <3> QED BY <1>0, <1>2, <3>1 DEF LimiterTyped
  <2>5. admissions' \in [Bucket -> Seq([at : Nat, entry : Entries])]
    <3> DEFINE Q == Seq([at : Nat, entry : Entries])
    <3>1. admissions'[b] \in Q /\ admissions \in [Bucket -> Q]
      BY <1>2, <1>8 DEF LimiterTyped
    <3>2. admissions' = [admissions EXCEPT ![b] = admissions'[b]]
      BY <1>0, <1>1, <1>2 DEF LimiterTyped
    <3> HIDE DEF Q
    <3>3. admissions' \in [Bucket -> Q]
      BY <1>1, <3>1, <3>2
    <3> QED BY <3>3 DEF Q
  <2>6. DOMAIN refusals' = Bucket
    BY <1>0, <1>2 DEF LimiterTyped
  <2> QED BY <1>2, <2>3, <2>4, <2>5, <2>6 DEF LimiterTyped
<1> QED BY <1>14, <1>15 DEF LimiterInv

\* Of two numbers the larger.
LEMMA LargerOf ==
  ASSUME NEW x \in Nat, NEW y \in Nat
  PROVE  Max({x, y}) \in Nat /\ x <= Max({x, y}) /\ y <= Max({x, y})
<1>1. \E z \in {x, y} : \A w \in {x, y} : z >= w
  OBVIOUS
<1>2. Max({x, y}) \in {x, y} /\ \A w \in {x, y} : Max({x, y}) >= w
  BY <1>1 DEF Max
<1> QED BY <1>2

\* The wait is short by less than a second.
LEMMA WaitFacts ==
  ASSUME NEW kept \in SUBSET Entries, kept # {}, NEW clock \in Nat,
         \A e \in kept : e.score + Window > clock
  PROVE  /\ RetryAfter(kept, clock) \in Nat
         /\ \E e \in kept : e.score + Window <= clock + (RetryAfter(kept, clock) + 1) * Second
<1> DEFINE scores == {e.score : e \in kept}
<1>1. scores \subseteq Nat /\ scores # {}
  BY DEF Entries
<1>2. Min(scores) \in scores
  BY <1>1, MinIs
<1>3. PICK e \in kept : e.score = Min(scores)
  BY <1>2
<1>4. e.score \in Nat /\ Oldest(kept) = e.score
  BY <1>1, <1>3 DEF Oldest
<1> DEFINE x == e.score + Window - clock
           q == x \div Second
<1>5. x \in Nat
  BY <1>4, Bounds
<1> HIDE DEF x
<1>6. q \in Nat /\ x <= (q + 1) * Second
  BY <1>5, Bounds
<1>7. RetryAfter(kept, clock) = Max({1, q})
  BY <1>4 DEF RetryAfter, x
<1>8. RetryAfter(kept, clock) \in Nat /\ q <= RetryAfter(kept, clock)
  BY <1>6, <1>7, LargerOf
<1> DEFINE w == RetryAfter(kept, clock)
<1> HIDE DEF q, w
<1>9. w \in Nat /\ q <= w /\ q \in Nat
  BY <1>6, <1>8 DEF w
<1>10. (q + 1) * Second <= (w + 1) * Second
  BY <1>9, Bounds
<1>11. (q + 1) * Second \in Nat /\ (w + 1) * Second \in Nat
  BY <1>9, Bounds
<1>12. x <= (w + 1) * Second
  BY <1>5, <1>6, <1>10, <1>11
<1>13. e.score + Window <= clock + (w + 1) * Second
  BY <1>4, <1>11, <1>12, Bounds DEF x
<1> QED BY <1>8, <1>13 DEF w

LEMMA RefuseStep ==
  ASSUME LimiterInv, now' = now, NEW c \in Caller, Refuse(c)
  PROVE  LimiterInv'
<1>a. PICK b \in Bucket, r \in Replica : b = checks[c].bucket /\ r = checks[c].replica
  BY CheckFacts DEF Refuse
<1> DEFINE clock == Clock(r)
           kept == Trimmed(b, clock)
           wait == RetryAfter(kept, clock)
           s == admissions[b]
<1>0. /\ checks[c].pc = "checking" /\ Cardinality(kept) >= Limit[b]
      /\ windows' = [windows EXCEPT ![b] = [entries |-> kept, expires |-> now + Window]]
      /\ admissions' = admissions
      /\ refusals' = [refusals EXCEPT ![b] = [at |-> now, wait |-> wait]]
      /\ checks' = [checks EXCEPT ![c] = Idle]
  BY <1>a DEF Refuse
<1>1. clock \in Nat /\ clock <= now + Most
  BY <1>0, <1>a, CheckFacts
<1>2. /\ LimiterTyped /\ Ordered(b) /\ Remembered(b) /\ Holds(b) /\ now \in Nat
      /\ s \in Seq([at : Nat, entry : Entries])
  BY DEF LimiterInv, WindowInv, LimiterTyped
<1>3. /\ kept \subseteq Entries /\ IsFiniteSet(kept) /\ Cardinality(kept) \in Nat
      /\ Cardinality(kept) <= Limit[b] /\ \A e \in kept : e.score + Window > clock
      /\ \A i \in DOMAIN s : Recent(b, i) => s[i].entry \in kept
  BY TrimmedFacts
<1>4. kept # {}
  <2>1. Cardinality(kept) >= 1
    <3>1. Cardinality(kept) >= Limit[b] /\ Limit[b] \in Nat /\ 1 <= Limit[b]
      BY <1>0, Bounds
    <3> HIDE DEF kept
    <3> QED BY <1>3, <3>1
  <2> HIDE DEF kept
  <2> QED BY <2>1, FS_EmptySet
<1>5. PICK e \in kept : wait \in Nat /\ e.score + Window <= clock + (wait + 1) * Second
  BY <1>1, <1>3, <1>4, WaitFacts
<1> HIDE DEF wait
<1>6. /\ windows'[b].entries = kept /\ windows'[b].expires = now + Window
      /\ admissions'[b] = s /\ refusals'[b] = [at |-> now, wait |-> wait]
  BY <1>0, <1>2 DEF LimiterTyped
<1>7. Fits(b)'
  <2>1. windows'[b].expires <= now' + Window
    BY <1>2, <1>6, Bounds
  <2> HIDE DEF kept
  <2> QED BY <1>3, <1>6, <2>1 DEF Fits
<1>8. \A i \in DOMAIN s : s[i].at \in Nat
  BY <1>2, AdmissionFacts
<1>9. Ordered(b)'
  <2>1. \A i \in DOMAIN s : s[i].at + Window <= now + Window
    BY <1>2, <1>8, Bounds DEF Ordered
  <2> QED BY <1>2, <1>6, <2>1 DEF Ordered
<1>10. Remembered(b)'
  <2>1. \A i \in DOMAIN s : Recent(b, i)' => Recent(b, i) /\ s[i].entry \in kept
    BY <1>3, <1>6 DEF Recent
  <2> HIDE DEF kept
  <2> QED BY <1>2, <1>6, <2>1 DEF Remembered
<1>11. Awaited(b)'
  <2>1. e.score + Window <= now + Most + (wait + 1) * Second
    <3>1. (wait + 1) * Second \in Nat /\ e.score \in Nat
      BY <1>3, <1>5, Bounds DEF Entries
    <3> HIDE DEF clock
    <3> QED BY <1>1, <1>2, <1>5, <3>1, Bounds, Clocks
  <2> HIDE DEF kept
  <2>2. refusals'[b].at = now /\ refusals'[b].wait = wait
    BY <1>6
  <2>3. e \in windows'[b].entries
    BY <1>6
  <2> QED BY <1>2, <1>5, <2>1, <2>2, <2>3 DEF Awaited
<1>12. Holds(b)'
  BY <1>2, <1>6 DEF Holds, After
<1>13. ASSUME NEW d \in Bucket PROVE WindowInv(d)'
  <2>1. CASE d = b
    BY <1>7, <1>9, <1>10, <1>11, <1>12, <2>1 DEF WindowInv
  <2>2. CASE d # b
    <3>1. /\ windows'[d] = windows[d] /\ admissions'[d] = admissions[d]
          /\ refusals'[d] = refusals[d]
      BY <1>0, <1>2, <2>2 DEF LimiterTyped
    <3> QED BY <3>1, OtherWindows
  <2> QED BY <2>1, <2>2
<1>14. LimiterTyped'
  <2>1. /\ checks' \in [Caller -> Checks]
        /\ \A d \in Caller : checks'[d].pc = "checking" =>
             checks'[d].bucket \in Bucket /\ checks'[d].replica \in Replica
    BY <1>0, <1>2, IdleTyped, ChecksTyped
  <2>2. windows' \in [Bucket -> Windows]
    <3>1. [entries |-> kept, expires |-> now + Window] \in Windows
      BY <1>2, <1>3, Bounds DEF Windows
    <3> QED BY <1>0, <1>2, <3>1 DEF LimiterTyped
  <2>3. DOMAIN refusals' = Bucket
    BY <1>0, <1>2 DEF LimiterTyped
  <2> QED BY <1>0, <1>2, <2>1, <2>2, <2>3 DEF LimiterTyped
<1> QED BY <1>13, <1>14 DEF LimiterInv

\* Steps that leave the windows as they are: a check begins or fails, time passes.
LEMMA WindowsRest ==
  ASSUME LimiterInv, now' \in {now, now + 1}, UNCHANGED <<windows, admissions, refusals>>,
         checks' \in [Caller -> Checks],
         \A d \in Caller : checks'[d].pc = "checking" =>
            checks'[d].bucket \in Bucket /\ checks'[d].replica \in Replica
  PROVE  LimiterInv'
<1>1. \A b \in Bucket : WindowInv(b)'
  BY OtherWindows
<1>2. /\ windows' = windows /\ admissions' = admissions /\ refusals' = refusals
      /\ LimiterTyped
  BY DEF LimiterInv
<1>3. now' \in Nat
  BY <1>2 DEF LimiterTyped
<1>4. LimiterTyped'
  <2> DEFINE Q == Seq([at : Nat, entry : Entries])
  <2>1. windows \in [Bucket -> Windows] /\ DOMAIN refusals = Bucket /\ admissions \in [Bucket -> Q]
    BY <1>2 DEF LimiterTyped
  <2> HIDE DEF Q
  <2>2. /\ windows' \in [Bucket -> Windows] /\ DOMAIN refusals' = Bucket
        /\ admissions' \in [Bucket -> Q]
    BY <1>2, <2>1
  <2> QED BY <1>3, <2>2 DEF LimiterTyped, Q
<1> QED BY <1>1, <1>4 DEF LimiterInv

LEMMA StartsStep ==
  ASSUME LimiterInv, now' = now, NEW c \in Caller, NEW r \in Replica, NEW b \in Bucket,
         Starts(c, r, b)
  PROVE  LimiterInv'
<1> DEFINE k == [pc |-> "checking", bucket |-> b, replica |-> r]
<1>1. k \in Checks /\ k.bucket \in Bucket /\ k.replica \in Replica
  BY DEF Checks
<1>2. checks' = [checks EXCEPT ![c] = k] /\ UNCHANGED <<windows, admissions, refusals>>
  BY DEF Starts
<1> HIDE DEF k
<1>3. LimiterTyped
  BY DEF LimiterInv
<1>4. /\ checks' \in [Caller -> Checks]
      /\ \A d \in Caller : checks'[d].pc = "checking" =>
           checks'[d].bucket \in Bucket /\ checks'[d].replica \in Replica
  BY <1>1, <1>2, <1>3, ChecksTyped
<1> QED BY <1>2, <1>4, WindowsRest

LEMMA CheckFailsStep ==
  ASSUME LimiterInv, now' = now, NEW c \in Caller, CheckFails(c)
  PROVE  LimiterInv'
<1>1. checks' = [checks EXCEPT ![c] = Idle] /\ UNCHANGED <<windows, admissions, refusals>>
  BY DEF CheckFails
<1>2. LimiterTyped
  BY DEF LimiterInv
<1>3. /\ checks' \in [Caller -> Checks]
      /\ \A d \in Caller : checks'[d].pc = "checking" =>
           checks'[d].bucket \in Bucket /\ checks'[d].replica \in Replica
  BY <1>1, <1>2, IdleTyped, ChecksTyped
<1> QED BY <1>1, <1>3, WindowsRest

\* Every step of the specification.
LEMMA LimiterSteps == LimiterInv /\ [Next]_vars => LimiterInv'
<1> SUFFICES ASSUME LimiterInv, [Next]_vars PROVE LimiterInv'
  OBVIOUS
<1>1. CASE Tick \/ DoorStep \/ UNCHANGED vars
  <2>1. now' \in {now, now + 1} /\ UNCHANGED limiterVars
    BY <1>1 DEF Tick, DoorStep, vars
  <2>2. LimiterTyped
    BY DEF LimiterInv
  <2> QED BY <2>1, <2>2, WindowsRest DEF limiterVars, LimiterTyped
<1>2. CASE KeyStep \/ AddressStep
  <2>1. now' = now
    BY <1>2 DEF KeyStep, AddressStep
  <2>2. ASSUME NEW c \in Caller, Answer(c) PROVE LimiterInv'
    BY <2>1, <2>2, AdmitStep, RefuseStep, CheckFailsStep DEF Answer
  <2>3. ASSUME NEW c \in Caller, NEW r \in Replica, NEW b \in Bucket, Starts(c, r, b)
        PROVE  LimiterInv'
    BY <2>1, <2>3, StartsStep
  <2>4. Key \subseteq Bucket /\ "ip" \in Bucket
    BY DEF Bucket
  <2> QED BY <1>2, <2>2, <2>3, <2>4 DEF KeyStep, AddressStep, Check, CheckIp
<1> QED BY <1>1, <1>2 DEF Next

\* What one entry more or less makes of the room in a window.
LEMMA RoomAfterWait ==
  ASSUME LimiterInv, NEW b \in Bucket, refusals[b] # None, NEW r \in Replica,
         now >= refusals[b].at + (refusals[b].wait + 1) * Second + MaxSkew
  PROVE  Cardinality(Trimmed(b, Clock(r))) < Limit[b]
<1> DEFINE f == refusals[b]
           w == (f.wait + 1) * Second
           kept == Trimmed(b, Clock(r))
<1>0. Fits(b) /\ Awaited(b) /\ windows[b] \in Windows /\ now \in Nat
  BY DEF LimiterInv, WindowInv, LimiterTyped
<1>1. f.at \in Nat /\ f.wait \in Nat
  BY <1>0 DEF Awaited
<1>2. PICK e \in windows[b].entries : e.score + Window <= f.at + Most + w
  BY <1>0 DEF Awaited
<1>3. e.score \in Nat /\ w \in Nat
  <2>1. e.score \in Nat
    BY <1>0, <1>2 DEF Windows, Entries
  <2> QED BY <1>1, <2>1, Bounds
<1>4. now >= f.at + w + MaxSkew
  OBVIOUS
<1> HIDE DEF f, w
<1>5. e.score + Window <= now + Skew[r]
  BY <1>0, <1>1, <1>2, <1>3, <1>4, Bounds, Clocks
<1>6. e \notin kept
  <2>1. \A d \in kept : d.score + Window > Clock(r)
    BY TrimmedFacts
  <2>2. Skew[r] \in Nat
    BY Clocks
  <2> HIDE DEF kept
  <2> QED BY <1>0, <1>3, <1>5, <2>1, <2>2, Bounds DEF Clock
<1>7. kept \subseteq windows[b].entries \ {e}
  BY <1>6, TrimmedFacts
<1> HIDE DEF kept
<1>8. /\ IsFiniteSet(windows[b].entries) /\ Cardinality(windows[b].entries) <= Limit[b]
  BY <1>0 DEF Fits
<1>9. /\ IsFiniteSet(windows[b].entries \ {e})
      /\ Cardinality(windows[b].entries \ {e}) = Cardinality(windows[b].entries) - 1
  BY <1>2, <1>8, FS_RemoveElement
<1>10. IsFiniteSet(kept) /\ Cardinality(kept) <= Cardinality(windows[b].entries \ {e})
  BY <1>7, <1>9, FS_Subset
<1>11. Cardinality(kept) \in Nat /\ Cardinality(windows[b].entries) \in Nat
  BY <1>8, <1>10, FS_CardinalityType
<1>12. Cardinality(kept) < Limit[b]
  BY <1>8, <1>9, <1>10, <1>11, Bounds
<1> QED BY <1>12 DEF kept

LEMMA LimiterMeans == LimiterInv => LimiterSafety
<1> SUFFICES ASSUME LimiterInv PROVE LimiterSafety
  OBVIOUS
<1>1. WindowHolds
  <2>1. \A b \in Bucket : Holds(b)
    BY DEF LimiterInv, WindowInv
  <2> QED BY <2>1 DEF WindowHolds, Holds, After
<1>2. WaitSuffices
  BY RoomAfterWait DEF WaitSuffices
<1> QED BY <1>1, <1>2 DEF LimiterSafety

\* However checks from replicas with different clocks interleave and fail, no window admits more
\* than its limit within its length, and who waits as told is let in, less what the clocks differ
\* by (rate_limit.rs check, store.rs RATE_LIMIT_LUA).
THEOREM LimiterHolds == Spec => []LimiterSafety
<1>1. Init => LimiterInv
  BY LimiterBegin DEF Init
<1> QED BY <1>1, LimiterSteps, LimiterMeans, PTL DEF Spec

-----------------------------------------------------------------------------
(* The door                                                                *)

Place ==
  {"idle", "limited", "loading", "querying", "caching", "reserving", "allowance", "calling",
   "recording", "ended"}

Request ==
  [pc : Place, endpoint : Endpoint \cup {None}, stream : BOOLEAN, key : Key \cup {None},
   read : Ceiling \cup {None}, limits : Ceiling \cup {"unlimited", None}, since : Nat, at : Nat,
   events : Nat]

DoorTyped ==
  /\ now \in Nat
  /\ budgets \in Ceiling /\ change \in {"none", "written"} /\ changes \in Nat
  /\ cached \in [Key -> [limits : Ceiling, until : Nat] \cup {None}]
  /\ requests \in [Caller -> Request]
  /\ counter \in Nat /\ answered \in Nat /\ uncounted \in Nat
  /\ excuse \in Nat \cup {None}

\* A request that looked no earlier than the last change returned has what that change left.
Sees(c) ==
  LET r == requests[c]
  IN  /\ r.pc \in {"limited", "loading", "querying", "caching"} => r.key \in Key
      /\ r.pc = "caching" => r.read \in Ceiling
      /\ r.since <= changes
      /\ r.pc \in {"querying", "caching", "reserving"} /\ r.since = changes => change = "none"
      /\ r.pc = "caching" /\ r.since = changes => r.read = budgets
      /\ (r.pc = "reserving" /\ r.limits # "unlimited" /\ r.since = changes /\ r.limits # budgets)
           => excuse # None /\ r.at < excuse + LimitsTTL

\* What is cached and stale after a change has an excuse, and goes within a life of it.
Cached(k) ==
  cached[k] # None =>
    /\ cached[k].until <= now + LimitsTTL
    /\ change = "none" /\ cached[k].limits # budgets
         => excuse # None /\ cached[k].until <= excuse + LimitsTTL

LimitsInv ==
  /\ change = "written" => changes >= 1
  /\ excuse # None => excuse <= now
  /\ \A c \in Caller : Sees(c)
  /\ \A k \in Key : Cached(k)

Recording == {c \in Caller : requests[c].pc = "recording"}

\* Past the allowance, and not answered yet.
Calling ==
  {c \in Caller : /\ requests[c].pc = "calling"
                  /\ ~requests[c].stream /\ requests[c].endpoint # "embeddings"}

\* Every answer is counted, is about to be, or its increment was lost; and all but one of those
\* let in past the last of the allowance were in progress together.
AllowanceInv ==
  /\ answered <= counter + uncounted + Cardinality(Recording)
  /\ Plan = "free" =>
       answered + Cardinality(Calling) <= Allowance + uncounted + Cardinality(Caller) - 1

DoorInv == DoorTyped /\ LimitsInv /\ AllowanceInv

LEMMA DoorBounds ==
  /\ LimitsTTL \in Nat /\ Allowance \in Nat /\ IsFiniteSet(Caller) /\ None \notin Nat
  /\ Cardinality(Caller) \in Nat /\ 1 <= Cardinality(Caller)
<1>1. /\ IsFiniteSet(Caller) /\ Caller # {} /\ LimitsTTL \in Nat /\ Allowance \in Nat
      /\ None \notin Nat
  BY LimiterAssumption, DoorAssumption
<1> QED BY <1>1, FS_EmptySet, FS_CardinalityType

\* Two sets with nothing in common are no larger together than one that has both.
LEMMA Disjoint ==
  ASSUME NEW U, IsFiniteSet(U), NEW S \in SUBSET U, NEW T \in SUBSET U, S \cap T = {}
  PROVE  /\ IsFiniteSet(S) /\ IsFiniteSet(T) /\ Cardinality(S) \in Nat /\ Cardinality(T) \in Nat
         /\ Cardinality(S) + Cardinality(T) <= Cardinality(U)
<1>1. IsFiniteSet(S) /\ IsFiniteSet(T) /\ IsFiniteSet(S \cup T) /\ S \cup T \subseteq U
  BY FS_Subset
<1>2. /\ Cardinality(S) \in Nat /\ Cardinality(T) \in Nat /\ Cardinality(U) \in Nat
      /\ Cardinality(S \cup T) \in Nat /\ Cardinality(S \cup T) <= Cardinality(U)
  BY <1>1, FS_Subset, FS_CardinalityType
<1>3. Cardinality(S \cap T) = 0
  BY FS_EmptySet
<1>4. Cardinality(S \cup T) = Cardinality(S) + Cardinality(T) - Cardinality(S \cap T)
  BY <1>1, FS_Union, Zenon
<1> QED BY <1>1, <1>2, <1>3, <1>4

\* Who is recording is not calling.
LEMMA Counts ==
  /\ IsFiniteSet(Recording) /\ IsFiniteSet(Calling)
  /\ Cardinality(Recording) \in Nat /\ Cardinality(Calling) \in Nat
  /\ Cardinality(Recording) + Cardinality(Calling) <= Cardinality(Caller)
<1>1. /\ Recording \subseteq Caller /\ Calling \subseteq Caller /\ Recording \cap Calling = {}
  BY DEF Recording, Calling
<1> QED BY <1>1, DoorBounds, Disjoint

\* What one request's move does to the counts.
LEMMA Moves ==
  ASSUME NEW c \in Caller, \A d \in Caller \ {c} : requests'[d] = requests[d]
  PROVE  /\ IsFiniteSet(Recording') /\ IsFiniteSet(Calling')
         /\ Cardinality(Recording') \in Nat /\ Cardinality(Calling') \in Nat
         /\ c \in Recording' /\ c \notin Recording =>
              Cardinality(Recording') = Cardinality(Recording) + 1
         /\ c \notin Recording' /\ c \in Recording =>
              Cardinality(Recording') = Cardinality(Recording) - 1
         /\ (c \in Recording' <=> c \in Recording) =>
              Cardinality(Recording') = Cardinality(Recording)
         /\ c \in Calling' /\ c \notin Calling =>
              Cardinality(Calling') = Cardinality(Calling) + 1
         /\ c \notin Calling' /\ c \in Calling =>
              Cardinality(Calling') = Cardinality(Calling) - 1
         /\ (c \in Calling' <=> c \in Calling) =>
              Cardinality(Calling') = Cardinality(Calling)
<1>1. Recording \ {c} = Recording' \ {c} /\ Calling \ {c} = Calling' \ {c}
  BY DEF Recording, Calling
<1>2. IsFiniteSet(Recording) /\ IsFiniteSet(Calling)
  BY Counts
<1> DEFINE R == Recording  C == Calling  S == Recording'  T == Calling'
<1> HIDE DEF R, C, S, T
<1>3. R \ {c} = S \ {c} /\ C \ {c} = T \ {c} /\ IsFiniteSet(R) /\ IsFiniteSet(C)
  BY <1>1, <1>2 DEF R, C, S, T
<1>4. /\ IsFiniteSet(S) /\ Cardinality(R) \in Nat /\ Cardinality(S) \in Nat
      /\ c \in S /\ c \notin R => Cardinality(S) = Cardinality(R) + 1
      /\ c \notin S /\ c \in R => Cardinality(S) = Cardinality(R) - 1
      /\ (c \in S <=> c \in R) => Cardinality(S) = Cardinality(R)
  BY <1>3, CountMoves
<1>5. /\ IsFiniteSet(T) /\ Cardinality(C) \in Nat /\ Cardinality(T) \in Nat
      /\ c \in T /\ c \notin C => Cardinality(T) = Cardinality(C) + 1
      /\ c \notin T /\ c \in C => Cardinality(T) = Cardinality(C) - 1
      /\ (c \in T <=> c \in C) => Cardinality(T) = Cardinality(C)
  BY <1>3, CountMoves
<1> QED BY <1>4, <1>5 DEF R, C, S, T

LEMMA DoorBegin == now = 0 /\ DoorInit => DoorInv
<1> SUFFICES ASSUME now = 0, DoorInit PROVE DoorInv
  OBVIOUS
<1>1. NoRequest \in Request
  BY DEF NoRequest, Request, Place
<1>2. DoorTyped
  BY <1>1, DoorBounds DEF DoorInit, DoorTyped, Ceiling
<1>3. \A c \in Caller : requests[c].pc = "idle" /\ requests[c].since = 0
  BY DEF DoorInit, NoRequest
<1>4. LimitsInv
  BY <1>3 DEF DoorInit, LimitsInv, Sees, Cached
<1>5. Recording = {} /\ Calling = {}
  BY <1>3 DEF Recording, Calling
<1>6. AllowanceInv
  <2>1. Cardinality(Recording) = 0 /\ Cardinality(Calling) = 0
    BY <1>5, FS_EmptySet
  <2> QED BY <2>1, DoorBounds DEF AllowanceInv, DoorInit
<1> QED BY <1>2, <1>4, <1>6 DEF DoorInv

\* What the helpers make of a request.
LEMMA GoesFacts ==
  ASSUME requests \in [Caller -> Request], NEW c \in Caller, NEW place \in Place, Goes(c, place)
  PROVE  LET p == requests[c]
             q == requests'[c]
         IN  /\ q \in Request /\ requests' = [requests EXCEPT ![c] = q]
             /\ q.pc = place /\ q.endpoint = p.endpoint /\ q.stream = p.stream /\ q.key = p.key
             /\ q.read = p.read /\ q.limits = p.limits /\ q.since = p.since /\ q.at = p.at
<1>1. requests[c] \in Request
  OBVIOUS
<1>2. requests'[c] = [requests[c] EXCEPT !.pc = place]
  BY DEF Goes
<1>3. requests' = [requests EXCEPT ![c] = requests'[c]]
  BY DEF Goes
<1> QED BY <1>1, <1>2, <1>3 DEF Request

LEMMA OverFacts ==
  ASSUME requests \in [Caller -> Request], NEW c \in Caller,
         Metered(c) \/ \E events \in {0, 1} : Ends(c, events)
  PROVE  LET q == requests'[c]
         IN  /\ q \in Request /\ requests' = [requests EXCEPT ![c] = q]
             /\ q.since = 0
             /\ Metered(c) => q.pc = "recording"
             /\ (\E events \in {0, 1} : Ends(c, events)) => q.pc = "ended"
<1>1. /\ NoRequest \in Request /\ NoRequest.since = 0
  BY DEF NoRequest, Request, Place
<1>2. CASE Metered(c)
  <2>1. requests'[c] = [NoRequest EXCEPT !.pc = "recording"]
    BY <1>2 DEF Metered
  <2>2. requests' = [requests EXCEPT ![c] = requests'[c]]
    BY <1>2, <2>1 DEF Metered
  <2>3. requests'[c].pc = "recording" /\ requests'[c].since = 0 /\ requests'[c] \in Request
    BY <1>1, <2>1 DEF NoRequest, Request, Place
  <2>4. ASSUME NEW events \in {0, 1}, Ends(c, events) PROVE FALSE
    <3>1. requests'[c] = [NoRequest EXCEPT !.pc = "ended", !.events = events]
      BY <2>4 DEF Ends
    <3> QED BY <2>3, <3>1 DEF NoRequest
  <2> QED BY <2>2, <2>3, <2>4
<1>3. ASSUME NEW events \in {0, 1}, Ends(c, events)
      PROVE  LET q == requests'[c]
             IN  /\ q \in Request /\ requests' = [requests EXCEPT ![c] = q]
                 /\ q.since = 0 /\ q.pc = "ended"
  <2>1. requests'[c] = [NoRequest EXCEPT !.pc = "ended", !.events = events]
    BY <1>3 DEF Ends
  <2>2. requests' = [requests EXCEPT ![c] = requests'[c]]
    BY <1>3, <2>1 DEF Ends
  <2>3. requests'[c] =
          [pc |-> "ended", endpoint |-> None, stream |-> FALSE, key |-> None, read |-> None,
           limits |-> None, since |-> 0, at |-> 0, events |-> events]
    BY <2>1 DEF NoRequest
  <2>4. requests'[c] \in Request
    BY <2>3 DEF Request, Place
  <2> QED BY <2>2, <2>3, <2>4
<1>4. CASE \E events \in {0, 1} : Ends(c, events)
  <2>1. LET q == requests'[c]
        IN  /\ q \in Request /\ requests' = [requests EXCEPT ![c] = q]
            /\ q.since = 0 /\ q.pc = "ended"
    BY <1>3, <1>4
  <2>2. Metered(c) => requests'[c].pc = "recording"
    BY <1>2
  <2> QED BY <2>1, <2>2
<1> QED BY <1>2, <1>4

LEMMA ProceedsFacts ==
  ASSUME requests \in [Caller -> Request], NEW c \in Caller, NEW place \in Place,
         Proceeds(c, place)
  PROVE  LET q == requests'[c]
         IN  /\ q \in Request /\ requests' = [requests EXCEPT ![c] = q]
             /\ q.pc = place /\ q.endpoint = requests[c].endpoint
             /\ q.stream = requests[c].stream /\ q.since = 0
<1>1. requests[c] \in Request
  OBVIOUS
<1>2. requests'[c] = [NoRequest EXCEPT !.pc = place, !.endpoint = requests[c].endpoint,
                                       !.stream = requests[c].stream]
  BY DEF Proceeds
<1>3. requests' = [requests EXCEPT ![c] = requests'[c]]
  BY <1>2 DEF Proceeds
<1>4. requests'[c] =
        [pc |-> place, endpoint |-> requests[c].endpoint, stream |-> requests[c].stream,
         key |-> None, read |-> None, limits |-> None, since |-> 0, at |-> 0, events |-> 0]
  BY <1>2 DEF NoRequest
<1>5. requests[c].endpoint \in Endpoint \cup {None} /\ requests[c].stream \in BOOLEAN
  BY <1>1 DEF Request
<1>6. requests'[c] \in Request
  BY <1>4, <1>5 DEF Request
<1> QED BY <1>3, <1>4, <1>6

\* A step of one request, which leaves the tables and the cache alone.
LEMMA RequestStep ==
  ASSUME DoorInv, NEW c \in Caller, NEW q \in Request, requests' = [requests EXCEPT ![c] = q],
         now' = now, UNCHANGED tables, UNCHANGED <<cached, excuse>>,
         counter' \in Nat, answered' \in Nat, uncounted' \in Nat,
         Sees(c)', AllowanceInv'
  PROVE  DoorInv'
<1>1. DoorTyped /\ LimitsInv
  BY DEF DoorInv
<1>2. DoorTyped'
  BY <1>1 DEF DoorTyped, tables
<1>3. \A d \in Caller \ {c} : requests'[d] = requests[d]
  BY <1>1 DEF DoorTyped
<1>4. \A d \in Caller \ {c} : Sees(d)'
  BY <1>1, <1>3 DEF LimitsInv, Sees, tables
<1>5. \A k \in Key : Cached(k)'
  BY <1>1 DEF LimitsInv, Cached, tables
<1>6. LimitsInv'
  BY <1>1, <1>4, <1>5 DEF LimitsInv, tables
<1> QED BY <1>2, <1>6 DEF DoorInv

\* A step that moves no request out of recording or into calling, and counts nothing.
LEMMA CountsStay ==
  ASSUME DoorInv, NEW c \in Caller, NEW q, requests' = [requests EXCEPT ![c] = q],
         UNCHANGED counts, c \notin Recording, c \notin Calling'
  PROVE  AllowanceInv'
<1>1. AllowanceInv /\ DoorTyped
  BY DEF DoorInv
<1>2. \A d \in Caller \ {c} : requests'[d] = requests[d]
  BY <1>1 DEF DoorTyped
<1>3. /\ Cardinality(Recording') \in Nat /\ Cardinality(Recording) \in Nat
      /\ Cardinality(Calling') \in Nat /\ Cardinality(Calling) \in Nat
      /\ Cardinality(Recording) <= Cardinality(Recording')
      /\ Cardinality(Calling') <= Cardinality(Calling)
  BY <1>2, Moves, Counts
<1> DEFINE R == Cardinality(Recording)  C == Cardinality(Calling)
           S == Cardinality(Recording')  T == Cardinality(Calling')
<1> HIDE DEF R, C, S, T
<1>4. /\ answered <= counter + uncounted + R
      /\ Plan = "free" => answered + C <= Allowance + uncounted + Cardinality(Caller) - 1
      /\ R \in Nat /\ C \in Nat /\ S \in Nat /\ T \in Nat /\ R <= S /\ T <= C
  BY <1>1, <1>3 DEF AllowanceInv, R, C, S, T
<1>5. /\ answered <= counter + uncounted + S
      /\ Plan = "free" => answered + T <= Allowance + uncounted + Cardinality(Caller) - 1
  BY <1>1, <1>4, DoorBounds DEF DoorTyped
<1> QED BY <1>5 DEF AllowanceInv, counts, S, T

-----------------------------------------------------------------------------
(* The steps of a request                                                  *)

LEMMA ArriveStep ==
  ASSUME DoorInv, now' = now, NEW c \in Caller, NEW r \in Replica, NEW endpoint \in Endpoint,
         NEW k \in Key, NEW stream \in BOOLEAN, Arrive(c, r, endpoint, k, stream)
  PROVE  DoorInv'
<1> DEFINE q == requests'[c]
<1>0. DoorTyped /\ AllowanceInv
  BY DEF DoorInv
<1>1. q = [pc |-> IF r \in Home
                    THEN (IF endpoint = "embeddings" THEN "calling" ELSE "limited")
                    ELSE (IF endpoint = "messages" THEN "ended" ELSE "recording"),
           endpoint |-> IF r \in Home THEN endpoint ELSE None,
           stream |-> IF r \in Home THEN stream ELSE FALSE,
           key |-> IF r \in Home THEN k ELSE None, read |-> None,
           limits |-> None, since |-> 0, at |-> 0, events |-> 0]
  BY <1>0 DEF Arrive, NoRequest, DoorTyped
<1>2. requests' = [requests EXCEPT ![c] = q]
  BY <1>0 DEF Arrive, DoorTyped
<1>3. q \in Request /\ q.since = 0 /\ (q.pc = "calling" => q.endpoint = "embeddings")
  <2>1. CASE r \in Home
    <3>1. q = [pc |-> IF endpoint = "embeddings" THEN "calling" ELSE "limited",
               endpoint |-> endpoint, stream |-> stream, key |-> k, read |-> None,
               limits |-> None, since |-> 0, at |-> 0, events |-> 0]
      BY <1>1, <2>1
    <3> QED BY <3>1 DEF Request, Place
  <2>2. CASE r \notin Home
    <3>1. q = [pc |-> IF endpoint = "messages" THEN "ended" ELSE "recording",
               endpoint |-> None, stream |-> FALSE, key |-> None, read |-> None,
               limits |-> None, since |-> 0, at |-> 0, events |-> 0]
      BY <1>1, <2>2
    <3> QED BY <3>1 DEF Request, Place
  <2> QED BY <2>1, <2>2
<1>4. /\ UNCHANGED tables /\ UNCHANGED <<cached, excuse>> /\ UNCHANGED counts
      /\ requests[c].pc \in {"idle", "ended"}
  BY DEF Arrive, At
<1>5. Sees(c)'
  BY <1>0, <1>1, <1>4 DEF Sees, DoorTyped, tables
<1>6. c \notin Recording /\ c \notin Calling'
  BY <1>3, <1>4 DEF Recording, Calling
<1> HIDE DEF q
<1>7. AllowanceInv'
  BY <1>2, <1>4, <1>6, CountsStay
<1>8. counter' \in Nat /\ answered' \in Nat /\ uncounted' \in Nat
  BY <1>0, <1>4 DEF DoorTyped, counts
<1> QED BY <1>2, <1>3, <1>4, <1>5, <1>7, <1>8, RequestStep

\* The steps that end a request, or take it on without a change of what is counted.
LEMMA PassLimiterStep ==
  ASSUME DoorInv, now' = now, NEW c \in Caller, PassLimiter(c)
  PROVE  DoorInv'
<1> DEFINE q == requests'[c]
<1>0. DoorTyped /\ Sees(c) /\ requests[c].pc = "limited"
  BY DEF DoorInv, LimitsInv, PassLimiter, At
<1>1. /\ UNCHANGED tables /\ UNCHANGED <<cached, excuse>> /\ UNCHANGED counts
      /\ counter' \in Nat /\ answered' \in Nat /\ uncounted' \in Nat
  BY <1>0 DEF PassLimiter, DoorTyped, counts
<1>2. /\ q \in Request /\ requests' = [requests EXCEPT ![c] = q]
      /\ \/ q.pc = "loading" /\ q.key = requests[c].key /\ q.since = requests[c].since
         \/ q.pc \in {"recording", "ended"} /\ q.since = 0
  <2>1. requests \in [Caller -> Request]
    BY <1>0 DEF DoorTyped
  <2>2. CASE Goes(c, "loading")
    <3>1. "loading" \in Place
      BY DEF Place
    <3> QED BY <2>1, <2>2, <3>1, GoesFacts
  <2>3. CASE Metered(c) \/ Ends(c, 0)
    BY <2>1, <2>3, OverFacts
  <2> QED BY <2>2, <2>3 DEF PassLimiter
<1>3. Sees(c)'
  BY <1>0, <1>1, <1>2 DEF Sees, DoorTyped, tables
<1>4. c \notin Recording /\ c \notin Calling'
  BY <1>0, <1>2 DEF Recording, Calling
<1> HIDE DEF q
<1>5. AllowanceInv'
  BY <1>1, <1>2, <1>4, CountsStay
<1> QED BY <1>1, <1>2, <1>3, <1>5, RequestStep

LEMMA ReadLimitsStep ==
  ASSUME DoorInv, now' = now, NEW c \in Caller, ReadLimits(c)
  PROVE  DoorInv'
<1> DEFINE p == requests[c]
           q == requests'[c]
<1>0. /\ DoorTyped /\ LimitsInv /\ Sees(c) /\ p.pc = "loading" /\ p.key \in Key
      /\ p \in Request
  BY DEF DoorInv, LimitsInv, ReadLimits, At, Sees, DoorTyped
<1>1. /\ UNCHANGED tables /\ UNCHANGED <<cached, excuse>> /\ UNCHANGED counts
      /\ counter' \in Nat /\ answered' \in Nat /\ uncounted' \in Nat
  BY <1>0 DEF ReadLimits, DoorTyped, counts
<1>2. Returned \in Nat /\ Returned <= changes /\ (Returned = changes => change = "none")
  BY <1>0 DEF Returned, DoorTyped, LimitsInv
<1>3. CASE /\ Live(p.key)
           /\ requests' = [Loaded(c, cached[p.key].limits) EXCEPT ![c].since = Returned]
  <2> DEFINE k == p.key
  <2>1. cached[k] # None /\ now < cached[k].until /\ Cached(k)
    BY <1>0, <1>3 DEF Live, LimitsInv
  <2>2. cached[k].limits \in Ceiling /\ cached[k].until \in Nat
    BY <1>0, <2>1 DEF DoorTyped
  <2>3. q = [p EXCEPT !.limits = cached[k].limits, !.at = now, !.pc = "reserving",
                      !.since = Returned]
    BY <1>0, <1>3 DEF Loaded, DoorTyped
  <2>4. requests' = [requests EXCEPT ![c] = q]
    BY <1>0, <1>3 DEF Loaded, DoorTyped
  <2>5. q \in Request
    BY <1>0, <1>2, <2>2, <2>3 DEF Request, Place, DoorTyped
  <2>6. q.pc = "reserving" /\ q.limits = cached[k].limits /\ q.at = now /\ q.since = Returned
    BY <1>0, <2>3 DEF Request
  <2> HIDE DEF k
  <2>7. Sees(c)'
    BY <1>0, <1>1, <1>2, <2>1, <2>2, <2>6, DoorBounds DEF Sees, Cached, DoorTyped, tables
  <2>8. c \notin Recording /\ c \notin Calling'
    BY <1>0, <2>6 DEF Recording, Calling
  <2> HIDE DEF p, q
  <2>9. AllowanceInv'
    BY <1>1, <2>4, <2>8, CountsStay
  <2> QED BY <1>1, <2>4, <2>5, <2>7, <2>9, RequestStep
<1>4. CASE requests' = [requests EXCEPT ![c].pc = "querying", ![c].since = Returned]
  <2>1. q = [p EXCEPT !.pc = "querying", !.since = Returned]
    BY <1>0, <1>4 DEF DoorTyped
  <2>2. requests' = [requests EXCEPT ![c] = q]
    BY <1>0, <1>4 DEF DoorTyped
  <2>3. q \in Request
    BY <1>0, <1>2, <2>1 DEF Request, Place
  <2>4. q.pc = "querying" /\ q.since = Returned /\ q.key = p.key
    BY <1>0, <2>1 DEF Request
  <2>5. Sees(c)'
    BY <1>0, <1>1, <1>2, <2>4 DEF Sees, DoorTyped, tables
  <2>6. c \notin Recording /\ c \notin Calling'
    BY <1>0, <2>4 DEF Recording, Calling
  <2> HIDE DEF p, q
  <2>7. AllowanceInv'
    BY <1>1, <2>2, <2>6, CountsStay
  <2> QED BY <1>1, <2>2, <2>3, <2>5, <2>7, RequestStep
<1> QED BY <1>3, <1>4 DEF ReadLimits

LEMMA QueryLimitsStep ==
  ASSUME DoorInv, now' = now, NEW c \in Caller, QueryLimits(c)
  PROVE  DoorInv'
<1> DEFINE p == requests[c]
           q == requests'[c]
<1>0. /\ DoorTyped /\ LimitsInv /\ Sees(c) /\ p.pc = "querying" /\ p.key \in Key
      /\ p \in Request
  BY DEF DoorInv, LimitsInv, QueryLimits, At, Sees, DoorTyped
<1>1. /\ UNCHANGED tables /\ UNCHANGED <<cached, excuse>> /\ UNCHANGED counts
      /\ counter' \in Nat /\ answered' \in Nat /\ uncounted' \in Nat
  BY <1>0 DEF QueryLimits, DoorTyped, counts
<1>2. /\ requests' = [requests EXCEPT ![c] = q] /\ q \in Request /\ q.since = p.since
      /\ \/ q.pc = "reserving" /\ q.limits = "unlimited"
         \/ q.pc = "caching" /\ q.read = budgets /\ q.key = p.key
  <2>1. CASE requests' = [requests EXCEPT ![c].read = budgets, ![c].pc = "caching"]
    <3>1. q = [p EXCEPT !.read = budgets, !.pc = "caching"]
      BY <1>0, <2>1 DEF DoorTyped
    <3>2. requests' = [requests EXCEPT ![c] = q]
      BY <1>0, <2>1 DEF DoorTyped
    <3> QED BY <1>0, <3>1, <3>2 DEF Request, Place, DoorTyped
  <2>2. CASE requests' = Loaded(c, "unlimited")
    <3>1. q = [p EXCEPT !.limits = "unlimited", !.at = now, !.pc = "reserving"]
      BY <1>0, <2>2 DEF DoorTyped, Loaded
    <3>2. requests' = [requests EXCEPT ![c] = q]
      BY <1>0, <2>2 DEF DoorTyped, Loaded
    <3> QED BY <1>0, <3>1, <3>2 DEF Request, Place, DoorTyped
  <2> QED BY <2>1, <2>2 DEF QueryLimits
<1>3. Sees(c)'
  BY <1>0, <1>1, <1>2 DEF Sees, DoorTyped, tables
<1>4. c \notin Recording /\ c \notin Calling'
  BY <1>0, <1>2 DEF Recording, Calling
<1> HIDE DEF p, q
<1>5. AllowanceInv'
  BY <1>1, <1>2, <1>4, CountsStay
<1> QED BY <1>1, <1>2, <1>3, <1>5, RequestStep

\* A set cached over a change is stale, and is what excuses the requests that find it.
LEMMA CacheLimitsStep ==
  ASSUME DoorInv, now' = now, NEW c \in Caller, CacheLimits(c)
  PROVE  DoorInv'
<1> DEFINE p == requests[c]
           q == requests'[c]
<1>0. /\ DoorTyped /\ LimitsInv /\ Sees(c) /\ p.pc = "caching" /\ p.key \in Key
      /\ p \in Request /\ p.read \in Ceiling
  BY DEF DoorInv, LimitsInv, CacheLimits, At, Sees, DoorTyped
<1>1. /\ UNCHANGED tables /\ UNCHANGED counts
      /\ counter' \in Nat /\ answered' \in Nat /\ uncounted' \in Nat
  BY <1>0 DEF CacheLimits, DoorTyped, counts
<1>2. /\ requests' = [requests EXCEPT ![c] = q] /\ q \in Request /\ q.since = p.since
      /\ q.pc = "reserving" /\ q.limits = p.read
  <2>1. requests' = Loaded(c, p.read)
    BY DEF CacheLimits
  <2>2. q = [p EXCEPT !.limits = p.read, !.at = now, !.pc = "reserving"]
    BY <1>0, <2>1 DEF DoorTyped, Loaded
  <2>3. requests' = [requests EXCEPT ![c] = q]
    BY <1>0, <2>1 DEF DoorTyped, Loaded
  <2> QED BY <1>0, <2>2, <2>3 DEF Request, Place, DoorTyped
<1>3. Sees(c)'
  BY <1>0, <1>1, <1>2 DEF Sees, DoorTyped, tables
<1>4. c \notin Recording /\ c \notin Calling'
  BY <1>0, <1>2 DEF Recording, Calling
<1>5. \A d \in Caller \ {c} : requests'[d] = requests[d]
  BY <1>0, <1>2 DEF DoorTyped
<1>6. requests' \in [Caller -> Request]
  BY <1>0, <1>2 DEF DoorTyped
<1>7. CASE UNCHANGED <<cached, excuse>>
  <2> HIDE DEF p, q
  <2>1. AllowanceInv'
    BY <1>1, <1>2, <1>4, CountsStay
  <2> QED BY <1>1, <1>2, <1>3, <1>7, <2>1, RequestStep
<1>8. CASE /\ cached' = [cached EXCEPT ![p.key] = [limits |-> p.read, until |-> now + LimitsTTL]]
           /\ excuse' = IF p.read = budgets THEN excuse ELSE now
  <2>1. excuse' \in Nat \cup {None} /\ (excuse' # None => excuse' <= now')
    BY <1>0, <1>8 DEF DoorTyped, LimitsInv
  <2>2. excuse # None => excuse' # None /\ excuse <= excuse'
    BY <1>0, <1>8, DoorBounds DEF DoorTyped, LimitsInv
  <2>3. ASSUME NEW d \in Caller \ {c} PROVE Sees(d)'
    <3>1. Sees(d) /\ requests'[d] = requests[d] /\ requests[d] \in Request
      BY <1>0, <1>5 DEF LimitsInv, DoorTyped
    <3>2. requests[d].at \in Nat
      BY <3>1 DEF Request
    <3> QED BY <1>0, <1>1, <2>1, <2>2, <3>1, <3>2, DoorBounds DEF Sees, DoorTyped, tables
  <2>4. ASSUME NEW k \in Key PROVE Cached(k)'
    <3>1. CASE k = p.key
      <4>1. cached'[k] = [limits |-> p.read, until |-> now + LimitsTTL]
        BY <1>0, <1>8, <3>1 DEF DoorTyped
      <4>2. cached'[k].limits = p.read /\ cached'[k].until = now + LimitsTTL
        BY <4>1
      <4>3. p.read # budgets => excuse' = now /\ excuse' # None
        BY <1>0, <1>8, DoorBounds DEF DoorTyped
      <4> QED BY <1>0, <1>1, <4>2, <4>3, DoorBounds DEF Cached, DoorTyped, tables
    <3>2. CASE k # p.key
      <4>1. cached'[k] = cached[k] /\ Cached(k)
        BY <1>0, <1>8, <3>2 DEF DoorTyped, LimitsInv
      <4>2. cached[k] # None => cached[k].until \in Nat
        BY <1>0 DEF DoorTyped
      <4> QED BY <1>0, <1>1, <2>1, <2>2, <4>1, <4>2, DoorBounds DEF Cached, DoorTyped, tables
    <3> QED BY <3>1, <3>2
  <2>5. LimitsInv'
    BY <1>0, <1>1, <1>3, <2>1, <2>3, <2>4 DEF LimitsInv, tables
  <2>6. cached' \in [Key -> [limits : Ceiling, until : Nat] \cup {None}]
    <3>1. [limits |-> p.read, until |-> now + LimitsTTL] \in [limits : Ceiling, until : Nat]
      BY <1>0, DoorBounds DEF DoorTyped
    <3> QED BY <1>0, <1>8, <3>1 DEF DoorTyped
  <2>7. DoorTyped'
    BY <1>0, <1>1, <1>6, <2>1, <2>6 DEF DoorTyped, tables
  <2> HIDE DEF p, q
  <2>8. AllowanceInv'
    BY <1>1, <1>2, <1>4, CountsStay
  <2> QED BY <2>5, <2>7, <2>8 DEF DoorInv
<1> QED BY <1>7, <1>8 DEF CacheLimits, Until

LEMMA ReserveStep ==
  ASSUME DoorInv, now' = now, NEW c \in Caller, Reserve(c)
  PROVE  DoorInv'
<1> DEFINE p == requests[c]
           q == requests'[c]
<1>0. DoorTyped /\ p.pc = "reserving" /\ requests \in [Caller -> Request] /\ p \in Request
  BY DEF DoorInv, Reserve, At, DoorTyped
<1>1. /\ UNCHANGED tables /\ UNCHANGED <<cached, excuse>> /\ UNCHANGED counts
      /\ counter' \in Nat /\ answered' \in Nat /\ uncounted' \in Nat
  BY <1>0 DEF Reserve, DoorTyped, counts
<1>2. /\ requests' = [requests EXCEPT ![c] = q] /\ q \in Request /\ q.since = 0
      /\ \/ q.pc = "recording"
         \/ q.pc = "calling" /\ q.stream
         \/ q.pc = "allowance"
  <2>1. CASE Metered(c)
    BY <1>0, <2>1, OverFacts
  <2>2. CASE Proceeds(c, "calling") /\ p.stream
    <3>1. "calling" \in Place
      BY DEF Place
    <3> QED BY <1>0, <2>2, <3>1, ProceedsFacts
  <2>3. CASE Proceeds(c, "allowance")
    <3>1. "allowance" \in Place
      BY DEF Place
    <3> QED BY <1>0, <2>3, <3>1, ProceedsFacts
  <2> QED BY <2>1, <2>2, <2>3 DEF Reserve
<1>3. Sees(c)'
  BY <1>0, <1>1, <1>2 DEF Sees, DoorTyped, tables
<1>4. c \notin Recording /\ c \notin Calling'
  BY <1>0, <1>2 DEF Recording, Calling
<1> HIDE DEF p, q
<1>5. AllowanceInv'
  BY <1>1, <1>2, <1>4, CountsStay
<1> QED BY <1>1, <1>2, <1>3, <1>5, RequestStep

\* An answer that was counted, or its increment lost.
LEMMA Recorded ==
  ASSUME DoorInv, NEW c \in Caller, NEW q, requests' = [requests EXCEPT ![c] = q],
         c \in Recording, c \notin Recording', c \notin Calling', answered' = answered,
         \/ counter' = counter + 1 /\ uncounted' = uncounted
         \/ counter' = counter /\ uncounted' = uncounted + 1
  PROVE  AllowanceInv'
<1> DEFINE R == Cardinality(Recording)  C == Cardinality(Calling)
           S == Cardinality(Recording')  T == Cardinality(Calling')  M == Cardinality(Caller)
<1>1. AllowanceInv /\ DoorTyped
  BY DEF DoorInv
<1>2. \A d \in Caller \ {c} : requests'[d] = requests[d]
  BY <1>1 DEF DoorTyped
<1>3. /\ answered <= counter + uncounted + R
      /\ Plan = "free" => answered + C <= Allowance + uncounted + M - 1
      /\ counter \in Nat /\ uncounted \in Nat /\ answered \in Nat /\ Allowance \in Nat
  BY <1>1, DoorBounds DEF AllowanceInv, DoorTyped
<1>4. R \in Nat /\ C \in Nat /\ M \in Nat
  BY Counts, DoorBounds
<1>5. S = R - 1 /\ T = C
  <2>1. c \notin Calling
    BY DEF Calling, Recording
  <2> QED BY <1>2, <2>1, Moves
<1> HIDE DEF R, C, S, T, M
<1>6. answered <= counter' + uncounted' + S
  BY <1>3, <1>4, <1>5
<1>7. Plan = "free" => answered + T <= Allowance + uncounted' + M - 1
  BY <1>3, <1>4, <1>5
<1> QED BY <1>6, <1>7 DEF AllowanceInv, S, T, M

\* A request the allowance let in, or a read that failed.
LEMMA LetIn ==
  ASSUME DoorInv, NEW c \in Caller, NEW q, requests' = [requests EXCEPT ![c] = q],
         c \notin Recording, c \notin Calling, c \notin Recording',
         counter' = counter, answered' = answered,
         \/ uncounted' = uncounted /\ (Plan = "free" => counter < Allowance)
         \/ uncounted' = uncounted + 1
  PROVE  AllowanceInv'
<1> DEFINE R == Cardinality(Recording)  C == Cardinality(Calling)
           S == Cardinality(Recording')  T == Cardinality(Calling')  M == Cardinality(Caller)
<1>1. AllowanceInv /\ DoorTyped
  BY DEF DoorInv
<1>2. \A d \in Caller \ {c} : requests'[d] = requests[d]
  BY <1>1 DEF DoorTyped
<1>3. /\ answered <= counter + uncounted + R
      /\ Plan = "free" => answered + C <= Allowance + uncounted + M - 1
      /\ counter \in Nat /\ uncounted \in Nat /\ answered \in Nat /\ Allowance \in Nat
  BY <1>1, DoorBounds DEF AllowanceInv, DoorTyped
<1>4. R \in Nat /\ C \in Nat /\ M \in Nat
  BY Counts, DoorBounds
<1>5. S = R /\ T \in {C, C + 1}
  BY <1>2, Moves
<1>6. S + T <= M
  <2>1. /\ Recording' \subseteq Caller /\ Calling' \subseteq Caller
        /\ Recording' \cap Calling' = {}
    BY DEF Recording, Calling
  <2> QED BY <2>1, DoorBounds, Disjoint
<1> HIDE DEF R, C, S, T, M
<1>7. answered <= counter + uncounted' + S
  BY <1>3, <1>4, <1>5
<1>8. ASSUME Plan = "free" PROVE answered + T <= Allowance + uncounted' + M - 1
  <2>1. CASE uncounted' = uncounted + 1
    BY <1>3, <1>4, <1>5, <1>8, <2>1
  <2>2. CASE uncounted' = uncounted /\ counter < Allowance
    BY <1>3, <1>4, <1>5, <1>6, <2>2
  <2> QED BY <1>8, <2>1, <2>2
<1> QED BY <1>7, <1>8 DEF AllowanceInv, S, T, M

\* An answer.
LEMMA AnsweredCounts ==
  ASSUME DoorInv, NEW c \in Caller, NEW q, requests' = [requests EXCEPT ![c] = q],
         c \in Calling, c \in Recording', UNCHANGED <<counter, uncounted>>,
         answered' = answered + 1
  PROVE  AllowanceInv'
<1> DEFINE R == Cardinality(Recording)  C == Cardinality(Calling)
           S == Cardinality(Recording')  T == Cardinality(Calling')  M == Cardinality(Caller)
<1>1. AllowanceInv /\ DoorTyped
  BY DEF DoorInv
<1>2. \A d \in Caller \ {c} : requests'[d] = requests[d]
  BY <1>1 DEF DoorTyped
<1>3. /\ answered <= counter + uncounted + R
      /\ Plan = "free" => answered + C <= Allowance + uncounted + M - 1
      /\ counter \in Nat /\ uncounted \in Nat /\ answered \in Nat /\ Allowance \in Nat
  BY <1>1, DoorBounds DEF AllowanceInv, DoorTyped
<1>4. R \in Nat /\ C \in Nat /\ M \in Nat
  BY Counts, DoorBounds
<1>5. S = R + 1 /\ T = C - 1
  <2>1. c \notin Recording /\ c \notin Calling'
    BY DEF Calling, Recording
  <2> QED BY <1>2, <2>1, Moves
<1> HIDE DEF R, C, S, T, M
<1>6. answered + 1 <= counter + uncounted + S
  BY <1>3, <1>4, <1>5
<1>7. Plan = "free" => answered + 1 + T <= Allowance + uncounted + M - 1
  BY <1>3, <1>4, <1>5
<1> QED BY <1>6, <1>7 DEF AllowanceInv, S, T, M

LEMMA CheckAllowanceStep ==
  ASSUME DoorInv, now' = now, NEW c \in Caller, CheckAllowance(c)
  PROVE  DoorInv'
<1> DEFINE p == requests[c]
           q == requests'[c]
<1>0. /\ DoorTyped /\ Sees(c) /\ p.pc = "allowance" /\ requests \in [Caller -> Request]
      /\ "calling" \in Place
  BY DEF DoorInv, LimitsInv, CheckAllowance, At, DoorTyped, Place
<1>1. /\ UNCHANGED tables /\ UNCHANGED <<cached, excuse>>
      /\ counter' = counter /\ answered' = answered
      /\ uncounted' \in {uncounted, uncounted + 1}
  BY DEF CheckAllowance
<1>2. /\ requests' = [requests EXCEPT ![c] = q] /\ q \in Request
      /\ \/ q.pc = "ended" /\ q.since = 0 /\ uncounted' = uncounted
         \/ /\ q.pc = "calling" /\ q.since = p.since
            /\ \/ uncounted' = uncounted /\ (Plan = "free" => counter < Allowance)
               \/ uncounted' = uncounted + 1
  <2>1. CASE Ends(c, 0) /\ uncounted' = uncounted
    BY <1>0, <2>1, OverFacts
  <2>2. CASE Goes(c, "calling") /\ (\/ WithinAllowance /\ uncounted' = uncounted
                                    \/ uncounted' = uncounted + 1)
    BY <1>0, <2>2, GoesFacts DEF WithinAllowance
  <2> QED BY <2>1, <2>2 DEF CheckAllowance
<1>3. Sees(c)'
  BY <1>0, <1>1, <1>2 DEF Sees, DoorTyped, tables
<1>4. c \notin Recording /\ c \notin Calling
  BY <1>0 DEF Recording, Calling
<1>5. c \notin Recording' /\ (q.pc = "ended" => c \notin Calling')
  BY <1>2 DEF Recording, Calling
<1> HIDE DEF p, q
<1>6. counter' \in Nat /\ answered' \in Nat /\ uncounted' \in Nat
  BY <1>0, <1>1 DEF DoorTyped
<1>7. AllowanceInv'
  <2>1. CASE q.pc = "ended" /\ UNCHANGED counts
    BY <1>2, <1>4, <1>5, <2>1, CountsStay
  <2>2. CASE \/ uncounted' = uncounted /\ (Plan = "free" => counter < Allowance)
             \/ uncounted' = uncounted + 1
    BY <1>1, <1>2, <1>4, <1>5, <2>2, LetIn
  <2> QED BY <1>1, <1>2, <2>1, <2>2 DEF counts
<1> QED BY <1>1, <1>2, <1>3, <1>6, <1>7, RequestStep

LEMMA CallProviderStep ==
  ASSUME DoorInv, now' = now, NEW c \in Caller, CallProvider(c)
  PROVE  DoorInv'
<1> DEFINE p == requests[c]
           q == requests'[c]
<1>0. /\ DoorTyped /\ Sees(c) /\ p.pc = "calling" /\ requests \in [Caller -> Request]
      /\ p \in Request
  BY DEF DoorInv, LimitsInv, CallProvider, At, DoorTyped
<1>1. /\ UNCHANGED tables /\ UNCHANGED <<cached, excuse>>
      /\ counter' = counter /\ uncounted' = uncounted
  BY DEF CallProvider
<1>2. /\ requests' = [requests EXCEPT ![c] = q] /\ q \in Request /\ q.since = 0
      /\ q.pc \in {"recording", "ended"}
      /\ \/ answered' = answered
         \/ /\ answered' = answered + 1 /\ q.pc = "recording"
            /\ ~p.stream /\ p.endpoint # "embeddings"
  <2>1. CASE Ends(c, 0) /\ answered' = answered
    BY <1>0, <2>1, OverFacts
  <2>2. CASE /\ Metered(c) /\ p.endpoint # "embeddings"
             /\ answered' = IF p.stream \/ p.endpoint = "embeddings" THEN answered ELSE answered + 1
    <3>1. \/ answered' = answered
          \/ answered' = answered + 1 /\ ~p.stream
      BY <2>2
    <3> QED BY <1>0, <2>2, <3>1, OverFacts
  <2>3. CASE p.endpoint = "embeddings"
    <3>1. Ends(c, 0) /\ answered' = answered
      BY <2>3 DEF CallProvider
    <3> QED BY <2>1, <3>1
  <2> QED BY <2>1, <2>2, <2>3 DEF CallProvider
<1>3. Sees(c)'
  BY <1>0, <1>1, <1>2 DEF Sees, DoorTyped, tables
<1>4. c \notin Recording /\ c \notin Calling' /\ (q.pc = "recording" => c \in Recording')
  BY <1>0, <1>2 DEF Recording, Calling
<1>5. answered' # answered => c \in Calling /\ c \in Recording' /\ answered' = answered + 1
  BY <1>0, <1>2, <1>4 DEF Calling
<1> HIDE DEF p, q
<1>6. counter' \in Nat /\ answered' \in Nat /\ uncounted' \in Nat
  BY <1>0, <1>1, <1>2 DEF DoorTyped
<1>7. AllowanceInv'
  <2>1. CASE answered' = answered
    BY <1>1, <1>2, <1>4, <2>1, CountsStay DEF counts
  <2>2. CASE answered' # answered
    BY <1>1, <1>2, <1>5, <2>2, AnsweredCounts
  <2> QED BY <2>1, <2>2
<1> QED BY <1>1, <1>2, <1>3, <1>6, <1>7, RequestStep

LEMMA RecordStep ==
  ASSUME DoorInv, now' = now, NEW c \in Caller, Record(c)
  PROVE  DoorInv'
<1> DEFINE p == requests[c]
           q == requests'[c]
<1>0. DoorTyped /\ Sees(c) /\ p.pc = "recording" /\ requests \in [Caller -> Request]
  BY DEF DoorInv, LimitsInv, Record, At, DoorTyped
<1>1. /\ UNCHANGED tables /\ UNCHANGED <<cached, excuse>> /\ answered' = answered
      /\ \/ counter' = counter + 1 /\ uncounted' = uncounted
         \/ counter' = counter /\ uncounted' = uncounted + 1
  BY DEF Record, Counted
<1>2. \E events \in {0, 1} : Ends(c, events)
  BY DEF Record
<1>3. requests' = [requests EXCEPT ![c] = q] /\ q \in Request /\ q.since = 0 /\ q.pc = "ended"
  BY <1>0, <1>2, OverFacts
<1>4. Sees(c)'
  BY <1>0, <1>1, <1>3 DEF Sees, DoorTyped, tables
<1>5. c \in Recording /\ c \notin Recording' /\ c \notin Calling'
  BY <1>0, <1>3 DEF Recording, Calling
<1> HIDE DEF p, q
<1>6. counter' \in Nat /\ answered' \in Nat /\ uncounted' \in Nat
  BY <1>0, <1>1 DEF DoorTyped
<1>7. AllowanceInv'
  BY <1>1, <1>3, <1>5, Recorded
<1> QED BY <1>1, <1>3, <1>4, <1>6, <1>7, RequestStep

LEMMA GoAwayStep ==
  ASSUME DoorInv, now' = now, NEW c \in Caller, GoAway(c)
  PROVE  DoorInv'
<1> DEFINE p == requests[c]
           q == requests'[c]
<1>0. DoorTyped /\ Sees(c) /\ requests \in [Caller -> Request]
  BY DEF DoorInv, LimitsInv, DoorTyped
<1>1. /\ UNCHANGED tables /\ UNCHANGED <<cached, excuse>>
      /\ answered' = answered /\ counter' = counter
      /\ uncounted' = IF p.pc = "recording" THEN uncounted + 1 ELSE uncounted
  BY DEF GoAway, At
<1>2. \E events \in {0, 1} : Ends(c, events)
  BY DEF GoAway
<1>3. requests' = [requests EXCEPT ![c] = q] /\ q \in Request /\ q.since = 0 /\ q.pc = "ended"
  BY <1>0, <1>2, OverFacts
<1>4. Sees(c)'
  BY <1>0, <1>1, <1>3 DEF Sees, DoorTyped, tables
<1>5. c \notin Recording' /\ c \notin Calling' /\ (c \in Recording <=> p.pc = "recording")
  BY <1>3 DEF Recording, Calling
<1> HIDE DEF p, q
<1>6. counter' \in Nat /\ answered' \in Nat /\ uncounted' \in Nat
  BY <1>0, <1>1 DEF DoorTyped
<1>7. AllowanceInv'
  <2>1. CASE c \in Recording
    BY <1>1, <1>3, <1>5, <2>1, Recorded
  <2>2. CASE c \notin Recording
    BY <1>1, <1>3, <1>5, <2>2, CountsStay DEF counts
  <2> QED BY <2>1, <2>2
<1> QED BY <1>1, <1>3, <1>4, <1>6, <1>7, RequestStep

-----------------------------------------------------------------------------
(* The management API's steps, and time                                    *)

LEMMA ChangeBudgetStep == DoorInv /\ now' = now /\ ChangeBudget => DoorInv'
<1> SUFFICES ASSUME DoorInv, now' = now, ChangeBudget PROVE DoorInv'
  OBVIOUS
<1>0. DoorTyped /\ LimitsInv /\ AllowanceInv
  BY DEF DoorInv
<1>1. /\ changes' = changes + 1 /\ change' = "written" /\ budgets' \in Ceiling
      /\ UNCHANGED <<cached, requests, excuse>> /\ UNCHANGED counts
  BY DEF ChangeBudget
<1>2. DoorTyped'
  BY <1>0, <1>1 DEF DoorTyped, counts
<1>3. ASSUME NEW c \in Caller PROVE Sees(c)'
  <2>1. requests[c].since \in Nat /\ Sees(c)
    BY <1>0 DEF DoorTyped, Request, LimitsInv
  <2>2. requests[c].since < changes'
    BY <1>0, <1>1, <2>1 DEF Sees, DoorTyped
  <2> QED BY <1>0, <1>1, <2>1, <2>2 DEF Sees, DoorTyped
<1>4. \A k \in Key : Cached(k)'
  BY <1>0, <1>1 DEF LimitsInv, Cached
<1>5. LimitsInv'
  BY <1>0, <1>1, <1>3, <1>4 DEF LimitsInv, DoorTyped
<1>6. AllowanceInv'
  BY <1>0, <1>1 DEF AllowanceInv, Recording, Calling, counts
<1> QED BY <1>2, <1>5, <1>6 DEF DoorInv

LEMMA InvalidateLimitsStep == DoorInv /\ now' = now /\ InvalidateLimits => DoorInv'
<1> SUFFICES ASSUME DoorInv, now' = now, InvalidateLimits PROVE DoorInv'
  OBVIOUS
<1>0. DoorTyped /\ LimitsInv /\ AllowanceInv
  BY DEF DoorInv
<1>1. /\ UNCHANGED <<budgets, requests, changes>> /\ UNCHANGED counts /\ change' = "none"
      /\ change = "written"
      /\ \/ cached' = [k \in Key |-> None] /\ excuse' = excuse
         \/ cached' = cached /\ excuse' = now
  BY DEF InvalidateLimits, Dropped
<1>2. DoorTyped'
  BY <1>0, <1>1 DEF DoorTyped, counts
<1>3. /\ excuse' # None => excuse' <= now
      /\ excuse # None => excuse' # None /\ excuse <= excuse'
      /\ \A k \in Key : cached'[k] # None => cached'[k] = cached[k] /\ excuse' = now
  BY <1>0, <1>1, DoorBounds DEF DoorTyped, LimitsInv
<1>4. ASSUME NEW c \in Caller PROVE Sees(c)'
  <2>1. requests[c].at \in Nat /\ Sees(c)
    BY <1>0 DEF DoorTyped, Request, LimitsInv
  <2> QED BY <1>0, <1>1, <1>2, <1>3, <2>1, DoorBounds DEF Sees, DoorTyped
<1>5. ASSUME NEW k \in Key PROVE Cached(k)'
  <2>1. SUFFICES ASSUME cached'[k] # None PROVE Cached(k)'
    BY DEF Cached
  <2>2. cached'[k] = cached[k] /\ excuse' = now /\ cached[k].until <= now + LimitsTTL
    BY <1>0, <1>3, <2>1 DEF LimitsInv, Cached
  <2>3. now # None
    BY <1>0, DoorBounds DEF DoorTyped
  <2> QED BY <2>2, <2>3 DEF Cached
<1>6. LimitsInv'
  BY <1>0, <1>1, <1>3, <1>4, <1>5 DEF LimitsInv
<1>7. AllowanceInv'
  BY <1>0, <1>1 DEF AllowanceInv, Recording, Calling, counts
<1> QED BY <1>2, <1>6, <1>7 DEF DoorInv

LEMMA DoorRests == DoorInv /\ now' \in {now, now + 1} /\ UNCHANGED doorVars => DoorInv'
<1> SUFFICES ASSUME DoorInv, now' \in {now, now + 1}, UNCHANGED doorVars PROVE DoorInv'
  OBVIOUS
<1>0. DoorTyped /\ LimitsInv /\ AllowanceInv
  BY DEF DoorInv
<1>1. DoorTyped'
  BY <1>0 DEF DoorTyped, doorVars
<1>2. \A c \in Caller : Sees(c)'
  BY <1>0 DEF LimitsInv, Sees, doorVars
<1>3. ASSUME NEW k \in Key PROVE Cached(k)'
  <2>1. cached[k] # None => cached[k].until \in Nat
    BY <1>0 DEF DoorTyped
  <2> QED BY <1>0, <2>1, DoorBounds DEF LimitsInv, Cached, DoorTyped, doorVars
<1>4. LimitsInv'
  BY <1>0, <1>2, <1>3 DEF LimitsInv, DoorTyped, doorVars
<1>5. AllowanceInv'
  BY <1>0 DEF AllowanceInv, Recording, Calling, doorVars
<1> QED BY <1>1, <1>4, <1>5 DEF DoorInv

\* Every step of the specification.
LEMMA DoorSteps == DoorInv /\ [Next]_vars => DoorInv'
<1> SUFFICES ASSUME DoorInv, [Next]_vars PROVE DoorInv'
  OBVIOUS
<1>1. CASE Tick \/ KeyStep \/ AddressStep \/ UNCHANGED vars
  <2>1. now' \in {now, now + 1} /\ UNCHANGED doorVars
    BY <1>1 DEF Tick, KeyStep, AddressStep, vars
  <2> QED BY <2>1, DoorRests
<1>2. CASE DoorStep
  <2>0. now' = now /\ Door
    BY <1>2 DEF DoorStep
  <2>1. CASE ChangeBudget
    BY <2>0, <2>1, ChangeBudgetStep
  <2>2. CASE InvalidateLimits
    BY <2>0, <2>2, InvalidateLimitsStep
  <2>3. ASSUME NEW c \in Caller, NEW r \in Replica, NEW endpoint \in Endpoint, NEW k \in Key,
               NEW stream \in BOOLEAN, Arrive(c, r, endpoint, k, stream)
        PROVE  DoorInv'
    BY <2>0, <2>3, ArriveStep
  <2>4. ASSUME NEW c \in Caller, PassLimiter(c) PROVE DoorInv'
    BY <2>0, <2>4, PassLimiterStep
  <2>5. ASSUME NEW c \in Caller, ReadLimits(c) PROVE DoorInv'
    BY <2>0, <2>5, ReadLimitsStep
  <2>6. ASSUME NEW c \in Caller, QueryLimits(c) PROVE DoorInv'
    BY <2>0, <2>6, QueryLimitsStep
  <2>7. ASSUME NEW c \in Caller, CacheLimits(c) PROVE DoorInv'
    BY <2>0, <2>7, CacheLimitsStep
  <2>8. ASSUME NEW c \in Caller, Reserve(c) PROVE DoorInv'
    BY <2>0, <2>8, ReserveStep
  <2>9. ASSUME NEW c \in Caller, CheckAllowance(c) PROVE DoorInv'
    BY <2>0, <2>9, CheckAllowanceStep
  <2>10. ASSUME NEW c \in Caller, CallProvider(c) PROVE DoorInv'
    BY <2>0, <2>10, CallProviderStep
  <2>11. ASSUME NEW c \in Caller, Record(c) PROVE DoorInv'
    BY <2>0, <2>11, RecordStep
  <2>12. ASSUME NEW c \in Caller, GoAway(c) PROVE DoorInv'
    BY <2>0, <2>12, GoAwayStep
  <2> QED BY <2>0, <2>1, <2>2, <2>3, <2>4, <2>5, <2>6, <2>7, <2>8, <2>9, <2>10, <2>11, <2>12
          DEF Door
<1> QED BY <1>1, <1>2 DEF Next

LEMMA DoorMeans == DoorInv => DoorSafety
<1> SUFFICES ASSUME DoorInv PROVE DoorSafety
  OBVIOUS
<1>1. DoorTyped /\ LimitsInv /\ AllowanceInv
  BY DEF DoorInv
<1>2. LimitsCatchUp
  BY <1>1 DEF LimitsInv, Sees, LimitsCatchUp
<1>3. AllowanceBounded
  BY <1>1, Counts, DoorBounds DEF AllowanceInv, AllowanceBounded, DoorTyped
<1> QED BY <1>2, <1>3 DEF DoorSafety

\* However requests, changes of budgets and failures interleave, a request uses limits that were
\* replaced only within a life of the cache after their excuse, and the free allowance is passed
\* by requests in progress together at most (budget.rs load_limits, invalidate_limits,
\* check_free_tier_allowance; usage.rs emit).
THEOREM DoorHolds == Spec => []DoorSafety
<1>1. Init => DoorInv
  BY DoorBegin DEF Init
<1> QED BY <1>1, DoorSteps, DoorMeans, PTL DEF Spec

===============================================================================
