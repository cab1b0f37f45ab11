------------------------------- MODULE Totals -------------------------------
(***************************************************************************)
(* Sums over the requests 1 .. N.  A counter of the gateway is shared by   *)
(* every request in flight, so what it should hold is a sum over them; the *)
(* lemmas below say how it moves.                                          *)
(***************************************************************************)
EXTENDS Integers, Sequences, FiniteSets, SequencesExt, SequenceTheorems, FiniteSetTheorems, WellFoundedInduction, TLAPS

\* Prefix(f, N)[i] is f[1] + ... + f[i].
Prefix(f, N) ==
  LET p[i \in 0 .. N] == IF i = 0 THEN 0 ELSE p[i - 1] + f[i] IN p

Total(f, N) == Prefix(f, N)[N]

\* The elements of s at the places I, in their order.
Where(s, I) == FlattenSeq([i \in DOMAIN s |-> IF i \in I THEN <<s[i]>> ELSE <<>>])

\* The sum of f over a finite set.
SumOver(f, S) ==
  LET sum[s \in SUBSET S] ==
        IF s = {} THEN 0 ELSE f[CHOOSE x \in s : TRUE] + sum[s \ {CHOOSE x \in s : TRUE}]
  IN sum[S]

Min2(a, b) == IF a <= b THEN a ELSE b

-----------------------------------------------------------------------------
(***************************************************************************)
(* Facts about these sums.  They need induction on the index; it is done   *)
(* by looking at the least index where a claim fails, which exists because *)
(* strict inclusion is well-founded on finite sets.                        *)
(***************************************************************************)

\* Every non-empty set of natural numbers has a least element: the induction principle
\* behind the lemmas on the sums the budget counters are compared with.
LEMMA Minimum ==
  ASSUME NEW T, T \subseteq Nat, T # {}
  PROVE \E x \in T : \A y \in T : x <= y
<1> DEFINE F == {0..n : n \in T}
           R == StrictSubsetOrdering(Nat)
<1>1. IsWellFoundedOn(R, FiniteSubsetsOf(Nat))
  BY FS_StrictSubsetOrderingWellFounded
<1>2. F \subseteq FiniteSubsetsOf(Nat)
  <2>1. \A n \in T : 0..n \subseteq Nat /\ IsFiniteSet(0..n)
    BY FS_Interval
  <2> QED BY <2>1 DEF FiniteSubsetsOf
<1>3. F # {}
  OBVIOUS
<1> HIDE DEF F, R
<1>4. \E x \in F : \A y \in F : ~ (<<y, x>> \in R)
  BY <1>1, <1>2, <1>3, WFMin, Zenon
<1> USE DEF F, R
<1>5. PICK x \in T : \A y \in T : ~ (<<0..y, 0..x>> \in R)
  BY <1>4
<1>6. ASSUME NEW y \in T PROVE x <= y
  <2>1. SUFFICES ASSUME y < x PROVE FALSE
    OBVIOUS
  <2>2. 0..y \subseteq 0..x /\ 0..y # 0..x /\ 0..y \subseteq Nat /\ 0..x \subseteq Nat
    <3>1. x \in 0..x /\ x \notin 0..y
      BY <2>1
    <3> QED BY <2>1, <3>1
  <2> QED BY <1>5, <2>2 DEF StrictSubsetOrdering
<1> QED BY <1>6

\* h is the sequence of partial sums of f.
SumsUp(h, f, N) ==
  /\ h \in [0 .. N -> Int]
  /\ h[0] = 0
  /\ \A i \in 1 .. N : h[i] = h[i - 1] + f[i]

\* A function with the recurrence of Prefix exists, by induction on N.
LEMMA PrefixExists ==
  ASSUME NEW N \in Nat, NEW f \in [1 .. N -> Int]
  PROVE  \E h : SumsUp(h, f, N)
<1> DEFINE Bad == {n \in 0 .. N : ~ \E h : SumsUp(h, f, n)}
<1>1. Bad = {}
  <2>1. SUFFICES ASSUME Bad # {} PROVE FALSE
    OBVIOUS
  <2>2. Bad \subseteq Nat
    OBVIOUS
  <2>3. \E n \in Bad : \A m \in Bad : n <= m
    <3> HIDE DEF Bad
    <3> QED BY <2>1, <2>2, Minimum
  <2>4. PICK n \in Bad : \A m \in Bad : n <= m
    BY <2>3
  <2>5. CASE n = 0
    <3>1. SumsUp([i \in 0 .. 0 |-> 0], f, 0)
      BY DEF SumsUp
    <3> QED BY <2>5, <3>1
  <2>6. CASE n # 0
    <3>1. n - 1 \in 0 .. N /\ n - 1 \notin Bad
      BY <2>4, <2>6
    <3>2. PICK h : SumsUp(h, f, n - 1)
      BY <3>1
    <3>3. SumsUp([i \in 0 .. n |-> IF i = n THEN h[n - 1] + f[n] ELSE h[i]], f, n)
      BY <2>6, <3>2 DEF SumsUp
    <3> QED BY <3>3
  <2> QED BY <2>5, <2>6
<1>2. N \in 0 .. N
  OBVIOUS
<1>3. N \notin Bad
  BY <1>1
<1> QED BY <1>2, <1>3

\* The recurrence of Prefix has one solution.
LEMMA PrefixUnique ==
  ASSUME NEW N \in Nat, NEW f \in [1 .. N -> Int],
         NEW g, SumsUp(g, f, N), NEW h, SumsUp(h, f, N)
  PROVE  g = h
<1> DEFINE Bad == {i \in 0 .. N : g[i] # h[i]}
<1>1. Bad = {}
  <2>1. SUFFICES ASSUME Bad # {} PROVE FALSE
    OBVIOUS
  <2>2. Bad \subseteq Nat
    OBVIOUS
  <2>3. \E i \in Bad : \A j \in Bad : i <= j
    <3> HIDE DEF Bad
    <3> QED BY <2>1, <2>2, Minimum
  <2>4. PICK i \in Bad : \A j \in Bad : i <= j
    BY <2>3
  <2>5. i # 0
    BY DEF SumsUp
  <2>6. i - 1 \in 0 .. N /\ g[i - 1] = h[i - 1]
    BY <2>4, <2>5
  <2>7. i \in 1 .. N
    BY <2>5
  <2>8. g[i] = g[i - 1] + f[i] /\ h[i] = h[i - 1] + f[i]
    BY <2>7 DEF SumsUp
  <2> QED BY <2>6, <2>8
<1>2. \A i \in 0 .. N : g[i] = h[i]
  BY <1>1
<1>3. g \in [0 .. N -> Int] /\ h \in [0 .. N -> Int]
  BY DEF SumsUp
<1> HIDE DEF Bad
<1> QED BY <1>2, <1>3

\* Whatever solves the recursive definition of Prefix is a prefix sum of integers.
LEMMA FixedPointSumsUp ==
  ASSUME NEW N \in Nat, NEW f \in [1 .. N -> Int], NEW p,
         p = [i \in 0 .. N |-> IF i = 0 THEN 0 ELSE p[i - 1] + f[i]]
  PROVE  SumsUp(p, f, N)
<1> DEFINE Bad == {i \in 0 .. N : p[i] \notin Int}
<1>1. p[0] = 0
  <2>1. 0 \in 0 .. N
    OBVIOUS
  <2>2. p[0] = [i \in 0 .. N |-> IF i = 0 THEN 0 ELSE p[i - 1] + f[i]][0]
    BY Zenon
  <2> QED BY <2>1, <2>2
<1>2. \A i \in 1 .. N : p[i] = p[i - 1] + f[i]
  <2>1. TAKE i \in 1 .. N
  <2>2. i \in 0 .. N /\ i # 0
    OBVIOUS
  <2>3. p[i] = [j \in 0 .. N |-> IF j = 0 THEN 0 ELSE p[j - 1] + f[j]][i]
    BY Zenon
  <2> QED BY <2>2, <2>3
<1>3. Bad = {}
  <2>1. SUFFICES ASSUME Bad # {} PROVE FALSE
    OBVIOUS
  <2>2. Bad \subseteq Nat
    OBVIOUS
  <2>3. \E i \in Bad : \A j \in Bad : i <= j
    <3> HIDE DEF Bad
    <3> QED BY <2>1, <2>2, Minimum
  <2>4. PICK i \in Bad : \A j \in Bad : i <= j
    BY <2>3
  <2>5. i # 0
    BY <1>1
  <2>6. i - 1 \in 0 .. N /\ p[i - 1] \in Int
    BY <2>4, <2>5
  <2>7. i \in 1 .. N
    BY <2>5
  <2> QED BY <1>2, <2>6, <2>7
<1>4. DOMAIN p = 0 .. N /\ p = [i \in DOMAIN p |-> p[i]]
  OBVIOUS
<1> QED BY <1>1, <1>2, <1>3, <1>4 DEF SumsUp

\* Prefix is the prefix sum it is defined as.
LEMMA PrefixIs ==
  ASSUME NEW N \in Nat, NEW f \in [1 .. N -> Int]
  PROVE  SumsUp(Prefix(f, N), f, N)
<1> DEFINE Step(p) == [i \in 0 .. N |-> IF i = 0 THEN 0 ELSE p[i - 1] + f[i]]
<1>1. Prefix(f, N) = CHOOSE p : p = Step(p)
  BY DEF Prefix
<1>2. PICK h : SumsUp(h, f, N)
  BY PrefixExists
<1>3. h = Step(h)
  BY <1>2 DEF SumsUp
<1>4. Prefix(f, N) = Step(Prefix(f, N))
  BY <1>1, <1>3
<1> QED BY <1>4, FixedPointSumsUp

\* The total of integers is an integer.
LEMMA TotalType ==
  ASSUME NEW N \in Nat, NEW f \in [1 .. N -> Int]
  PROVE  Total(f, N) \in Int
BY PrefixIs DEF SumsUp, Total

\* The total of zeros is zero: counters nobody has touched.
LEMMA TotalZero ==
  ASSUME NEW N \in Nat
  PROVE  Total([i \in 1 .. N |-> 0], N) = 0
<1> DEFINE f == [i \in 1 .. N |-> 0]
           z == [i \in 0 .. N |-> 0]
<1>1. SumsUp(z, f, N)
  BY DEF SumsUp
<1>2. Prefix(f, N) = z
  BY <1>1, PrefixIs, PrefixUnique
<1> QED BY <1>2 DEF Total

\* Changing one summand changes the total by as much: one request at one counter.
LEMMA TotalChange ==
  ASSUME NEW N \in Nat, NEW f \in [1 .. N -> Int],
         NEW r \in 1 .. N, NEW v \in Int
  PROVE  Total([f EXCEPT ![r] = v], N) = Total(f, N) - f[r] + v
<1> DEFINE g == [f EXCEPT ![r] = v]
           p == Prefix(f, N)
           q == [i \in 0 .. N |-> IF i < r THEN p[i] ELSE p[i] - f[r] + v]
<1>1. SumsUp(p, f, N)
  BY PrefixIs
<1>2. SumsUp(q, g, N)
  <2> HIDE DEF p
  <2>1. q \in [0 .. N -> Int] /\ q[0] = 0
    BY <1>1 DEF SumsUp
  <2>2. ASSUME NEW i \in 1 .. N PROVE q[i] = q[i - 1] + g[i]
    <3>1. p[i] = p[i - 1] + f[i] /\ p[i] \in Int /\ p[i - 1] \in Int
      BY <1>1 DEF SumsUp
    <3>2. i - 1 \in 0 .. N /\ i \in 0 .. N
      OBVIOUS
    <3>3. CASE i < r
      BY <3>1, <3>2, <3>3
    <3>4. CASE i = r
      BY <3>1, <3>2, <3>4
    <3>5. CASE i > r
      BY <3>1, <3>2, <3>5
    <3> QED BY <3>3, <3>4, <3>5
  <2> QED BY <2>1, <2>2 DEF SumsUp
<1>3. g \in [1 .. N -> Int]
  OBVIOUS
<1>4. Prefix(g, N) = q
  <2> HIDE DEF g, q
  <2> QED BY <1>2, <1>3, PrefixIs, PrefixUnique
<1> QED BY <1>4 DEF Total

\* Totals are monotone: what each request is charged bounds what all are charged.
LEMMA TotalMonotone ==
  ASSUME NEW N \in Nat, NEW f \in [1 .. N -> Int], NEW g \in [1 .. N -> Int],
         \A i \in 1 .. N : f[i] <= g[i]
  PROVE  Total(f, N) <= Total(g, N)
<1> DEFINE p == Prefix(f, N)
           q == Prefix(g, N)
           Bad == {i \in 0 .. N : ~ (p[i] <= q[i])}
<1>1. SumsUp(p, f, N) /\ SumsUp(q, g, N)
  BY PrefixIs
<1>2. Bad = {}
  <2> HIDE DEF p, q
  <2>1. SUFFICES ASSUME Bad # {} PROVE FALSE
    OBVIOUS
  <2>2. Bad \subseteq Nat
    OBVIOUS
  <2>3. \E i \in Bad : \A j \in Bad : i <= j
    <3> HIDE DEF Bad
    <3> QED BY <2>1, <2>2, Minimum
  <2>4. PICK i \in Bad : \A j \in Bad : i <= j
    BY <2>3
  <2>5. i # 0
    BY <1>1 DEF SumsUp
  <2>6. i - 1 \in 0 .. N /\ p[i - 1] <= q[i - 1]
    BY <2>4, <2>5
  <2>7. i \in 1 .. N
    BY <2>5
  <2>8. p[i] = p[i - 1] + f[i] /\ q[i] = q[i - 1] + g[i]
    BY <1>1, <2>7 DEF SumsUp
  <2>9. p[i - 1] \in Int /\ q[i - 1] \in Int
    BY <1>1, <2>6 DEF SumsUp
  <2> QED BY <2>6, <2>7, <2>8, <2>9
<1>3. p[N] <= q[N]
  <2> HIDE DEF p, q
  <2> QED BY <1>2
<1> QED BY <1>3 DEF Total

\* Two families of summands that agree except at r differ by the difference at r.
LEMMA TotalStep ==
  ASSUME NEW N \in Nat, NEW f \in [1 .. N -> Int], NEW g \in [1 .. N -> Int],
         NEW r \in 1 .. N, \A q \in 1 .. N : q # r => g[q] = f[q]
  PROVE  Total(g, N) = Total(f, N) - f[r] + g[r]
<1>1. g = [f EXCEPT ![r] = g[r]]
  OBVIOUS
<1>2. g[r] \in Int
  OBVIOUS
<1> QED BY <1>1, <1>2, TotalChange

\* The total of sums is the sum of the totals: a charge split into its parts.
LEMMA TotalSum ==
  ASSUME NEW N \in Nat, NEW f \in [1 .. N -> Int], NEW g \in [1 .. N -> Int]
  PROVE  Total([i \in 1 .. N |-> f[i] + g[i]], N) = Total(f, N) + Total(g, N)
<1> DEFINE h == [i \in 1 .. N |-> f[i] + g[i]]
           p == Prefix(f, N)
           q == Prefix(g, N)
           s == [i \in 0 .. N |-> p[i] + q[i]]
<1>1. SumsUp(p, f, N) /\ SumsUp(q, g, N)
  BY PrefixIs
<1>2. h \in [1 .. N -> Int]
  OBVIOUS
<1>3. SumsUp(s, h, N)
  <2> HIDE DEF p, q
  <2>1. s \in [0 .. N -> Int] /\ s[0] = 0
    BY <1>1 DEF SumsUp
  <2>2. ASSUME NEW i \in 1 .. N PROVE s[i] = s[i - 1] + h[i]
    <3>1. p[i] = p[i - 1] + f[i] /\ q[i] = q[i - 1] + g[i]
      BY <1>1 DEF SumsUp
    <3>2. i \in 0 .. N /\ i - 1 \in 0 .. N
      OBVIOUS
    <3>3. p[i - 1] \in Int /\ q[i - 1] \in Int
      BY <1>1, <3>2 DEF SumsUp
    <3>4. f[i] \in Int /\ g[i] \in Int
      OBVIOUS
    <3>5. s[i] = p[i] + q[i] /\ s[i - 1] = p[i - 1] + q[i - 1] /\ h[i] = f[i] + g[i]
      BY <3>2
    <3> QED BY <3>1, <3>3, <3>4, <3>5
  <2> QED BY <2>1, <2>2 DEF SumsUp
<1>4. Prefix(h, N) = s
  <2> HIDE DEF h, s
  <2> QED BY <1>2, <1>3, PrefixIs, PrefixUnique
<1>5. s[N] = p[N] + q[N]
  <2> HIDE DEF p, q
  <2> QED OBVIOUS
<1> QED BY <1>4, <1>5 DEF Total

\* The total of equal summands: the share of every replica.
LEMMA TotalConstant ==
  ASSUME NEW N \in Nat, NEW v \in Int
  PROVE  Total([i \in 1 .. N |-> v], N) = N * v
<1> DEFINE f == [i \in 1 .. N |-> v]
           z == [i \in 0 .. N |-> i * v]
<1>1. SumsUp(z, f, N)
  <2>1. z \in [0 .. N -> Int] /\ z[0] = 0
    OBVIOUS
  <2>2. ASSUME NEW i \in 1 .. N PROVE z[i] = z[i - 1] + f[i]
    <3>1. i - 1 \in 0 .. N /\ i \in 0 .. N
      OBVIOUS
    <3>2. i * v = (i - 1) * v + v
      OBVIOUS
    <3> QED BY <3>1, <3>2
  <2> QED BY <2>1, <2>2 DEF SumsUp
<1>2. f \in [1 .. N -> Int]
  OBVIOUS
<1>3. Prefix(f, N) = z
  <2> HIDE DEF f, z
  <2> QED BY <1>1, <1>2, PrefixIs, PrefixUnique
<1>4. z[N] = N * v
  OBVIOUS
<1> QED BY <1>3, <1>4 DEF Total

-----------------------------------------------------------------------------
(* Sequences *)

\* A claim about sequences that holds of the empty one, and of one longer by an element, holds of
\* all; the sequences it holds of are a set X.
LEMMA ByAppending ==
  ASSUME NEW T, NEW X, <<>> \in X,
         \A s \in Seq(T), e \in T : s \in X => Append(s, e) \in X
  PROVE  Seq(T) \subseteq X
<1> DEFINE Bad == {Len(s) : s \in {r \in Seq(T) : r \notin X}}
<1>1. SUFFICES ASSUME Bad # {} PROVE FALSE
  OBVIOUS
<1>2. Bad \subseteq Nat
  OBVIOUS
<1>3. \E n \in Bad : \A m \in Bad : n <= m
  <2> HIDE DEF Bad
  <2> QED BY <1>1, <1>2, Minimum
<1>4. PICK s \in Seq(T) : s \notin X /\ \A r \in Seq(T) : r \notin X => Len(s) <= Len(r)
  BY <1>3
<1>5. Len(s) # 0
  BY <1>4
<1> DEFINE r == [i \in 1 .. Len(s) - 1 |-> s[i]]
<1>6. r \in Seq(T) /\ Len(r) = Len(s) - 1 /\ s[Len(s)] \in T
  <2>1. Len(s) - 1 \in 0 .. Len(s) /\ Len(s) \in 1 .. Len(s)
    BY <1>5
  <2>2. s[Len(s)] \in T
    BY <2>1
  <2>3. \A i \in 1 .. Len(s) - 1 : s[i] \in T
    OBVIOUS
  <2> QED BY <2>1, <2>2, <2>3
<1>7. s = Append(r, s[Len(s)])
  <2>1. \A i \in 1 .. Len(s) - 1 : r[i] = s[i]
    OBVIOUS
  <2> HIDE DEF r
  <2>2. Append(r, s[Len(s)]) \in Seq(T) /\ Len(Append(r, s[Len(s)])) = Len(s)
    BY <1>6
  <2>3. \A i \in 1 .. Len(s) : Append(r, s[Len(s)])[i] = s[i]
    BY <1>6, <2>1
  <2> QED BY <2>2, <2>3, SeqEqual
<1> HIDE DEF r
<1>8. r \in X
  BY <1>4, <1>6
<1> QED BY <1>4, <1>6, <1>7, <1>8

\* h[i] is the first i sequences joined.
Joins(h, ss, n, T) ==
  /\ h \in [1 .. n -> Seq(T)]
  /\ n # 0 => h[1] = ss[1]
  /\ \A i \in 2 .. n : h[i] = h[i - 1] \o ss[i]

\* What FlattenSeq computes step by step.
Joining(p, ss) == [i \in 1 .. Len(ss) |-> IF i = 1 THEN ss[i] ELSE p[i - 1] \o ss[i]]

\* Joining one sequence more is one step more.
LEMMA JoinsLonger ==
  ASSUME NEW T, NEW ss \in Seq(Seq(T)), NEW e \in Seq(T), NEW h, Joins(h, ss, Len(ss), T)
  PROVE  Joins([i \in 1 .. Len(ss) + 1 |->
                  IF i = Len(ss) + 1 THEN IF Len(ss) = 0 THEN e ELSE h[Len(ss)] \o e ELSE h[i]],
               Append(ss, e), Len(ss) + 1, T)
<1> DEFINE n == Len(ss)
           last == IF n = 0 THEN e ELSE h[n] \o e
           g == [i \in 1 .. n + 1 |-> IF i = n + 1 THEN last ELSE h[i]]
           t == Append(ss, e)
<1>0. n \in Nat
  OBVIOUS
<1>1. \A i \in 1 .. n + 1 : t[i] = IF i = n + 1 THEN e ELSE ss[i]
  OBVIOUS
<1>2. last \in Seq(T)
  <2>1. n # 0 => n \in 1 .. n
    BY <1>0
  <2>2. n # 0 => h[n] \in Seq(T)
    BY <2>1 DEF Joins
  <2> QED BY <2>2
<1> HIDE DEF n, last, t
<1>3. h \in [1 .. n -> Seq(T)] /\ (n # 0 => h[1] = ss[1]) /\ \A i \in 2 .. n : h[i] = h[i - 1] \o ss[i]
  BY DEF Joins, n
<1>4. g \in [1 .. n + 1 -> Seq(T)]
  BY <1>0, <1>2, <1>3
<1>5. g[1] = t[1]
  <2>1. CASE n = 0
    BY <2>1, <1>1 DEF last
  <2>2. CASE n # 0
    BY <2>2, <1>0, <1>1, <1>3
  <2> QED BY <2>1, <2>2
<1>6. ASSUME NEW i \in 2 .. n + 1 PROVE g[i] = g[i - 1] \o t[i]
  <2>0. i - 1 \in 1 .. n + 1 /\ i - 1 # n + 1 /\ i \in 1 .. n + 1
    BY <1>0
  <2>1. g[i - 1] = h[i - 1]
    BY <2>0
  <2>2. CASE i = n + 1
    <3>1. n # 0 /\ last = h[n] \o e /\ i - 1 = n
      BY <2>2, <1>0 DEF last
    <3>2. g[i] = last /\ t[i] = e
      BY <2>0, <2>2, <1>1
    <3> QED BY <2>1, <3>1, <3>2
  <2>3. CASE i # n + 1
    <3>1. i \in 2 .. n
      BY <2>3, <1>0
    <3>2. h[i] = h[i - 1] \o ss[i]
      BY <3>1, <1>3
    <3>3. g[i] = h[i] /\ t[i] = ss[i]
      BY <2>0, <2>3, <1>1
    <3> QED BY <2>1, <3>2, <3>3
  <2> QED BY <2>2, <2>3
<1>7. Joins(g, t, n + 1, T)
  BY <1>4, <1>5, <1>6 DEF Joins
<1> QED BY <1>7 DEF n, last, t

\* Such an h exists.
LEMMA JoinsExists ==
  ASSUME NEW T
  PROVE  \A ss \in Seq(Seq(T)) : \E h : Joins(h, ss, Len(ss), T)
<1> DEFINE X == {ss \in Seq(Seq(T)) : \E h : Joins(h, ss, Len(ss), T)}
<1>1. <<>> \in X
  <2>1. Joins(<<>>, <<>>, 0, T)
    BY DEF Joins
  <2> QED BY <2>1
<1>2. ASSUME NEW ss \in Seq(Seq(T)), NEW e \in Seq(T), ss \in X
      PROVE  Append(ss, e) \in X
  <2>1. PICK h : Joins(h, ss, Len(ss), T)
    BY <1>2
  <2>2. \E g : Joins(g, Append(ss, e), Len(ss) + 1, T)
    BY <2>1, JoinsLonger
  <2>3. Append(ss, e) \in Seq(Seq(T)) /\ Len(Append(ss, e)) = Len(ss) + 1
    OBVIOUS
  <2> QED BY <2>2, <2>3
<1>3. Seq(Seq(T)) \subseteq X
  <2> HIDE DEF X
  <2> QED BY <1>1, <1>2, ByAppending
<1> QED BY <1>3

\* Two ways to join agree.
LEMMA JoinsAgree ==
  ASSUME NEW T, NEW n \in Nat, NEW ss, NEW g, NEW h,
         Joins(g, ss, n, T), \A i \in 1 .. n : h[i] = IF i = 1 THEN ss[i] ELSE h[i - 1] \o ss[i]
  PROVE  \A i \in 1 .. n : g[i] = h[i]
<1> DEFINE Bad == {i \in 1 .. n : g[i] # h[i]}
<1>1. SUFFICES ASSUME Bad # {} PROVE FALSE
  OBVIOUS
<1>2. Bad \subseteq Nat
  OBVIOUS
<1>3. \E i \in Bad : \A j \in Bad : i <= j
  <2> HIDE DEF Bad
  <2> QED BY <1>1, <1>2, Minimum
<1>4. PICK i \in 1 .. n : g[i] # h[i] /\ \A j \in 1 .. n : g[j] # h[j] => i <= j
  BY <1>3
<1>5. i # 1
  BY <1>4 DEF Joins
<1>6. i \in 2 .. n /\ i - 1 \in 1 .. n /\ ~(i <= i - 1)
  BY <1>5
<1>7. g[i - 1] = h[i - 1]
  BY <1>4, <1>6
<1>8. g[i] = g[i - 1] \o ss[i]
  BY <1>6 DEF Joins
<1>9. h[i] = h[i - 1] \o ss[i]
  BY <1>5
<1> QED BY <1>4, <1>7, <1>8, <1>9

\* FlattenSeq is the last of the steps.
LEMMA FlattenIs ==
  ASSUME NEW T, NEW ss \in Seq(Seq(T)), NEW h, Joins(h, ss, Len(ss), T)
  PROVE  FlattenSeq(ss) = IF Len(ss) = 0 THEN <<>> ELSE h[Len(ss)]
<1>1. CASE Len(ss) = 0
  BY <1>1 DEF FlattenSeq
<1>2. CASE Len(ss) # 0
  <2> DEFINE k == CHOOSE p : p = Joining(p, ss)
  <2>1. FlattenSeq(ss) = k[Len(ss)]
    BY <1>2 DEF FlattenSeq, Joining
  <2>2. h = Joining(h, ss)
    <3>1. ASSUME NEW i \in 1 .. Len(ss) PROVE h[i] = Joining(h, ss)[i]
      <4>1. Joining(h, ss)[i] = IF i = 1 THEN ss[i] ELSE h[i - 1] \o ss[i]
        BY DEF Joining
      <4>2. CASE i = 1
        BY <1>2, <4>1, <4>2 DEF Joins
      <4>3. CASE i # 1
        <5>1. i \in 2 .. Len(ss)
          BY <4>3
        <5> QED BY <4>1, <4>3, <5>1 DEF Joins
      <4> QED BY <4>2, <4>3
    <3>2. DOMAIN h = 1 .. Len(ss) /\ h = [i \in DOMAIN h |-> h[i]]
      BY DEF Joins
    <3>3. DOMAIN Joining(h, ss) = 1 .. Len(ss) /\ Joining(h, ss) = [i \in DOMAIN Joining(h, ss) |-> Joining(h, ss)[i]]
      BY DEF Joining
    <3> QED BY <3>1, <3>2, <3>3
  <2>3. k = Joining(k, ss)
    BY <2>2
  <2> HIDE DEF k
  <2>4. \A i \in 1 .. Len(ss) : k[i] = IF i = 1 THEN ss[i] ELSE k[i - 1] \o ss[i]
    BY <2>3 DEF Joining
  <2>5. Len(ss) \in Nat /\ Len(ss) \in 1 .. Len(ss)
    BY <1>2
  <2>6. h[Len(ss)] = k[Len(ss)]
    <3>1. PICK n \in Nat : n = Len(ss)
      BY <2>5
    <3>2. Joins(h, ss, n, T) /\ \A i \in 1 .. n : k[i] = IF i = 1 THEN ss[i] ELSE k[i - 1] \o ss[i]
      BY <2>4, <3>1
    <3>3. \A i \in 1 .. n : h[i] = k[i]
      BY <3>2, JoinsAgree
    <3> QED BY <2>5, <3>1, <3>3
  <2> QED BY <1>2, <2>1, <2>6
<1> QED BY <1>1, <1>2

\* FlattenSeq of sequences is a sequence; one more is put behind it.
LEMMA FlattenAppend ==
  ASSUME NEW T, NEW ss \in Seq(Seq(T)), NEW e \in Seq(T)
  PROVE  /\ FlattenSeq(ss) \in Seq(T)
         /\ FlattenSeq(Append(ss, e)) = FlattenSeq(ss) \o e
<1>1. PICK h : Joins(h, ss, Len(ss), T)
  BY JoinsExists
<1>2. FlattenSeq(ss) = IF Len(ss) = 0 THEN <<>> ELSE h[Len(ss)]
  BY <1>1, FlattenIs
<1>3. FlattenSeq(ss) \in Seq(T)
  <2>1. Len(ss) # 0 => Len(ss) \in 1 .. Len(ss)
    OBVIOUS
  <2>2. Len(ss) # 0 => h[Len(ss)] \in Seq(T)
    BY <1>1, <2>1 DEF Joins
  <2> QED BY <1>2, <2>2
<1> DEFINE g == [i \in 1 .. Len(ss) + 1 |->
                  IF i = Len(ss) + 1 THEN IF Len(ss) = 0 THEN e ELSE h[Len(ss)] \o e ELSE h[i]]
<1>4. Joins(g, Append(ss, e), Len(ss) + 1, T)
  BY <1>1, JoinsLonger
<1>5. Append(ss, e) \in Seq(Seq(T)) /\ Len(Append(ss, e)) = Len(ss) + 1
  OBVIOUS
<1>6. g[Len(ss) + 1] = IF Len(ss) = 0 THEN e ELSE h[Len(ss)] \o e
  OBVIOUS
<1>7. FlattenSeq(Append(ss, e)) = g[Len(ss) + 1]
  <2> HIDE DEF g
  <2>1. FlattenSeq(Append(ss, e)) = IF Len(ss) + 1 = 0 THEN <<>> ELSE g[Len(ss) + 1]
    BY <1>4, <1>5, FlattenIs
  <2> QED BY <2>1
<1> QED BY <1>2, <1>3, <1>6, <1>7

\* What Where joins.
Singles(s, I) == [i \in DOMAIN s |-> IF i \in I THEN <<s[i]>> ELSE <<>>]

\* They are sequences of at most one element, one more for one element more.
LEMMA SinglesAppend ==
  ASSUME NEW T, NEW s \in Seq(T), NEW e \in T, NEW I
  PROVE  /\ Singles(s, I) \in Seq(Seq(T)) /\ Len(Singles(s, I)) = Len(s)
         /\ Singles(Append(s, e), I) = Append(Singles(s, I), IF Len(s) + 1 \in I THEN <<e>> ELSE <<>>)
<1>1. ASSUME NEW r \in Seq(T) PROVE Singles(r, I) \in Seq(Seq(T)) /\ Len(Singles(r, I)) = Len(r)
  <2>1. ASSUME NEW i \in 1 .. Len(r) PROVE (IF i \in I THEN <<r[i]>> ELSE <<>>) \in Seq(T)
    OBVIOUS
  <2>2. Singles(r, I) = [i \in 1 .. Len(r) |-> IF i \in I THEN <<r[i]>> ELSE <<>>]
    BY DEF Singles
  <2> QED BY <2>1, <2>2
<1> DEFINE last == IF Len(s) + 1 \in I THEN <<e>> ELSE <<>>
           a == Append(Singles(s, I), last)
           b == Singles(Append(s, e), I)
<1>2. last \in Seq(T)
  OBVIOUS
<1>3. Append(s, e) \in Seq(T) /\ Len(Append(s, e)) = Len(s) + 1
  OBVIOUS
<1>4. b \in Seq(Seq(T)) /\ Len(b) = Len(s) + 1
  BY <1>1, <1>3
<1>5. a \in Seq(Seq(T)) /\ Len(a) = Len(s) + 1
  <2> HIDE DEF last
  <2> QED BY <1>1, <1>2
<1>6. ASSUME NEW i \in 1 .. Len(s) + 1 PROVE a[i] = b[i]
  <2>1. b[i] = IF i \in I THEN <<Append(s, e)[i]>> ELSE <<>>
    BY <1>3 DEF Singles
  <2>2. CASE i = Len(s) + 1
    <3>1. a[i] = last
      <4> HIDE DEF last
      <4> QED BY <2>2, <1>1, <1>2
    <3>2. Append(s, e)[i] = e
      BY <2>2
    <3> QED BY <2>1, <2>2, <3>1, <3>2
  <2>3. CASE i # Len(s) + 1
    <3>1. i \in 1 .. Len(s)
      BY <2>3
    <3>2. a[i] = Singles(s, I)[i]
      <4> HIDE DEF last
      <4> QED BY <3>1, <1>1, <1>2
    <3>3. Append(s, e)[i] = s[i]
      BY <3>1
    <3>4. Singles(s, I)[i] = IF i \in I THEN <<s[i]>> ELSE <<>>
      BY <3>1 DEF Singles
    <3> QED BY <2>1, <3>2, <3>3, <3>4
  <2> QED BY <2>2, <2>3
<1>7. a = b
  <2> HIDE DEF a, b
  <2> QED BY <1>4, <1>5, <1>6, SeqEqual
<1> QED BY <1>1, <1>7

\* One element more is picked or is not.
LEMMA WhereAppend ==
  ASSUME NEW T, NEW s \in Seq(T), NEW e \in T, NEW I
  PROVE  /\ Where(s, I) \in Seq(T)
         /\ Where(Append(s, e), I) = IF Len(s) + 1 \in I THEN Append(Where(s, I), e) ELSE Where(s, I)
<1> DEFINE last == IF Len(s) + 1 \in I THEN <<e>> ELSE <<>>
<1>1. Where(s, I) = FlattenSeq(Singles(s, I))
  BY DEF Where, Singles
<1>2. Where(Append(s, e), I) = FlattenSeq(Append(Singles(s, I), last))
  <2>1. Where(Append(s, e), I) = FlattenSeq(Singles(Append(s, e), I))
    BY DEF Where, Singles
  <2>2. Singles(Append(s, e), I) = Append(Singles(s, I), last)
    BY SinglesAppend
  <2> QED BY <2>1, <2>2
<1>3. last \in Seq(T)
  OBVIOUS
<1>4. Singles(s, I) \in Seq(Seq(T))
  BY SinglesAppend
<1>5. Where(s, I) \in Seq(T) /\ Where(Append(s, e), I) = Where(s, I) \o last
  <2> HIDE DEF last
  <2> QED BY <1>1, <1>2, <1>3, <1>4, FlattenAppend
<1>6. Where(s, I) \o <<e>> = Append(Where(s, I), e) /\ Where(s, I) \o <<>> = Where(s, I)
  BY <1>5
<1> QED BY <1>5, <1>6

\* There is nothing to pick.
LEMMA WhereEmpty ==
  ASSUME NEW I
  PROVE  Where(<<>>, I) = <<>>
<1>1. Singles(<<>>, I) = <<>>
  BY DEF Singles
<1>2. FlattenSeq(<<>>) = <<>>
  BY DEF FlattenSeq
<1> QED BY <1>1, <1>2 DEF Where, Singles

\* Where looks at nothing but the places it is asked for.
LEMMA WhereSame ==
  ASSUME NEW T, NEW s \in Seq(T), NEW U, NEW t \in Seq(U), NEW I, NEW J, Len(s) = Len(t),
         \A i \in 1 .. Len(s) : (i \in I <=> i \in J) /\ (i \in I => s[i] = t[i])
  PROVE  Where(s, I) = Where(t, J)
<1>1. Singles(s, I) = Singles(t, J)
  BY DEF Singles
<1> QED BY <1>1 DEF Where, Singles

\* Everything.
LEMMA WhereAll ==
  ASSUME NEW T
  PROVE  \A s \in Seq(T) : \A I : 1 .. Len(s) \subseteq I => Where(s, I) = s
<1> DEFINE X == {s \in Seq(T) : \A I : 1 .. Len(s) \subseteq I => Where(s, I) = s}
<1>1. <<>> \in X
  BY WhereEmpty
<1>2. ASSUME NEW s \in Seq(T), NEW e \in T, s \in X PROVE Append(s, e) \in X
  <2>1. Append(s, e) \in Seq(T) /\ Len(Append(s, e)) = Len(s) + 1
    OBVIOUS
  <2>2. ASSUME NEW I, 1 .. Len(s) + 1 \subseteq I PROVE Where(Append(s, e), I) = Append(s, e)
    <3>1. 1 .. Len(s) \subseteq I /\ Len(s) + 1 \in I
      BY <2>2
    <3>2. Where(s, I) = s
      BY <1>2, <3>1
    <3> QED BY <3>1, <3>2, WhereAppend
  <2> QED BY <2>1, <2>2
<1>3. Seq(T) \subseteq X
  <2> HIDE DEF X
  <2> QED BY <1>1, <1>2, ByAppending
<1> QED BY <1>3

\* Every element at one of the places is there, no farther from the end than it was, and what
\* is before it was before it.
Placed(s, I, i) ==
  \E k \in 1 .. Len(Where(s, I)) :
    /\ Where(s, I)[k] = s[i]
    /\ Len(Where(s, I)) - k <= Len(s) - i
    /\ \A j \in 1 .. k - 1 : \E l \in 1 .. i - 1 : l \in I /\ Where(s, I)[j] = s[l]

Whereabouts(s, I) ==
  /\ \A i \in 1 .. Len(s) : i \in I => Placed(s, I, i)
  /\ \A k \in 1 .. Len(Where(s, I)) : \E i \in 1 .. Len(s) : i \in I /\ Where(s, I)[k] = s[i]

\* Where is to be found what is picked, and nothing else is there.
LEMMA WherePlaces ==
  ASSUME NEW T, NEW q \in Seq(T), NEW I
  PROVE  Whereabouts(q, I)
<1> DEFINE X == {s \in Seq(T) : Whereabouts(s, I)}
<1>1. <<>> \in X
  BY WhereEmpty DEF Whereabouts
<1>2. ASSUME NEW s \in Seq(T), NEW e \in T, s \in X PROVE Append(s, e) \in X
  <2> DEFINE r == Append(s, e)
             w == Where(s, I)
             v == Where(r, I)
             n == Len(s)
             m == Len(w)
  <2>1. r \in Seq(T) /\ Len(r) = n + 1 /\ r[n + 1] = e /\ \A i \in 1 .. n : r[i] = s[i]
    OBVIOUS
  <2>2. w \in Seq(T) /\ v = IF n + 1 \in I THEN Append(w, e) ELSE w
    BY WhereAppend
  <2>3. n \in Nat /\ m \in Nat
    BY <2>2
  <2>4. /\ \A i \in 1 .. n : i \in I => Placed(s, I, i)
        /\ \A k \in 1 .. m : \E i \in 1 .. n : i \in I /\ w[k] = s[i]
    BY <1>2 DEF Whereabouts
  <2>5. /\ Len(v) = IF n + 1 \in I THEN m + 1 ELSE m
        /\ \A k \in 1 .. m : v[k] = w[k]
        /\ n + 1 \in I => v[m + 1] = e
    BY <2>2
  <2> HIDE DEF r, w, v, n, m
  <2>6. ASSUME NEW i \in 1 .. n, i \in I PROVE Placed(r, I, i)
    <3>1. PICK k \in 1 .. m : /\ w[k] = s[i] /\ m - k <= n - i
                              /\ \A j \in 1 .. k - 1 : \E l \in 1 .. i - 1 : l \in I /\ w[j] = s[l]
      BY <2>4, <2>6 DEF Placed, w, m, n
    <3>2. v[k] = r[i] /\ k \in 1 .. Len(v) /\ Len(v) - k <= Len(r) - i
      BY <2>1, <2>3, <2>5, <3>1
    <3>3. ASSUME NEW j \in 1 .. k - 1 PROVE \E l \in 1 .. i - 1 : l \in I /\ v[j] = r[l]
      <4>1. PICK l \in 1 .. i - 1 : l \in I /\ w[j] = s[l]
        BY <3>1
      <4>2. j \in 1 .. m /\ l \in 1 .. n
        BY <2>3
      <4> QED BY <2>1, <2>5, <4>1, <4>2
    <3> QED BY <3>2, <3>3 DEF Placed, v
  <2>7. ASSUME n + 1 \in I PROVE Placed(r, I, n + 1)
    <3>1. m + 1 \in 1 .. Len(v) /\ v[m + 1] = r[n + 1] /\ Len(v) - (m + 1) <= Len(r) - (n + 1)
      BY <2>1, <2>3, <2>5, <2>7
    <3>2. ASSUME NEW j \in 1 .. (m + 1) - 1 PROVE \E l \in 1 .. (n + 1) - 1 : l \in I /\ v[j] = r[l]
      <4>1. j \in 1 .. m
        BY <2>3
      <4>2. PICK l \in 1 .. n : l \in I /\ w[j] = s[l]
        BY <2>4, <4>1
      <4>3. l \in 1 .. (n + 1) - 1 /\ r[l] = s[l] /\ v[j] = w[j]
        BY <2>1, <2>3, <2>5, <4>1, <4>2
      <4> QED BY <4>2, <4>3
    <3> QED BY <3>1, <3>2 DEF Placed, v
  <2>8. ASSUME NEW k \in 1 .. Len(v) PROVE \E i \in 1 .. Len(r) : i \in I /\ v[k] = r[i]
    <3>1. CASE k \in 1 .. m
      <4>1. PICK i \in 1 .. n : i \in I /\ w[k] = s[i]
        BY <2>4, <3>1
      <4>2. i \in 1 .. Len(r) /\ r[i] = s[i]
        BY <2>1, <2>3
      <4> QED BY <2>5, <3>1, <4>1, <4>2
    <3>2. CASE k \notin 1 .. m
      <4>1. n + 1 \in I /\ k = m + 1 /\ n + 1 \in 1 .. Len(r)
        BY <2>1, <2>3, <2>5, <3>2
      <4> QED BY <2>1, <2>5, <4>1
    <3> QED BY <3>1, <3>2
  <2>9. \A i \in 1 .. Len(r) : i \in I => Placed(r, I, i)
    BY <2>1, <2>3, <2>6, <2>7
  <2> QED BY <2>1, <2>8, <2>9 DEF r, v, Whereabouts
<1>3. Seq(T) \subseteq X
  <2> HIDE DEF X
  <2> QED BY <1>1, <1>2, ByAppending
<1> QED BY <1>3

-----------------------------------------------------------------------------
(* Sums over a finite set, which any enumeration of it comes to           *)

\* A function that starts with a and takes a step for each number.
Follows(h, a, G, S, N) ==
  /\ h \in [0 .. N -> S]
  /\ h[0] = a
  /\ \A i \in 1 .. N : h[i] = G[<<h[i - 1], i>>]

\* There is one.
LEMMA StepsExist ==
  ASSUME NEW N \in Nat, NEW S, NEW a \in S, NEW G \in [S \X (1 .. N) -> S]
  PROVE  \E h : Follows(h, a, G, S, N)
<1> DEFINE Bad == {n \in 0 .. N : ~ \E h : Follows(h, a, G, S, n)}
<1>1. Bad = {}
  <2>1. SUFFICES ASSUME Bad # {} PROVE FALSE
    OBVIOUS
  <2>2. Bad \subseteq Nat
    OBVIOUS
  <2>3. \E n \in Bad : \A m \in Bad : n <= m
    <3> HIDE DEF Bad
    <3> QED BY <2>1, <2>2, Minimum
  <2>4. PICK n \in Bad : \A m \in Bad : n <= m
    BY <2>3
  <2>5. CASE n = 0
    <3>1. Follows([i \in 0 .. 0 |-> a], a, G, S, 0)
      BY DEF Follows
    <3> QED BY <2>5, <3>1
  <2>6. CASE n # 0
    <3>1. n - 1 \in 0 .. N /\ n - 1 \notin Bad /\ n \in 1 .. N
      BY <2>4, <2>6
    <3>2. PICK h : Follows(h, a, G, S, n - 1)
      BY <3>1
    <3>3. h[n - 1] \in S
      BY <3>1, <3>2 DEF Follows
    <3>4. G[<<h[n - 1], n>>] \in S
      BY <3>1, <3>3
    <3> DEFINE g == [i \in 0 .. n |-> IF i = n THEN G[<<h[n - 1], n>>] ELSE h[i]]
    <3>5. g \in [0 .. n -> S] /\ g[0] = a
      BY <2>6, <3>1, <3>2, <3>4 DEF Follows
    <3>6. ASSUME NEW i \in 1 .. n PROVE g[i] = G[<<g[i - 1], i>>]
      <4>1. g[i - 1] = h[i - 1]
        BY <3>1
      <4>2. CASE i = n
        BY <4>1, <4>2
      <4>3. CASE i # n
        <5>1. i \in 1 .. n - 1
          BY <4>3, <3>1
        <5>2. g[i] = h[i] /\ h[i] = G[<<h[i - 1], i>>]
          BY <5>1, <4>3, <3>2 DEF Follows
        <5> QED BY <4>1, <5>2
      <4> QED BY <4>2, <4>3
    <3>7. Follows(g, a, G, S, n)
      <4> HIDE DEF g
      <4> QED BY <3>5, <3>6 DEF Follows
    <3> QED BY <3>7
  <2> QED BY <2>5, <2>6
<1>2. N \in 0 .. N /\ N \notin Bad
  BY <1>1
<1> QED BY <1>2

\* sum[s] is the sum of f over each subset s of S.
SumsOver(sum, f, S) ==
  /\ sum \in [SUBSET S -> Int]
  /\ sum[{}] = 0
  /\ \A s \in SUBSET S : s # {} =>
       sum[s] = f[CHOOSE x \in s : TRUE] + sum[s \ {CHOOSE x \in s : TRUE}]

\* The same for subsets of at most n elements.
SumsUpTo(sum, f, S, n) ==
  /\ sum \in [SUBSET S -> Int]
  /\ sum[{}] = 0
  /\ \A s \in SUBSET S : s # {} /\ Cardinality(s) <= n =>
       sum[s] = f[CHOOSE x \in s : TRUE] + sum[s \ {CHOOSE x \in s : TRUE}]

\* What a subset of a finite set is without one of its elements.
LEMMA OneLess ==
  ASSUME NEW S, IsFiniteSet(S), NEW s \in SUBSET S, s # {}
  PROVE  LET x == CHOOSE y \in s : TRUE IN
           /\ x \in s /\ s \ {x} \in SUBSET S
           /\ Cardinality(s) \in Nat /\ Cardinality(s \ {x}) \in Nat
           /\ Cardinality(s \ {x}) = Cardinality(s) - 1 /\ Cardinality(s) # 0
<1> DEFINE x == CHOOSE y \in s : TRUE
<1>1. x \in s
  OBVIOUS
<1> HIDE DEF x
<1>2. IsFiniteSet(s)
  BY FS_Subset
<1>3. Cardinality(s) \in Nat /\ Cardinality(s) # 0 /\ Cardinality(s \ {x}) = Cardinality(s) - 1
  BY <1>1, <1>2, FS_CardinalityType, FS_EmptySet, FS_RemoveElement
<1>4. Cardinality(s \ {x}) \in Nat
  BY <1>3
<1> QED BY <1>1, <1>3, <1>4 DEF x

LEMMA SumsExist ==
  ASSUME NEW S, IsFiniteSet(S), NEW f \in [S -> Int]
  PROVE  \E sum : SumsOver(sum, f, S)
<1> DEFINE count == Cardinality(S)
           Bad == {n \in 0 .. count : ~ \E sum : SumsUpTo(sum, f, S, n)}
<1>0. count \in Nat
  BY FS_CardinalityType
<1> HIDE DEF count
<1>1. Bad = {}
  <2>1. SUFFICES ASSUME Bad # {} PROVE FALSE
    OBVIOUS
  <2>2. Bad \subseteq Nat
    OBVIOUS
  <2>3. \E n \in Bad : \A m \in Bad : n <= m
    <3> HIDE DEF Bad
    <3> QED BY <2>1, <2>2, Minimum
  <2>4. PICK n \in 0 .. count : n \in Bad /\ \A m \in Bad : n <= m
    BY <2>3
  <2>5. CASE n = 0
    <3>1. ASSUME NEW s \in SUBSET S, s # {} PROVE ~(Cardinality(s) <= 0)
      <4>1. Cardinality(s) \in Nat /\ Cardinality(s) # 0
        BY <3>1, OneLess
      <4> QED BY <4>1
    <3>2. SumsUpTo([s \in SUBSET S |-> 0], f, S, 0)
      BY <3>1 DEF SumsUpTo
    <3> QED BY <2>4, <2>5, <3>2
  <2>6. CASE n # 0
    <3>1. n - 1 \in 0 .. count /\ n - 1 \notin Bad
      BY <1>0, <2>4, <2>6
    <3>2. PICK h : SumsUpTo(h, f, S, n - 1)
      BY <3>1
    <3> DEFINE One(s) == CHOOSE x \in s : TRUE
               g == [s \in SUBSET S |-> IF Cardinality(s) = n
                                        THEN f[One(s)] + h[s \ {One(s)}] ELSE h[s]]
    <3>3. \A s \in SUBSET S : s # {} =>
            /\ One(s) \in s /\ s \ {One(s)} \in SUBSET S
            /\ Cardinality(s) \in Nat /\ Cardinality(s \ {One(s)}) = Cardinality(s) - 1
      BY OneLess
    <3>4. Cardinality({}) = 0
      BY FS_EmptySet
    <3>5. h \in [SUBSET S -> Int] /\ h[{}] = 0
      BY <3>2 DEF SumsUpTo
    <3>6. \A s \in SUBSET S : s # {} /\ Cardinality(s) <= n - 1 => h[s] = f[One(s)] + h[s \ {One(s)}]
      BY <3>2 DEF SumsUpTo
    <3> HIDE DEF One
    <3>7. g \in [SUBSET S -> Int] /\ g[{}] = 0
      <4>1. ASSUME NEW s \in SUBSET S PROVE g[s] \in Int
        <5>1. CASE s = {}
          BY <5>1, <2>6, <3>4, <3>5
        <5>2. CASE s # {}
          <6>1. f[One(s)] \in Int /\ h[s \ {One(s)}] \in Int /\ h[s] \in Int
            BY <5>2, <3>3, <3>5
          <6> QED BY <6>1
        <5> QED BY <5>1, <5>2
      <4> QED BY <4>1, <2>6, <3>4, <3>5
    <3>8. ASSUME NEW s \in SUBSET S, s # {}, Cardinality(s) <= n
          PROVE  g[s] = f[One(s)] + g[s \ {One(s)}]
      <4>1. One(s) \in s /\ s \ {One(s)} \in SUBSET S
            /\ Cardinality(s) \in Nat /\ Cardinality(s \ {One(s)}) = Cardinality(s) - 1
        BY <3>3, <3>8
      <4>2. g[s \ {One(s)}] = h[s \ {One(s)}]
        BY <3>8, <4>1
      <4>3. CASE Cardinality(s) = n
        BY <4>2, <4>3
      <4>4. CASE Cardinality(s) # n
        <5>1. Cardinality(s) <= n - 1
          BY <3>8, <4>1, <4>4
        <5>2. g[s] = h[s]
          BY <4>4
        <5> QED BY <5>1, <5>2, <3>6, <3>8, <4>2
      <4> QED BY <4>3, <4>4
    <3> HIDE DEF g
    <3>9. SumsUpTo(g, f, S, n)
      BY <3>7, <3>8 DEF SumsUpTo, One
    <3> QED BY <2>4, <3>9
  <2> QED BY <2>5, <2>6
<1>2. count \in 0 .. count /\ count \notin Bad
  BY <1>0, <1>1
<1>3. PICK sum : SumsUpTo(sum, f, S, count)
  BY <1>2
<1>4. \A s \in SUBSET S : Cardinality(s) <= count
  BY FS_Subset DEF count
<1>5. SumsOver(sum, f, S)
  BY <1>3, <1>4 DEF SumsUpTo, SumsOver
<1> QED BY <1>5

\* SumOver adds up in the order CHOOSE takes.
LEMMA SumOverIs ==
  ASSUME NEW S, IsFiniteSet(S), NEW f \in [S -> Int]
  PROVE  \E sum : SumsOver(sum, f, S) /\ SumOver(f, S) = sum[S]
<1> DEFINE Body(sum) == [s \in SUBSET S |->
                           IF s = {} THEN 0 ELSE f[CHOOSE x \in s : TRUE] + sum[s \ {CHOOSE x \in s : TRUE}]]
           c == CHOOSE sum : sum = Body(sum)
<1>1. PICK h : SumsOver(h, f, S)
  BY SumsExist
<1>2. h = Body(h)
  BY <1>1 DEF SumsOver
<1>3. c = Body(c)
  BY <1>2
<1>4. SumOver(f, S) = c[S]
  BY DEF SumOver
<1> HIDE DEF c
<1>5. /\ c[{}] = 0
      /\ \A s \in SUBSET S : s # {} =>
           c[s] = f[CHOOSE x \in s : TRUE] + c[s \ {CHOOSE x \in s : TRUE}]
  BY <1>3
<1> DEFINE Bad == {Cardinality(s) : s \in {r \in SUBSET S : c[r] # h[r]}}
<1>6. Bad = {}
  <2>1. SUFFICES ASSUME Bad # {} PROVE FALSE
    OBVIOUS
  <2>2. Bad \subseteq Nat
    <3>1. \A s \in SUBSET S : Cardinality(s) \in Nat
      BY FS_Subset, FS_CardinalityType
    <3> QED BY <3>1
  <2>3. \E n \in Bad : \A m \in Bad : n <= m
    <3> HIDE DEF Bad
    <3> QED BY <2>1, <2>2, Minimum
  <2>4. PICK s \in SUBSET S : c[s] # h[s] /\ \A r \in SUBSET S : c[r] # h[r] => Cardinality(s) <= Cardinality(r)
    BY <2>3
  <2>5. s # {}
    BY <1>1, <1>5, <2>4 DEF SumsOver
  <2> DEFINE x == CHOOSE y \in s : TRUE
  <2>6. /\ s \ {x} \in SUBSET S /\ Cardinality(s) \in Nat
        /\ Cardinality(s \ {x}) \in Nat /\ Cardinality(s \ {x}) = Cardinality(s) - 1
    BY <2>5, OneLess
  <2>7. c[s] = f[x] + c[s \ {x}] /\ h[s] = f[x] + h[s \ {x}]
    BY <1>1, <1>5, <2>5 DEF SumsOver
  <2> HIDE DEF x
  <2>8. c[s \ {x}] = h[s \ {x}]
    BY <2>4, <2>6
  <2> QED BY <2>4, <2>7, <2>8
<1>7. c[S] = h[S]
  BY <1>6
<1> QED BY <1>1, <1>4, <1>7

\* A sum of what is counted for each of the keys of S counts whatever has one of them: Of is what all the
\* keys of a set have together.
Enumerates(of, f, S) ==
  /\ of \in [SUBSET S -> Int]
  /\ of[{}] = 0
  /\ \A s \in SUBSET S, x \in S : x \in s => of[s] = f[x] + of[s \ {x}]

LEMMA SumOverCounts ==
  ASSUME NEW S, IsFiniteSet(S), NEW f \in [S -> Int], NEW of, Enumerates(of, f, S)
  PROVE  SumOver(f, S) = of[S]
<1>1. PICK h : SumsOver(h, f, S) /\ SumOver(f, S) = h[S]
  BY SumOverIs
<1> DEFINE Bad == {Cardinality(s) : s \in {r \in SUBSET S : of[r] # h[r]}}
<1>2. Bad = {}
  <2>1. SUFFICES ASSUME Bad # {} PROVE FALSE
    OBVIOUS
  <2>2. Bad \subseteq Nat
    <3>1. \A s \in SUBSET S : Cardinality(s) \in Nat
      BY FS_Subset, FS_CardinalityType
    <3> QED BY <3>1
  <2>3. \E n \in Bad : \A m \in Bad : n <= m
    <3> HIDE DEF Bad
    <3> QED BY <2>1, <2>2, Minimum
  <2>4. PICK s \in SUBSET S : of[s] # h[s] /\ \A r \in SUBSET S : of[r] # h[r] => Cardinality(s) <= Cardinality(r)
    BY <2>3
  <2>5. s # {}
    BY <1>1, <2>4 DEF SumsOver, Enumerates
  <2> DEFINE x == CHOOSE y \in s : TRUE
  <2>6. /\ x \in s /\ s \ {x} \in SUBSET S /\ Cardinality(s) \in Nat
        /\ Cardinality(s \ {x}) \in Nat /\ Cardinality(s \ {x}) = Cardinality(s) - 1
    BY <2>5, OneLess
  <2>7. h[s] = f[x] + h[s \ {x}]
    BY <1>1, <2>5 DEF SumsOver
  <2> HIDE DEF x
  <2>8. of[s] = f[x] + of[s \ {x}]
    BY <2>6 DEF Enumerates
  <2>9. of[s \ {x}] = h[s \ {x}]
    BY <2>4, <2>6
  <2> QED BY <2>4, <2>7, <2>8, <2>9
<1> QED BY <1>1, <1>2

\* The rows that come after all but fewer than m of the others are m.
LEMMA LastOnes ==
  ASSUME NEW R \in SUBSET Nat, IsFiniteSet(R), NEW m \in Nat, m <= Cardinality(R)
  PROVE  Cardinality({i \in R : Cardinality({j \in R : j > i}) < m}) = m
<1> DEFINE Above(i) == {j \in R : j > i}
           Top(n) == {i \in R : Cardinality(Above(i)) < n}
           Bad == {n \in 0 .. m : Cardinality(Top(n)) # n}
<1>0. \A i \in R : IsFiniteSet(Above(i)) /\ Cardinality(Above(i)) \in Nat
  BY FS_Subset, FS_CardinalityType
<1>a. \A i, j : j \in Above(i) <=> j \in R /\ j > i
  OBVIOUS
<1>b. \A n, i : i \in Top(n) <=> i \in R /\ Cardinality(Above(i)) < n
  OBVIOUS
<1>c. \A n : n \in Bad <=> n \in 0 .. m /\ Cardinality(Top(n)) # n
  OBVIOUS
<1>d. Bad \subseteq Nat
  OBVIOUS
<1>e. R \subseteq Nat /\ Cardinality(R) \in Nat /\ \A i \in R : i \in Nat
  BY FS_CardinalityType
<1> HIDE DEF Above, Top, Bad
<1>1. Bad = {}
  <2>1. SUFFICES ASSUME Bad # {} PROVE FALSE
    OBVIOUS
  <2>3. \E n \in Bad : \A k \in Bad : n <= k
    BY <2>1, <1>d, Minimum
  <2>4. PICK n \in 0 .. m : Cardinality(Top(n)) # n /\ \A k \in Bad : n <= k
    BY <2>3, <1>c
  <2>5. n # 0
    <3>1. \A i \in R : ~(Cardinality(Above(i)) < 0)
      BY <1>0
    <3>2. Top(0) = {}
      BY <3>1, <1>b
    <3> QED BY <2>4, <3>2, FS_EmptySet
  <2>6. n - 1 \in 0 .. m /\ Cardinality(Top(n - 1)) = n - 1
    <3>1. n - 1 \in 0 .. m /\ ~(n <= n - 1)
      BY <2>5
    <3> QED BY <2>4, <3>1, <1>c
  <2> DEFINE L == Top(n - 1)
  <2>7. L \subseteq R /\ IsFiniteSet(L)
    <3>1. L \subseteq R
      BY <1>b
    <3> QED BY <3>1, FS_Subset
  <2>L. \A i : i \in L <=> i \in R /\ Cardinality(Above(i)) < n - 1
    BY <1>b
  <2> HIDE DEF L
  <2>8. ASSUME NEW i \in R, NEW j \in R, i < j, i \in L PROVE j \in L
    <3>1. Above(j) \subseteq Above(i)
      <4>1. ASSUME NEW k \in Above(j) PROVE k \in Above(i)
        <5>1. k \in R /\ k \in Nat /\ k > j /\ i \in Nat /\ j \in Nat
          BY <1>a, <1>e
        <5>2. k > i
          BY <5>1, <2>8
        <5> QED BY <1>a, <5>1, <5>2
      <4> QED BY <4>1
    <3>2. Cardinality(Above(j)) <= Cardinality(Above(i))
      BY <1>0, <3>1, FS_Subset
    <3>3. Cardinality(Above(i)) < n - 1
      BY <2>8, <2>L
    <3>4. Cardinality(Above(j)) < n - 1
      BY <1>0, <3>2, <3>3
    <3> QED BY <2>L, <3>4
  <2>9. R \ L # {}
    <3>1. Cardinality(L) = n - 1
      BY <2>6 DEF L
    <3>2. R # L
      BY <1>e, <3>1
    <3> QED BY <2>7, <3>2
  <2>10. PICK x \in R \ L : \A y \in R \ L : y <= x
    <3> DEFINE Tops == {Cardinality(Above(i)) : i \in R \ L}
    <3>1. Tops \subseteq Nat /\ Tops # {}
      BY <1>0, <2>9
    <3>2. \E t \in Tops : \A u \in Tops : t <= u
      <4> HIDE DEF Tops
      <4> QED BY <3>1, Minimum
    <3>3. PICK x \in R \ L : \A y \in R \ L : Cardinality(Above(x)) <= Cardinality(Above(y))
      BY <3>2
    <3>4. ASSUME NEW y \in R \ L, x < y PROVE FALSE
      <4>0. y \in Nat /\ x \in Nat /\ x \in R /\ y \in R
        BY <1>e
      <4>1. Above(y) \subseteq Above(x) /\ Above(y) # Above(x)
        <5>1. y \in Above(x)
          BY <1>a, <4>0, <3>4
        <5>2. y \notin Above(y)
          BY <1>a, <4>0
        <5>3. Above(y) \subseteq Above(x)
          <6>1. ASSUME NEW j \in Above(y) PROVE j \in Above(x)
            <7>1. j \in R /\ j \in Nat /\ j > y
              BY <1>a, <1>e
            <7>2. j > x
              BY <7>1, <4>0, <3>4
            <7> QED BY <1>a, <7>1, <7>2
          <6> QED BY <6>1
        <5> QED BY <5>1, <5>2, <5>3
      <4>2. Cardinality(Above(y)) < Cardinality(Above(x))
        BY <1>0, <4>0, <4>1, FS_Subset
      <4>3. Cardinality(Above(y)) \in Nat /\ Cardinality(Above(x)) \in Nat
        BY <1>0, <4>0
      <4>4. Cardinality(Above(x)) <= Cardinality(Above(y))
        BY <3>3
      <4> QED BY <4>2, <4>3, <4>4
    <3>5. \A y \in R \ L : y <= x
      <4>1. \A y \in R \ L : y \in Nat /\ x \in Nat
        BY <1>e
      <4> QED BY <3>4, <4>1
    <3> QED BY <3>5
  <2>x. x \in R /\ x \in Nat /\ x \notin L
    BY <1>e
  <2>11. Above(x) = L
    <3>1. ASSUME NEW j \in Above(x) PROVE j \in L
      <4>1. j \in R /\ j > x /\ j \in Nat
        BY <1>a, <1>e
      <4> QED BY <2>10, <2>x, <4>1
    <3>2. ASSUME NEW j \in L PROVE j \in Above(x)
      <4>1. j # x /\ j \in R /\ j \in Nat
        BY <1>e, <2>7, <2>x
      <4>2. ~(j < x)
        BY <2>8, <2>x, <4>1
      <4>3. j > x
        BY <2>x, <4>1, <4>2
      <4> QED BY <1>a, <4>1, <4>3
    <3> QED BY <3>1, <3>2
  <2>12. Top(n) = L \cup {x}
    <3>1. Cardinality(Above(x)) = n - 1
      BY <2>6, <2>11 DEF L
    <3>2. x \in Top(n)
      BY <3>1, <1>b, <2>x
    <3>3. L \subseteq Top(n)
      <4>1. ASSUME NEW i \in L PROVE i \in Top(n)
        <5>1. i \in R /\ Cardinality(Above(i)) < n - 1 /\ Cardinality(Above(i)) \in Nat
          BY <2>L, <1>0
        <5>2. Cardinality(Above(i)) < n
          BY <5>1
        <5> QED BY <1>b, <5>1, <5>2
      <4> QED BY <4>1
    <3>4. ASSUME NEW y \in Top(n), y \notin L, y # x PROVE FALSE
      <4>1. y \in R /\ y \in Nat /\ Cardinality(Above(y)) < n /\ Cardinality(Above(y)) \in Nat
        BY <1>b, <1>e, <1>0
      <4>2. y < x
        <5>1. y <= x
          BY <2>10, <3>4, <4>1
        <5> QED BY <5>1, <3>4, <4>1, <2>x
      <4>3. L \cup {x} \subseteq Above(y)
        <5>1. x \in Above(y)
          BY <1>a, <2>x, <4>1, <4>2
        <5>2. Above(x) \subseteq Above(y)
          <6>1. ASSUME NEW j \in Above(x) PROVE j \in Above(y)
            <7>1. j \in R /\ j \in Nat /\ j > x
              BY <1>a, <1>e
            <7>2. j > y
              BY <7>1, <2>x, <4>1, <4>2
            <7> QED BY <1>a, <7>1, <7>2
          <6> QED BY <6>1
        <5> QED BY <2>11, <5>1, <5>2
      <4>4. Cardinality(L) = n - 1
        BY <2>6 DEF L
      <4>5. Cardinality(L \cup {x}) = n
        <5>1. Cardinality(L \cup {x}) = Cardinality(L) + 1
          BY <2>7, <2>x, FS_AddElement
        <5> QED BY <4>4, <5>1
      <4>6. n <= Cardinality(Above(y))
        BY <1>0, <4>1, <4>3, <4>5, FS_Subset
      <4> QED BY <4>1, <4>6
    <3> QED BY <3>2, <3>3, <3>4
  <2>13. Cardinality(L) = n - 1
    BY <2>6 DEF L
  <2>14. Cardinality(L \cup {x}) = n
    <3>1. Cardinality(L \cup {x}) = Cardinality(L) + 1
      BY <2>7, <2>x, FS_AddElement
    <3> QED BY <2>13, <3>1
  <2> QED BY <2>4, <2>12, <2>14
<1>2. m \in 0 .. m /\ m \notin Bad
  BY <1>1
<1> QED BY <1>2, <1>c DEF Above, Top

===============================================================================
