--------------------------- MODULE Dashboard_proofs ---------------------------
(***************************************************************************)
(* What TLAPS proves about WaitHistory and about Dashboard, which is built *)
(* on it, for every history of statuses, every placing of the midnights    *)
(* and every bound.  The history: no point of it is invented, ranges       *)
(* agree, points settle, the days compared with are known.  The page: it   *)
(* follows the live feed, and its graph keeps to one day and to what was   *)
(* drawn.                                                                  *)
(***************************************************************************)
EXTENDS Dashboard, TLAPS, FiniteSetTheorems, WellFoundedInduction

-----------------------------------------------------------------------------
(* The least of some natural numbers, and the greatest if they are bounded. *)
LEMMA LeastNatural ==
  ASSUME NEW S \in SUBSET Nat, S # {} PROVE \E n \in S : \A m \in S : n <= m
<1>1. PICK n \in S : \A m \in S : <<m, n>> \notin OpToRel(<, Nat)
  BY NatLessThanWellFounded, WFMin
<1>2. \A m \in S : ~(m < n) BY <1>1 DEF OpToRel
<1>. QED BY <1>2

LEMMA GreatestNatural ==
  ASSUME NEW S \in SUBSET Nat, S # {}, NEW b \in Int, \A n \in S : n <= b
  PROVE  \E n \in S : \A m \in S : m <= n
<1>. DEFINE D == {b - n : n \in S}
<1>0. PICK n0 \in S : TRUE OBVIOUS
<1>1. D \subseteq Nat /\ b - n0 \in D OBVIOUS
<1>. HIDE DEF D
<1>2. PICK d \in D : \A e \in D : d <= e BY <1>1, LeastNatural
<1>3. PICK n \in S : d = b - n BY DEF D
<1>4. ASSUME NEW m \in S PROVE m <= n
  <2>1. b - m \in D BY DEF D
  <2>2. d <= b - m BY <1>2, <2>1
  <2>3. m \in Nat /\ n \in Nat OBVIOUS
  <2>. QED BY <1>3, <2>2, <2>3
<1>. QED BY <1>4

-----------------------------------------------------------------------------
(* Samples.                                                                *)

Sample == [at : Nat, value : Nat \cup {NoValue}]

(* The sample before a moment is the last of the earlier ones, the one     *)
(* after it the first of the others.                                       *)
LEMMA BeforeIs ==
  ASSUME NEW S \in SUBSET Sample, NEW t \in Int
  PROVE  \/ Before(S, t) = NoSample /\ \A s \in S : t <= s.at
         \/ /\ Before(S, t) \in S /\ Before(S, t).at < t
            /\ \A s \in S : s.at < t => s.at <= Before(S, t).at
<1>. DEFINE earlier == {s \in S : s.at < t}
<1>0. \A s \in S : s.at \in Nat BY DEF Sample
<1>1. CASE earlier = {} BY <1>0, <1>1 DEF Before
<1>2. CASE earlier # {}
  <2>. DEFINE times == {s.at : s \in earlier}
  <2>0. PICK s0 \in earlier : TRUE BY <1>2
  <2>1. times \subseteq Nat /\ s0.at \in times /\ \A n \in times : n <= t BY <1>0, <2>0
  <2>. HIDE DEF times
  <2>2. PICK n \in times : \A m \in times : m <= n BY <2>1, GreatestNatural
  <2>3. \E s \in earlier : \A o \in earlier : o.at <= s.at BY <2>2 DEF times
  <2>4. Before(S, t) \in earlier /\ \A o \in earlier : o.at <= Before(S, t).at
    BY <1>2, <2>3 DEF Before
  <2>. QED BY <2>4
<1>. QED BY <1>1, <1>2

LEMMA AfterIs ==
  ASSUME NEW S \in SUBSET Sample, NEW t \in Int
  PROVE  \/ After(S, t) = NoSample /\ \A s \in S : s.at < t
         \/ /\ After(S, t) \in S /\ t <= After(S, t).at
            /\ \A s \in S : t <= s.at => After(S, t).at <= s.at
<1>. DEFINE later == {s \in S : s.at >= t}
<1>0. \A s \in S : s.at \in Nat BY DEF Sample
<1>1. CASE later = {} BY <1>0, <1>1 DEF After
<1>2. CASE later # {}
  <2>. DEFINE times == {s.at : s \in later}
  <2>0. PICK s0 \in later : TRUE BY <1>2
  <2>1. times \subseteq Nat /\ s0.at \in times BY <1>0, <2>0
  <2>. HIDE DEF times
  <2>2. PICK n \in times : \A m \in times : n <= m BY <2>1, LeastNatural
  <2>3. \E s \in later : \A o \in later : s.at <= o.at BY <2>2 DEF times
  <2>4. After(S, t) \in later /\ \A o \in later : After(S, t).at <= o.at
    BY <1>2, <2>3 DEF After
  <2>. QED BY <2>4
<1>. QED BY <1>1, <1>2

(* Interpolation stays between the two values, and near both samples.      *)
LEMMA PartOf ==
  ASSUME NEW d \in Int, NEW p \in Nat, NEW n \in Nat \ {0}, p <= n
  PROVE  /\ (d * p) \div n \in Int
         /\ 0 <= d => (0 <= (d * p) \div n /\ (d * p) \div n <= d)
         /\ d <= 0 => (d <= (d * p) \div n /\ (d * p) \div n <= 0)
<1>. DEFINE x == d * p
            q == x \div n
<1>1. x \in Int OBVIOUS
<1>2. (0 <= d => 0 <= x /\ x <= d * n) /\ (d <= 0 => d * n <= x /\ x <= 0) BY SMT
<1>3. q \in Int /\ n * q <= x /\ x < n * q + n
  <2>. HIDE DEF x
  <2>. QED BY <1>1, SMT
<1>. HIDE DEF x, q
<1>4. 0 <= d => 0 <= q /\ q <= d
  <2>. SUFFICES ASSUME 0 <= d PROVE 0 <= q /\ q <= d OBVIOUS
  <2>1. n * q + n > 0 /\ n * q <= d * n BY <1>1, <1>2, <1>3
  <2>2. CASE q < 0
    <3>1. n * (q + 1) <= 0 BY <1>3, <2>2, SMT
    <3>. QED BY <1>3, <2>1, <3>1, SMT
  <2>3. CASE q > d
    <3>1. n * (d + 1) <= n * q BY <1>3, <2>3, SMT
    <3>. QED BY <1>3, <2>1, <3>1, SMT
  <2>. QED BY <1>3, <2>2, <2>3
<1>5. d <= 0 => d <= q /\ q <= 0
  <2>. SUFFICES ASSUME d <= 0 PROVE d <= q /\ q <= 0 OBVIOUS
  <2>1. n * q + n > d * n /\ n * q <= 0 BY <1>1, <1>2, <1>3
  <2>2. CASE q < d
    <3>1. n * (q + 1) <= n * d BY <1>3, <2>2, SMT
    <3>. QED BY <1>3, <2>1, <3>1, SMT
  <2>3. CASE q > 0
    <3>1. n <= n * q BY <1>3, <2>3, SMT
    <3>. QED BY <1>3, <2>1, <3>1, SMT
  <2>. QED BY <1>3, <2>2, <2>3
<1>. QED BY <1>3, <1>4, <1>5 DEF x, q

(* A value interpolated at a moment lies between two samples' values, and  *)
(* neither is further than the gap.                                        *)
Near(s, t) == s.at - t <= MaxGap /\ t - s.at <= MaxGap

LEMMA ValueLies ==
  ASSUME NEW S \in SUBSET Sample, NEW t \in Int, ValueAt(S, t) # NoValue
  PROVE  /\ ValueAt(S, t) \in Nat
         /\ \E s \in S : s.value # NoValue /\ Near(s, t) /\ s.value <= ValueAt(S, t)
         /\ \E s \in S : s.value # NoValue /\ Near(s, t) /\ s.value >= ValueAt(S, t)
<1>. DEFINE b == Before(S, t)
            a == After(S, t)
            vb == ValueOf(b)
            va == ValueOf(a)
            v == ValueAt(S, t)
<1>0. MaxGap \in Nat /\ NoSample \notin Sample BY HistoryAssumption DEF Sample
<1>1. vb # NoValue => /\ b \in S /\ b \in Sample /\ b.at < t /\ vb = b.value
                      /\ b.value \in Nat /\ b.at \in Nat
  BY BeforeIs DEF ValueOf, Sample
<1>2. va # NoValue => /\ a \in S /\ a \in Sample /\ t <= a.at /\ va = a.value
                      /\ a.value \in Nat /\ a.at \in Nat
  BY AfterIs DEF ValueOf, Sample
<1>3. CASE vb # NoValue /\ va # NoValue
  <2>. DEFINE d == a.value - b.value
              p == t - b.at
              n == a.at - b.at
              q == (d * p) \div n
  <2>1. v = Between(b, a, t) BY <1>3 DEF ValueAt, Interpolated
  <2>2. n <= MaxGap /\ v = b.value + q BY <2>1, <1>0, <1>1, <1>2, <1>3 DEF Between
  <2>3. d \in Int /\ p \in Nat /\ n \in Nat \ {0} /\ p <= n BY <1>1, <1>2, <1>3
  <2>4. /\ q \in Int
        /\ 0 <= d => (0 <= q /\ q <= d)
        /\ d <= 0 => (d <= q /\ q <= 0)
    <3>. HIDE DEF d, p, n
    <3>. QED BY <2>3, PartOf
  <2>5. Near(b, t) /\ Near(a, t) BY <1>0, <1>1, <1>2, <1>3, <2>2 DEF Near
  <2>. HIDE DEF q
  <2>6. CASE 0 <= d
    <3>1. v \in Nat /\ b.value <= v /\ v <= a.value BY <1>1, <1>2, <1>3, <2>2, <2>4, <2>6
    <3>. QED BY <1>1, <1>2, <1>3, <2>5, <3>1
  <2>7. CASE d <= 0
    <3>1. v \in Nat /\ a.value <= v /\ v <= b.value BY <1>1, <1>2, <1>3, <2>2, <2>4, <2>7
    <3>. QED BY <1>1, <1>2, <1>3, <2>5, <3>1
  <2>. QED BY <2>3, <2>6, <2>7
<1>4. CASE vb # NoValue /\ va = NoValue
  <2>1. v = b.value /\ t - b.at <= MaxGap
    BY <1>1, <1>4 DEF ValueAt, Interpolated
  <2>2. Near(b, t) BY <1>0, <1>1, <1>4, <2>1 DEF Near
  <2>. QED BY <1>1, <1>4, <2>1, <2>2
<1>5. CASE vb = NoValue /\ va # NoValue
  <2>1. v = a.value /\ a.at - t <= MaxGap
    BY <1>2, <1>5 DEF ValueAt, Interpolated
  <2>2. Near(a, t) BY <1>0, <1>2, <1>5, <2>1 DEF Near
  <2>. QED BY <1>2, <1>5, <2>1, <2>2
<1>6. CASE vb = NoValue /\ va = NoValue
  BY <1>6 DEF ValueAt, Interpolated
<1>. QED BY <1>3, <1>4, <1>5, <1>6

(* A sum over a finite set, taken element by element in whatever order:    *)
(* the function that MapThenSumSet chooses exists ...                      *)
SumOver(V, val, c, f) ==
    f = [s \in SUBSET V |-> IF s = {} THEN 0 ELSE val[c[s]] + f[s \ {c[s]}]]

SumUpTo(V, val, c, f, n) ==
    \A s \in SUBSET V : Cardinality(s) <= n =>
        f[s] = IF s = {} THEN 0 ELSE val[c[s]] + f[s \ {c[s]}]

LEMMA SumExists ==
  ASSUME NEW V, IsFiniteSet(V), NEW val \in [V -> Nat], NEW c,
         \A s \in SUBSET V : s # {} => c[s] \in s
  PROVE  \E f \in [SUBSET V -> Nat] : SumOver(V, val, c, f)
<1>. DEFINE Fs == [SUBSET V -> Nat]
            Bad == {n \in Nat : \A f \in Fs : ~SumUpTo(V, val, c, f, n)}
<1>0. \A s \in SUBSET V : /\ IsFiniteSet(s) /\ Cardinality(s) \in 0 .. Cardinality(V)
                          /\ s = {} <=> Cardinality(s) = 0
  <2>. SUFFICES ASSUME NEW s \in SUBSET V
                PROVE  /\ IsFiniteSet(s) /\ Cardinality(s) \in 0 .. Cardinality(V)
                       /\ s = {} <=> Cardinality(s) = 0
    OBVIOUS
  <2>1. IsFiniteSet(s) /\ Cardinality(s) <= Cardinality(V) BY FS_Subset
  <2>2. Cardinality(s) \in Nat /\ Cardinality(V) \in Nat BY <2>1, FS_CardinalityType
  <2>. QED BY <2>1, <2>2, FS_EmptySet
<1>1. Bad = {}
  <2>. SUFFICES ASSUME Bad # {} PROVE FALSE OBVIOUS
  <2>1. PICK n \in Nat : n \in Bad /\ \A m \in Bad : n <= m BY LeastNatural
  <2>. HIDE DEF Bad
  <2>2. CASE n = 0
    <3>. DEFINE f == [s \in SUBSET V |-> 0]
    <3>1. f \in Fs OBVIOUS
    <3>2. SumUpTo(V, val, c, f, 0) BY <1>0 DEF SumUpTo
    <3>. QED BY <2>1, <2>2, <3>1, <3>2 DEF Bad
  <2>3. CASE n # 0
    <3>1. n - 1 \in Nat /\ n - 1 \notin Bad BY <2>1, <2>3
    <3>2. PICK g \in Fs : SumUpTo(V, val, c, g, n - 1) BY <3>1 DEF Bad
    <3>. DEFINE f == [s \in SUBSET V |->
                        IF Cardinality(s) <= n - 1 THEN g[s]
                        ELSE val[c[s]] + g[s \ {c[s]}]]
    <3>3. ASSUME NEW s \in SUBSET V, s # {}
          PROVE  /\ val[c[s]] \in Nat /\ s \ {c[s]} \in SUBSET V
                 /\ Cardinality(s \ {c[s]}) = Cardinality(s) - 1
      <4>1. c[s] \in s /\ IsFiniteSet(s) BY <1>0, <3>3
      <4>2. val[c[s]] \in Nat BY <4>1
      <4>3. \A e \in s : Cardinality(s \ {e}) = Cardinality(s) - 1
        BY <4>1, FS_RemoveElement
      <4>. QED BY <4>1, <4>2, <4>3
    <3>4. f \in Fs
      <4>. SUFFICES ASSUME NEW s \in SUBSET V
                    PROVE  (IF Cardinality(s) <= n - 1 THEN g[s]
                            ELSE val[c[s]] + g[s \ {c[s]}]) \in Nat
        OBVIOUS
      <4>1. CASE Cardinality(s) <= n - 1 BY <4>1
      <4>2. CASE ~(Cardinality(s) <= n - 1)
        <5>1. s # {} BY <1>0, <3>1, <4>2
        <5>. QED BY <3>3, <4>2, <5>1
      <4>. QED BY <4>1, <4>2
    <3>5. SumUpTo(V, val, c, f, n)
      <4>. SUFFICES ASSUME NEW s \in SUBSET V, Cardinality(s) <= n
                    PROVE  f[s] = IF s = {} THEN 0 ELSE val[c[s]] + f[s \ {c[s]}]
        BY DEF SumUpTo
      <4>1. CASE s = {}
        <5>1. Cardinality(s) <= n - 1 BY <1>0, <3>1, <4>1
        <5>. QED BY <3>2, <4>1, <5>1 DEF SumUpTo
      <4>2. CASE s # {}
        <5>. DEFINE r == s \ {c[s]}
        <5>1. r \in SUBSET V /\ Cardinality(r) = Cardinality(s) - 1 BY <3>3, <4>2
        <5>2. Cardinality(s) \in Nat BY <1>0
        <5>3. Cardinality(r) <= n - 1 BY <5>1, <5>2
        <5>4. f[r] = g[r] BY <5>1, <5>3
        <5>. HIDE DEF r
        <5>5. f[s] = val[c[s]] + g[r]
          <6>1. CASE Cardinality(s) <= n - 1 BY <3>2, <4>2, <6>1 DEF SumUpTo, r
          <6>2. CASE ~(Cardinality(s) <= n - 1) BY <6>2 DEF r
          <6>. QED BY <6>1, <6>2
        <5>. QED BY <4>2, <5>4, <5>5 DEF r
      <4>. QED BY <4>1, <4>2
    <3>. QED BY <2>1, <3>4, <3>5 DEF Bad
  <2>. QED BY <2>2, <2>3
<1>2. Cardinality(V) \in Nat BY FS_CardinalityType
<1>3. PICK f \in Fs : SumUpTo(V, val, c, f, Cardinality(V)) BY <1>1, <1>2
<1>4. \A s \in SUBSET V : f[s] = IF s = {} THEN 0 ELSE val[c[s]] + f[s \ {c[s]}]
  <2>1. \A s \in SUBSET V : Cardinality(s) <= Cardinality(V) BY <1>0
  <2>. QED BY <1>3, <2>1 DEF SumUpTo
<1>5. SumOver(V, val, c, f) BY <1>4 DEF SumOver
<1>. QED BY <1>5

(* ... and is at least, or at most, as many times a bound of the elements. *)
LEMMA SumBounds ==
  ASSUME NEW V, IsFiniteSet(V), NEW val \in [V -> Nat], NEW c,
         \A s \in SUBSET V : s # {} => c[s] \in s,
         NEW f, SumOver(V, val, c, f), NEW bound \in Int
  PROVE  /\ f[V] \in Nat
         /\ (\A v \in V : bound <= val[v]) => bound * Cardinality(V) <= f[V]
         /\ (\A v \in V : val[v] <= bound) => f[V] <= bound * Cardinality(V)
<1>. DEFINE Above == \A v \in V : bound <= val[v]
            Below == \A v \in V : val[v] <= bound
            Bounded(s) == /\ f[s] \in Nat
                          /\ Above => bound * Cardinality(s) <= f[s]
                          /\ Below => f[s] <= bound * Cardinality(s)
            Bad == {Cardinality(s) : s \in {x \in SUBSET V : ~Bounded(x)}}
<1>0. \A s \in SUBSET V : IsFiniteSet(s) /\ Cardinality(s) \in Nat
  BY FS_Subset, FS_CardinalityType
<1>1. Bad \in SUBSET Nat BY <1>0
<1>2. Bad = {}
  <2>. SUFFICES ASSUME Bad # {} PROVE FALSE OBVIOUS
  <2>1. PICK n \in Bad : \A m \in Bad : n <= m BY <1>1, LeastNatural
  <2>2. PICK s \in SUBSET V : n = Cardinality(s) /\ ~Bounded(s) BY <2>1
  <2>3. f[s] = IF s = {} THEN 0 ELSE val[c[s]] + f[s \ {c[s]}] BY DEF SumOver
  <2>4. s # {}
    <3>1. bound * 0 = 0 BY SMT
    <3>2. SUFFICES ASSUME s = {} PROVE FALSE OBVIOUS
    <3>3. f[s] = 0 /\ Cardinality(s) = 0 BY <2>3, <3>2, FS_EmptySet
    <3>4. Bounded(s) BY <3>1, <3>3
    <3>. QED BY <2>2, <3>4
  <2>. DEFINE r == s \ {c[s]}
              v == val[c[s]]
              m == Cardinality(r)
  <2>5. c[s] \in s /\ r \in SUBSET V BY <2>4
  <2>6. m = n - 1 /\ m \in Nat /\ n \in Nat BY <1>0, <2>2, <2>5, FS_RemoveElement
  <2>7. Bounded(r)
    <3>1. m \notin Bad BY <2>1, <2>6
    <3>. QED BY <2>5, <3>1
  <2>8. v \in Nat /\ (Above => bound <= v) /\ (Below => v <= bound) BY <2>5
  <2>9. f[s] = v + f[r] BY <2>3, <2>4
  <2>10. /\ f[r] \in Nat
         /\ Above => bound * m <= f[r]
         /\ Below => f[r] <= bound * m
    BY <2>7
  <2>. HIDE DEF r, v, m, Bad, Above, Below
  <2>11. bound * n = bound * m + bound BY <2>6, SMT
  <2>12. bound * m \in Int BY <2>6
  <2>13. /\ f[s] \in Nat
         /\ Above => bound * n <= f[s]
         /\ Below => f[s] <= bound * n
    BY <2>8, <2>9, <2>10, <2>11, <2>12
  <2>. QED BY <2>2, <2>13
<1>3. Bounded(V) BY <1>2
<1>. QED BY <1>3

(* The mean of samples of a minute is between the values of two of them.   *)
LEMMA MeanLies ==
  ASSUME NEW S \in SUBSET Sample, IsFiniteSet(S), Mean(S) # NoValue
  PROVE  /\ Mean(S) \in Nat
         /\ \E s \in S : s.value # NoValue /\ s.value <= Mean(S)
         /\ \E s \in S : s.value # NoValue /\ Mean(S) <= s.value
<1>. DEFINE V == {s \in S : s.value # NoValue}
            val == [s \in V |-> s.value]
            c == [s \in SUBSET V |-> CHOOSE x \in s : TRUE]
            sum == MapThenSumSet(LAMBDA s : s.value, V)
            n == Cardinality(V)
            mean == sum \div n
<1>1. V # {} /\ Mean(S) = mean BY DEF Mean
<1>2. IsFiniteSet(V) /\ val \in [V -> Nat] BY FS_Subset DEF Sample
<1>3. n \in Nat \ {0} BY <1>1, <1>2, FS_CardinalityType, FS_EmptySet
<1>4. \A s \in SUBSET V : s # {} => c[s] \in s OBVIOUS
<1>5. \E f : SumOver(V, val, c, f)
  <2>. HIDE DEF V, val, c
  <2>. QED BY <1>2, <1>4, SumExists
<1>6. PICK f : SumOver(V, val, c, f) /\ sum = f[V]
  <2>. DEFINE Steps(g) == g = [s \in SUBSET V |-> IF s = {} THEN 0
                               ELSE LET x == CHOOSE y \in s : TRUE
                                    IN  x.value + g[s \ {x}]]
              f0 == CHOOSE g : Steps(g)
  <2>1. sum = f0[V] BY DEF MapThenSumSet, MapThenFoldSet
  <2>2. ASSUME NEW g PROVE SumOver(V, val, c, g) <=> Steps(g)
    <3>1. ASSUME NEW s \in SUBSET V
          PROVE  (IF s = {} THEN 0 ELSE val[c[s]] + g[s \ {c[s]}])
                   = (IF s = {} THEN 0
                      ELSE LET x == CHOOSE y \in s : TRUE IN x.value + g[s \ {x}])
      <4>1. s # {} => c[s] \in V BY <1>4
      <4>2. s # {} => val[c[s]] = c[s].value BY <4>1
      <4>3. c[s] = CHOOSE y \in s : TRUE OBVIOUS
      <4>. HIDE DEF c, val
      <4>. QED BY <4>2, <4>3
    <3>. HIDE DEF val, c, V
    <3>2. [s \in SUBSET V |-> IF s = {} THEN 0 ELSE val[c[s]] + g[s \ {c[s]}]]
           = [s \in SUBSET V |-> IF s = {} THEN 0
                ELSE LET x == CHOOSE y \in s : TRUE IN x.value + g[s \ {x}]]
      BY <3>1
    <3>. QED BY <3>2 DEF SumOver
  <2>. HIDE DEF Steps
  <2>3. Steps(f0) BY <1>5, <2>2
  <2>4. SumOver(V, val, c, f0) BY <2>2, <2>3
  <2>. QED BY <2>1, <2>4
<1>. HIDE DEF V, val, c, sum, n
<1>7. ASSUME NEW bound \in Int
      PROVE  /\ sum \in Nat
             /\ (\A v \in V : bound <= val[v]) => bound * n <= sum
             /\ (\A v \in V : val[v] <= bound) => sum <= bound * n
  BY <1>2, <1>4, <1>6, SumBounds DEF n
<1>8. sum \in Nat BY <1>7
<1>9. mean \in Nat /\ n * mean <= sum /\ sum < n * mean + n BY <1>3, <1>8, SMT
<1>. HIDE DEF mean
<1>10. \E v \in V : val[v] <= mean
  <2>. SUFFICES ASSUME \A v \in V : mean + 1 <= val[v] PROVE FALSE BY <1>2, <1>9
  <2>1. (mean + 1) * n <= sum BY <1>7, <1>9
  <2>2. (mean + 1) * n = n * mean + n BY <1>3, <1>9, SMT
  <2>. QED BY <1>3, <1>8, <1>9, <2>1, <2>2
<1>11. \E v \in V : mean <= val[v]
  <2>. SUFFICES ASSUME \A v \in V : val[v] <= mean - 1 PROVE FALSE BY <1>2, <1>9
  <2>1. sum <= (mean - 1) * n BY <1>7, <1>9
  <2>2. (mean - 1) * n = n * mean - n BY <1>3, <1>9, SMT
  <2>. QED BY <1>3, <1>8, <1>9, <2>1, <2>2
<1>. QED BY <1>1, <1>9, <1>10, <1>11 DEF V, val

(* The start of a minute.                                                  *)
LEMMA FloorMinuteIs ==
  ASSUME NEW t \in Int
  PROVE  /\ FloorMinute(t) \in Int /\ FloorMinute(t) <= t /\ t < FloorMinute(t) + Minute
         /\ t \in Nat => FloorMinute(t) \in Nat
<1>1. Minute \in Nat \ {0} BY HistoryAssumption
<1>2. t % Minute \in 0 .. Minute - 1 BY <1>1, SMT
<1>3. t \in Nat => t % Minute <= t BY <1>1, SMT
<1>. QED BY <1>1, <1>2, <1>3 DEF FloorMinute

(* The midnight before a moment is a midnight, and the last.               *)
LEMMA MidnightIs ==
  ASSUME NEW t \in Nat
  PROVE  /\ Midnight(t) \in Midnights /\ Midnight(t) \in Nat /\ Midnight(t) <= t
         /\ \A m \in Midnights : m <= t => m <= Midnight(t)
<1>. DEFINE M == {m \in Midnights : m <= t}
<1>0. Midnights \subseteq Nat /\ 0 \in Midnights BY HistoryAssumption
<1>1. M \in SUBSET Nat /\ M # {} /\ (\A m \in M : m <= t) /\ t \in Int
  <2>1. 0 \in M BY <1>0
  <2>2. M \subseteq Nat BY <1>0
  <2>3. \A m \in M : m <= t OBVIOUS
  <2>. QED BY <2>1, <2>2, <2>3
<1>. HIDE DEF M
<1>2. \E n \in M : \A m \in M : m <= n BY <1>1, GreatestNatural
<1>3. \E n \in M : \A m \in M : n >= m BY <1>1, <1>2
<1>4. Max(M) \in M /\ \A m \in M : Max(M) >= m BY <1>3 DEF Max
<1>. QED BY <1>1, <1>4 DEF Midnight, M

(* Samples are typed, finitely many, and one per moment.                   *)
LEMMA TypeOKInit == Init => TypeOK
  BY HistoryAssumption DEF Init, TypeOK

LEMMA TypeOKNext == TypeOK /\ [Next]_vars => TypeOK'
<1>. SUFFICES ASSUME TypeOK, [Next]_vars PROVE TypeOK' OBVIOUS
<1>0. now \in Nat /\ MaxTime \in Nat BY HistoryAssumption DEF TypeOK
<1>1. CASE Tick
  <2>1. now' = now + 1 /\ now' \in 0 .. MaxTime /\ UNCHANGED samples BY <1>0, <1>1 DEF Tick
  <2>2. 0 .. now \subseteq 0 .. now' BY <1>0, <2>1
  <2>3. samples \subseteq [at : 0 .. now', value : Values \cup {NoValue}]
    BY <2>2 DEF TypeOK
  <2>. QED BY <2>1, <2>3 DEF TypeOK
<1>2. ASSUME NEW value \in Values \cup {NoValue}, Observe(value) PROVE TypeOK'
  <2>. DEFINE new == [at |-> now, value |-> value]
  <2>1. samples' = samples \cup {new} /\ now' = now /\ \A s \in samples : s.at < now
    BY <1>2 DEF Observe
  <2>2. new \in [at : 0 .. now, value : Values \cup {NoValue}] /\ new.at = now BY <1>0
  <2>. HIDE DEF new
  <2>3. samples' \subseteq [at : 0 .. now, value : Values \cup {NoValue}]
    BY <2>1, <2>2 DEF TypeOK
  <2>4. \A s \in samples : s.at # new.at BY <1>0, <2>1, <2>2
  <2>5. \A s1, s2 \in samples' : s1.at = s2.at => s1 = s2 BY <2>1, <2>4 DEF TypeOK
  <2>. QED BY <2>1, <2>3, <2>5 DEF TypeOK
<1>3. CASE UNCHANGED vars BY <1>3 DEF vars, TypeOK
<1>. QED BY <1>1, <1>2, <1>3 DEF Next

(* Every variable of the wait history keeps its type, whatever the poller,  *)
(* the clock and the reader do.                                            *)
THEOREM HistoryTyped == Spec => []TypeOK
  BY TypeOKInit, TypeOKNext, PTL DEF Spec

LEMMA SamplesAre ==
  ASSUME TypeOK
  PROVE  /\ samples \in SUBSET Sample /\ IsFiniteSet(samples) /\ now \in Nat
         /\ \A s \in samples : s.at <= now
         /\ \A s1, s2 \in samples : s1.at = s2.at => s1 = s2
<1>. DEFINE f == [s \in samples |-> s.at]
<1>1. now \in Nat BY DEF TypeOK
<1>2. \A s \in samples : s.at \in 0 .. now BY DEF TypeOK
<1>3. samples \in SUBSET Sample
  <2>1. Values \subseteq Nat BY HistoryAssumption
  <2>2. 0 .. now \subseteq Nat BY <1>1
  <2>3. ASSUME NEW s \in [at : 0 .. now, value : Values \cup {NoValue}] PROVE s \in Sample
    <3>1. s.at \in Nat /\ s.value \in Nat \cup {NoValue} BY <2>1, <2>2
    <3>2. s = [at |-> s.at, value |-> s.value] OBVIOUS
    <3>. QED BY <3>1, <3>2 DEF Sample
  <2>. QED BY <2>3 DEF TypeOK
<1>4. \A s1, s2 \in samples : s1.at = s2.at => s1 = s2 BY DEF TypeOK
<1>5. f \in Injection(samples, 0 .. now) BY <1>2, <1>4 DEF Injection, IsInjective
<1>6. IsFiniteSet(0 .. now) BY <1>1, FS_Interval
<1>7. IsFiniteSet(samples) BY <1>5, <1>6, FS_Injection
<1>. QED BY <1>1, <1>2, <1>3, <1>4, <1>7

(* An aggregate is a sample too, and its value lies between observations   *)
(* of its minute.                                                          *)
LEMMA AggregatesAre ==
  ASSUME NEW S \in SUBSET Sample, IsFiniteSet(S), NEW start \in Int, NEW end \in Int
  PROVE  LET A == AggregateSamples(S, start, end)
         IN  /\ A \in SUBSET Sample
             /\ \A a \in A :
                  /\ start <= a.at /\ a.at <= end
                  /\ a.value # NoValue =>
                       /\ \E s \in S : /\ s.value # NoValue /\ FloorMinute(s.at) = a.at
                                       /\ s.value <= a.value
                       /\ \E s \in S : /\ s.value # NoValue /\ FloorMinute(s.at) = a.at
                                       /\ a.value <= s.value
<1>. DEFINE A == AggregateSamples(S, start, end)
            of(b) == {s \in S : FloorMinute(s.at) = b}
            fm == {FloorMinute(s.at) : s \in S}
            ofMinute == [b \in fm |-> of(b)]
<1>. SUFFICES ASSUME NEW a \in A
              PROVE  /\ a \in Sample /\ start <= a.at /\ a.at <= end
                     /\ a.value # NoValue =>
                       /\ \E s \in S : /\ s.value # NoValue /\ FloorMinute(s.at) = a.at
                                       /\ s.value <= a.value
                       /\ \E s \in S : /\ s.value # NoValue /\ FloorMinute(s.at) = a.at
                                       /\ a.value <= s.value
  BY Zenon
<1>1. PICK b \in fm \cap (start .. end) : a = [at |-> b, value |-> Mean(of(b))]
  BY DEF AggregateSamples
<1>2. b \in Nat
  <2>1. PICK s \in S : b = FloorMinute(s.at) BY <1>1
  <2>2. s.at \in Nat BY DEF Sample
  <2>. QED BY <2>1, <2>2, FloorMinuteIs
<1>. DEFINE T == of(b)
<1>3. T \in SUBSET Sample /\ IsFiniteSet(T) BY FS_Subset
<1>4. a.at = b /\ a.value = Mean(T) BY <1>1
<1>5. Mean(T) # NoValue =>
        /\ Mean(T) \in Nat
        /\ \E s \in T : s.value # NoValue /\ s.value <= Mean(T)
        /\ \E s \in T : s.value # NoValue /\ Mean(T) <= s.value
  <2>. HIDE DEF T
  <2>. QED BY <1>3, MeanLies
<1>6. a \in Sample BY <1>1, <1>2, <1>5 DEF Sample
<1>7. start <= a.at /\ a.at <= end BY <1>1, <1>4
<1>. QED BY <1>4, <1>5, <1>6, <1>7

(* The times of a range.                                                   *)
LEMMA RangeIs ==
  ASSUME TypeOK, NEW range \in Ranges
  PROVE  /\ HistoryStart(range, now) \in Int
         /\ \A t \in Minutes(range, now) : t \in Int /\ t <= now
<1>0. now \in Nat BY DEF TypeOK
<1>1. HistoryStart(range, now) \in Int
  <2>1. CASE range = "today" BY <1>0, <2>1, MidnightIs DEF HistoryStart
  <2>2. CASE range # "today" BY <1>0, <2>2, HistoryAssumption DEF HistoryStart, Ranges
  <2>. QED BY <2>1, <2>2
<1>2. ASSUME NEW t \in Minutes(range, now) PROVE t \in Int /\ t <= now
  <2>1. FloorMinute(HistoryStart(range, now)) \in Int /\ FloorMinute(now) \in Int
        /\ FloorMinute(now) <= now
    BY <1>0, <1>1, FloorMinuteIs
  <2>. QED BY <1>0, <2>1 DEF Minutes
<1>. QED BY <1>1, <1>2

(* No point of the history is extrapolated, of any range: a value lies     *)
(* between two observed within the gap (and their minute).                 *)
LEMMA TypedIsNotInvented == TypeOK => NothingInvented
<1>. SUFFICES ASSUME TypeOK, NEW range \in Ranges, NEW t \in Minutes(range, now),
                     Points(samples, range, now)[t] # NoValue
              PROVE  LET v == Points(samples, range, now)[t]
                         nearby(d) == IF range = "week" THEN d < MaxGap + Minute
                                      ELSE d <= MaxGap
                         near == {s \in samples : s.value # NoValue /\ nearby(s.at - t)
                                                    /\ nearby(t - s.at)}
                     IN  /\ \E s \in near : s.value <= v
                         /\ \E s \in near : s.value >= v
  BY DEF NothingInvented, Points
<1>. DEFINE start == SampleStart(HistoryStart(range, now))
            seen == IF range = "week" THEN AggregateSamples(samples, start, now)
                    ELSE RawSamples(samples, start, now)
            v == ValueAt(seen, t)
<1>0. MaxGap \in Nat \ {0} /\ Minute \in Nat \ {0} BY HistoryAssumption
<1>1. /\ samples \in SUBSET Sample /\ IsFiniteSet(samples) /\ now \in Nat
      /\ \A s \in samples : s.at \in Nat /\ s.value \in Nat \cup {NoValue}
  BY SamplesAre DEF Sample
<1>2. start \in Int /\ t \in Int BY <1>0, RangeIs DEF SampleStart
<1>3. Points(samples, range, now)[t] = v BY DEF Points
<1>. HIDE DEF start
<1>4. seen \in SUBSET Sample BY <1>1, <1>2, AggregatesAre DEF RawSamples
<1>5. /\ v \in Nat
      /\ \E s \in seen : s.value # NoValue /\ Near(s, t) /\ s.value <= v
      /\ \E s \in seen : s.value # NoValue /\ Near(s, t) /\ s.value >= v
  <2>. HIDE DEF seen
  <2>. QED BY <1>2, <1>3, <1>4, ValueLies
<1>. HIDE DEF v
<1>6. CASE range # "week"
  <2>1. seen \subseteq samples BY <1>6 DEF RawSamples
  <2>. HIDE DEF seen
  <2>. QED BY <1>3, <1>5, <1>6, <2>1 DEF Near
<1>7. CASE range = "week"
  <2>1. seen = AggregateSamples(samples, start, now) BY <1>7
  <2>. DEFINE nearMinute(s) == s.at - t < MaxGap + Minute /\ t - s.at < MaxGap + Minute
  <2>2. ASSUME NEW s \in samples, NEW a \in seen, FloorMinute(s.at) = a.at, Near(a, t)
        PROVE  nearMinute(s)
    <3>1. s.at \in Nat /\ a.at \in Nat BY <1>1, <1>4 DEF Sample
    <3>2. a.at <= s.at /\ s.at < a.at + Minute BY <2>2, <3>1, FloorMinuteIs
    <3>. QED BY <1>0, <1>2, <2>2, <3>1, <3>2 DEF Near
  <2>3. ASSUME NEW a \in seen, a.value # NoValue, Near(a, t)
        PROVE  /\ a.value \in Nat
               /\ \E s \in samples : s.value # NoValue /\ nearMinute(s) /\ s.value <= a.value
               /\ \E s \in samples : s.value # NoValue /\ nearMinute(s) /\ a.value <= s.value
    <3>1. a.value \in Nat BY <1>4, <2>3 DEF Sample
    <3>2. /\ \E s \in samples : /\ s.value # NoValue /\ FloorMinute(s.at) = a.at
                                /\ s.value <= a.value
          /\ \E s \in samples : /\ s.value # NoValue /\ FloorMinute(s.at) = a.at
                                /\ a.value <= s.value
      <4>. HIDE DEF seen
      <4>. QED BY <1>1, <1>2, <2>1, <2>3, AggregatesAre
    <3>. HIDE DEF seen, nearMinute
    <3>. QED BY <2>2, <2>3, <3>1, <3>2
  <2>. HIDE DEF seen, nearMinute
  <2>4. \E s \in samples : s.value # NoValue /\ nearMinute(s) /\ s.value <= v
    <3>1. PICK a \in seen : a.value # NoValue /\ Near(a, t) /\ a.value <= v BY <1>5
    <3>2. PICK s \in samples : s.value # NoValue /\ nearMinute(s) /\ s.value <= a.value
      BY <2>3, <3>1
    <3>3. s.value \in Nat /\ a.value \in Nat BY <1>1, <2>3, <3>1, <3>2
    <3>. QED BY <1>5, <3>1, <3>2, <3>3
  <2>5. \E s \in samples : s.value # NoValue /\ nearMinute(s) /\ s.value >= v
    <3>1. PICK a \in seen : a.value # NoValue /\ Near(a, t) /\ a.value >= v BY <1>5
    <3>2. PICK s \in samples : s.value # NoValue /\ nearMinute(s) /\ a.value <= s.value
      BY <2>3, <3>1
    <3>3. s.value \in Nat /\ a.value \in Nat BY <1>1, <2>3, <3>1, <3>2
    <3>. QED BY <1>5, <3>1, <3>2, <3>3
  <2>. QED BY <1>3, <1>7, <2>4, <2>5 DEF nearMinute
<1>. QED BY <1>6, <1>7

THEOREM HistoryInventsNothing == Spec => []NothingInvented
  BY HistoryTyped, TypedIsNotInvented, PTL

-----------------------------------------------------------------------------
(* The longer of two ranges sees no other value than the shorter one if    *)
(* the observations that only it has read are all too old for the minute.  *)
LEMMA ShorterRange ==
  ASSUME TypeOK, NEW h1 \in Int, NEW h2 \in Int, NEW t \in Int, h1 <= h2,
         \A s \in samples : t - MaxGap <= s.at => SampleStart(h2) <= s.at
  PROVE  LET seen(h) == RawSamples(samples, SampleStart(h), now)
             v(h) == ValueAt(seen(h), t)
         IN  v(h1) # NoValue /\ v(h2) # NoValue => v(h1) = v(h2)
<1>. DEFINE s1 == SampleStart(h1)
            s2 == SampleStart(h2)
            A == RawSamples(samples, s1, now)
            B == RawSamples(samples, s2, now)
            aA == After(A, t)
            aB == After(B, t)
            bA == Before(A, t)
            bB == Before(B, t)
<1>. SUFFICES ASSUME ValueAt(A, t) # NoValue, ValueAt(B, t) # NoValue
              PROVE  ValueAt(A, t) = ValueAt(B, t)
  OBVIOUS
<1>0. /\ samples \in SUBSET Sample /\ now \in Nat
      /\ \A s \in samples : s.at \in Nat
      /\ \A x, y \in samples : x.at = y.at => x = y
  BY SamplesAre DEF Sample
<1>1. MaxGap \in Nat /\ NoSample \notin Sample BY HistoryAssumption DEF Sample
<1>2. s1 \in Int /\ s2 \in Int /\ s1 <= s2
  BY <1>1 DEF SampleStart
<1>2a. \A s \in samples : t - MaxGap <= s.at => s2 <= s.at OBVIOUS
<1>. HIDE DEF s1, s2
<1>3. /\ A \in SUBSET samples /\ B \in SUBSET A
      /\ \A s \in A : s2 <= s.at => s \in B
      /\ \A s \in B : s2 <= s.at
  BY <1>0, <1>2 DEF RawSamples
<1>4. A \in SUBSET Sample /\ B \in SUBSET Sample BY <1>0, <1>3
<1>. HIDE DEF A, B
<1>5. aA = aB
  <2>1. \/ aA = NoSample /\ \A s \in A : s.at < t
        \/ aA \in A /\ t <= aA.at /\ \A s \in A : t <= s.at => aA.at <= s.at
    BY <1>4, AfterIs
  <2>2. \/ aB = NoSample /\ \A s \in B : s.at < t
        \/ aB \in B /\ t <= aB.at /\ \A s \in B : t <= s.at => aB.at <= s.at
    BY <1>4, AfterIs
  <2>. HIDE DEF aA, aB
  <2>3. \A s \in A : t <= s.at => s \in B BY <1>0, <1>1, <1>2a, <1>3
  <2>4. CASE aA = NoSample /\ \A s \in A : s.at < t
    <3>1. \A s \in B : ~(t <= s.at) BY <1>0, <1>3, <2>4
    <3>. QED BY <2>2, <2>4, <3>1
  <2>5. CASE aA \in A /\ t <= aA.at /\ \A s \in A : t <= s.at => aA.at <= s.at
    <3>1. aA \in B /\ ~(aA.at < t) BY <1>0, <1>3, <2>3, <2>5
    <3>2. aB \in B /\ t <= aB.at /\ aB.at <= aA.at BY <2>2, <2>5, <3>1
    <3>3. aA.at <= aB.at BY <1>3, <2>5, <3>2
    <3>4. aA \in samples /\ aB \in samples /\ aA.at \in Nat /\ aB.at \in Nat
      BY <1>0, <1>3, <3>1, <3>2
    <3>. QED BY <1>0, <3>2, <3>3, <3>4
  <2>. QED BY <2>1, <2>4, <2>5
<1>6. \/ bA = bB
      \/ bB = NoSample /\ bA \in samples /\ t - bA.at > MaxGap
  <2>1. \/ bA = NoSample /\ \A s \in A : t <= s.at
        \/ bA \in A /\ bA.at < t /\ \A s \in A : s.at < t => s.at <= bA.at
    BY <1>4, BeforeIs
  <2>2. \/ bB = NoSample /\ \A s \in B : t <= s.at
        \/ bB \in B /\ bB.at < t /\ \A s \in B : s.at < t => s.at <= bB.at
    BY <1>4, BeforeIs
  <2>. HIDE DEF bA, bB
  <2>3. CASE bA = NoSample /\ \A s \in A : t <= s.at
    <3>1. \A s \in B : ~(s.at < t) BY <1>0, <1>3, <2>3
    <3>. QED BY <2>2, <2>3, <3>1
  <2>4. CASE bA \in A /\ bA.at < t /\ \A s \in A : s.at < t => s.at <= bA.at
    <3>0. bA \in samples /\ bA.at \in Nat BY <1>0, <1>3, <2>4
    <3>1. CASE bA \in B
      <4>1. ~(t <= bA.at) BY <2>4, <3>0
      <4>2. bB \in B /\ bB.at < t /\ bA.at <= bB.at BY <2>2, <2>4, <3>1, <4>1
      <4>3. bB.at <= bA.at /\ bB \in samples /\ bB.at \in Nat BY <1>0, <1>3, <2>4, <4>2
      <4>. QED BY <1>0, <3>0, <4>2, <4>3
    <3>2. CASE bA \notin B
      <4>1. bA.at < s2 BY <1>2, <1>3, <2>4, <3>0, <3>2
      <4>2. t - bA.at > MaxGap BY <1>1, <1>2, <1>2a, <3>0, <4>1
      <4>3. \A s \in B : ~(s.at < t)
        <5>. SUFFICES ASSUME NEW s \in B, s.at < t PROVE FALSE OBVIOUS
        <5>1. s.at <= bA.at /\ s2 <= s.at /\ s.at \in Nat BY <1>0, <1>3, <2>4
        <5>. QED BY <1>2, <3>0, <4>1, <5>1
      <4>. QED BY <2>2, <3>0, <4>2, <4>3
    <3>. QED BY <3>1, <3>2
  <2>. QED BY <2>1, <2>3, <2>4
<1>7. CASE bA = bB BY <1>5, <1>7 DEF ValueAt
<1>8. CASE bB = NoSample /\ bA \in samples /\ t - bA.at > MaxGap
  <2>1. aA # NoSample => aA \in A /\ t <= aA.at BY <1>4, AfterIs
  <2>2. aA # NoSample => aA.at \in Nat BY <1>0, <1>3, <2>1
  <2>3. bA.at \in Nat /\ bA # NoSample BY <1>0, <1>1, <1>8
  <2>4. ValueOf(bB) = NoValue /\ ValueOf(bA) = bA.value BY <1>8, <2>3 DEF ValueOf
  <2>. HIDE DEF aA, aB, bA, bB
  <2>5. ValueOf(bA) = NoValue
    <3>. SUFFICES ASSUME ValueOf(bA) # NoValue PROVE FALSE OBVIOUS
    <3>1. CASE ValueOf(aA) = NoValue
      <4>1. ~(t - bA.at <= MaxGap) BY <1>1, <1>8, <2>3
      <4>2. ValueAt(A, t) = NoValue BY <3>1, <4>1 DEF ValueAt, Interpolated, aA, bA
      <4>. QED BY <4>2
    <3>2. CASE ValueOf(aA) # NoValue
      <4>1. aA # NoSample BY <3>2 DEF ValueOf
      <4>2. aA.at - bA.at > MaxGap BY <1>1, <1>8, <2>1, <2>2, <2>3, <4>1
      <4>3. Between(bA, aA, t) = NoValue BY <4>2 DEF Between
      <4>4. ValueAt(A, t) = NoValue BY <3>2, <4>3 DEF ValueAt, Interpolated, aA, bA
      <4>. QED BY <4>4
    <3>. QED BY <3>1, <3>2
  <2>6. ValueAt(A, t) = Interpolated(bA, aA, t) /\ ValueAt(B, t) = Interpolated(bB, aB, t)
    BY DEF ValueAt, aA, aB, bA, bB
  <2>. QED BY <1>5, <2>4, <2>5, <2>6 DEF Interpolated
<1>. QED BY <1>6, <1>7, <1>8

(* Where two ranges of raw samples differ, the minute is the first one of  *)
(* the shorter range, and rounding it down took it further back than the   *)
(* observations that were read for it.                                     *)
LEMMA TypedRangesAgree == TypeOK => RawRangesAgree
<1>. SUFFICES ASSUME TypeOK, NEW r1 \in RawRanges, NEW r2 \in Longer(r1),
                     NEW t \in Minutes(r1, now) \cap Minutes(r2, now),
                     Points(samples, r1, now)[t] # NoValue,
                     Points(samples, r2, now)[t] # NoValue,
                     ~ReadsTooLate(r1, t)
              PROVE  Points(samples, r1, now)[t] = Points(samples, r2, now)[t]
  BY DEF RawRangesAgree, Points
<1>. DEFINE h1 == HistoryStart(r1, now)
            h2 == HistoryStart(r2, now)
            v(h) == ValueAt(RawSamples(samples, SampleStart(h), now), t)
<1>1. h1 \in Int /\ h2 \in Int /\ t \in Int /\ h2 <= h1
  BY RangeIs DEF RawRanges, Longer
<1>2. Points(samples, r1, now)[t] = v(h1) /\ Points(samples, r2, now)[t] = v(h2)
  BY DEF Points, RawRanges, Longer
<1>3. ASSUME NEW s \in samples, t - MaxGap <= s.at PROVE SampleStart(h1) <= s.at
  <2>1. s.at \in Nat /\ MaxGap \in Nat BY SamplesAre, HistoryAssumption DEF Sample
  <2>2. SampleStart(h1) = h1 - MaxGap BY DEF SampleStart
  <2>3. s.at < SampleStart(h1) => ~(t < h1) BY <1>3 DEF ReadsTooLate
  <2>. HIDE DEF h1
  <2>. QED BY <1>1, <1>3, <2>1, <2>2, <2>3
<1>. HIDE DEF h1, h2
<1>. QED BY <1>1, <1>2, <1>3, ShorterRange

(* The raw ranges ("today" and the ones counted in hours) never disagree   *)
(* about a minute, except about the first minute of the shorter one, and   *)
(* there only when an observation within the gap of it came too early for  *)
(* that range to be read.  The seven-day range is not among them: it shows *)
(* means of a minute.                                                      *)
THEOREM RangesDifferInTheirFirstMinute == Spec => []RawRangesAgree
  BY HistoryTyped, TypedRangesAgree, PTL

-----------------------------------------------------------------------------
(* Observations to come change no point that has one at it or after it.    *)
LEMMA LaterSamples ==
  ASSUME NEW S \in SUBSET Sample, NEW T \in SUBSET Sample, NEW t \in Int,
         \A x, y \in S : x.at = y.at => x = y,
         S \subseteq T, \A s \in S, n \in T \ S : s.at < n.at,
         \E s \in S : t <= s.at
  PROVE  ValueAt(T, t) = ValueAt(S, t)
<1>0. \A s \in T : s.at \in Nat BY DEF Sample
<1>1. PICK s0 \in S : t <= s0.at OBVIOUS
<1>2. {s \in T : s.at < t} = {s \in S : s.at < t}
  <2>1. \A n \in T \ S : ~(n.at < t) BY <1>0, <1>1
  <2>. QED BY <2>1
<1>3. Before(T, t) = Before(S, t)
  <2>. DEFINE earlier(X) == {s \in X : s.at < t}
              last(E) == IF E = {} THEN NoSample
                         ELSE CHOOSE s \in E : \A o \in E : o.at <= s.at
  <2>1. Before(T, t) = last(earlier(T)) /\ Before(S, t) = last(earlier(S)) BY DEF Before
  <2>2. earlier(T) = earlier(S) BY <1>2
  <2>. HIDE DEF earlier, last
  <2>. QED BY <2>1, <2>2
<1>4. After(T, t) = After(S, t)
  <2>. DEFINE aS == After(S, t)
              aT == After(T, t)
  <2>1. aS \in S /\ t <= aS.at /\ \A s \in S : t <= s.at => aS.at <= s.at
    <3>1. ~(s0.at < t) BY <1>0, <1>1
    <3>. QED BY <1>1, <3>1, AfterIs
  <2>2. aT \in T /\ t <= aT.at /\ \A s \in T : t <= s.at => aT.at <= s.at
    <3>1. ~(s0.at < t) /\ s0 \in T BY <1>0, <1>1
    <3>. QED BY <1>1, <3>1, AfterIs
  <2>. HIDE DEF aS, aT
  <2>3. aT.at <= s0.at BY <1>1, <2>2
  <2>4. aT \in S BY <1>0, <1>1, <2>2, <2>3
  <2>5. aS.at <= aT.at /\ aT.at <= aS.at BY <2>1, <2>2, <2>4
  <2>6. aS.at \in Nat /\ aT.at \in Nat BY <1>0, <2>1, <2>2
  <2>7. aS.at = aT.at BY <2>5, <2>6
  <2>8. aS = aT BY <2>1, <2>4, <2>7
  <2>. QED BY <2>8 DEF aS, aT
<1>. QED BY <1>3, <1>4 DEF ValueAt

(* A point of today is final once an observation was made at its minute or *)
(* later, as long as the day lasts.                                        *)
THEOREM HistorySettles == Spec => PointsSettle
<1>. DEFINE Settles ==
       LET p1 == Points(samples, "today", now)
           p2 == Points(samples', "today", now')
       IN  \A t \in DOMAIN p1 \cap DOMAIN p2 :
               (\E s \in samples : s.at >= t) => p2[t] = p1[t]
<1>1. ASSUME TypeOK, TypeOK', Next PROVE Settles
  <2>. SUFFICES ASSUME NEW t \in Minutes("today", now) \cap Minutes("today", now'),
                       \E s \in samples : s.at >= t
                PROVE  Points(samples', "today", now')[t] = Points(samples, "today", now)[t]
    BY DEF Points
  <2>0. /\ now \in Nat /\ now' \in Nat
        /\ samples \in SUBSET Sample /\ samples' \in SUBSET Sample
        /\ \A s \in samples : s.at \in Nat /\ s.at <= now
        /\ \A x, y \in samples : x.at = y.at => x = y
    <3>1. samples' \in SUBSET Sample /\ now' \in Nat
      <4>1. now' \in Nat /\ samples' \subseteq [at : 0 .. now', value : Values \cup {NoValue}]
        BY HistoryAssumption, <1>1 DEF TypeOK
      <4>2. Values \subseteq Nat BY HistoryAssumption
      <4>3. 0 .. now' \subseteq Nat BY <4>1
      <4>4. ASSUME NEW s \in [at : 0 .. now', value : Values \cup {NoValue}]
            PROVE  s \in Sample
        <5>1. s.at \in Nat /\ s.value \in Nat \cup {NoValue} BY <4>2, <4>3
        <5>2. s = [at |-> s.at, value |-> s.value] OBVIOUS
        <5>. QED BY <5>1, <5>2 DEF Sample
      <4>. QED BY <4>1, <4>4
    <3>. QED BY <1>1, <3>1, SamplesAre DEF Sample
  <2>. DEFINE m == Midnight(now)
              mm == Midnight(now')
              start == SampleStart(m)
              seen == RawSamples(samples, start, now)
              seenn == RawSamples(samples', SampleStart(mm), now')
  <2>1. /\ m \in Midnights /\ m \in Nat /\ m <= now /\ \A k \in Midnights : k <= now => k <= m
        /\ mm \in Midnights /\ mm \in Nat /\ mm <= now'
        /\ \A k \in Midnights : k <= now' => k <= mm
    BY <2>0, MidnightIs
  <2>2. /\ Points(samples', "today", now')[t] = ValueAt(seenn, t)
        /\ Points(samples, "today", now)[t] = ValueAt(seen, t)
    BY DEF Points, HistoryStart
  <2>. HIDE DEF m, mm
  <2>3. Minute \in Nat \ {0} /\ FloorMinute(mm) = mm /\ FloorMinute(m) = m
    BY HistoryAssumption, <2>1 DEF FloorMinute
  <2>4. t \in Int /\ m <= t /\ mm <= t /\ t <= now
    <3>1. /\ FloorMinute(now) \in Int /\ FloorMinute(now) <= now
          /\ FloorMinute(now') \in Int /\ FloorMinute(now') <= now'
      BY <2>0, FloorMinuteIs
    <3>2. t \in m .. FloorMinute(now) /\ t \in mm .. FloorMinute(now')
      BY <2>3 DEF Minutes, HistoryStart, m, mm
    <3>. QED BY <2>0, <2>1, <3>1, <3>2
  <2>5. MaxGap \in Nat /\ start \in Int /\ start <= t
    BY HistoryAssumption, <2>1, <2>4 DEF SampleStart
  <2>6. CASE Tick
    <3>1. now' = now + 1 /\ UNCHANGED samples BY <2>6 DEF Tick
    <3>2. mm = m
      <4>1. mm <= now BY <2>0, <2>1, <2>4
      <4>2. m <= now' BY <2>0, <2>1, <3>1
      <4>. QED BY <2>1, <4>1, <4>2
    <3>3. seenn = seen
      <4>1. \A s \in samples : s.at <= now /\ s.at <= now' BY <2>0, <3>1
      <4>. QED BY <3>1, <3>2, <4>1 DEF RawSamples
    <3>. QED BY <2>2, <3>3
  <2>7. ASSUME NEW value \in Values \cup {NoValue}, Observe(value)
        PROVE  Points(samples', "today", now')[t] = Points(samples, "today", now)[t]
    <3>. DEFINE new == [at |-> now, value |-> value]
    <3>1. samples' = samples \cup {new} /\ now' = now /\ \A s \in samples : s.at < now
      BY <2>7 DEF Observe
    <3>2. new.at = now OBVIOUS
    <3>. HIDE DEF new
    <3>3. mm = m BY <3>1 DEF m, mm
    <3>. HIDE DEF start
    <3>4. seen \subseteq seenn /\ seen \subseteq samples /\ seenn \subseteq samples'
      BY <3>1, <3>3 DEF RawSamples, start
    <3>5. \A s \in seen, n \in seenn \ seen : s.at < n.at
      <4>. SUFFICES ASSUME NEW s \in seen, NEW n \in seenn \ seen PROVE s.at < n.at
        OBVIOUS
      <4>1. n = new BY <3>1, <3>3 DEF RawSamples, start
      <4>. QED BY <3>1, <3>2, <3>4, <4>1
    <3>6. \E s \in seen : t <= s.at
      <4>1. PICK s \in samples : s.at >= t OBVIOUS
      <4>2. s.at >= start /\ s.at <= now BY <2>0, <2>4, <2>5, <4>1
      <4>3. s \in seen BY <4>2 DEF RawSamples
      <4>. QED BY <2>0, <2>4, <4>1, <4>3
    <3>. HIDE DEF seen, seenn
    <3>7. seen \in SUBSET Sample /\ seenn \in SUBSET Sample
          /\ \A x, y \in seen : x.at = y.at => x = y
      BY <2>0, <3>4
    <3>8. ValueAt(seenn, t) = ValueAt(seen, t)
      BY <2>4, <3>4, <3>5, <3>6, <3>7, LaterSamples
    <3>. QED BY <2>2, <3>8
  <2>. QED BY <1>1, <2>6, <2>7 DEF Next
<1>2. TypeOK /\ TypeOK' /\ [Next]_vars => [Settles]_vars BY <1>1
<1>. QED BY <1>2, HistoryTyped, PTL DEF Spec, PointsSettle

-----------------------------------------------------------------------------
(* The comparison.                                                         *)

(* Whatever the length of the days, a minute that counts is at most Days   *)
(* times Day, and a gap on either side, before today's midnight.           *)
ComparesOnlyTheWeek ==
    \A minute \in Nat : \A m \in DaysWithValue(samples, Midnight(now), minute) :
        /\ m \in Midnights /\ m < Midnight(now)
        /\ Midnight(now) - (m + minute * Minute) <= Days * Day + 2 * MaxGap

(* No clock is changed: the midnights are a day apart, from the first on.  *)
(* A gap is no longer than a day.                                          *)
RegularDays ==
    /\ MaxGap <= Day
    /\ \A m \in Midnights : m % Day = 0
    /\ \A m, n \in Midnights : m < n => m + Day \in Midnights

LEMMA DayMultiple ==
  ASSUME NEW a \in Nat, NEW d \in Nat \ {0}, a % d = 0
  PROVE  \E q \in Nat : a = d * q
<1>1. a \div d \in Nat BY SMT
<1>2. a = d * (a \div d) + (a % d) BY SMT
<1>3. d * (a \div d) \in Nat BY <1>1
<1>. QED BY <1>1, <1>2, <1>3

(* A day of the comparison has a sample near the minute that was read for  *)
(* it and is, where days are regular, one of the Days + 1 before today.    *)
LEMMA DaysAre ==
  ASSUME TypeOK, NEW minute \in Nat
  PROVE  LET today == Midnight(now)
         IN  \A m \in DaysWithValue(samples, today, minute) :
               /\ m \in Midnights /\ m < today
               /\ RegularDays => today < m + (Days + 1) * Day + MaxGap
               /\ \E s \in Sample : /\ s.at >= today - Days * Day - MaxGap
                                    /\ Near(s, m + minute * Minute)
<1>. DEFINE today == Midnight(now)
            start == SampleStart(today - Days * Day)
            past == ComparisonSamples(samples, today)
<1>0. MaxGap \in Nat /\ Day \in Nat \ {0} /\ Days \in Nat /\ Minute \in Nat
      /\ Midnights \subseteq Nat
  BY HistoryAssumption
<1>1. now \in Nat /\ samples \in SUBSET Sample /\ IsFiniteSet(samples) BY SamplesAre
<1>2. today \in Midnights /\ today \in Nat BY <1>1, MidnightIs
<1>. HIDE DEF today
<1>3. start \in Int /\ start = today - Days * Day - MaxGap BY <1>0, <1>2 DEF SampleStart
<1>4. past \in SUBSET Sample /\ \A s \in past : start <= s.at /\ Midnight(s.at) < today
  <2>. DEFINE A == AggregateSamples(samples, start, today)
  <2>1. A \in SUBSET Sample /\ \A a \in A : start <= a.at
    <3>. HIDE DEF start
    <3>. QED BY <1>1, <1>2, <1>3, AggregatesAre
  <2>2. past = {s \in A : Midnight(s.at) < today} BY DEF ComparisonSamples
  <2>. HIDE DEF A, past
  <2>. QED BY <2>1, <2>2
<1>. HIDE DEF start, past
<1>. SUFFICES ASSUME NEW m \in DaysWithValue(samples, today, minute)
              PROVE  /\ m \in Midnights /\ m < today
                     /\ RegularDays => today < m + (Days + 1) * Day + MaxGap
                     /\ \E s \in Sample : /\ s.at >= today - Days * Day - MaxGap
                                          /\ Near(s, m + minute * Minute)
  BY DEF today
<1>. DEFINE ofDay == {s \in past : Midnight(s.at) = m}
            t == m + minute * Minute
<1>5. (\E s \in past : m = Midnight(s.at)) /\ ValueAt(ofDay, t) # NoValue
  BY DEF DaysWithValue, past
<1>6. PICK s \in past : m = Midnight(s.at) BY <1>5
<1>7. s.at \in Nat /\ start <= s.at BY <1>4 DEF Sample
<1>8. m \in Midnights /\ m \in Nat /\ m < today /\ \A k \in Midnights : k <= s.at => k <= m
  BY <1>4, <1>6, <1>7, MidnightIs
<1>9. ASSUME RegularDays PROVE s.at < m + Day
  <2>1. m + Day \in Midnights BY <1>2, <1>8, <1>9 DEF RegularDays
  <2>2. ~(m + Day <= s.at) BY <1>0, <1>8, <2>1
  <2>. QED BY <1>0, <1>7, <1>8, <2>2
<1>10. ASSUME RegularDays PROVE today < m + (Days + 1) * Day + MaxGap
  <2>1. (Days + 1) * Day = Days * Day + Day /\ Days * Day \in Nat BY <1>0, SMT
  <2>. QED BY <1>0, <1>2, <1>3, <1>7, <1>8, <1>9, <1>10, <2>1
<1>11. ofDay \in SUBSET Sample /\ ofDay \subseteq past /\ t \in Int BY <1>0, <1>4, <1>8
<1>. HIDE DEF ofDay, t
<1>12. \E x \in ofDay : Near(x, t) BY <1>5, <1>11, ValueLies
<1>13. \E x \in Sample : x.at >= today - Days * Day - MaxGap /\ Near(x, t)
  <2>1. PICK x \in ofDay : Near(x, t) BY <1>12
  <2>2. x \in Sample /\ start <= x.at /\ x.at \in Nat BY <1>4, <1>11 DEF Sample
  <2>. QED BY <1>3, <2>1, <2>2
<1>. QED BY <1>8, <1>10, <1>13 DEF t

LEMMA TypedComparesTheWeek == TypeOK => ComparesOnlyTheWeek
<1>. SUFFICES ASSUME TypeOK, NEW minute \in Nat,
                     NEW m \in DaysWithValue(samples, Midnight(now), minute)
              PROVE  /\ m \in Midnights /\ m < Midnight(now)
                     /\ Midnight(now) - (m + minute * Minute) <= Days * Day + 2 * MaxGap
  BY DEF ComparesOnlyTheWeek
<1>. DEFINE today == Midnight(now)
            t == m + minute * Minute
            week == Days * Day
<1>1. MaxGap \in Nat /\ week \in Nat
  <2>1. Days \in Nat /\ Day \in Nat BY HistoryAssumption
  <2>. QED BY <2>1, HistoryAssumption, SMT
<1>2. today \in Nat BY SamplesAre, MidnightIs
<1>3. /\ m \in Midnights /\ m < today
      /\ \E s \in Sample : s.at >= today - week - MaxGap /\ Near(s, t)
  BY DaysAre
<1>4. t \in Int
  <2>1. m \in Nat /\ Minute \in Nat BY <1>3, HistoryAssumption
  <2>2. minute * Minute \in Nat BY <2>1, SMT
  <2>. QED BY <2>1, <2>2
<1>. HIDE DEF today, t, week
<1>5. PICK s \in Sample : s.at >= today - week - MaxGap /\ Near(s, t) BY <1>3
<1>6. s.at \in Nat /\ s.at - t <= MaxGap BY <1>5 DEF Sample, Near
<1>7. today - t <= week + 2 * MaxGap BY <1>1, <1>2, <1>4, <1>5, <1>6
<1>. QED BY <1>3, <1>7 DEF today, t, week

LEMMA TypedComparesWeekAndEve == TypeOK /\ RegularDays => ComparesWeekAndEve
<1>. SUFFICES ASSUME TypeOK, RegularDays, NEW minute \in 0 .. Day \div Minute - 1,
                     NEW m \in DaysWithValue(samples, Midnight(now), minute)
              PROVE  \/ \E k \in 1 .. Days : m = Midnight(now) - k * Day
                     \/ /\ m = Midnight(now) - (Days + 1) * Day
                        /\ minute * Minute + 2 * MaxGap >= Day
  BY DEF ComparesWeekAndEve
<1>. DEFINE today == Midnight(now)
            offset == minute * Minute
<1>0. /\ MaxGap \in Nat /\ Day \in Nat \ {0} /\ Days \in Nat /\ Minute \in Nat \ {0}
      /\ Midnights \subseteq Nat /\ MaxGap <= Day
  BY HistoryAssumption DEF RegularDays
<1>1. minute \in Nat /\ offset \in Nat
  <2>1. Day \div Minute \in Int BY <1>0, SMT
  <2>2. minute \in Nat BY <2>1
  <2>. QED BY <1>0, <2>2
<1>2. today \in Midnights /\ today \in Nat BY SamplesAre, MidnightIs
<1>3. /\ m \in Midnights /\ m \in Nat /\ m < today
      /\ today < m + (Days + 1) * Day + MaxGap
      /\ \E s \in Sample : s.at >= today - Days * Day - MaxGap /\ Near(s, m + offset)
  BY <1>0, <1>1, DaysAre
<1>. HIDE DEF today, offset
<1>4. PICK p \in Nat : today = Day * p BY <1>0, <1>2, DayMultiple DEF RegularDays
<1>5. PICK q \in Nat : m = Day * q BY <1>0, <1>3, DayMultiple DEF RegularDays
<1>. DEFINE k == p - q
<1>6. k \in Int /\ Day * k = today - m
  BY <1>0, <1>4, <1>5, SMT
<1>7. k >= 1
  <2>. HIDE DEF k
  <2>. SUFFICES ASSUME k <= 0 PROVE FALSE BY <1>6
  <2>1. Day * k <= 0 BY <1>0, <1>6, SMT
  <2>. QED BY <1>2, <1>3, <1>6, <2>1
<1>8. k <= Days + 1
  <2>. HIDE DEF k
  <2>. SUFFICES ASSUME Days + 2 <= k PROVE FALSE BY <1>0, <1>6
  <2>1. Day * (Days + 2) <= Day * k BY <1>0, <1>6, SMT
  <2>2. Day * (Days + 2) = (Days + 1) * Day + Day /\ (Days + 1) * Day \in Nat BY <1>0, SMT
  <2>. QED BY <1>0, <1>2, <1>3, <1>6, <2>1, <2>2
<1>9. m = today - k * Day
  <2>. HIDE DEF k
  <2>1. Day * k = k * Day BY <1>0, <1>6, SMT
  <2>. QED BY <1>2, <1>3, <1>6, <2>1
<1>. HIDE DEF k
<1>10. CASE k <= Days BY <1>0, <1>6, <1>7, <1>9, <1>10 DEF today
<1>11. CASE k = Days + 1
  <2>1. PICK s \in Sample : s.at >= today - Days * Day - MaxGap /\ Near(s, m + offset)
    BY <1>3
  <2>2. s.at \in Nat /\ s.at - (m + offset) <= MaxGap BY <2>1 DEF Sample, Near
  <2>3. (Days + 1) * Day = Days * Day + Day /\ Days * Day \in Nat BY <1>0, SMT
  <2>4. offset + 2 * MaxGap >= Day
    BY <1>0, <1>1, <1>2, <1>3, <1>9, <1>11, <2>1, <2>2, <2>3
  <2>. QED BY <1>9, <1>11, <2>4 DEF today, offset
<1>. QED BY <1>0, <1>6, <1>8, <1>10, <1>11

(* Across any change of the clocks, nothing that is further back than      *)
(* seven times a day and two gaps counts in the comparison                 *)
(* (interpolated_comparison_points).                                       *)
THEOREM ComparisonIsOfTheWeek == Spec => []ComparesOnlyTheWeek
BY TypedComparesTheWeek, HistoryTyped, PTL

(* With days of one length, the days compared with are the seven before    *)
(* today, and in the last minutes of a day, two gaps from midnight at      *)
(* most, the eighth before it too: that one breaks what the page promises, *)
(* and no other day ever counts.                                           *)
THEOREM ComparisonIsOfWeekAndEve ==
  ASSUME RegularDays PROVE Spec => []ComparesWeekAndEve
<1>1. TypeOK => ComparesWeekAndEve BY TypedComparesWeekAndEve
<1>. QED BY <1>1, HistoryTyped, PTL

-----------------------------------------------------------------------------
(* The page.                                                               *)

USE DEF vars, server, network, request, screen, Current, NoPoints

-----------------------------------------------------------------------------
(* Sequences of whatever they hold.                                        *)

Elements(s) == {s[i] : i \in 1 .. Len(s)}

LEMMA SeqIsFunction ==
  ASSUME NEW S, NEW s \in Seq(S)
  PROVE  Len(s) \in Nat /\ s \in [1 .. Len(s) -> S]
  OBVIOUS

LEMMA FunctionIsSeq ==
  ASSUME NEW S, NEW n \in Nat, NEW s \in [1 .. n -> S]
  PROVE  s \in Seq(S) /\ Len(s) = n
  OBVIOUS

LEMMA AppendedTo ==
  ASSUME NEW S, NEW s \in Seq(S), NEW e \in S
  PROVE  /\ Append(s, e) \in Seq(S)
         /\ Len(s) \in Nat /\ Len(Append(s, e)) = Len(s) + 1
         /\ \A i \in 1 .. Len(s) : Append(s, e)[i] = s[i]
         /\ Append(s, e)[Len(s) + 1] = e
  OBVIOUS

(* A sequence is one of its own elements.                                  *)
LEMMA OfItsElements ==
  ASSUME NEW S, NEW s \in Seq(S) PROVE s \in Seq(Elements(s))
<1>1. Len(s) \in Nat /\ s \in [1 .. Len(s) -> S] BY SeqIsFunction
<1>2. \A i \in 1 .. Len(s) : s[i] \in Elements(s) BY DEF Elements
<1>3. s \in [1 .. Len(s) -> Elements(s)] BY <1>1, <1>2
<1>. QED BY <1>1, <1>3, FunctionIsSeq

(* Appending keeps the old elements in their places.                       *)
LEMMA Appended ==
  ASSUME NEW s, s \in Seq(Elements(s)), NEW e
  PROVE  /\ Append(s, e) \in Seq(Elements(Append(s, e)))
         /\ Len(s) \in Nat /\ Len(Append(s, e)) = Len(s) + 1
         /\ \A i \in 1 .. Len(s) : Append(s, e)[i] = s[i]
<1>. DEFINE S == Elements(s) \cup {e}
<1>1. Len(s) \in Nat /\ s \in [1 .. Len(s) -> Elements(s)] BY SeqIsFunction
<1>2. s \in [1 .. Len(s) -> S] BY <1>1
<1>3. s \in Seq(S) BY <1>1, <1>2, FunctionIsSeq
<1>4. e \in S OBVIOUS
<1>. HIDE DEF S
<1>5. /\ Append(s, e) \in Seq(S) /\ Len(Append(s, e)) = Len(s) + 1
      /\ \A i \in 1 .. Len(s) : Append(s, e)[i] = s[i]
  BY <1>3, <1>4, AppendedTo
<1>6. Append(s, e) \in Seq(Elements(Append(s, e))) BY <1>5, OfItsElements
<1>. QED BY <1>1, <1>5, <1>6

-----------------------------------------------------------------------------
(* What the page knows of the feed: statuses are only added, events wait   *)
(* in the order they were sent and none is older than the sentence.        *)
FeedInv ==
    /\ statuses \in Seq(Elements(statuses))
    /\ shown \in 0 .. Current
    /\ wire \in Seq(1 .. Current)
    /\ \A i \in 1 .. Len(wire) : shown <= wire[i]
    /\ \A i, j \in 1 .. Len(wire) : i < j => wire[i] <= wire[j]
    /\ page # "running" => source = "none"
    /\ source = "none" => wire = <<>>
    /\ page = "none" => shown = 0

(* What the server does while the page looks on: it learns, or stays.      *)
Growth == Opening \/ \E value \in Values \cup {NoValue} : Polled(value)

LEMMA Grows ==
  ASSUME FeedInv, Growth
  PROVE  /\ Current \in Nat
         /\ Current' = Current \/ Current' = Current + 1
         /\ statuses' \in Seq(Elements(statuses'))
         /\ \A i \in 1 .. Current : statuses'[i] = statuses[i]
         /\ UNCHANGED <<network, screen, page, request>>
<1>1. statuses \in Seq(Elements(statuses)) BY DEF FeedInv
<1>2. UNCHANGED <<network, screen, page, request>> BY DEF Growth, Opening, Polled
<1>3. UNCHANGED statuses \/ \E e : statuses' = Append(statuses, e)
  BY DEF Growth, Opening, Polled
<1>4. CASE UNCHANGED statuses
  <2>1. Len(statuses) \in Nat BY <1>1, SeqIsFunction
  <2>2. statuses' \in Seq(Elements(statuses')) BY <1>1, <1>4 DEF Elements
  <2>. QED BY <1>2, <1>4, <2>1, <2>2
<1>5. CASE \E e : statuses' = Append(statuses, e)
  <2>1. PICK e : statuses' = Append(statuses, e) BY <1>5
  <2>2. /\ statuses' \in Seq(Elements(statuses'))
        /\ Current \in Nat /\ Current' = Current + 1
        /\ \A i \in 1 .. Current : statuses'[i] = statuses[i]
    BY <1>1, <2>1, Appended
  <2>. QED BY <1>2, <2>2
<1>. QED BY <1>3, <1>4, <1>5

LEMMA FeedInvInit == DashInit => FeedInv
<1>. SUFFICES ASSUME DashInit PROVE FeedInv OBVIOUS
<1>1. statuses = <<>> /\ wire = <<>> /\ shown = 0 /\ page = "none" /\ source = "none"
  BY DEF DashInit
<1>2. Len(statuses) = 0 /\ <<>> \in Seq(Elements(statuses)) BY <1>1
<1>. QED BY <1>1, <1>2 DEF FeedInv

LEMMA FeedInvNext == FeedInv /\ [DashNext]_dashVars => FeedInv'
<1>. SUFFICES ASSUME FeedInv, [DashNext]_dashVars PROVE FeedInv' OBVIOUS
<1>0. Current \in Nat BY SeqIsFunction DEF FeedInv
<1>1. CASE Growth
  <2>1. /\ Current' = Current \/ Current' = Current + 1
        /\ statuses' \in Seq(Elements(statuses'))
        /\ UNCHANGED <<network, screen, page, request>>
    BY <1>1, Grows
  <2>2. wire \in Seq(1 .. Current')
    <3>1. wire \in [1 .. Len(wire) -> 1 .. Current] /\ Len(wire) \in Nat BY DEF FeedInv
    <3>2. 1 .. Current \subseteq 1 .. Current' BY <1>0, <2>1
    <3>3. wire \in [1 .. Len(wire) -> 1 .. Current'] BY <3>1, <3>2
    <3>. QED BY <3>1, <3>3
  <2>3. shown \in 0 .. Current' BY <1>0, <2>1 DEF FeedInv
  <2>. QED BY <2>1, <2>2, <2>3 DEF FeedInv
<1>2. CASE UNCHANGED <<statuses, network, shown, page>>
  <2>1. Elements(statuses') = Elements(statuses) BY <1>2 DEF Elements
  <2>. QED BY <1>2, <2>1 DEF FeedInv
<1>3. ASSUME UNCHANGED statuses PROVE Current' = Current /\ statuses' \in Seq(Elements(statuses'))
  BY <1>3 DEF FeedInv, Elements
<1>4. ASSUME NEW n \in 0 .. Current, Serve(n) PROVE FeedInv'
  BY <1>0, <1>3, <1>4 DEF FeedInv, Serve
<1>5. CASE Start
  BY <1>3, <1>5 DEF FeedInv, Start
<1>6. CASE Connect
  <2>1. UNCHANGED <<statuses, shown, page>> /\ page = "running" /\ source' = "stream"
    BY <1>6 DEF Connect
  <2>2. wire' = <<>> \/ (Current # 0 /\ wire' = <<Current>>) BY <1>6 DEF Connect
  <2>3. shown \in 0 .. Current BY DEF FeedInv
  <2>4. /\ wire' \in Seq(1 .. Current)
        /\ \A i \in 1 .. Len(wire') : shown <= wire'[i]
        /\ \A i, j \in 1 .. Len(wire') : i < j => wire'[i] <= wire'[j]
    <3>1. CASE wire' = <<>> BY <3>1
    <3>2. CASE Current # 0 /\ wire' = <<Current>>
      <4>1. Current \in 1 .. Current BY <1>0, <3>2
      <4>2. wire' \in Seq(1 .. Current) /\ Len(wire') = 1 /\ wire'[1] = Current
        BY <3>2, <4>1
      <4>. QED BY <1>0, <2>3, <4>2
    <3>. QED BY <2>2, <3>1, <3>2
  <2>. QED BY <1>3, <2>1, <2>3, <2>4 DEF FeedInv
<1>7. CASE StartPolling
  BY <1>3, <1>7 DEF FeedInv, StartPolling
<1>8. CASE Break
  BY <1>3, <1>8 DEF FeedInv, Break
<1>9. CASE Send
  <2>1. UNCHANGED <<statuses, shown, page, source>> /\ Current # 0 /\ source # "none"
        /\ wire' = Append(wire, Current)
    BY <1>9 DEF Send
  <2>2. wire \in Seq(1 .. Current) /\ Current \in 1 .. Current BY <1>0, <2>1 DEF FeedInv
  <2>3. wire' \in Seq(1 .. Current) /\ Len(wire') = Len(wire) + 1 /\ Len(wire) \in Nat
        /\ wire'[Len(wire')] = Current /\ \A i \in 1 .. Len(wire) : wire'[i] = wire[i]
    BY <2>1, <2>2
  <2>4. \A i \in 1 .. Len(wire') : wire'[i] \in 1 .. Current /\ shown <= wire'[i]
    <3>. SUFFICES ASSUME NEW i \in 1 .. Len(wire')
                  PROVE  wire'[i] \in 1 .. Current /\ shown <= wire'[i] OBVIOUS
    <3>1. CASE i \in 1 .. Len(wire)
      <4>1. wire[i] \in 1 .. Current BY <2>2, <3>1
      <4>2. shown <= wire[i] BY <3>1 DEF FeedInv
      <4>. QED BY <2>3, <3>1, <4>1, <4>2
    <3>2. CASE i = Len(wire') BY <1>0, <2>2, <2>3, <3>2 DEF FeedInv
    <3>. QED BY <2>3, <3>1, <3>2
  <2>5. \A i, j \in 1 .. Len(wire') : i < j => wire'[i] <= wire'[j]
    <3>. SUFFICES ASSUME NEW i \in 1 .. Len(wire'), NEW j \in 1 .. Len(wire'), i < j
                  PROVE  wire'[i] <= wire'[j] OBVIOUS
    <3>1. i \in 1 .. Len(wire) BY <2>3
    <3>2. CASE j \in 1 .. Len(wire) BY <2>3, <3>1, <3>2 DEF FeedInv
    <3>3. CASE j = Len(wire') BY <1>0, <2>3, <2>4, <3>3
    <3>. QED BY <2>3, <3>2, <3>3
  <2>. QED BY <1>3, <2>1, <2>3, <2>4, <2>5 DEF FeedInv
<1>10. CASE Deliver
  <2>1. wire # <<>> /\ wire' = Tail(wire) /\ shown' = Head(wire)
        /\ UNCHANGED <<statuses, source, page>>
    BY <1>10 DEF Deliver
  <2>2. wire \in Seq(1 .. Current) BY DEF FeedInv
  <2>3. /\ Len(wire) \in Nat \ {0} /\ wire' \in Seq(1 .. Current)
        /\ Len(wire') = Len(wire) - 1 /\ shown' = wire[1] /\ wire[1] \in 1 .. Current
        /\ \A i \in 1 .. Len(wire') : wire'[i] = wire[i + 1]
    BY <2>1, <2>2
  <2>4. source # "none" BY <2>1 DEF FeedInv
  <2>5. \A i \in 1 .. Len(wire') : shown' <= wire'[i]
    <3>. SUFFICES ASSUME NEW i \in 1 .. Len(wire') PROVE shown' <= wire'[i] OBVIOUS
    <3>1. 1 \in 1 .. Len(wire) /\ i + 1 \in 1 .. Len(wire) /\ 1 < i + 1 BY <2>3
    <3>2. wire[1] <= wire[i + 1] BY <3>1 DEF FeedInv
    <3>. QED BY <2>3, <3>2
  <2>6. \A i, j \in 1 .. Len(wire') : i < j => wire'[i] <= wire'[j]
    <3>. SUFFICES ASSUME NEW i \in 1 .. Len(wire'), NEW j \in 1 .. Len(wire'), i < j
                  PROVE  wire'[i] <= wire'[j] OBVIOUS
    <3>1. i + 1 \in 1 .. Len(wire) /\ j + 1 \in 1 .. Len(wire) /\ i + 1 < j + 1 BY <2>3
    <3>2. wire[i + 1] <= wire[j + 1] BY <3>1 DEF FeedInv
    <3>. QED BY <2>3, <3>2
  <2>7. page = "running" BY <2>4 DEF FeedInv
  <2>8. shown' \in 0 .. Current BY <1>0, <2>3
  <2>. QED BY <1>3, <2>1, <2>3, <2>4, <2>5, <2>6, <2>7, <2>8 DEF FeedInv
<1>11. CASE Answer BY <1>2, <1>11 DEF Answer
<1>12. CASE LoadHistory BY <1>2, <1>12 DEF LoadHistory
<1>13. CASE Clock BY <1>2, <1>13 DEF Clock
<1>14. CASE UNCHANGED dashVars BY <1>2, <1>14 DEF dashVars
<1>. QED
  BY <1>1, <1>4, <1>5, <1>6, <1>7, <1>8, <1>9, <1>10, <1>11, <1>12, <1>13, <1>14
     DEF DashNext, Growth

-----------------------------------------------------------------------------
(* The page is a viewer of the live status feed.                           *)

LEMMA PageStarts == DashInit => Promise!Init
<1>. SUFFICES ASSUME DashInit PROVE Promise!Init OBVIOUS
<1>1. Current = 0 /\ shown = 0 BY DEF DashInit
<1>. QED BY <1>1 DEF Promise!Init

(* Growing commits, serving and delivering show, the rest stutters.        *)
LEMMA PageSteps ==
  FeedInv /\ [DashNext]_dashVars
    => [Promise!Next]_<<Current, [v \in {"page"} |-> shown]>>
<1>. SUFFICES ASSUME FeedInv, [DashNext]_dashVars
              PROVE  [Promise!Next]_<<Current, [v \in {"page"} |-> shown]>>
  OBVIOUS
<1>0. Current \in Nat /\ shown \in 0 .. Current BY SeqIsFunction DEF FeedInv
<1>1. CASE Growth
  <2>1. (Current' = Current \/ Current' = Current + 1) /\ UNCHANGED shown BY <1>1, Grows
  <2>2. CASE Current' = Current BY <2>1, <2>2
  <2>3. CASE Current' = Current + 1
    BY <2>1, <2>3 DEF Promise!Next, Promise!Commit
  <2>. QED BY <2>1, <2>2, <2>3
<1>2. CASE UNCHANGED <<statuses, shown>> BY <1>2
<1>3. ASSUME UNCHANGED statuses, shown' \in shown .. Current
      PROVE  [Promise!Next]_<<Current, [v \in {"page"} |-> shown]>>
  <2>1. [v \in {"page"} |-> shown'] = [[v \in {"page"} |-> shown] EXCEPT !["page"] = shown']
    OBVIOUS
  <2>2. [v \in {"page"} |-> shown]["page"] = shown OBVIOUS
  <2>3. Promise!Show("page") BY <1>3, <2>1, <2>2 DEF Promise!Show
  <2>. QED BY <2>3 DEF Promise!Next
<1>4. ASSUME NEW n \in 0 .. Current, Serve(n)
      PROVE  UNCHANGED statuses /\ shown' \in shown .. Current
  <2>1. UNCHANGED statuses /\ shown' = n /\ page = "none" BY <1>4 DEF Serve
  <2>2. shown = 0 BY <2>1 DEF FeedInv
  <2>. QED BY <1>0, <2>1, <2>2
<1>5. CASE Deliver
  <2>1. UNCHANGED statuses /\ wire # <<>> /\ shown' = Head(wire) BY <1>5 DEF Deliver
  <2>2. wire \in Seq(1 .. Current) BY DEF FeedInv
  <2>3. Len(wire) \in Nat \ {0} /\ shown' = wire[1] /\ wire[1] \in 1 .. Current
    BY <2>1, <2>2
  <2>4. 1 \in 1 .. Len(wire) BY <2>3
  <2>5. shown <= wire[1] BY <2>4 DEF FeedInv
  <2>6. shown' \in shown .. Current BY <1>0, <2>3, <2>5
  <2>. QED BY <1>3, <2>1, <2>6
<1>6. CASE Start \/ Connect \/ StartPolling \/ Break \/ Send
  BY <1>2, <1>6 DEF Start, Connect, StartPolling, Break, Send
<1>7. CASE Answer \/ LoadHistory \/ Clock
  BY <1>2, <1>7 DEF Answer, LoadHistory, Clock
<1>8. CASE UNCHANGED dashVars BY <1>2, <1>8 DEF dashVars
<1>. QED BY <1>1, <1>3, <1>4, <1>5, <1>6, <1>7, <1>8 DEF DashNext, Growth

(* From the served page over events, polls and breaks of the stream, the   *)
(* page's sentence implements the promise of the live status feed: it      *)
(* shows what was committed and never steps back.                          *)
THEOREM PageFollowsTheFeed == DashSpec => FollowsTheFeed
<1>1. DashInit => Promise!Init BY PageStarts
<1>2. FeedInv /\ [DashNext]_dashVars
        => [Promise!Next]_<<Current, [v \in {"page"} |-> shown]>>
  BY PageSteps
<1>. QED
  BY <1>1, <1>2, FeedInvInit, FeedInvNext, PTL DEF DashSpec, FollowsTheFeed, Promise!Spec

-----------------------------------------------------------------------------
(* The graph.                                                              *)

(* What is drawn belongs to the day the script goes by, and so does what   *)
(* is on its way unless a midnight passes it.                              *)
GraphInv ==
    /\ ~hidden => shown # 0 /\ statuses[shown].open /\ points # NoPoints
    /\ page # "running" => hidden /\ points = NoPoints /\ history = "none"
    /\ \A m \in DOMAIN answer.points : answer.points[m].of = answer.of
    /\ history # "overtaken" => \A m \in DOMAIN points : points[m].of = day

(* A live point is drawn at its minute and disturbs no other.              *)
LEMMA PutPointIs ==
  ASSUME NEW old, NEW status
  PROVE  LET minute == FloorMinute(status.at) - Midnight(status.at)
             put == PutPoint(old, status)
         IN  /\ DOMAIN put = DOMAIN old \cup {minute} /\ put # NoPoints
             /\ put[minute] = LivePoint(status)
             /\ \A m \in DOMAIN old : m # minute => put[m] = old[m]
<1>. DEFINE minute == FloorMinute(status.at) - Midnight(status.at)
            put == PutPoint(old, status)
<1>1. put = [m \in DOMAIN old \cup {minute} |->
                 IF m = minute THEN LivePoint(status) ELSE old[m]]
  BY DEF PutPoint
<1>. HIDE DEF minute, put
<1>2. minute \in DOMAIN put BY <1>1
<1>3. DOMAIN NoPoints = {} OBVIOUS
<1>. QED BY <1>1, <1>2, <1>3 DEF minute, put

(* The history answer is of one day.                                       *)
LEMMA AnswerIsOfToday ==
  \A m \in DOMAIN AnswerPoints : AnswerPoints[m].of = Midnight(now)
  BY DEF AnswerPoints

LEMMA GraphInvInit == DashInit => GraphInv
<1>. SUFFICES ASSUME DashInit PROVE GraphInv OBVIOUS
<1>1. hidden = TRUE /\ points = NoPoints /\ history = "none" /\ answer.points = NoPoints
  BY DEF DashInit, NoAnswer
<1>2. DOMAIN NoPoints = {} OBVIOUS
<1>. QED BY <1>1, <1>2 DEF GraphInv

LEMMA DeliveredGraph ==
  ASSUME FeedInv, GraphInv, Deliver PROVE GraphInv'
<1>. DEFINE status == statuses[shown']
<1>1. /\ wire # <<>> /\ shown' = Head(wire)
      /\ UNCHANGED <<statuses, page, history, answer>>
  BY DEF Deliver
<1>2. page = "running" BY <1>1 DEF FeedInv
<1>3. shown' # 0
  <2>1. wire \in Seq(1 .. Current) BY DEF FeedInv
  <2>2. shown' \in 1 .. Current BY <1>1, <2>1
  <2>3. Current \in Nat BY SeqIsFunction DEF FeedInv
  <2>. QED BY <2>2, <2>3
<1>4. CASE Drawn(status)
  <2>. DEFINE old == IF Midnight(status.at) = day THEN points ELSE NoPoints
              minute == FloorMinute(status.at) - Midnight(status.at)
  <2>1. /\ status.open /\ day' = Midnight(status.at)
        /\ points' = PutPoint(old, status) /\ hidden' = FALSE
    BY <1>4 DEF Deliver, Drawn, PointsWith
  <2>2. /\ DOMAIN points' = DOMAIN old \cup {minute} /\ points' # NoPoints
        /\ points'[minute] = LivePoint(status)
        /\ \A m \in DOMAIN old : m # minute => points'[m] = old[m]
    BY <2>1, PutPointIs
  <2>3. LivePoint(status).of = day' BY <2>1 DEF LivePoint
  <2>4. history # "overtaken" => \A m \in DOMAIN old : old[m].of = day'
    <3>1. DOMAIN NoPoints = {} OBVIOUS
    <3>2. CASE Midnight(status.at) = day BY <2>1, <3>2 DEF GraphInv
    <3>3. CASE Midnight(status.at) # day BY <3>1, <3>3
    <3>. QED BY <3>2, <3>3
  <2>. HIDE DEF old, minute
  <2>5. history # "overtaken" => \A m \in DOMAIN points' : points'[m].of = day'
    BY <2>2, <2>3, <2>4
  <2>6. \A m \in DOMAIN answer.points : answer.points[m].of = answer.of BY DEF GraphInv
  <2>. QED BY <1>1, <1>2, <1>3, <2>1, <2>2, <2>5, <2>6 DEF GraphInv
<1>5. CASE ~Drawn(status)
  <2>1. hidden' = (~status.open \/ points = NoPoints) /\ UNCHANGED <<day, points>>
    BY <1>5 DEF Deliver
  <2>2. ~hidden' => status.open /\ points # NoPoints BY <2>1
  <2>. QED BY <1>1, <1>2, <1>3, <2>1, <2>2 DEF GraphInv
<1>. QED BY <1>4, <1>5

LEMMA GraphInvNext == FeedInv /\ GraphInv /\ [DashNext]_dashVars => GraphInv'
<1>. SUFFICES ASSUME FeedInv, GraphInv, [DashNext]_dashVars PROVE GraphInv' OBVIOUS
<1>0. Current \in Nat /\ shown \in 0 .. Current BY SeqIsFunction DEF FeedInv
<1>1. CASE Growth
  <2>1. /\ UNCHANGED <<network, screen, page, request>>
        /\ \A i \in 1 .. Current : statuses'[i] = statuses[i]
    BY <1>1, Grows
  <2>2. shown # 0 => statuses'[shown] = statuses[shown] BY <1>0, <2>1
  <2>. QED BY <2>1, <2>2 DEF GraphInv
<1>2. ASSUME UNCHANGED <<statuses, screen, page, request>> PROVE GraphInv'
  BY <1>2 DEF GraphInv
<1>3. ASSUME NEW n \in 0 .. Current, Serve(n) PROVE GraphInv'
  BY <1>3 DEF GraphInv, Serve
<1>4. CASE Start
  <2>1. /\ page = "served" /\ page' = "running" /\ history' = "asked"
        /\ UNCHANGED <<statuses, answer, shown, points, hidden>>
    BY <1>4 DEF Start
  <2>2. hidden /\ points = NoPoints BY <2>1 DEF GraphInv
  <2>3. DOMAIN NoPoints = {} OBVIOUS
  <2>. QED BY <2>1, <2>2, <2>3 DEF GraphInv
<1>5. CASE Deliver BY <1>5, DeliveredGraph
<1>6. CASE Answer
  <2>1. /\ history = "asked" /\ history' # "overtaken"
        /\ UNCHANGED <<statuses, screen, page>>
    BY <1>6 DEF Answer
  <2>2. UNCHANGED answer \/ answer' = [at |-> now, of |-> Midnight(now), points |-> AnswerPoints]
    BY <1>6 DEF Answer
  <2>3. \A m \in DOMAIN answer.points' : answer.points'[m].of = answer.of'
    BY <2>2, AnswerIsOfToday DEF GraphInv
  <2>4. page = "running" BY <2>1 DEF GraphInv
  <2>. QED BY <2>1, <2>3, <2>4 DEF GraphInv
<1>7. CASE LoadHistory
  <2>1. /\ history = "answered" /\ answer' = NoAnswer /\ points' = answer.points
        /\ hidden' = (shown = 0 \/ ~statuses[shown].open \/ points' = NoPoints)
        /\ history' = (IF answer.of = day THEN "loaded" ELSE "overtaken")
        /\ UNCHANGED <<statuses, page, shown, day>>
    BY <1>7 DEF LoadHistory
  <2>2. page = "running" BY <2>1 DEF GraphInv
  <2>3. ~hidden' => shown # 0 /\ statuses[shown].open /\ points' # NoPoints BY <2>1
  <2>4. history' # "overtaken" => \A m \in DOMAIN points' : points'[m].of = day
    BY <2>1 DEF GraphInv
  <2>5. \A m \in DOMAIN answer.points' : answer.points'[m].of = answer.of'
    <3>1. DOMAIN NoPoints = {} OBVIOUS
    <3>. QED BY <2>1, <3>1 DEF NoAnswer
  <2>. QED BY <2>1, <2>2, <2>3, <2>4, <2>5 DEF GraphInv
<1>8. CASE Connect \/ StartPolling \/ Break \/ Send
  BY <1>2, <1>8 DEF Connect, StartPolling, Break, Send
<1>9. CASE Clock BY <1>2, <1>9 DEF Clock
<1>10. CASE UNCHANGED dashVars BY <1>2, <1>10 DEF dashVars
<1>. QED
  BY <1>1, <1>3, <1>4, <1>5, <1>6, <1>7, <1>8, <1>9, <1>10 DEF DashNext, Growth

(* The graph is on the page only while the location is open and something  *)
(* is drawn, and it draws one day, unless the history answer was overtaken *)
(* by a midnight.                                                          *)
THEOREM GraphIsOfOneDay == DashSpec => []OneDayOnTheGraph
<1>1. GraphInv => OneDayOnTheGraph BY DEF GraphInv, OneDayOnTheGraph
<1>. QED
  BY <1>1, FeedInvInit, FeedInvNext, GraphInvInit, GraphInvNext, PTL DEF DashSpec

-----------------------------------------------------------------------------
(* The types of the page.                                                   *)

(* Whatever the page does, the history goes on as WaitHistory says.        *)
THEOREM PageKeepsTheHistory == DashSpec => Spec
<1>1. DashInit => Init BY DEF DashInit
<1>2. [DashNext]_dashVars => [Next]_vars
  <2>. SUFFICES ASSUME [DashNext]_dashVars PROVE [Next]_vars OBVIOUS
  <2>1. CASE \E value \in Values \cup {NoValue} : Polled(value)
    BY <2>1 DEF Polled, Next
  <2>2. CASE \E n \in 0 .. Current : Serve(n) BY <2>2 DEF Serve
  <2>3. CASE Clock BY <2>3 DEF Clock, Next
  <2>4. CASE Opening \/ Start \/ Connect \/ StartPolling \/ Break \/ Send \/ Deliver
    BY <2>4 DEF Opening, Start, Connect, StartPolling, Break, Send, Deliver
  <2>5. CASE Answer \/ LoadHistory BY <2>5 DEF Answer, LoadHistory
  <2>6. CASE UNCHANGED dashVars BY <2>6 DEF dashVars
  <2>. QED BY <2>1, <2>2, <2>3, <2>4, <2>5, <2>6 DEF DashNext
<1>. QED BY <1>1, <1>2, PTL DEF DashSpec, Spec

Status == [open : BOOLEAN, wait : Values \cup {NoValue}, at : Nat]

(* The points of a line, and of the answer under way.                      *)
Line(line) == \A m \in DOMAIN line : line[m] \in [value : Nat, of : Midnights, live : BOOLEAN]

(* DashTypeOK, and how far the page and its request have come.             *)
ScreenInv ==
    /\ isOpen \in BOOLEAN /\ openings \in 0 .. MaxOpenings
    /\ \A i \in 1 .. Current : statuses[i] \in Status /\ statuses[i].at <= now
    /\ page \in {"none", "served", "running"}
    /\ source \in {"none", "stream", "poll"}
    /\ history \in {"none", "asked", "answered", "failed", "loaded", "overtaken"}
    /\ history # "answered" => answer = NoAnswer
    /\ Len(wire) <= MaxWire
    /\ day \in Midnights /\ hidden \in BOOLEAN
    /\ Line(points) /\ Line(answer.points)

(* What the history API answers with are values.                           *)
LEMMA AnswerIsALine == TypeOK => Line(AnswerPoints)
<1>. SUFFICES ASSUME TypeOK, NEW m \in DOMAIN AnswerPoints
              PROVE  AnswerPoints[m] \in [value : Nat, of : Midnights, live : BOOLEAN]
  BY DEF Line
<1>. DEFINE today == Midnight(now)
            start == SampleStart(HistoryStart("today", now))
            seen == RawSamples(samples, start, now)
            series == Points(samples, "today", now)
            t == today + m
<1>1. now \in Nat /\ samples \in SUBSET Sample /\ MaxGap \in Nat
  BY SamplesAre, HistoryAssumption
<1>2. today \in Midnights /\ today \in Nat BY <1>1, MidnightIs
<1>3. seen \in SUBSET Sample BY <1>1 DEF RawSamples
<1>4. \A k \in Minutes("today", now) : k \in Int BY RangeIs DEF Ranges
<1>5. \A k \in Minutes("today", now) : series[k] = ValueAt(seen, k)
  BY DEF Points
<1>6. DOMAIN series = Minutes("today", now) BY DEF Points
<1>7. m \in {k - today : k \in DOMAIN series} BY DEF AnswerPoints
<1>8. AnswerPoints[m] = [value |-> IF series[today + m] = NoValue THEN 0 ELSE series[today + m],
                         of |-> today, live |-> FALSE]
  BY DEF AnswerPoints
<1>. HIDE DEF series, today, seen
<1>9. t \in Minutes("today", now)
  <2>1. PICK k \in DOMAIN series : m = k - today BY <1>7
  <2>2. k \in Int /\ today + m = k BY <1>2, <1>4, <1>6, <2>1
  <2>. QED BY <1>6, <2>2
<1>10. t \in Int BY <1>4, <1>9
<1>. HIDE DEF t
<1>11. series[t] # NoValue => series[t] \in Nat BY <1>3, <1>5, <1>9, <1>10, ValueLies
<1>. QED BY <1>2, <1>8, <1>11 DEF t

LEMMA ScreenInvInit == DashInit => ScreenInv
<1>. SUFFICES ASSUME DashInit PROVE ScreenInv OBVIOUS
<1>1. /\ isOpen \in BOOLEAN /\ openings = 0 /\ statuses = <<>> /\ page = "none"
      /\ source = "none" /\ history = "none" /\ answer = NoAnswer /\ wire = <<>>
      /\ day = 0 /\ hidden = TRUE /\ points = NoPoints
  BY DEF DashInit
<1>2. MaxOpenings \in Nat /\ MaxWire \in Nat /\ 0 \in Midnights
  BY HistoryAssumption, DashboardAssumption
<1>3. DOMAIN NoPoints = {} /\ Len(statuses) = 0 /\ Len(wire) = 0 BY <1>1
<1>4. Line(NoPoints) /\ NoAnswer.points = NoPoints BY <1>3 DEF Line, NoAnswer
<1>. QED BY <1>1, <1>2, <1>3, <1>4 DEF ScreenInv

(* A line stays one when a live point is put on it.                        *)
LEMMA PutKeepsLine ==
  ASSUME NEW old, Line(old), NEW status \in Status, status.wait # NoValue
  PROVE  Line(PutPoint(old, status)) /\ Midnight(status.at) \in Midnights
<1>. DEFINE minute == FloorMinute(status.at) - Midnight(status.at)
            put == PutPoint(old, status)
<1>1. status.at \in Nat /\ status.wait \in Nat BY HistoryAssumption DEF Status
<1>2. Midnight(status.at) \in Midnights BY <1>1, MidnightIs
<1>3. LivePoint(status) \in [value : Nat, of : Midnights, live : BOOLEAN]
  BY <1>1, <1>2 DEF LivePoint
<1>4. /\ DOMAIN put = DOMAIN old \cup {minute} /\ put[minute] = LivePoint(status)
      /\ \A m \in DOMAIN old : m # minute => put[m] = old[m]
  BY PutPointIs
<1>. HIDE DEF put, minute
<1>5. Line(put) BY <1>3, <1>4 DEF Line
<1>. QED BY <1>2, <1>5 DEF put

LEMMA StatusAdded ==
  ASSUME FeedInv, ScreenInv, NEW e \in Status, e.at <= now,
         statuses' = Append(statuses, e), UNCHANGED now
  PROVE  \A i \in 1 .. Current' : statuses'[i] \in Status /\ statuses'[i].at <= now'
<1>1. statuses \in Seq(Elements(statuses)) /\ \A i \in 1 .. Current : statuses[i] \in Status
  BY DEF FeedInv, ScreenInv
<1>2. Elements(statuses) \subseteq Status BY <1>1 DEF Elements
<1>3. Current \in Nat /\ statuses \in [1 .. Current -> Elements(statuses)]
  BY <1>1, SeqIsFunction
<1>4. statuses \in [1 .. Current -> Status] BY <1>1, <1>3
<1>5. statuses \in Seq(Status) BY <1>3, <1>4, FunctionIsSeq
<1>6. /\ Current' = Current + 1 /\ statuses'[Current + 1] = e
      /\ \A i \in 1 .. Current : statuses'[i] = statuses[i]
  BY <1>5, AppendedTo
<1>. QED BY <1>3, <1>6 DEF ScreenInv

LEMMA ScreenInvNext ==
  TypeOK /\ TypeOK' /\ FeedInv /\ GraphInv /\ ScreenInv /\ [DashNext]_dashVars
    => ScreenInv'
<1>. SUFFICES ASSUME TypeOK, TypeOK', FeedInv, GraphInv, ScreenInv, [DashNext]_dashVars
              PROVE  ScreenInv'
  OBVIOUS
<1>0. /\ Current \in Nat /\ shown \in 0 .. Current /\ now \in Nat /\ now' \in Nat
      /\ MaxWire \in Nat \ {0} /\ MaxOpenings \in Nat
      /\ \A i \in 1 .. Current : statuses[i].at \in Nat
  <2>1. Current \in Nat /\ shown \in 0 .. Current BY SeqIsFunction DEF FeedInv
  <2>. QED BY <2>1, DashboardAssumption DEF TypeOK, ScreenInv, Status
<1>1. CASE \E value \in Values \cup {NoValue} : Polled(value)
  <2>1. PICK value \in Values \cup {NoValue} : Polled(value) BY <1>1
  <2>. DEFINE e == [open |-> isOpen, wait |-> value, at |-> now]
  <2>2. statuses' = Append(statuses, e) /\ now' = now
        /\ UNCHANGED <<isOpen, openings, network, screen, page, request>>
    BY <2>1 DEF Polled, Observe
  <2>3. e \in Status /\ e.at <= now BY <1>0 DEF ScreenInv, Status
  <2>. HIDE DEF e
  <2>4. \A i \in 1 .. Current' : statuses'[i] \in Status /\ statuses'[i].at <= now'
    BY <2>2, <2>3, StatusAdded
  <2>. QED BY <2>2, <2>4 DEF ScreenInv
<1>2. CASE Opening
  <2>1. /\ openings < MaxOpenings /\ openings' = openings + 1 /\ isOpen' = ~isOpen
        /\ UNCHANGED <<vars, network, screen, page, request>>
    BY <1>2 DEF Opening
  <2>2. isOpen' \in BOOLEAN /\ openings' \in 0 .. MaxOpenings
    <3>1. isOpen' \in BOOLEAN BY <2>1 DEF ScreenInv
    <3>2. openings' \in 0 .. MaxOpenings BY <1>0, <2>1 DEF ScreenInv
    <3>. QED BY <3>1, <3>2
  <2>3. \A i \in 1 .. Current' : statuses'[i] \in Status /\ statuses'[i].at <= now'
    <3>1. CASE Current = 0 BY <1>2, <2>1, <3>1 DEF Opening, ScreenInv
    <3>2. CASE Current # 0
      <4>. DEFINE last == statuses[Current]
                  e == [last EXCEPT !.open = isOpen']
      <4>1. statuses' = Append(statuses, e) BY <1>2, <3>2 DEF Opening
      <4>2. last \in Status /\ last.at <= now BY <1>0, <3>2 DEF ScreenInv
      <4>3. e \in Status /\ e.at = last.at BY <2>2, <4>2 DEF Status
      <4>. HIDE DEF e, last
      <4>. QED BY <2>1, <4>1, <4>2, <4>3, StatusAdded
    <3>. QED BY <3>1, <3>2
  <2>. QED BY <2>1, <2>2, <2>3 DEF ScreenInv
<1>3. CASE Clock
  <2>1. now' = now + 1 /\ UNCHANGED <<server, network, screen, page, request>>
    BY <1>3 DEF Clock, Tick
  <2>2. \A i \in 1 .. Current : statuses[i].at <= now' BY <1>0, <2>1 DEF ScreenInv
  <2>. QED BY <2>1, <2>2 DEF ScreenInv
<1>4. ASSUME NEW n \in 0 .. Current, Serve(n) PROVE ScreenInv'
  BY <1>4 DEF Serve, ScreenInv
<1>5. CASE Start
  <2>1. /\ page' = "running" /\ history' = "asked"
        /\ day' = Midnight(IF shown = 0 THEN now ELSE statuses[shown].at)
        /\ page = "served"
        /\ UNCHANGED <<vars, server, network, answer, shown, points, hidden>>
    BY <1>5 DEF Start
  <2>2. day' \in Midnights
    <3>1. (IF shown = 0 THEN now ELSE statuses[shown].at) \in Nat BY <1>0
    <3>. QED BY <2>1, <3>1, MidnightIs
  <2>3. answer' = NoAnswer BY <2>1 DEF GraphInv, ScreenInv
  <2>. QED BY <2>1, <2>2, <2>3 DEF ScreenInv
<1>6. CASE Connect \/ StartPolling \/ Break \/ Send
  <2>1. UNCHANGED <<vars, server, screen, page, request>>
    BY <1>6 DEF Connect, StartPolling, Break, Send
  <2>2. source' \in {"none", "stream", "poll"}
    BY <1>6 DEF Connect, StartPolling, Break, Send, ScreenInv
  <2>3. Len(wire') <= MaxWire
    <3>1. CASE Connect
      <4>1. wire' = <<>> \/ wire' = <<Current>> BY <3>1 DEF Connect
      <4>. QED BY <1>0, <4>1
    <3>2. CASE StartPolling BY <3>2 DEF StartPolling, ScreenInv
    <3>3. CASE Break BY <1>0, <3>3 DEF Break
    <3>4. CASE Send
      <4>1. wire' = Append(wire, Current) /\ (Len(wire) < MaxWire \/ wire = <<>>)
        BY <3>4 DEF Send
      <4>2. wire \in Seq(1 .. Current) /\ Current # 0 BY <3>4 DEF FeedInv, Send
      <4>3. Len(wire') = Len(wire) + 1 /\ Len(wire) \in Nat BY <1>0, <4>1, <4>2
      <4>. QED BY <1>0, <4>1, <4>3
    <3>. QED BY <1>6, <3>1, <3>2, <3>3, <3>4
  <2>. QED BY <2>1, <2>2, <2>3 DEF ScreenInv
<1>7. CASE Deliver
  <2>. DEFINE status == statuses[shown']
  <2>1. /\ wire # <<>> /\ wire' = Tail(wire) /\ shown' = Head(wire)
        /\ UNCHANGED <<vars, server, source, page, request>>
    BY <1>7 DEF Deliver
  <2>2. wire \in Seq(1 .. Current) BY DEF FeedInv
  <2>3. Len(wire') <= MaxWire /\ shown' \in 1 .. Current
    <3>1. Len(wire) \in Nat \ {0} /\ Len(wire') = Len(wire) - 1 /\ shown' \in 1 .. Current
      BY <2>1, <2>2
    <3>. QED BY <1>0, <3>1 DEF ScreenInv
  <2>4. status \in Status BY <2>3 DEF ScreenInv
  <2>5. day' \in Midnights /\ hidden' \in BOOLEAN /\ Line(points)'
    <3>1. CASE Drawn(status)
      <4>. DEFINE old == IF Midnight(status.at) = day THEN points ELSE NoPoints
      <4>1. day' = Midnight(status.at) /\ points' = PutPoint(old, status) /\ hidden' = FALSE
        BY <1>7, <3>1 DEF Deliver, PointsWith
      <4>2. Line(old)
        <5>1. DOMAIN NoPoints = {} OBVIOUS
        <5>. QED BY <5>1 DEF ScreenInv, Line
      <4>3. status.wait # NoValue BY <3>1 DEF Drawn
      <4>. HIDE DEF old, status
      <4>4. Line(points') /\ day' \in Midnights BY <2>4, <4>1, <4>2, <4>3, PutKeepsLine
      <4>. QED BY <4>1, <4>4 DEF Line
    <3>2. CASE ~Drawn(status)
      <4>1. hidden' = (~status.open \/ points = NoPoints) /\ UNCHANGED <<day, points>>
        BY <1>7, <3>2 DEF Deliver
      <4>2. hidden' \in BOOLEAN BY <4>1
      <4>. QED BY <4>1, <4>2 DEF ScreenInv, Line
    <3>. QED BY <3>1, <3>2
  <2>. QED BY <2>1, <2>3, <2>5 DEF ScreenInv
<1>8. CASE Answer
  <2>1. UNCHANGED <<vars, server, network, screen, page>> /\ history = "asked"
        /\ \/ /\ history' = "answered"
              /\ answer' = [at |-> now, of |-> Midnight(now), points |-> AnswerPoints]
           \/ history' = "failed" /\ UNCHANGED answer
    BY <1>8 DEF Answer
  <2>2. Line(answer'.points)
    <3>1. CASE UNCHANGED answer BY <3>1 DEF ScreenInv
    <3>2. CASE answer' = [at |-> now, of |-> Midnight(now), points |-> AnswerPoints]
      BY <3>2, AnswerIsALine
    <3>. QED BY <2>1, <3>1, <3>2
  <2>3. Line(answer.points)' BY <2>2 DEF Line
  <2>. QED BY <2>1, <2>3 DEF ScreenInv
<1>9. CASE LoadHistory
  <2>1. /\ answer' = NoAnswer /\ points' = answer.points
        /\ hidden' = (shown = 0 \/ ~statuses[shown].open \/ points' = NoPoints)
        /\ history' = (IF answer.of = day THEN "loaded" ELSE "overtaken")
        /\ UNCHANGED <<vars, server, network, page, shown, day>>
    BY <1>9 DEF LoadHistory
  <2>2. hidden' \in BOOLEAN BY <2>1
  <2>3. Line(points') /\ Line(answer'.points)
    <3>1. DOMAIN NoPoints = {} OBVIOUS
    <3>. QED BY <2>1, <3>1 DEF ScreenInv, Line, NoAnswer
  <2>4. Line(points)' /\ Line(answer.points)' BY <2>3 DEF Line
  <2>. QED BY <2>1, <2>2, <2>4 DEF ScreenInv
<1>10. CASE UNCHANGED dashVars BY <1>10 DEF dashVars, ScreenInv, Line
<1>. QED
  BY <1>1, <1>2, <1>3, <1>4, <1>5, <1>6, <1>7, <1>8, <1>9, <1>10 DEF DashNext

(* Every variable of the page keeps its type, the values of the graph      *)
(* among them: the history API never answers with less than nothing.       *)
THEOREM DashTyped == DashSpec => []DashTypeOK
<1>1. TypeOK /\ FeedInv /\ ScreenInv => DashTypeOK
  <2>. SUFFICES ASSUME TypeOK, FeedInv, ScreenInv PROVE DashTypeOK OBVIOUS
  <2>1. \A i \in 1 .. Current :
          statuses[i] \in [open : BOOLEAN, wait : Values \cup {NoValue}, at : 0 .. now]
    <3>. SUFFICES ASSUME NEW i \in 1 .. Current
                  PROVE  statuses[i] \in [open : BOOLEAN, wait : Values \cup {NoValue},
                                          at : 0 .. now]
      OBVIOUS
    <3>1. statuses[i] \in Status /\ statuses[i].at <= now /\ now \in Nat
      BY DEF ScreenInv, TypeOK
    <3>2. statuses[i].at \in 0 .. now BY <3>1 DEF Status
    <3>. QED BY <3>1, <3>2 DEF Status
  <2>2. \A i \in 1 .. Len(wire) : wire[i] \in 1 .. Current
    <3>1. wire \in Seq(1 .. Current) BY DEF FeedInv
    <3>. QED BY <3>1
  <2>. QED BY <2>1, <2>2 DEF DashTypeOK, FeedInv, ScreenInv, Line
<1>2. DashSpec => []TypeOK BY HistoryTyped, PageKeepsTheHistory, PTL
<1>. QED
  BY <1>1, <1>2, FeedInvInit, FeedInvNext, GraphInvInit, GraphInvNext, ScreenInvInit,
     ScreenInvNext, PTL DEF DashSpec

-----------------------------------------------------------------------------
(* Live points.                                                            *)

(* The start of a minute is a multiple of it, the last one so far.         *)
LEMMA FloorMinuteIsLast ==
  ASSUME NEW a \in Nat
  PROVE  /\ FloorMinute(a) % Minute = 0
         /\ \A t \in Nat : t % Minute = 0 /\ t <= a => t <= FloorMinute(a)
<1>. DEFINE b == Minute
            e == a \div b
<1>1. b \in Nat \ {0} /\ FloorMinute(a) = a - (a % b) BY HistoryAssumption DEF FloorMinute
<1>. HIDE DEF b
<1>2. e \in Nat BY <1>1, SMT
<1>3. a = b * e + (a % b) /\ a < b * e + b /\ (b * e) % b = 0 BY <1>1, SMT
<1>. HIDE DEF e
<1>4. b * e \in Nat /\ a % b \in Nat BY <1>1, <1>2, SMT
<1>5. FloorMinute(a) = b * e BY <1>1, <1>3, <1>4
<1>6. ASSUME NEW t \in Nat, t % b = 0, t <= a PROVE t <= b * e
  <2>1. PICK q \in Nat : t = b * q BY <1>1, <1>6, DayMultiple
  <2>. SUFFICES ASSUME e + 1 <= q PROVE FALSE
    <3>1. q <= e => b * q <= b * e BY <1>1, <1>2, SMT
    <3>. QED BY <1>2, <2>1, <3>1
  <2>2. b * (e + 1) <= b * q BY <1>1, <1>2, SMT
  <2>3. b * (e + 1) = b * e + b BY <1>1, <1>2, SMT
  <2>4. b * e + b <= t BY <2>1, <2>2, <2>3
  <2>5. a < b * e + b BY <1>3
  <2>. QED BY <1>1, <1>4, <1>6, <2>4, <2>5
<1>. QED BY <1>3, <1>5, <1>6 DEF b

(* A live point is drawn at a minute of its day, and the history answer on *)
(* its way has every minute of its day up to the one it was made in.       *)
LiveInv ==
    /\ \A m \in DOMAIN points :
         points[m].live => m \in Nat /\ (points[m].of + m) % Minute = 0
    /\ \A m \in DOMAIN answer.points : ~answer.points[m].live
    /\ history = "answered" =>
         /\ answer.at \in Nat /\ answer.of = Midnight(answer.at)
         /\ \A m \in Nat : (answer.of + m) % Minute = 0 /\ answer.of + m <= answer.at
                             => m \in DOMAIN answer.points

LEMMA LiveInvInit == DashInit => LiveInv
<1>1. DOMAIN NoPoints = {} OBVIOUS
<1>. QED BY <1>1 DEF DashInit, LiveInv, NoAnswer

LEMMA AnswerHasItsMinutes ==
  ASSUME TypeOK
  PROVE  LET of == Midnight(now)
         IN  \A m \in Nat : (of + m) % Minute = 0 /\ of + m <= now => m \in DOMAIN AnswerPoints
<1>. DEFINE of == Midnight(now)
<1>. SUFFICES ASSUME NEW m \in Nat, (of + m) % Minute = 0, of + m <= now
              PROVE  m \in DOMAIN AnswerPoints
  OBVIOUS
<1>1. now \in Nat BY DEF TypeOK
<1>2. of \in Nat /\ of \in Midnights BY <1>1, MidnightIs
<1>3. FloorMinute(of) = of BY <1>2, HistoryAssumption DEF FloorMinute
<1>4. HistoryStart("today", now) = of BY DEF HistoryStart
<1>. HIDE DEF of
<1>5. of + m <= FloorMinute(now) /\ FloorMinute(now) \in Int
  BY <1>1, <1>2, FloorMinuteIs, FloorMinuteIsLast
<1>6. of + m \in Minutes("today", now) BY <1>2, <1>3, <1>4, <1>5 DEF Minutes
<1>7. DOMAIN Points(samples, "today", now) = Minutes("today", now) BY DEF Points
<1>8. (of + m) - of = m BY <1>2
<1>. QED BY <1>6, <1>7, <1>8 DEF AnswerPoints, of

LEMMA LiveInvNext ==
  TypeOK /\ FeedInv /\ ScreenInv /\ LiveInv /\ [DashNext]_dashVars => LiveInv'
<1>. SUFFICES ASSUME TypeOK, FeedInv, ScreenInv, LiveInv, [DashNext]_dashVars PROVE LiveInv'
  OBVIOUS
<1>0. DOMAIN NoPoints = {} OBVIOUS
<1>1. CASE UNCHANGED <<points, request>> BY <1>1 DEF LiveInv
<1>2. CASE Start
  <2>1. UNCHANGED <<points, answer>> /\ history' # "answered" BY <1>2 DEF Start
  <2>. QED BY <2>1 DEF LiveInv
<1>3. CASE Deliver
  <2>. DEFINE status == statuses[shown']
  <2>1. shown' = Head(wire) /\ wire # <<>> /\ UNCHANGED request BY <1>3 DEF Deliver
  <2>2. CASE Drawn(status)
    <3>. DEFINE old == IF Midnight(status.at) = day THEN points ELSE NoPoints
                of == Midnight(status.at)
                minute == FloorMinute(status.at) - of
    <3>1. points' = PutPoint(old, status) BY <1>3, <2>2 DEF Deliver, PointsWith
    <3>2. /\ DOMAIN points' = DOMAIN old \cup {minute}
          /\ points'[minute] = LivePoint(status)
          /\ \A m \in DOMAIN old : m # minute => points'[m] = old[m]
      BY <3>1, PutPointIs
    <3>3. LivePoint(status).of = of BY DEF LivePoint
    <3>4. status.at \in Nat
      <4>1. wire \in Seq(1 .. Current) BY DEF FeedInv
      <4>2. shown' \in 1 .. Current BY <2>1, <4>1
      <4>. QED BY <4>2 DEF ScreenInv, Status
    <3>. HIDE DEF status
    <3>5. of \in Nat /\ of \in Midnights /\ of <= status.at BY <3>4, MidnightIs
    <3>6. of % Minute = 0 BY <3>5, HistoryAssumption
    <3>7. of <= FloorMinute(status.at) /\ FloorMinute(status.at) \in Int
          /\ FloorMinute(status.at) % Minute = 0
      BY <3>4, <3>5, <3>6, FloorMinuteIs, FloorMinuteIsLast
    <3>. HIDE DEF of
    <3>8. minute \in Nat /\ of + minute = FloorMinute(status.at) BY <3>5, <3>7
    <3>. HIDE DEF minute
    <3>9. \A m \in DOMAIN old : old[m].live => m \in Nat /\ (old[m].of + m) % Minute = 0
      BY <1>0 DEF LiveInv
    <3>. HIDE DEF old
    <3>10. ASSUME NEW m \in DOMAIN points', points'[m].live
           PROVE  m \in Nat /\ (points'[m].of + m) % Minute = 0
      <4>1. CASE m = minute BY <3>2, <3>3, <3>7, <3>8, <4>1
      <4>2. CASE m # minute BY <3>2, <3>9, <3>10, <4>2
      <4>. QED BY <4>1, <4>2
    <3>. QED BY <2>1, <3>10 DEF LiveInv
  <2>3. CASE ~Drawn(status)
    <3>1. UNCHANGED points BY <1>3, <2>3 DEF Deliver
    <3>. QED BY <1>1, <2>1, <3>1
  <2>. QED BY <2>2, <2>3
<1>4. CASE Answer
  <2>1. UNCHANGED points /\ history = "asked" BY <1>4 DEF Answer
  <2>2. CASE history' = "failed" /\ UNCHANGED answer BY <2>1, <2>2 DEF LiveInv
  <2>3. CASE answer' = [at |-> now, of |-> Midnight(now), points |-> AnswerPoints]
    <3>1. answer'.at = now /\ answer'.of = Midnight(now) /\ answer'.points = AnswerPoints
      BY <2>3
    <3>2. now \in Nat BY DEF TypeOK
    <3>3. \A m \in DOMAIN AnswerPoints : ~AnswerPoints[m].live BY DEF AnswerPoints
    <3>. QED BY <2>1, <3>1, <3>2, <3>3, AnswerHasItsMinutes DEF LiveInv
  <2>. QED BY <1>4, <2>2, <2>3 DEF Answer
<1>5. CASE LoadHistory
  <2>1. points' = answer.points /\ answer' = NoAnswer /\ history' # "answered"
    BY <1>5 DEF LoadHistory
  <2>. QED BY <1>0, <2>1 DEF LiveInv, NoAnswer
<1>6. CASE \E value \in Values \cup {NoValue} : Polled(value) BY <1>1, <1>6 DEF Polled
<1>7. CASE \E n \in 0 .. Current : Serve(n) BY <1>1, <1>7 DEF Serve
<1>8. CASE Opening \/ Clock \/ Connect \/ StartPolling \/ Break \/ Send
  BY <1>1, <1>8 DEF Opening, Clock, Connect, StartPolling, Break, Send
<1>9. CASE UNCHANGED dashVars BY <1>1, <1>9 DEF dashVars
<1>. QED
  BY <1>2, <1>3, <1>4, <1>5, <1>6, <1>7, <1>8, <1>9 DEF DashNext

(* What a live event drew stays drawn until its day is over: an event, a   *)
(* poll or a break takes nothing away, and the history answer only what    *)
(* came after it was made, in its day or before a midnight it is ahead of. *)
THEOREM LivePointsStay == DashSpec => KeepsWhatItDrew
<1>. DEFINE Kept(m) == \/ m \in DOMAIN points'
                       \/ history = "answered" /\ history' # "answered" /\ OutOfDate(m)
            Stay == \A m \in DOMAIN points : points[m].live /\ day' = day => Kept(m)
<1>1. TypeOK /\ GraphInv /\ ScreenInv /\ LiveInv /\ [DashNext]_dashVars => [Stay]_dashVars
  <2>. SUFFICES ASSUME GraphInv, ScreenInv, LiveInv, DashNext,
                       NEW m \in DOMAIN points, points[m].live, day' = day
                PROVE  Kept(m)
    OBVIOUS
  <2>1. CASE UNCHANGED points BY <2>1
  <2>2. CASE Deliver /\ Drawn(statuses[shown'])
    <3>. DEFINE status == statuses[shown']
    <3>1. points' = PutPoint(points, status)
      BY <2>2 DEF Deliver, PointsWith
    <3>. HIDE DEF status
    <3>. QED BY <3>1, PutPointIs
  <2>3. CASE Deliver /\ ~Drawn(statuses[shown']) BY <2>1, <2>3 DEF Deliver
  <2>4. CASE LoadHistory
    <3>1. /\ history = "answered" /\ history' # "answered" /\ points' = answer.points
      BY <2>4 DEF LoadHistory
    <3>2. /\ m \in Nat /\ (day + m) % Minute = 0 /\ day \in Midnights /\ day \in Nat
          /\ answer.at \in Nat /\ answer.of = Midnight(answer.at)
      BY <3>1, HistoryAssumption DEF GraphInv, LiveInv, ScreenInv
    <3>3. /\ answer.of \in Nat /\ answer.of <= answer.at
          /\ day <= answer.at => day <= answer.of
      BY <3>2, MidnightIs
    <3>4. CASE answer.at < day + m \/ answer.of > day BY <3>1, <3>4 DEF OutOfDate
    <3>5. CASE ~(answer.at < day + m) /\ ~(answer.of > day)
      <4>1. day + m <= answer.at /\ answer.of = day BY <3>2, <3>3, <3>5
      <4>. QED BY <3>1, <3>2, <4>1 DEF LiveInv
    <3>. QED BY <3>4, <3>5
  <2>5. CASE Growth BY <2>1, <2>5 DEF Growth, Opening, Polled
  <2>6. CASE Start \/ Connect \/ StartPolling \/ Break \/ Send
    BY <2>1, <2>6 DEF Start, Connect, StartPolling, Break, Send
  <2>7. CASE Answer \/ Clock \/ \E n \in 0 .. Current : Serve(n)
    BY <2>1, <2>7 DEF Answer, Clock, Serve
  <2>. QED BY <2>2, <2>3, <2>4, <2>5, <2>6, <2>7 DEF DashNext, Growth
<1>2. DashSpec => []TypeOK BY HistoryTyped, PageKeepsTheHistory, PTL
<1>. QED
  BY <1>1, <1>2, FeedInvInit, FeedInvNext, GraphInvInit, GraphInvNext, ScreenInvInit,
     ScreenInvNext, LiveInvInit, LiveInvNext, PTL
     DEF DashSpec, KeepsWhatItDrew
=============================================================================
