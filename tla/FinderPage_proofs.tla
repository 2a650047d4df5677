-------------------------- MODULE FinderPage_proofs --------------------------
(***************************************************************************)
(* What TLAPS proves about the store finder: its list of locations, the    *)
(* order of its rows, the moves that bring the page's list from one order  *)
(* to another, and the page under any interleaving of the stream, the      *)
(* searches and the positions.  For any shops, lists, distances, limits    *)
(* and numbers of requests.                                                *)
(***************************************************************************)
EXTENDS FinderPage, TLAPS, FiniteSetTheorems, SequenceTheorems, WellFoundedInduction

-----------------------------------------------------------------------------
(* Numbers, and functions defined from their values at earlier places.     *)

(* The least of some natural numbers.                                      *)
LEMMA LeastNatural ==
  ASSUME NEW S \in SUBSET Nat, S # {} PROVE \E n \in S : \A m \in S : n <= m
<1>1. PICK n \in S : \A m \in S : <<m, n>> \notin OpToRel(<, Nat)
  BY NatLessThanWellFounded, WFMin
<1>2. \A m \in S : ~(m < n) BY <1>1 DEF OpToRel
<1>. QED BY <1>2

(* A function on 0 .. n may be defined from its value at an earlier place. *)
Recursion(D, base, n, step, back) ==
    /\ n \in Nat /\ base \in D /\ step \in [1 .. n -> [D -> D]]
    /\ back \in [1 .. n -> Nat] /\ \A i \in 1 .. n : back[i] < i

Solves(f, D, base, n, step, back) ==
    /\ f \in [0 .. n -> D] /\ f[0] = base
    /\ \A i \in 1 .. n : f[i] = step[i][f[back[i]]]

LEMMA RecursionExists ==
  ASSUME NEW D, NEW base, NEW n, NEW step, NEW back,
         Recursion(D, base, n, step, back)
  PROVE  \E f : Solves(f, D, base, n, step, back)
<1>. USE DEF Recursion
<1>. DEFINE UpTo(f, m) == /\ f[0] = base
                          /\ \A i \in 1 .. m : f[i] = step[i][f[back[i]]]
            Bad == {m \in 0 .. n : ~\E f \in [0 .. n -> D] : UpTo(f, m)}
<1>1. Bad = {}
  <2>. SUFFICES ASSUME Bad # {} PROVE FALSE OBVIOUS
  <2>0. Bad \in SUBSET Nat OBVIOUS
  <2>1. PICK m \in Bad : \A k \in Bad : m <= k BY <2>0, LeastNatural
  <2>2. m \in 0 .. n /\ ~\E f \in [0 .. n -> D] : UpTo(f, m) BY <2>1
  <2>3. CASE m = 0
    <3>. DEFINE f == [i \in 0 .. n |-> base]
    <3>1. f \in [0 .. n -> D] /\ UpTo(f, 0) OBVIOUS
    <3>. QED BY <2>2, <2>3, <3>1
  <2>4. CASE m # 0
    <3>1. m - 1 \in 0 .. n /\ ~(m <= m - 1) BY <2>2, <2>4
    <3>2. m - 1 \notin Bad BY <2>1, <3>1
    <3>3. PICK g \in [0 .. n -> D] : UpTo(g, m - 1) BY <3>1, <3>2
    <3>. DEFINE f == [g EXCEPT ![m] = step[m][g[back[m]]]]
    <3>4. m \in 1 .. n /\ back[m] \in 0 .. n /\ back[m] < m BY <2>2, <2>4
    <3>5. step[m][g[back[m]]] \in D BY <3>4
    <3>6. f \in [0 .. n -> D] BY <3>5
    <3>7. f[m] = step[m][f[back[m]]] BY <3>4
    <3>8. ASSUME NEW i \in 1 .. m - 1 PROVE f[i] = step[i][f[back[i]]]
      <4>1. i \in 1 .. n /\ back[i] \in 0 .. n /\ back[i] < i /\ i # m /\ back[i] # m
        BY <3>4
      <4>. QED BY <3>3, <4>1
    <3>9. f[0] = base BY <3>3, <2>4
    <3>. HIDE DEF f
    <3>10. \A i \in 1 .. m : i = m \/ i \in 1 .. m - 1 BY <3>4
    <3>11. UpTo(f, m) BY <3>7, <3>8, <3>9, <3>10
    <3>. QED BY <2>2, <3>6, <3>11
  <2>. QED BY <2>3, <2>4
<1>2. n \in 0 .. n /\ n \notin Bad
  <2>. HIDE DEF Bad
  <2>. QED BY <1>1
<1>3. PICK f \in [0 .. n -> D] : UpTo(f, n) BY <1>2
<1>. QED BY <1>3 DEF Solves

LEMMA IntervalCounts ==
  ASSUME NEW n \in Nat PROVE IsFiniteSet(1 .. n) /\ Cardinality(1 .. n) = n
<1>1. 1 \in Int /\ n \in Int OBVIOUS
<1>2. /\ IsFiniteSet(1 .. n)
      /\ Cardinality(1 .. n) = IF 1 > n THEN 0 ELSE n - 1 + 1
  BY <1>1, FS_Interval
<1>. QED BY <1>2

LEMMA FunctionIsSeq ==
  ASSUME NEW n \in Nat, NEW S, NEW f \in [1 .. n -> S]
  PROVE  f \in Seq(S) /\ Len(f) = n
<1>1. f \in Seq(S) BY SeqDef
<1>2. DOMAIN f = 1 .. Len(f) /\ Len(f) \in Nat BY <1>1, LenProperties
<1>3. 1 .. n = 1 .. Len(f) BY <1>2
<1>. QED BY <1>1, <1>2, <1>3

-----------------------------------------------------------------------------
(* Sorting.                                                                *)

(* Tuples of integers are ordered by the first place where they differ.    *)
LEMMA KeysAreOrdered ==
  ASSUME NEW n \in Nat, NEW a \in [1 .. n -> Int], NEW b \in [1 .. n -> Int]
  PROVE  /\ ~KeyLess(a, a)
         /\ a # b => KeyLess(a, b) \/ KeyLess(b, a)
         /\ \A c \in [1 .. n -> Int] : KeyLess(a, b) /\ KeyLess(b, c) => KeyLess(a, c)
<1>1. ~KeyLess(a, a) BY DEF KeyLess
<1>2. ASSUME a # b PROVE KeyLess(a, b) \/ KeyLess(b, a)
  <2>. DEFINE differ == {k \in 1 .. n : a[k] # b[k]}
  <2>1. differ \subseteq Nat /\ differ # {} BY <1>2
  <2>2. PICK k \in differ : \A m \in differ : k <= m BY <2>1, LeastNatural
  <2>3. k \in 1 .. n /\ \A j \in 1 .. k - 1 : a[j] = b[j] BY <2>2
  <2>4. a[k] < b[k] \/ b[k] < a[k] BY <2>2
  <2>. QED BY <2>3, <2>4 DEF KeyLess
<1>3. ASSUME NEW c \in [1 .. n -> Int], KeyLess(a, b), KeyLess(b, c)
      PROVE  KeyLess(a, c)
  <2>1. PICK k \in 1 .. n : a[k] < b[k] /\ \A j \in 1 .. k - 1 : a[j] = b[j]
    BY <1>3 DEF KeyLess
  <2>2. PICK l \in 1 .. n : b[l] < c[l] /\ \A j \in 1 .. l - 1 : b[j] = c[j]
    BY <1>3 DEF KeyLess
  <2>3. CASE k <= l
    <3>1. a[k] < c[k] BY <2>1, <2>2, <2>3
    <3>2. \A j \in 1 .. k - 1 : a[j] = c[j] BY <2>1, <2>2, <2>3
    <3>. QED BY <3>1, <3>2 DEF KeyLess
  <2>4. CASE l < k
    <3>1. a[l] < c[l] BY <2>1, <2>2, <2>4
    <3>2. \A j \in 1 .. l - 1 : a[j] = c[j] BY <2>1, <2>2, <2>4
    <3>. QED BY <3>1, <3>2 DEF KeyLess
  <2>. QED BY <2>3, <2>4
<1>. QED BY <1>1, <1>2, <1>3

(* Finitely many values with different keys of one length.                 *)
Sortable(key, n) ==
    /\ key \in [DOMAIN key -> [1 .. n -> Int]] /\ IsFiniteSet(DOMAIN key)
    /\ \A x, y \in DOMAIN key : key[x] = key[y] => x = y

Enumerates(s, S) ==
    /\ IsFiniteSet(S) /\ s \in [1 .. Cardinality(S) -> S]
    /\ \A i, j \in DOMAIN s : s[i] = s[j] => i = j
    /\ \A x \in S : \E i \in DOMAIN s : s[i] = x

LEMMA SortEnumerates ==
  ASSUME NEW n \in Nat, NEW key, Sortable(key, n)
  PROVE  /\ Enumerates(SortByKey(key), DOMAIN key)
         /\ \A i, j \in DOMAIN SortByKey(key) :
               i < j => KeyLess(key[SortByKey(key)[i]], key[SortByKey(key)[j]])
<1>. DEFINE S == DOMAIN key
            m == Cardinality(S)
            Earlier(x) == {y \in S : KeyLess(key[y], key[x])}
            before == [x \in S |-> Cardinality(Earlier(x))]
            s == SortByKey(key)
<1>0. /\ IsFiniteSet(S) /\ m \in Nat
      /\ \A x \in S : key[x] \in [1 .. n -> Int]
      /\ \A x, y \in S : key[x] = key[y] => x = y
  BY FS_CardinalityType DEF Sortable
<1>1. \A x, y \in S : /\ ~KeyLess(key[x], key[x])
                      /\ x # y => KeyLess(key[x], key[y]) \/ KeyLess(key[y], key[x])
                      /\ \A z \in S : KeyLess(key[x], key[y]) /\ KeyLess(key[y], key[z])
                                        => KeyLess(key[x], key[z])
  BY <1>0, KeysAreOrdered
<1>2. ASSUME NEW x \in S
      PROVE  /\ IsFiniteSet(Earlier(x)) /\ Cardinality(Earlier(x)) \in 0 .. m - 1
  <2>1. Earlier(x) \subseteq S /\ x \notin Earlier(x) BY <1>1
  <2>2. IsFiniteSet(Earlier(x)) /\ Cardinality(Earlier(x)) \in Nat
    BY <1>0, <2>1, FS_Subset, FS_CardinalityType
  <2>3. Cardinality(Earlier(x)) <= m /\ Cardinality(Earlier(x)) # m
    BY <1>0, <2>1, FS_Subset
  <2>. HIDE DEF Earlier, m
  <2>. QED BY <1>0, <2>2, <2>3
<1>3. ASSUME NEW x \in S, NEW y \in S, KeyLess(key[x], key[y])
      PROVE  before[x] < before[y]
  <2>1. Earlier(x) \subseteq Earlier(y) /\ x \in Earlier(y) /\ x \notin Earlier(x)
    BY <1>1, <1>3
  <2>2. Cardinality(Earlier(x)) <= Cardinality(Earlier(y))
        /\ Cardinality(Earlier(x)) # Cardinality(Earlier(y))
    BY <1>2, <2>1, FS_Subset
  <2>3. Cardinality(Earlier(x)) \in Nat /\ Cardinality(Earlier(y)) \in Nat
    BY <1>2, FS_CardinalityType
  <2>. HIDE DEF Earlier
  <2>. QED BY <2>2, <2>3
<1>. HIDE DEF Earlier
<1>4. before \in [S -> 0 .. m - 1] BY <1>2
<1>5. \A x, y \in S : before[x] = before[y] => x = y
  <2>. SUFFICES ASSUME NEW x \in S, NEW y \in S, x # y PROVE before[x] # before[y] OBVIOUS
  <2>1. before[x] \in Int /\ before[y] \in Int BY <1>4
  <2>2. before[x] < before[y] \/ before[y] < before[x] BY <1>1, <1>3
  <2>. HIDE DEF before
  <2>. QED BY <2>1, <2>2
<1>6. before \in Injection(S, 0 .. m - 1) BY <1>4, <1>5 DEF Injection, IsInjective
<1>7. IsFiniteSet(0 .. m - 1) /\ Cardinality(0 .. m - 1) = m
  <2>. HIDE DEF m
  <2>1. 0 \in Int /\ m - 1 \in Int BY <1>0
  <2>2. Cardinality(0 .. m - 1) = IF 0 > m - 1 THEN 0 ELSE m - 1 - 0 + 1
    BY <2>1, FS_Interval
  <2>3. IsFiniteSet(0 .. m - 1) BY <2>1, FS_Interval
  <2>. QED BY <1>0, <2>2, <2>3
<1>8. before \in Surjection(S, 0 .. m - 1) BY <1>6, <1>7, FS_Injection
<1>9. \A k \in 0 .. m - 1 : \E x \in S : before[x] = k BY <1>8 DEF Surjection
<1>10. s = [i \in 1 .. m |-> CHOOSE x \in S : before[x] = i - 1]
  <2>1. DOMAIN before = S OBVIOUS
  <2>. QED BY <2>1 DEF SortByKey, Earlier
<1>11. ASSUME NEW i \in 1 .. m PROVE s[i] \in S /\ before[s[i]] = i - 1
  <2>1. i - 1 \in 0 .. m - 1 BY <1>0
  <2>. HIDE DEF before
  <2>. QED BY <1>9, <1>10, <2>1
<1>12. ASSUME NEW x \in S PROVE \E i \in 1 .. m : s[i] = x
  <2>1. before[x] \in 0 .. m - 1 BY <1>4
  <2>2. before[x] + 1 \in 1 .. m /\ (before[x] + 1) - 1 = before[x] BY <1>0, <2>1
  <2>. HIDE DEF before
  <2>. QED BY <1>5, <1>11, <2>2
<1>13. ASSUME NEW i \in 1 .. m, NEW j \in 1 .. m, i < j
       PROVE  KeyLess(key[s[i]], key[s[j]])
  <2>1. s[i] \in S /\ s[j] \in S /\ before[s[i]] = i - 1 /\ before[s[j]] = j - 1
    BY <1>11
  <2>2. before[s[i]] < before[s[j]] BY <1>13, <2>1
  <2>3. s[i] # s[j] /\ ~(before[s[j]] < before[s[i]]) BY <1>13, <2>1
  <2>. HIDE DEF before
  <2>. QED BY <1>1, <1>3, <2>1, <2>3
<1>14. \A i, j \in 1 .. m : s[i] = s[j] => i = j
  <2>. HIDE DEF before, s
  <2>. QED BY <1>11
<1>. HIDE DEF before
<1>15. s \in [1 .. m -> S] /\ DOMAIN s = 1 .. m BY <1>10, <1>11
<1>. QED BY <1>0, <1>12, <1>13, <1>14, <1>15 DEF Enumerates

(* Sorting positions by themselves leaves them as they are.                *)
LEMMA PositionsAreSorted ==
  ASSUME NEW m \in Nat
  PROVE  SortByKey([i \in 1 .. m |-> <<i>>]) = [i \in 1 .. m |-> i]
<1>. DEFINE key == [i \in 1 .. m |-> <<i>>]
            before == [x \in 1 .. m |-> Cardinality({y \in 1 .. m : KeyLess(key[y], key[x])})]
<1>1. ASSUME NEW x \in 1 .. m, NEW y \in 1 .. m
      PROVE  KeyLess(key[y], key[x]) <=> y < x
  <2>1. key[y] = <<y>> /\ key[x] = <<x>> OBVIOUS
  <2>2. DOMAIN <<y>> = {1} /\ <<y>>[1] = y /\ <<x>>[1] = x OBVIOUS
  <2>3. \A j \in 1 .. 1 - 1 : FALSE OBVIOUS
  <2>4. KeyLess(<<y>>, <<x>>) <=> y < x BY <2>2, <2>3 DEF KeyLess
  <2>. QED BY <2>1, <2>4
<1>2. ASSUME NEW x \in 1 .. m PROVE before[x] = x - 1
  <2>1. {y \in 1 .. m : KeyLess(key[y], key[x])} = 1 .. x - 1 BY <1>1
  <2>2. Cardinality(1 .. x - 1) = x - 1
    <3>1. 1 \in Int /\ x - 1 \in Int /\ 1 <= x OBVIOUS
    <3>2. Cardinality(1 .. x - 1) = IF 1 > x - 1 THEN 0 ELSE x - 1 - 1 + 1
      BY <3>1, FS_Interval
    <3>. QED BY <3>1, <3>2
  <2>. QED BY <2>1, <2>2
<1>3. Cardinality(1 .. m) = m
  <2>1. 1 \in Int /\ m \in Int OBVIOUS
  <2>2. Cardinality(1 .. m) = IF 1 > m THEN 0 ELSE m - 1 + 1 BY <2>1, FS_Interval
  <2>. QED BY <2>2
<1>4. SortByKey(key) = [i \in 1 .. m |-> CHOOSE x \in 1 .. m : before[x] = i - 1]
  <2>1. DOMAIN before = 1 .. m /\ DOMAIN key = 1 .. m OBVIOUS
  <2>. QED BY <1>3, <2>1 DEF SortByKey
<1>. HIDE DEF before, key
<1>5. ASSUME NEW i \in 1 .. m PROVE (CHOOSE x \in 1 .. m : before[x] = i - 1) = i
  <2>1. \A x \in 1 .. m : before[x] = i - 1 => x = i BY <1>2
  <2>. QED BY <1>2, <2>1
<1>6. SortByKey(key) = [i \in 1 .. m |-> i] BY <1>4, <1>5
<1>. QED BY <1>6 DEF key

-----------------------------------------------------------------------------
(* lisPositions.                                                           *)

(* The run under way; the values are not negative, as every row of the new *)
(* list was in the old one.                                                *)
Runs(n) == [tails : Seq(1 .. n), before : [1 .. n -> 0 .. n]]

Smaller(values, acc, i) == {k \in DOMAIN acc.tails : values[acc.tails[k]] < values[i]}

(* r[j], the length of the longest increasing run that ends at j, is known *)
(* for the positions placed so far.                                        *)
Placed(values, acc, i, r) ==
    /\ r \in [1 .. i -> 1 .. Len(acc.tails)]
    /\ \A k \in 1 .. Len(acc.tails) : acc.tails[k] \in 1 .. i /\ r[acc.tails[k]] = k
    /\ \A k, l \in 1 .. Len(acc.tails) :
          k < l => values[acc.tails[k]] < values[acc.tails[l]]
    /\ \A j \in 1 .. i : values[acc.tails[r[j]]] <= values[j]
    /\ \A j \in 1 .. i :
          IF r[j] = 1 THEN acc.before[j] = 0
          ELSE /\ acc.before[j] \in 1 .. j - 1
               /\ values[acc.before[j]] < values[j]
               /\ r[acc.before[j]] = r[j] - 1
    /\ \A j, l \in 1 .. i : j < l /\ values[j] < values[l] => r[j] < r[l]

(* PlaceIndex, with the count of smaller tails as a number.                *)
LEMMA PlaceIndexIs ==
  ASSUME NEW n \in Nat, NEW values \in [1 .. n -> Nat], NEW acc \in Runs(n),
         NEW i \in 1 .. n
  PROVE  /\ Cardinality(Smaller(values, acc, i)) \in 0 .. Len(acc.tails)
         /\ LET low == Cardinality(Smaller(values, acc, i))
            IN  PlaceIndex(values, acc, i) =
                  [tails |-> IF low < Len(acc.tails)
                             THEN [acc.tails EXCEPT ![low + 1] = i]
                             ELSE Append(acc.tails, i),
                   before |-> [acc.before EXCEPT ![i] =
                                  IF low > 0 THEN acc.tails[low] ELSE 0]]
         /\ PlaceIndex(values, acc, i) \in Runs(n)
<1>. DEFINE T == acc.tails
            m == Len(T)
            S == Smaller(values, acc, i)
            low == Cardinality(S)
<1>1. T \in Seq(1 .. n) /\ acc.before \in [1 .. n -> 0 .. n] BY DEF Runs
<1>2. m \in Nat /\ DOMAIN T = 1 .. m /\ T \in [1 .. m -> 1 .. n]
  BY <1>1, LenProperties
<1>3. IsFiniteSet(1 .. m) /\ Cardinality(1 .. m) = m BY <1>2, IntervalCounts
<1>4. S \subseteq 1 .. m BY <1>2 DEF Smaller
<1>5. low \in Nat /\ low <= m BY <1>3, <1>4, FS_Subset, FS_CardinalityType
<1>. HIDE DEF S
<1>6. PlaceIndex(values, acc, i) =
        [tails |-> IF low < m THEN [T EXCEPT ![low + 1] = i] ELSE Append(T, i),
         before |-> [acc.before EXCEPT ![i] = IF low > 0 THEN T[low] ELSE 0]]
  <2>1. ~(values[i] < 0) OBVIOUS
  <2>. QED BY <2>1 DEF PlaceIndex, S, Smaller
<1>. HIDE DEF low
<1>7. (IF low < m THEN [T EXCEPT ![low + 1] = i] ELSE Append(T, i)) \in Seq(1 .. n)
  <2>1. CASE low < m
    <3>1. low + 1 \in 1 .. Len(T) BY <1>2, <1>5, <2>1
    <3>2. [T EXCEPT ![low + 1] = i] \in Seq(1 .. n) BY <1>1, <3>1, ExceptSeq
    <3>. QED BY <2>1, <3>2
  <2>2. CASE ~(low < m) BY <1>1, <2>2, AppendProperties
  <2>. QED BY <2>1, <2>2
<1>8. [acc.before EXCEPT ![i] = IF low > 0 THEN T[low] ELSE 0] \in [1 .. n -> 0 .. n]
  <2>1. CASE low > 0
    <3>1. low \in 1 .. m BY <1>5, <2>1
    <3>2. T[low] \in 0 .. n BY <1>2, <3>1
    <3>. QED BY <1>1, <2>1, <3>2
  <2>2. CASE ~(low > 0) BY <1>1, <2>2
  <2>. QED BY <2>1, <2>2
<1>9. PlaceIndex(values, acc, i) \in Runs(n) BY <1>6, <1>7, <1>8 DEF Runs
<1>10. low \in 0 .. m BY <1>2, <1>5
<1>. QED BY <1>6, <1>9, <1>10 DEF low, S

(* A set of the first numbers is as large as its last.                     *)
LEMMA InitialSegment ==
  ASSUME NEW m \in Nat, NEW S \in SUBSET (1 .. m),
         \A k \in S, l \in 1 .. m : l <= k => l \in S
  PROVE  S = 1 .. Cardinality(S)
<1>1. IsFiniteSet(1 .. m) /\ Cardinality(1 .. m) = m BY IntervalCounts
<1>2. CASE S = 1 .. m BY <1>1, <1>2
<1>3. CASE S # 1 .. m
  <2>. DEFINE missing == (1 .. m) \ S
  <2>0. PICK out \in 1 .. m : out \notin S BY <1>3
  <2>1. missing \subseteq Nat /\ out \in missing BY <2>0
  <2>2. PICK k \in missing : \A l \in missing : k <= l BY <2>1, LeastNatural
  <2>3. k \in 1 .. m /\ k \notin S BY <2>2
  <2>4. \A l \in S : l < k BY <2>3
  <2>5. \A l \in 1 .. k - 1 : l \in S
    <3>. SUFFICES ASSUME NEW l \in 1 .. k - 1, l \notin S PROVE FALSE OBVIOUS
    <3>1. l \in missing /\ ~(k <= l) BY <2>3
    <3>. QED BY <2>2, <3>1
  <2>6. S = 1 .. k - 1
    <3>. HIDE DEF missing
    <3>1. \A j \in S : j \in 1 .. k - 1 BY <2>3, <2>4
    <3>. QED BY <2>5, <3>1
  <2>7. Cardinality(1 .. k - 1) = k - 1
    <3>1. k - 1 \in Nat BY <2>3
    <3>. QED BY <3>1, IntervalCounts
  <2>. QED BY <2>6, <2>7
<1>. QED BY <1>2, <1>3

(* One more position placed.                                               *)
LEMMA PlacedStep ==
  ASSUME NEW n \in Nat, NEW values \in [1 .. n -> Nat], NEW acc \in Runs(n),
         NEW i \in 1 .. n, NEW r, Placed(values, acc, i - 1, r)
  PROVE  \E q : Placed(values, PlaceIndex(values, acc, i), i, q)
<1>. DEFINE T == acc.tails
            B == acc.before
            m == Len(T)
            S == Smaller(values, acc, i)
            low == Cardinality(S)
            new == PlaceIndex(values, acc, i)
            q == [j \in 1 .. i |-> IF j = i THEN low + 1 ELSE r[j]]
<1>1. T \in Seq(1 .. n) /\ B \in [1 .. n -> 0 .. n] BY DEF Runs
<1>2. m \in Nat /\ DOMAIN T = 1 .. m /\ T \in [1 .. m -> 1 .. n]
  BY <1>1, LenProperties
<1>3. /\ r \in [1 .. i - 1 -> 1 .. m]
      /\ \A k \in 1 .. m : T[k] \in 1 .. i - 1 /\ r[T[k]] = k
      /\ \A k, l \in 1 .. m : k < l => values[T[k]] < values[T[l]]
      /\ \A j \in 1 .. i - 1 : values[T[r[j]]] <= values[j]
      /\ \A j \in 1 .. i - 1 :
            IF r[j] = 1 THEN B[j] = 0
            ELSE /\ B[j] \in 1 .. j - 1 /\ values[B[j]] < values[j]
                 /\ r[B[j]] = r[j] - 1
      /\ \A j, l \in 1 .. i - 1 : j < l /\ values[j] < values[l] => r[j] < r[l]
  BY DEF Placed
<1>4. S = {k \in 1 .. m : values[T[k]] < values[i]} BY <1>2 DEF Smaller
<1>5. low \in 0 .. m /\ S = 1 .. low
  <2>1. low \in 0 .. m BY PlaceIndexIs
  <2>2. ASSUME NEW k \in S, NEW l \in 1 .. m, l <= k PROVE l \in S
    <3>1. k \in 1 .. m /\ values[T[k]] < values[i] BY <1>4, <2>2
    <3>2. values[T[l]] \in Nat /\ values[T[k]] \in Nat /\ values[i] \in Nat
      BY <1>2, <3>1
    <3>3. l = k \/ values[T[l]] < values[T[k]] BY <1>3, <2>2, <3>1
    <3>. HIDE DEF T
    <3>4. values[T[l]] < values[i]
      <4>1. CASE l = k BY <3>1, <4>1
      <4>2. CASE values[T[l]] < values[T[k]] BY <3>1, <3>2, <4>2
      <4>. QED BY <3>3, <4>1, <4>2
    <3>. QED BY <1>4, <2>2, <3>4
  <2>3. S \in SUBSET (1 .. m) BY <1>4
  <2>. HIDE DEF S, m
  <2>4. S = 1 .. Cardinality(S) BY <1>2, <2>2, <2>3, InitialSegment
  <2>. QED BY <2>1, <2>4
<1>6. /\ new.tails = IF low < m THEN [T EXCEPT ![low + 1] = i] ELSE Append(T, i)
      /\ new.before = [B EXCEPT ![i] = IF low > 0 THEN T[low] ELSE 0]
  <2>. HIDE DEF S
  <2>1. new = [tails |-> IF low < m THEN [T EXCEPT ![low + 1] = i] ELSE Append(T, i),
               before |-> [B EXCEPT ![i] = IF low > 0 THEN T[low] ELSE 0]]
    BY PlaceIndexIs DEF S
  <2>. HIDE DEF new, low, m
  <2>. QED BY <2>1
<1>. HIDE DEF S, low, new
<1>7. \A k \in 1 .. m : (k <= low) = (values[T[k]] < values[i])
  <2>1. \A k \in 1 .. m : k \in S <=> k <= low BY <1>5
  <2>. QED BY <1>4, <2>1

(* The new tails: i in place of low + 1, or after the others.              *)
<1>. DEFINE U == new.tails
            v == Len(U)
<1>8. /\ v = IF low < m THEN m ELSE m + 1
      /\ U[low + 1] = i
      /\ \A k \in 1 .. v : k # low + 1 => k \in 1 .. m /\ U[k] = T[k]
      /\ low + 1 \in 1 .. v
  <2>1. CASE low < m
    <3>1. low + 1 \in 1 .. m BY <1>2, <1>5, <2>1
    <3>2. U = [T EXCEPT ![low + 1] = i] BY <1>6, <2>1
    <3>3. Len(U) = Len(T) /\ \A k \in 1 .. Len(T) : U[k] = IF k = low + 1 THEN i ELSE T[k]
      <4>. HIDE DEF U
      <4>. QED BY <1>1, <3>1, <3>2, ExceptSeq
    <3>. HIDE DEF U
    <3>. QED BY <2>1, <3>1, <3>3
  <2>2. CASE ~(low < m)
    <3>1. U = Append(T, i) /\ low = m BY <1>2, <1>5, <1>6, <2>2
    <3>2. /\ Len(U) = m + 1 /\ U[m + 1] = i
          /\ \A k \in 1 .. m : U[k] = T[k]
      BY <1>1, <3>1, AppendProperties
    <3>. HIDE DEF U
    <3>. QED BY <1>2, <3>1, <3>2
  <2>. QED BY <2>1, <2>2
<1>. HIDE DEF U, v, m
<1>9. \A j \in 1 .. i - 1 : q[j] = r[j] /\ r[j] \in 1 .. m /\ j \in 1 .. i
  BY <1>3
<1>10. q[i] = low + 1 /\ \A j \in 1 .. i : j = i \/ j \in 1 .. i - 1 BY <1>5
<1>11. v \in Nat /\ m <= v BY <1>2, <1>8
<1>12. \A j \in 1 .. n : values[j] \in Nat OBVIOUS
<1>13. q \in [1 .. i -> 1 .. v]
  <2>1. \A j \in 1 .. i : q[j] \in 1 .. v
    <3>. HIDE DEF q
    <3>. SUFFICES ASSUME NEW j \in 1 .. i PROVE q[j] \in 1 .. v OBVIOUS
    <3>1. CASE j = i BY <1>8, <1>10, <3>1
    <3>2. CASE j \in 1 .. i - 1
      <4>1. q[j] \in 1 .. m BY <1>9, <3>2
      <4>. QED BY <1>2, <1>11, <4>1
    <3>. QED BY <1>10, <3>1, <3>2
  <2>. QED BY <2>1
<1>. HIDE DEF q
<1>14. ASSUME NEW k \in 1 .. v PROVE U[k] \in 1 .. i /\ q[U[k]] = k
  <2>1. CASE k = low + 1 BY <1>8, <1>10, <2>1
  <2>2. CASE k # low + 1
    <3>1. k \in 1 .. m /\ U[k] = T[k] /\ T[k] \in 1 .. i - 1 /\ r[T[k]] = k
      BY <1>3, <1>8, <2>2
    <3>. QED BY <1>9, <3>1
  <2>. QED BY <2>1, <2>2
<1>15. ASSUME NEW k \in 1 .. v, NEW l \in 1 .. v, k < l
       PROVE  values[U[k]] < values[U[l]]
  <2>0. low \in Nat BY <1>5
  <2>1. CASE k # low + 1 /\ l # low + 1 BY <1>3, <1>8, <1>15, <2>1
  <2>2. CASE k = low + 1
    <3>1. l # low + 1 /\ l \in 1 .. m /\ ~(l <= low) /\ ~(k <= low) BY <1>8, <1>15, <2>0, <2>2
    <3>2. U[k] = i /\ U[l] = T[l] BY <1>8, <2>2, <3>1
    <3>3. k \in 1 .. m BY <1>2, <1>15, <3>1
    <3>4. ~(values[T[k]] < values[i]) /\ values[T[k]] < values[T[l]]
      BY <1>3, <1>7, <1>15, <3>1, <3>3
    <3>5. values[T[k]] \in Nat /\ values[T[l]] \in Nat /\ values[i] \in Nat
      BY <1>2, <1>12, <3>1, <3>3
    <3>. QED BY <3>2, <3>4, <3>5
  <2>3. CASE l = low + 1
    <3>1. k # low + 1 /\ k \in 1 .. m /\ k <= low BY <1>8, <1>15, <2>0, <2>3
    <3>2. U[l] = i /\ U[k] = T[k] BY <1>8, <2>3, <3>1
    <3>. QED BY <1>7, <3>1, <3>2
  <2>. QED BY <2>1, <2>2, <2>3
<1>16. ASSUME NEW j \in 1 .. i PROVE values[U[q[j]]] <= values[j]
  <2>1. CASE j = i BY <1>8, <1>10, <1>12, <2>1
  <2>2. CASE j \in 1 .. i - 1
    <3>1. q[j] = r[j] /\ r[j] \in 1 .. m /\ values[T[r[j]]] <= values[j]
      BY <1>3, <1>9, <2>2
    <3>2. CASE r[j] # low + 1
      <4>1. r[j] \in 1 .. v BY <1>2, <1>11, <3>1
      <4>. QED BY <1>8, <3>1, <3>2, <4>1
    <3>3. CASE r[j] = low + 1
      <4>1. ~(r[j] <= low) BY <1>5, <3>3
      <4>2. ~(values[T[r[j]]] < values[i]) BY <1>7, <3>1, <4>1
      <4>3. values[T[r[j]]] \in Nat /\ values[j] \in Nat /\ values[i] \in Nat
        BY <1>2, <1>12, <3>1
      <4>. QED BY <1>8, <3>1, <3>3, <4>2, <4>3
    <3>. QED BY <3>2, <3>3
  <2>. QED BY <1>10, <2>1, <2>2
<1>17. ASSUME NEW j \in 1 .. i
       PROVE  IF q[j] = 1 THEN new.before[j] = 0
              ELSE /\ new.before[j] \in 1 .. j - 1
                   /\ values[new.before[j]] < values[j]
                   /\ q[new.before[j]] = q[j] - 1
  <2>1. CASE j = i
    <3>1. new.before[i] = IF low > 0 THEN T[low] ELSE 0 BY <1>1, <1>6
    <3>2. CASE low = 0 BY <1>10, <2>1, <3>1, <3>2
    <3>3. CASE low > 0
      <4>1. low \in 1 .. m BY <1>5, <3>3
      <4>2. T[low] \in 1 .. i - 1 /\ r[T[low]] = low /\ values[T[low]] < values[i]
        BY <1>3, <1>7, <4>1
      <4>3. q[T[low]] = low /\ q[i] = low + 1 /\ low \in Nat BY <1>5, <1>9, <1>10, <4>2
      <4>4. new.before[i] = T[low] BY <3>1, <3>3
      <4>5. q[i] # 1 /\ q[T[low]] = q[i] - 1 BY <3>3, <4>3
      <4>. QED BY <2>1, <4>2, <4>4, <4>5
    <3>. QED BY <1>5, <3>2, <3>3
  <2>2. CASE j \in 1 .. i - 1
    <3>1. new.before[j] = B[j] /\ q[j] = r[j]
      <4>1. j # i /\ j \in 1 .. n BY <2>2
      <4>2. new.before[j] = B[j] BY <1>1, <1>6, <4>1
      <4>. QED BY <1>9, <2>2, <4>2
    <3>2. CASE r[j] = 1 BY <1>3, <2>2, <3>1, <3>2
    <3>3. CASE r[j] # 1
      <4>1. B[j] \in 1 .. j - 1 /\ values[B[j]] < values[j] /\ r[B[j]] = r[j] - 1
        BY <1>3, <2>2, <3>3
      <4>2. B[j] \in 1 .. i - 1 BY <2>2, <4>1
      <4>3. q[B[j]] = r[B[j]] BY <1>9, <4>2
      <4>. QED BY <3>1, <3>3, <4>1, <4>3
    <3>. QED BY <3>2, <3>3
  <2>. QED BY <1>10, <2>1, <2>2
<1>18. ASSUME NEW j \in 1 .. i, NEW l \in 1 .. i, j < l, values[j] < values[l]
       PROVE  q[j] < q[l]
  <2>1. j \in 1 .. i - 1 BY <1>18
  <2>2. CASE l = i
    <3>1. r[j] \in 1 .. m /\ q[j] = r[j] /\ values[T[r[j]]] <= values[j]
      BY <1>3, <1>9, <2>1
    <3>2. values[T[r[j]]] \in Nat /\ values[j] \in Nat /\ values[i] \in Nat
      <4>1. T[r[j]] \in 1 .. n BY <1>2, <3>1
      <4>2. j \in 1 .. n BY <2>1
      <4>. QED BY <1>12, <4>1, <4>2
    <3>3. values[T[r[j]]] < values[i] BY <1>18, <2>2, <3>1, <3>2
    <3>4. r[j] <= low BY <1>7, <3>1, <3>3
    <3>5. r[j] \in Nat /\ low \in Nat BY <1>5, <3>1
    <3>. QED BY <1>10, <2>2, <3>1, <3>4, <3>5
  <2>3. CASE l \in 1 .. i - 1 BY <1>3, <1>9, <1>18, <2>1, <2>3
  <2>. QED BY <1>10, <2>2, <2>3
<1>19. Placed(values, new, i, q)
  BY <1>13, <1>14, <1>15, <1>16, <1>17, <1>18 DEF Placed, U, v
<1>. QED BY <1>19 DEF new

LEMMA TailsArePlaced ==
  ASSUME NEW n \in Nat, NEW values \in [1 .. n -> Nat]
  PROVE  Tails(values) \in Runs(n) /\ \E r : Placed(values, Tails(values), n, r)
<1>. DEFINE Eq(f) == f = [i \in 0 .. n |->
                            IF i = 0 THEN NoTails(values)
                            ELSE PlaceIndex(values, f[i - 1], i)]
            placed == CHOOSE f : Eq(f)
            Good(i) == /\ placed[i] \in Runs(n)
                       /\ \E r : Placed(values, placed[i], i, r)
            Bad == {i \in 0 .. n : ~Good(i)}
<1>1. NoTails(values) \in Runs(n)
  <2>1. <<>> \in Seq(1 .. n) BY EmptySeq
  <2>2. [i \in DOMAIN values |-> 0] \in [1 .. n -> 0 .. n] OBVIOUS
  <2>. QED BY <2>1, <2>2 DEF NoTails, Runs
<1>2. \E f : Eq(f)
  <2>. DEFINE back == [i \in 1 .. n |-> i - 1]
              step == [i \in 1 .. n |-> [d \in Runs(n) |-> PlaceIndex(values, d, i)]]
  <2>1. step \in [1 .. n -> [Runs(n) -> Runs(n)]] BY PlaceIndexIs
  <2>2. back \in [1 .. n -> Nat] /\ \A i \in 1 .. n : back[i] < i OBVIOUS
  <2>. HIDE DEF step, back
  <2>3. PICK f \in [0 .. n -> Runs(n)] :
           f[0] = NoTails(values) /\ \A i \in 1 .. n : f[i] = step[i][f[back[i]]]
    <3>1. Recursion(Runs(n), NoTails(values), n, step, back)
      BY <1>1, <2>1, <2>2 DEF Recursion
    <3>2. PICK f : Solves(f, Runs(n), NoTails(values), n, step, back)
      BY <3>1, RecursionExists
    <3>. QED BY <3>2 DEF Solves
  <2>4. ASSUME NEW i \in 1 .. n
        PROVE  step[i][f[back[i]]] = PlaceIndex(values, f[i - 1], i)
    <3>1. back[i] = i - 1 /\ f[i - 1] \in Runs(n) BY DEF back
    <3>. QED BY <3>1 DEF step
  <2>5. f = [i \in 0 .. n |-> IF i = 0 THEN NoTails(values)
                              ELSE PlaceIndex(values, f[i - 1], i)]
    <3>1. \A i \in 0 .. n : i = 0 \/ i \in 1 .. n OBVIOUS
    <3>2. \A i \in 0 .. n : f[i] = IF i = 0 THEN NoTails(values)
                                   ELSE PlaceIndex(values, f[i - 1], i)
      BY <2>3, <2>4, <3>1
    <3>. QED BY <3>2
  <2>. QED BY <2>5
<1>3. Eq(placed) BY <1>2
<1>4. Tails(values) = placed[n]
  <2>1. Len(values) = n BY FunctionIsSeq
  <2>. QED BY <2>1 DEF Tails
<1>. HIDE DEF placed
<1>5. placed[0] = NoTails(values)
      /\ \A i \in 1 .. n : placed[i] = PlaceIndex(values, placed[i - 1], i)
  BY <1>3
<1>6. Good(0)
  <2>1. Placed(values, NoTails(values), 0, <<>>)
    BY DEF Placed, NoTails
  <2>. QED BY <1>1, <1>5, <2>1
<1>7. ASSUME NEW i \in 1 .. n, Good(i - 1) PROVE Good(i)
  <2>1. PICK r : Placed(values, placed[i - 1], i - 1, r) BY <1>7
  <2>2. PlaceIndex(values, placed[i - 1], i) \in Runs(n) BY <1>7, PlaceIndexIs
  <2>3. \E q : Placed(values, PlaceIndex(values, placed[i - 1], i), i, q)
    BY <1>7, <2>1, PlacedStep
  <2>. QED BY <1>5, <2>2, <2>3
<1>8. Bad = {}
  <2>. SUFFICES ASSUME Bad # {} PROVE FALSE OBVIOUS
  <2>1. Bad \in SUBSET Nat OBVIOUS
  <2>2. PICK i \in Bad : \A k \in Bad : i <= k BY <2>1, LeastNatural
  <2>3. i \in 0 .. n /\ ~Good(i) BY <2>2
  <2>4. i \in 1 .. n /\ i - 1 \in 0 .. n /\ ~(i <= i - 1) BY <1>6, <2>3
  <2>5. Good(i - 1) BY <2>2, <2>4
  <2>. QED BY <1>7, <2>3, <2>4, <2>5
<1>9. Good(n)
  <2>1. n \in 0 .. n OBVIOUS
  <2>. HIDE DEF Good
  <2>. QED BY <1>8, <2>1
<1>. QED BY <1>4, <1>9

(* The positions that lisPositions keeps are a longest increasing run.     *)
THEOREM LongestRunIsKept ==
  ASSUME NEW n \in Nat, NEW values \in [1 .. n -> Nat]
  PROVE  /\ LisPositions(values) \subseteq 1 .. n
         /\ Increasing(values, LisPositions(values))
         /\ \A S \in SUBSET (1 .. n) : Increasing(values, S)
               => Cardinality(S) <= Cardinality(LisPositions(values))
<1>. DEFINE run == Tails(values)
            T == run.tails
            B == run.before
            m == Len(T)
            Eq(f) == f = [i \in 0 .. n |-> IF i = 0 THEN {} ELSE {i} \cup f[B[i]]]
            walk == CHOOSE f : Eq(f)
<1>1. run \in Runs(n) BY TailsArePlaced
<1>2. PICK r : Placed(values, run, n, r) BY TailsArePlaced
<1>3. /\ T \in Seq(1 .. n) /\ m \in Nat /\ T \in [1 .. m -> 1 .. n]
      /\ B \in [1 .. n -> 0 .. n]
  BY <1>1, LenProperties DEF Runs
<1>4. /\ r \in [1 .. n -> 1 .. m]
      /\ \A k \in 1 .. m : r[T[k]] = k
      /\ \A j \in 1 .. n : IF r[j] = 1 THEN B[j] = 0
                           ELSE /\ B[j] \in 1 .. j - 1 /\ values[B[j]] < values[j]
                                /\ r[B[j]] = r[j] - 1
      /\ \A j, l \in 1 .. n : j < l /\ values[j] < values[l] => r[j] < r[l]
  BY <1>2 DEF Placed
<1>5. LisPositions(values) = IF T = <<>> THEN {} ELSE walk[T[m]]
  <2>1. Len(values) = n BY FunctionIsSeq
  <2>. QED BY <2>1 DEF LisPositions, Last
<1>. HIDE DEF run, m
<1>6. \A j \in 1 .. n : B[j] \in 0 .. j - 1
  <2>. SUFFICES ASSUME NEW j \in 1 .. n PROVE B[j] \in 0 .. j - 1 OBVIOUS
  <2>1. B[j] = 0 \/ B[j] \in 1 .. j - 1 BY <1>4
  <2>. QED BY <2>1
<1>7. \E f : Eq(f)
  <2>. DEFINE step == [i \in 1 .. n |-> [d \in SUBSET (1 .. n) |-> {i} \cup d]]
  <2>1. step \in [1 .. n -> [SUBSET (1 .. n) -> SUBSET (1 .. n)]] OBVIOUS
  <2>2. B \in [1 .. n -> Nat] /\ \A i \in 1 .. n : B[i] < i BY <1>3, <1>6
  <2>. HIDE DEF step
  <2>3. Recursion(SUBSET (1 .. n), {}, n, step, B) BY <2>1, <2>2 DEF Recursion
  <2>4. PICK f : Solves(f, SUBSET (1 .. n), {}, n, step, B) BY <2>3, RecursionExists
  <2>5. ASSUME NEW i \in 1 .. n PROVE f[i] = {i} \cup f[B[i]]
    <3>1. f[B[i]] \in SUBSET (1 .. n) BY <1>3, <2>4 DEF Solves
    <3>2. f[i] = step[i][f[B[i]]] BY <2>4 DEF Solves
    <3>. QED BY <3>1, <3>2 DEF step
  <2>6. f[0] = {} /\ f \in [0 .. n -> SUBSET (1 .. n)] BY <2>4 DEF Solves
  <2>7. \A i \in 0 .. n : f[i] = IF i = 0 THEN {} ELSE {i} \cup f[B[i]]
    <3>1. \A i \in 0 .. n : i = 0 \/ i \in 1 .. n OBVIOUS
    <3>. QED BY <2>5, <2>6, <3>1
  <2>. QED BY <2>6, <2>7
<1>8. Eq(walk) BY <1>7
<1>. HIDE DEF walk
<1>9. walk[0] = {} /\ \A i \in 1 .. n : walk[i] = {i} \cup walk[B[i]]
  <2>. HIDE DEF B
  <2>1. \A i \in 0 .. n : walk[i] = IF i = 0 THEN {} ELSE {i} \cup walk[B[i]] BY <1>8
  <2>2. 0 \in 0 .. n /\ \A i \in 1 .. n : i \in 0 .. n /\ i # 0 OBVIOUS
  <2>. QED BY <2>1, <2>2
<1>. HIDE DEF B, T

(* What is walked from j is an increasing run of r[j] positions up to j.   *)
<1>. DEFINE Good(j) == /\ walk[j] \subseteq 1 .. j
                       /\ \A l \in walk[j] : values[l] <= values[j]
                       /\ Increasing(values, walk[j])
                       /\ IsFiniteSet(walk[j]) /\ Cardinality(walk[j]) = r[j]
            Bad == {j \in 1 .. n : ~Good(j)}
<1>10. \A j \in 1 .. n : values[j] \in Nat /\ r[j] \in Nat BY <1>4
<1>11. ASSUME NEW j \in 1 .. n, \A l \in 1 .. j - 1 : Good(l) PROVE Good(j)
  <2>1. CASE r[j] = 1
    <3>1. walk[j] = {j} BY <1>4, <1>9, <2>1
    <3>2. IsFiniteSet({j}) /\ Cardinality({j}) = 1 BY FS_Singleton
    <3>3. Increasing(values, {j}) BY DEF Increasing
    <3>4. {j} \subseteq 1 .. j /\ \A l \in {j} : values[l] <= values[j] BY <1>10
    <3>. QED BY <2>1, <3>1, <3>2, <3>3, <3>4
  <2>2. CASE r[j] # 1
    <3>. DEFINE b == B[j]
    <3>1. b \in 1 .. j - 1 /\ values[b] < values[j] /\ r[b] = r[j] - 1
      BY <1>4, <2>2
    <3>. HIDE DEF b
    <3>2. walk[j] = {j} \cup walk[b] BY <1>9 DEF b
    <3>3. /\ walk[b] \subseteq 1 .. b
          /\ \A l \in walk[b] : values[l] <= values[b]
          /\ Increasing(values, walk[b])
          /\ IsFiniteSet(walk[b]) /\ Cardinality(walk[b]) = r[b]
      BY <1>11, <3>1
    <3>4. b \in 1 .. n /\ b < j BY <3>1
    <3>5. \A l \in walk[b] : l \in 1 .. n /\ l < j /\ l # j /\ values[l] < values[j]
      BY <1>10, <3>1, <3>3, <3>4
    <3>6. walk[j] \subseteq 1 .. j BY <3>2, <3>5
    <3>7. \A l \in walk[j] : values[l] <= values[j] BY <1>10, <3>2, <3>5
    <3>8. Increasing(values, walk[j])
      <4>. SUFFICES ASSUME NEW k \in walk[j], NEW l \in walk[j], k < l
                    PROVE  values[k] < values[l]
        BY DEF Increasing
      <4>1. CASE l = j
        <5>1. k # j BY <4>1
        <5>. QED BY <3>2, <3>5, <4>1, <5>1
      <4>2. CASE l # j
        <5>1. l \in walk[b] /\ l < j BY <3>2, <3>5, <4>2
        <5>2. k # j
          <6>1. l \in Int /\ j \in Int BY <3>5, <5>1
          <6>. QED BY <5>1, <6>1
        <5>3. k \in walk[b] BY <3>2, <5>2
        <5>. QED BY <3>3, <5>1, <5>3 DEF Increasing
      <4>. QED BY <4>1, <4>2
    <3>9. IsFiniteSet(walk[j]) /\ Cardinality(walk[j]) = r[j]
      <4>1. j \notin walk[b] BY <3>5
      <4>2. IsFiniteSet(walk[b] \cup {j}) /\ Cardinality(walk[b] \cup {j}) = r[b] + 1
        BY <3>3, <4>1, FS_AddElement
      <4>3. walk[j] = walk[b] \cup {j} BY <3>2
      <4>. QED BY <1>10, <3>1, <4>2, <4>3
    <3>. QED BY <3>6, <3>7, <3>8, <3>9
  <2>. QED BY <2>1, <2>2
<1>12. Bad = {}
  <2>. SUFFICES ASSUME Bad # {} PROVE FALSE OBVIOUS
  <2>1. Bad \in SUBSET Nat OBVIOUS
  <2>2. PICK j \in Bad : \A k \in Bad : j <= k BY <2>1, LeastNatural
  <2>3. j \in 1 .. n /\ ~Good(j) BY <2>2
  <2>. HIDE DEF Good
  <2>4. ASSUME NEW l \in 1 .. j - 1 PROVE Good(l)
    <3>1. l \in 1 .. n /\ ~(j <= l) BY <2>3
    <3>. QED BY <2>2, <3>1
  <2>. QED BY <1>11, <2>3, <2>4
<1>13. ASSUME NEW S \in SUBSET (1 .. n), Increasing(values, S)
       PROVE  Cardinality(S) <= m
  <2>. DEFINE f == [j \in S |-> r[j]]
  <2>1. f \in [S -> 1 .. m] BY <1>4
  <2>2. ASSUME NEW j \in S, NEW l \in S, j # l PROVE f[j] # f[l]
    <3>1. \A x, y \in S : x < y => r[x] < r[y] BY <1>4, <1>13 DEF Increasing
    <3>2. j < l \/ l < j
      <4>1. j \in Int /\ l \in Int OBVIOUS
      <4>. QED BY <2>2, <4>1
    <3>3. r[j] \in Nat /\ r[l] \in Nat BY <1>10
    <3>4. r[j] < r[l] \/ r[l] < r[j] BY <3>1, <3>2
    <3>. QED BY <3>3, <3>4
  <2>3. f \in Injection(S, 1 .. m) BY <2>1, <2>2 DEF Injection, IsInjective
  <2>4. IsFiniteSet(1 .. m) /\ Cardinality(1 .. m) = m BY <1>3, IntervalCounts
  <2>. QED BY <2>3, <2>4, FS_Injection
<1>14. CASE T = <<>>
  <2>1. m = 0 BY <1>14 DEF m
  <2>2. LisPositions(values) = {} BY <1>5, <1>14
  <2>. QED BY <1>13, <2>1, <2>2, FS_EmptySet DEF Increasing
<1>15. CASE T # <<>>
  <2>. DEFINE l == T[m]
  <2>1. m # 0 BY <1>3, <1>15, EmptySeq DEF m
  <2>2. m \in 1 .. m BY <1>3, <2>1
  <2>3. l \in 1 .. n /\ r[l] = m BY <1>3, <1>4, <2>2
  <2>4. LisPositions(values) = walk[l] BY <1>5, <1>15
  <2>. HIDE DEF l
  <2>5. Good(l) BY <1>12, <2>3
  <2>6. walk[l] \subseteq 1 .. n BY <2>3, <2>5
  <2>. QED BY <1>13, <2>3, <2>4, <2>5, <2>6
<1>. QED BY <1>14, <1>15

-----------------------------------------------------------------------------
(* reorderRows.                                                            *)

(* One element of a list taken out, and one put in.                        *)
LEMMA RemoveAtIs ==
  ASSUME NEW S, NEW s \in Seq(S), NEW p \in 1 .. Len(s)
  PROVE  /\ RemoveAt(s, p) \in Seq(S) /\ Len(RemoveAt(s, p)) = Len(s) - 1
         /\ \A k \in 1 .. Len(s) - 1 :
               RemoveAt(s, p)[k] = IF k < p THEN s[k] ELSE s[k + 1]
<1>. DEFINE n == Len(s)
            a == SubSeq(s, 1, p - 1)
            b == SubSeq(s, p + 1, n)
<1>1. n \in Nat /\ \A k \in 1 .. n : s[k] \in S BY LenProperties, ElementOfSeq
<1>. HIDE DEF n
<1>2. /\ a \in Seq(S) /\ Len(a) = p - 1
      /\ \A k \in 1 .. p - 1 : a[k] = s[k]
  <2>1. 1 \in Int /\ p - 1 \in Int /\ \A k \in 1 .. p - 1 : s[k] \in S
    BY <1>1 DEF n
  <2>2. /\ a \in Seq(S) /\ Len(a) = IF 1 <= p - 1 THEN p - 1 - 1 + 1 ELSE 0
        /\ \A k \in 1 .. p - 1 - 1 + 1 : a[k] = s[1 + k - 1]
    BY <2>1, SubSeqProperties
  <2>. HIDE DEF a
  <2>. QED BY <2>2
<1>3. /\ b \in Seq(S) /\ Len(b) = n - p
      /\ \A k \in 1 .. n - p : b[k] = s[p + k]
  <2>1. p + 1 \in Int /\ n \in Int /\ \A k \in p + 1 .. n : s[k] \in S
    BY <1>1 DEF n
  <2>2. /\ b \in Seq(S) /\ Len(b) = IF p + 1 <= n THEN n - (p + 1) + 1 ELSE 0
        /\ \A k \in 1 .. n - (p + 1) + 1 : b[k] = s[p + 1 + k - 1]
    BY <2>1, SubSeqProperties
  <2>. HIDE DEF b
  <2>3. p \in 1 .. n BY DEF n
  <2>. QED BY <1>1, <2>2, <2>3
<1>4. RemoveAt(s, p) = a \o b BY DEF RemoveAt, n
<1>. HIDE DEF a, b
<1>5. /\ a \o b \in Seq(S) /\ Len(a \o b) = Len(a) + Len(b)
      /\ \A k \in 1 .. Len(a) + Len(b) :
            (a \o b)[k] = IF k <= Len(a) THEN a[k] ELSE b[k - Len(a)]
  BY <1>2, <1>3, ConcatProperties
<1>6. p \in 1 .. n BY DEF n
<1>. DEFINE c == a \o b
<1>7. /\ c \in Seq(S) /\ Len(c) = n - 1
      /\ \A k \in 1 .. n - 1 : c[k] = IF k <= p - 1 THEN a[k] ELSE b[k - (p - 1)]
  <2>1. Len(a) + Len(b) = n - 1 BY <1>1, <1>2, <1>3, <1>6
  <2>. QED BY <1>2, <1>5, <2>1
<1>. HIDE DEF c
<1>8. ASSUME NEW k \in 1 .. n - 1 PROVE c[k] = IF k < p THEN s[k] ELSE s[k + 1]
  <2>1. CASE k < p
    <3>1. k <= p - 1 /\ k \in 1 .. p - 1 BY <1>6, <2>1
    <3>. QED BY <1>2, <1>7, <2>1, <3>1
  <2>2. CASE ~(k < p)
    <3>1. ~(k <= p - 1) /\ k - (p - 1) \in 1 .. n - p /\ p + (k - (p - 1)) = k + 1
      BY <1>1, <1>6, <2>2
    <3>. QED BY <1>3, <1>7, <2>2, <3>1
  <2>. QED BY <2>1, <2>2
<1>. QED BY <1>4, <1>7, <1>8 DEF c, n

LEMMA InsertAtIs ==
  ASSUME NEW S, NEW s \in Seq(S), NEW t \in 1 .. Len(s) + 1, NEW e \in S
  PROVE  /\ InsertAt(s, t, e) \in Seq(S) /\ Len(InsertAt(s, t, e)) = Len(s) + 1
         /\ InsertAt(s, t, e)[t] = e
         /\ \A k \in 1 .. Len(s) :
               InsertAt(s, t, e)[IF k < t THEN k ELSE k + 1] = s[k]
<1>. DEFINE n == Len(s)
            a == SubSeq(s, 1, t - 1)
            b == SubSeq(s, t, n)
            ae == a \o <<e>>
<1>1. n \in Nat /\ \A k \in 1 .. n : s[k] \in S BY LenProperties, ElementOfSeq
<1>. HIDE DEF n
<1>2. t \in 1 .. n + 1 BY DEF n
<1>3. /\ a \in Seq(S) /\ Len(a) = t - 1
      /\ \A k \in 1 .. t - 1 : a[k] = s[k]
  <2>1. 1 \in Int /\ t - 1 \in Int /\ \A k \in 1 .. t - 1 : s[k] \in S
    BY <1>1, <1>2
  <2>2. /\ a \in Seq(S) /\ Len(a) = IF 1 <= t - 1 THEN t - 1 - 1 + 1 ELSE 0
        /\ \A k \in 1 .. t - 1 - 1 + 1 : a[k] = s[1 + k - 1]
    BY <2>1, SubSeqProperties
  <2>. HIDE DEF a
  <2>. QED BY <1>2, <2>2
<1>4. /\ b \in Seq(S) /\ Len(b) = n - t + 1
      /\ \A k \in 1 .. n - t + 1 : b[k] = s[t + k - 1]
  <2>1. t \in Int /\ n \in Int /\ \A k \in t .. n : s[k] \in S
    BY <1>1, <1>2
  <2>2. /\ b \in Seq(S) /\ Len(b) = IF t <= n THEN n - t + 1 ELSE 0
        /\ \A k \in 1 .. n - t + 1 : b[k] = s[t + k - 1]
    BY <2>1, SubSeqProperties
  <2>. HIDE DEF b
  <2>. QED BY <1>1, <1>2, <2>2
<1>5. InsertAt(s, t, e) = ae \o b BY DEF InsertAt, n
<1>. HIDE DEF a, b
<1>6. /\ ae \in Seq(S) /\ Len(ae) = t
      /\ \A k \in 1 .. t : ae[k] = IF k = t THEN e ELSE s[k]
  <2>1. ae = Append(a, e) BY <1>3, AppendIsConcat
  <2>2. /\ ae \in Seq(S) /\ Len(ae) = Len(a) + 1
        /\ \A k \in 1 .. Len(a) : ae[k] = a[k]
        /\ ae[Len(a) + 1] = e
    BY <1>3, <2>1, AppendProperties
  <2>. HIDE DEF ae
  <2>3. Len(a) + 1 = t /\ \A k \in 1 .. t : k # t => k \in 1 .. t - 1 BY <1>2, <1>3
  <2>. QED BY <1>3, <2>2, <2>3
<1>. HIDE DEF ae
<1>. DEFINE c == ae \o b
<1>7. /\ c \in Seq(S) /\ Len(c) = n + 1
      /\ \A k \in 1 .. n + 1 : c[k] = IF k <= t THEN ae[k] ELSE b[k - t]
  <2>1. /\ c \in Seq(S) /\ Len(c) = Len(ae) + Len(b)
        /\ \A k \in 1 .. Len(ae) + Len(b) :
              c[k] = IF k <= Len(ae) THEN ae[k] ELSE b[k - Len(ae)]
    BY <1>4, <1>6, ConcatProperties
  <2>2. Len(ae) + Len(b) = n + 1 BY <1>1, <1>2, <1>4, <1>6
  <2>. QED BY <1>6, <2>1, <2>2
<1>. HIDE DEF c
<1>8. ASSUME NEW k \in 1 .. n + 1
      PROVE  c[k] = IF k < t THEN s[k] ELSE IF k = t THEN e ELSE s[k - 1]
  <2>1. CASE k <= t
    <3>1. k \in 1 .. t /\ (k # t => k < t) BY <1>2, <2>1
    <3>2. c[k] = IF k = t THEN e ELSE s[k] BY <1>6, <1>7, <2>1, <3>1
    <3>3. ~(t < t) BY <1>2
    <3>. QED BY <3>1, <3>2, <3>3
  <2>2. CASE ~(k <= t)
    <3>1. k - t \in 1 .. n - t + 1 /\ t + (k - t) - 1 = k - 1 /\ ~(k < t) /\ k # t
      BY <1>1, <1>2, <2>2
    <3>. QED BY <1>4, <1>7, <2>2, <3>1
  <2>. QED BY <2>1, <2>2
<1>9. c[t] = e BY <1>2, <1>8
<1>10. ASSUME NEW k \in 1 .. n PROVE c[IF k < t THEN k ELSE k + 1] = s[k]
  <2>1. CASE k < t BY <1>1, <1>8, <2>1
  <2>2. CASE ~(k < t)
    <3>1. k + 1 \in 1 .. n + 1 /\ ~(k + 1 < t) /\ k + 1 # t /\ k + 1 - 1 = k
      BY <1>1, <1>2, <2>2
    <3>. QED BY <1>8, <2>2, <3>1
  <2>. QED BY <2>1, <2>2
<1>. QED BY <1>5, <1>7, <1>9, <1>10 DEF c, n
Precedes(L, x, y) == \E i, j \in DOMAIN L : L[i] = x /\ L[j] = y /\ i < j

(* A list in which one element moved to place t, and none other.           *)
LEMMA MovingOne ==
  ASSUME NEW R, NEW L, Enumerates(L, R), NEW p \in DOMAIN L, NEW t \in DOMAIN L,
         NEW M \in Seq(R), Len(M) = Cardinality(R), M[t] = L[p],
         \A k \in DOMAIN L : k # p =>
            LET w == IF k < p THEN k ELSE k - 1
            IN  M[IF w < t THEN w ELSE w + 1] = L[k]
  PROVE  /\ Enumerates(M, R)
         /\ \A i, j \in DOMAIN L : i # p /\ j # p /\ i < j => Precedes(M, L[i], L[j])
         /\ \A k \in DOMAIN L : k # p =>
               /\ (IF k < p THEN k ELSE k - 1) < t => Precedes(M, L[k], L[p])
               /\ ~((IF k < p THEN k ELSE k - 1) < t) => Precedes(M, L[p], L[k])
<1>. DEFINE n == Cardinality(R)
            w(k) == IF k < p THEN k ELSE k - 1
            to(k) == IF w(k) < t THEN w(k) ELSE w(k) + 1
<1>1. /\ IsFiniteSet(R) /\ n \in Nat /\ L \in [1 .. n -> R] /\ DOMAIN L = 1 .. n
      /\ \A i, j \in 1 .. n : L[i] = L[j] => i = j
      /\ \A x \in R : \E i \in 1 .. n : L[i] = x
  BY FS_CardinalityType DEF Enumerates
<1>2. DOMAIN M = 1 .. n /\ M \in [1 .. n -> R] BY LenProperties
<1>3. p \in 1 .. n /\ t \in 1 .. n BY <1>1
<1>4. ASSUME NEW k \in 1 .. n, k # p
      PROVE  /\ to(k) \in 1 .. n /\ M[to(k)] = L[k]
             /\ (w(k) < t => to(k) < t) /\ (~(w(k) < t) => t < to(k))
  <2>0. k \in DOMAIN L BY <1>1
  <2>1. M[to(k)] = L[k] BY <1>4, <2>0
  <2>2. w(k) \in 1 .. n - 1 BY <1>1, <1>3, <1>4
  <2>. HIDE DEF w
  <2>3. to(k) \in 1 .. n
    <3>. HIDE DEF n
    <3>1. CASE w(k) < t BY <1>1, <2>2, <3>1
    <3>2. CASE ~(w(k) < t) BY <1>1, <2>2, <3>2
    <3>. QED BY <3>1, <3>2
  <2>4. (w(k) < t => to(k) < t) /\ (~(w(k) < t) => t < to(k)) BY <1>3, <2>2
  <2>. QED BY <2>1, <2>3, <2>4
<1>5. ASSUME NEW i \in 1 .. n, NEW j \in 1 .. n, i # p, j # p, i < j
      PROVE  to(i) < to(j)
  <2>1. w(i) \in Int /\ w(j) \in Int /\ w(i) < w(j) BY <1>3, <1>5
  <2>. HIDE DEF w
  <2>. QED BY <1>3, <2>1
<1>. HIDE DEF to
<1>6. Enumerates(M, R)
  <2>1. ASSUME NEW x \in R PROVE \E i \in 1 .. n : M[i] = x
    <3>1. PICK k \in 1 .. n : L[k] = x BY <1>1
    <3>2. CASE k = p BY <1>3, <3>1, <3>2
    <3>3. CASE k # p BY <1>4, <3>1, <3>3
    <3>. QED BY <3>2, <3>3
  <2>2. M \in Surjection(1 .. n, R) BY <1>2, <2>1 DEF Surjection
  <2>3. IsFiniteSet(1 .. n) /\ Cardinality(1 .. n) = Cardinality(R) BY <1>1, IntervalCounts
  <2>4. M \in Injection(1 .. n, R) BY <2>2, <2>3, FS_SurjSameCardinalityImpliesInj
  <2>5. \A i, j \in 1 .. n : M[i] = M[j] => i = j
    <3>. HIDE DEF n
    <3>. QED BY <2>4 DEF Injection, IsInjective
  <2>. QED BY <1>1, <1>2, <2>1, <2>5 DEF Enumerates
<1>7. ASSUME NEW i \in 1 .. n, NEW j \in 1 .. n, i # p, j # p, i < j
      PROVE  Precedes(M, L[i], L[j])
  BY <1>2, <1>4, <1>5, <1>7 DEF Precedes
<1>8. ASSUME NEW k \in 1 .. n, k # p
      PROVE  /\ w(k) < t => Precedes(M, L[k], L[p])
             /\ ~(w(k) < t) => Precedes(M, L[p], L[k])
  <2>. HIDE DEF w
  <2>. QED BY <1>2, <1>3, <1>4, <1>8 DEF Precedes
<1>. QED BY <1>1, <1>6, <1>7, <1>8

LEMMA PositionIs ==
  ASSUME NEW L, NEW i \in DOMAIN L, \A j \in DOMAIN L : L[j] = L[i] => j = i
  PROVE  Position(L, L[i]) = i
BY DEF Position

(* insertBefore puts the row where it was asked for, and moves no other    *)
(* row past another.                                                       *)
LEMMA InsertBeforeMoves ==
  ASSUME NEW R, NEW L, Enumerates(L, R), NEW x \in R, NEW anchor,
         anchor = <<>> \/ \E y \in R : y # x /\ anchor = <<y>>
  PROVE  LET M == InsertBefore(L, x, anchor)
         IN  /\ Enumerates(M, R)
             /\ \A u, v \in R : u # x /\ v # x /\ Precedes(L, u, v) => Precedes(M, u, v)
             /\ anchor = <<>> => \A u \in R : u # x => Precedes(M, u, x)
             /\ \A y \in R : anchor = <<y>> =>
                   /\ Precedes(M, x, y)
                   /\ \A u \in R : u # x =>
                         /\ Precedes(L, u, y) => Precedes(M, u, x)
                         /\ Precedes(L, y, u) => Precedes(M, x, u)
<1>. DEFINE n == Cardinality(R)
            M == InsertBefore(L, x, anchor)
<1>1. /\ IsFiniteSet(R) /\ n \in Nat /\ L \in [1 .. n -> R] /\ DOMAIN L = 1 .. n
      /\ \A i, j \in 1 .. n : L[i] = L[j] => i = j
      /\ \A e \in R : \E i \in 1 .. n : L[i] = e
  BY FS_CardinalityType DEF Enumerates
<1>2. L \in Seq(R) /\ Len(L) = n
  <2>. HIDE DEF n
  <2>. QED BY <1>1, FunctionIsSeq
<1>3. PICK p \in 1 .. n : L[p] = x BY <1>1
<1>4. Position(L, x) = p BY <1>1, <1>3, PositionIs
<1>. DEFINE W == RemoveAt(L, p)
<1>. HIDE DEF n
<1>5. /\ W \in Seq(R) /\ Len(W) = n - 1
      /\ \A k \in 1 .. n - 1 : W[k] = IF k < p THEN L[k] ELSE L[k + 1]
  BY <1>2, <1>3, RemoveAtIs
<1>. HIDE DEF W
<1>6. \A u, v \in R : Precedes(L, u, v) => \E i, j \in 1 .. n : L[i] = u /\ L[j] = v /\ i < j
  BY <1>1 DEF Precedes
<1>7. ASSUME NEW k \in 1 .. n, k # p
      PROVE  /\ (IF k < p THEN k ELSE k - 1) \in 1 .. n - 1
             /\ W[IF k < p THEN k ELSE k - 1] = L[k]
  <2>1. CASE k < p
    <3>1. k \in 1 .. n - 1 BY <1>1, <1>3, <2>1
    <3>. QED BY <1>5, <2>1, <3>1
  <2>2. CASE ~(k < p)
    <3>1. k - 1 \in 1 .. n - 1 /\ ~(k - 1 < p) /\ k - 1 + 1 = k BY <1>1, <1>3, <1>7, <2>2
    <3>. QED BY <1>5, <2>2, <3>1
  <2>. QED BY <2>1, <2>2

(* The place it goes to, and what that says of the others.                 *)
<1>8. ASSUME NEW t \in 1 .. n, M \in Seq(R), Len(M) = n, M[t] = x,
             \A k \in 1 .. n - 1 : M[IF k < t THEN k ELSE k + 1] = W[k]
      PROVE  /\ Enumerates(M, R)
             /\ \A i, j \in 1 .. n : i # p /\ j # p /\ i < j => Precedes(M, L[i], L[j])
             /\ \A k \in 1 .. n : k # p =>
                   /\ (IF k < p THEN k ELSE k - 1) < t => Precedes(M, L[k], x)
                   /\ ~((IF k < p THEN k ELSE k - 1) < t) => Precedes(M, x, L[k])
  <2>. HIDE DEF M
  <2>1. \A k \in DOMAIN L : k # p =>
            LET w == IF k < p THEN k ELSE k - 1
            IN  M[IF w < t THEN w ELSE w + 1] = L[k]
    BY <1>1, <1>7, <1>8
  <2>2. p \in DOMAIN L /\ t \in DOMAIN L /\ Len(M) = Cardinality(R) /\ M[t] = L[p]
    BY <1>1, <1>3, <1>8 DEF n
  <2>3. /\ Enumerates(M, R)
        /\ \A i, j \in DOMAIN L : i # p /\ j # p /\ i < j => Precedes(M, L[i], L[j])
        /\ \A k \in DOMAIN L : k # p =>
              /\ (IF k < p THEN k ELSE k - 1) < t => Precedes(M, L[k], L[p])
              /\ ~((IF k < p THEN k ELSE k - 1) < t) => Precedes(M, L[p], L[k])
    BY <1>8, <2>1, <2>2, MovingOne
  <2>. QED BY <1>1, <1>3, <2>3
<1>9. CASE anchor = <<>>
  <2>1. M = Append(W, x) BY <1>4, <1>9 DEF InsertBefore, W
  <2>2. /\ M \in Seq(R) /\ Len(M) = n /\ M[n] = x
        /\ \A k \in 1 .. n - 1 : M[k] = W[k]
    BY <1>1, <1>5, <2>1, AppendProperties
  <2>3. n \in 1 .. n BY <1>1, <1>3
  <2>. HIDE DEF M
  <2>4. \A k \in 1 .. n - 1 : M[IF k < n THEN k ELSE k + 1] = W[k] BY <1>1, <2>2
  <2>5. /\ Enumerates(M, R)
        /\ \A i, j \in 1 .. n : i # p /\ j # p /\ i < j => Precedes(M, L[i], L[j])
        /\ \A k \in 1 .. n : k # p =>
              /\ (IF k < p THEN k ELSE k - 1) < n => Precedes(M, L[k], x)
              /\ ~((IF k < p THEN k ELSE k - 1) < n) => Precedes(M, x, L[k])
    BY <1>8, <2>2, <2>3, <2>4 DEF M
  <2>6. \A u \in R : u # x => Precedes(M, u, x)
    <3>. SUFFICES ASSUME NEW u \in R, u # x PROVE Precedes(M, u, x) OBVIOUS
    <3>1. PICK k \in 1 .. n : L[k] = u /\ k # p BY <1>1, <1>3
    <3>2. (IF k < p THEN k ELSE k - 1) < n BY <1>1, <1>3, <3>1
    <3>. QED BY <2>5, <3>1, <3>2
  <2>7. \A u, v \in R : u # x /\ v # x /\ Precedes(L, u, v) => Precedes(M, u, v)
    BY <1>3, <1>6, <2>5
  <2>8. \A y \in R : anchor # <<y>> BY <1>9
  <2>. QED BY <2>5, <2>6, <2>7, <2>8 DEF M
<1>10. ASSUME NEW y \in R, y # x, anchor = <<y>>
       PROVE  /\ Enumerates(M, R)
              /\ \A u, v \in R : u # x /\ v # x /\ Precedes(L, u, v) => Precedes(M, u, v)
              /\ Precedes(M, x, y)
              /\ \A u \in R : u # x => /\ Precedes(L, u, y) => Precedes(M, u, x)
                                       /\ Precedes(L, y, u) => Precedes(M, x, u)
  <2>1. PICK q \in 1 .. n : L[q] = y /\ q # p BY <1>1, <1>3, <1>10
  <2>. DEFINE t == IF q < p THEN q ELSE q - 1
  <2>2. t \in 1 .. n - 1 /\ W[t] = y BY <1>7, <2>1
  <2>. HIDE DEF t
  <2>3. ASSUME NEW k \in 1 .. n - 1, W[k] = y PROVE k = t
    <3>1. CASE k < p
      <4>1. L[k] = y /\ k \in 1 .. n BY <1>1, <1>5, <2>3, <3>1
      <4>2. k = q BY <1>1, <2>1, <4>1
      <4>. QED BY <3>1, <4>2 DEF t
    <3>2. CASE ~(k < p)
      <4>1. L[k + 1] = y /\ k + 1 \in 1 .. n BY <1>1, <1>5, <2>3, <3>2
      <4>2. k + 1 = q BY <1>1, <2>1, <4>1
      <4>3. ~(q < p) /\ k = q - 1 BY <1>3, <3>2, <4>2
      <4>. QED BY <4>3 DEF t
    <3>. QED BY <3>1, <3>2
  <2>4. Position(W, y) = t
    <3>1. DOMAIN W = 1 .. n - 1 BY <1>5, LenProperties
    <3>2. t \in DOMAIN W /\ \A j \in DOMAIN W : W[j] = W[t] => j = t BY <2>2, <2>3, <3>1
    <3>3. Position(W, W[t]) = t BY <3>2, PositionIs
    <3>. QED BY <2>2, <3>3
  <2>5. M = InsertAt(W, t, x)
    <3>1. anchor # <<>> /\ anchor[1] = y BY <1>10
    <3>. QED BY <1>4, <2>4, <3>1 DEF InsertBefore, W
  <2>6. /\ M \in Seq(R) /\ Len(M) = n /\ M[t] = x
        /\ \A k \in 1 .. n - 1 : M[IF k < t THEN k ELSE k + 1] = W[k]
    <3>. HIDE DEF M
    <3>1. t \in 1 .. Len(W) + 1 BY <1>1, <1>5, <2>2
    <3>2. /\ InsertAt(W, t, x) \in Seq(R) /\ Len(InsertAt(W, t, x)) = Len(W) + 1
          /\ InsertAt(W, t, x)[t] = x
          /\ \A k \in 1 .. Len(W) : InsertAt(W, t, x)[IF k < t THEN k ELSE k + 1] = W[k]
      <4>1. W \in Seq(R) BY <1>5
      <4>. DEFINE J == InsertAt(W, t, x)
      <4>2. J \in Seq(R) /\ Len(J) = Len(W) + 1 BY <3>1, <4>1, InsertAtIs
      <4>3. J[t] = x BY <3>1, <4>1, InsertAtIs
      <4>4. \A k \in 1 .. Len(W) : J[IF k < t THEN k ELSE k + 1] = W[k] BY <3>1, <4>1, InsertAtIs
      <4>. QED BY <4>2, <4>3, <4>4
    <3>3. Len(W) + 1 = n BY <1>1, <1>5
    <3>. QED BY <1>5, <2>5, <3>2, <3>3
  <2>. HIDE DEF M
  <2>7. t \in 1 .. n BY <1>1, <2>2
  <2>9. /\ Enumerates(M, R)
        /\ \A i, j \in 1 .. n : i # p /\ j # p /\ i < j => Precedes(M, L[i], L[j])
        /\ \A k \in 1 .. n : k # p =>
              /\ (IF k < p THEN k ELSE k - 1) < t => Precedes(M, L[k], x)
              /\ ~((IF k < p THEN k ELSE k - 1) < t) => Precedes(M, x, L[k])
    BY <1>8, <2>6, <2>7 DEF M
  <2>10. \A u, v \in R : u # x /\ v # x /\ Precedes(L, u, v) => Precedes(M, u, v)
    BY <1>3, <1>6, <2>9
  <2>11. Precedes(M, x, y)
    <3>1. ~((IF q < p THEN q ELSE q - 1) < t) BY <2>2 DEF t
    <3>. QED BY <2>1, <2>9, <3>1
  <2>12. ASSUME NEW u \in R, u # x
         PROVE  /\ Precedes(L, u, y) => Precedes(M, u, x)
                /\ Precedes(L, y, u) => Precedes(M, x, u)
    <3>1. PICK k \in 1 .. n : L[k] = u /\ k # p BY <1>1, <1>3, <2>12
    <3>2. Precedes(L, u, y) => k < q BY <1>1, <1>6, <2>1, <3>1
    <3>3. Precedes(L, y, u) => q < k BY <1>1, <1>6, <2>1, <3>1
    <3>4. k < q => (IF k < p THEN k ELSE k - 1) < t BY <1>3, <2>1, <3>1 DEF t
    <3>5. q < k => ~((IF k < p THEN k ELSE k - 1) < t) BY <1>3, <2>1, <3>1 DEF t
    <3>. QED BY <2>9, <3>1, <3>2, <3>3, <3>4, <3>5
  <2>. QED BY <2>9, <2>10, <2>11, <2>12
<1>11. ASSUME NEW y \in R, y # x, anchor = <<y>>
       PROVE  /\ anchor # <<>>
              /\ \A z \in R : anchor = <<z>> => z = y
  BY <1>11
<1>. QED BY <1>9, <1>10, <1>11

(* Numbers up to n that increase n times are the numbers up to n.          *)
LEMMA IncreasingIsNotBelow ==
  ASSUME NEW n \in Nat, NEW h \in [1 .. n -> 1 .. n],
         \A a, b \in 1 .. n : a < b => h[a] < h[b]
  PROVE  \A a \in 1 .. n : a <= h[a]
<1>. DEFINE Bad == {a \in 1 .. n : h[a] < a}
<1>1. Bad = {}
  <2>. SUFFICES ASSUME Bad # {} PROVE FALSE OBVIOUS
  <2>1. Bad \in SUBSET Nat OBVIOUS
  <2>2. PICK a \in Bad : \A b \in Bad : a <= b BY <2>1, LeastNatural
  <2>3. a \in 1 .. n /\ h[a] \in 1 .. n /\ h[a] < a BY <2>2
  <2>4. a - 1 \in 1 .. n /\ a - 1 < a /\ ~(a <= a - 1) BY <2>3
  <2>5. a - 1 \notin Bad BY <2>2, <2>4
  <2>6. h[a - 1] \in 1 .. n /\ ~(h[a - 1] < a - 1) /\ h[a - 1] < h[a]
    BY <2>3, <2>4, <2>5
  <2>. QED BY <2>3, <2>4, <2>6
<1>2. \A a \in 1 .. n : h[a] \in 1 .. n OBVIOUS
<1>. QED BY <1>1, <1>2

LEMMA IncreasingIsIdentity ==
  ASSUME NEW n \in Nat, NEW h \in [1 .. n -> 1 .. n],
         \A a, b \in 1 .. n : a < b => h[a] < h[b]
  PROVE  \A a \in 1 .. n : h[a] = a
<1>. DEFINE g == [a \in 1 .. n |-> n + 1 - h[n + 1 - a]]
<1>1. \A a \in 1 .. n : n + 1 - a \in 1 .. n /\ h[n + 1 - a] \in 1 .. n OBVIOUS
<1>2. g \in [1 .. n -> 1 .. n] BY <1>1
<1>3. ASSUME NEW a \in 1 .. n, NEW b \in 1 .. n, a < b PROVE g[a] < g[b]
  <2>1. n + 1 - b < n + 1 - a BY <1>3
  <2>2. h[n + 1 - b] < h[n + 1 - a] BY <1>1, <2>1
  <2>. QED BY <1>1, <2>2
<1>. HIDE DEF g
<1>4. \A a \in 1 .. n : a <= g[a] BY <1>2, <1>3, IncreasingIsNotBelow
<1>5. \A a \in 1 .. n : a <= h[a] BY IncreasingIsNotBelow
<1>6. ASSUME NEW a \in 1 .. n PROVE h[a] = a
  <2>1. n + 1 - a \in 1 .. n /\ n + 1 - (n + 1 - a) = a /\ h[a] \in 1 .. n OBVIOUS
  <2>2. g[n + 1 - a] = n + 1 - h[a] BY <2>1 DEF g
  <2>3. n + 1 - a <= n + 1 - h[a] BY <1>4, <2>1, <2>2
  <2>4. a <= h[a] BY <1>5
  <2>5. a \in Int /\ n \in Int /\ h[a] \in Int BY <2>1
  <2>6. h[a] <= a BY <2>3, <2>5
  <2>. QED BY <2>4, <2>5, <2>6
<1>. QED BY <1>6

(* Two lists of the same rows in the same order are the same list.         *)
LEMMA OneOrderOneList ==
  ASSUME NEW R, NEW L, NEW N, Enumerates(L, R), Enumerates(N, R),
         \A a, b \in DOMAIN N : a < b => Precedes(L, N[a], N[b])
  PROVE  L = N
<1>. DEFINE n == Cardinality(R)
            h == [a \in 1 .. n |-> CHOOSE i \in 1 .. n : L[i] = N[a]]
<1>1. /\ n \in Nat /\ L \in [1 .. n -> R] /\ N \in [1 .. n -> R]
      /\ DOMAIN L = 1 .. n /\ DOMAIN N = 1 .. n
      /\ \A i, j \in 1 .. n : L[i] = L[j] => i = j
      /\ \A x \in R : \E i \in 1 .. n : L[i] = x
  BY FS_CardinalityType DEF Enumerates
<1>. HIDE DEF n
<1>2. \A a \in 1 .. n : h[a] \in 1 .. n /\ L[h[a]] = N[a]
  <2>. SUFFICES ASSUME NEW a \in 1 .. n PROVE h[a] \in 1 .. n /\ L[h[a]] = N[a] OBVIOUS
  <2>1. \E i \in 1 .. n : L[i] = N[a] BY <1>1
  <2>. QED BY <2>1
<1>3. h \in [1 .. n -> 1 .. n] BY <1>2
<1>. HIDE DEF h
<1>4. ASSUME NEW a \in 1 .. n, NEW b \in 1 .. n, a < b PROVE h[a] < h[b]
  <2>1. PICK i \in 1 .. n, j \in 1 .. n : L[i] = N[a] /\ L[j] = N[b] /\ i < j
    <3>1. Precedes(L, N[a], N[b]) BY <1>1, <1>4
    <3>. QED BY <1>1, <3>1 DEF Precedes
  <2>2. h[a] = i /\ h[b] = j BY <1>1, <1>2, <2>1
  <2>. QED BY <2>1, <2>2
<1>5. \A a \in 1 .. n : h[a] = a BY <1>1, <1>3, <1>4, IncreasingIsIdentity
<1>6. \A a \in 1 .. n : L[a] = N[a] BY <1>2, <1>5
<1>. QED BY <1>1, <1>6

(* The new places of the rows among the old ones.                          *)
LEMMA PreviousIndexesAre ==
  ASSUME NEW R, NEW previous, NEW next, Enumerates(previous, R), Enumerates(next, R)
  PROVE  /\ PreviousIndexes(previous, next) \in [1 .. Cardinality(R) -> Nat]
         /\ \A i \in 1 .. Cardinality(R) :
               /\ PreviousIndexes(previous, next)[i] \in 1 .. Cardinality(R)
               /\ previous[PreviousIndexes(previous, next)[i]] = next[i]
<1>. DEFINE n == Cardinality(R)
            at(row) == {i \in DOMAIN previous : previous[i] = row}
<1>1. /\ n \in Nat /\ previous \in [1 .. n -> R] /\ next \in [1 .. n -> R]
      /\ DOMAIN previous = 1 .. n /\ DOMAIN next = 1 .. n
      /\ \A i, j \in 1 .. n : previous[i] = previous[j] => i = j
      /\ \A x \in R : \E i \in 1 .. n : previous[i] = x
  BY FS_CardinalityType DEF Enumerates
<1>. HIDE DEF n
<1>2. ASSUME NEW row \in R
      PROVE  PreviousIndex(previous, row) \in 1 .. n
             /\ previous[PreviousIndex(previous, row)] = row
  <2>1. PICK i \in 1 .. n : previous[i] = row BY <1>1
  <2>2. \A j \in at(row) : j = i BY <1>1, <2>1
  <2>3. i \in at(row) BY <1>1, <2>1
  <2>4. \A j \in at(row) : j <= i BY <2>2
  <2>. HIDE DEF at
  <2>5. PreviousIndex(previous, row) = CHOOSE k \in at(row) : \A j \in at(row) : j <= k
    BY <2>3 DEF PreviousIndex, at
  <2>6. PreviousIndex(previous, row) \in at(row) BY <2>3, <2>4, <2>5
  <2>. QED BY <2>1, <2>2, <2>6
<1>3. PreviousIndexes(previous, next) = [i \in 1 .. n |-> PreviousIndex(previous, next[i])]
  BY <1>1 DEF PreviousIndexes
<1>4. \A i \in 1 .. n : /\ PreviousIndexes(previous, next)[i] \in 1 .. n
                        /\ previous[PreviousIndexes(previous, next)[i]] = next[i]
  BY <1>1, <1>2, <1>3
<1>5. PreviousIndexes(previous, next) \in [1 .. n -> Nat] BY <1>3, <1>4
<1>. QED BY <1>4, <1>5 DEF n

(* One step of the loop: the rows kept and those treated stand in the new  *)
(* order.                                                                  *)
InOrder(L, next, K) == \A a, b \in K : a < b => Precedes(L, next[a], next[b])

LEMMA MoveRowLists ==
  ASSUME NEW R, NEW L, NEW next, Enumerates(L, R), Enumerates(next, R), NEW keep,
         NEW i \in 1 .. Cardinality(R)
  PROVE  Enumerates(MoveRow(L, next, keep, i), R)
<1>. DEFINE n == Cardinality(R)
            anchor == IF i = n THEN <<>> ELSE <<next[i + 1]>>
<1>1. /\ n \in Nat /\ next \in [1 .. n -> R]
      /\ \A a, b \in 1 .. n : next[a] = next[b] => a = b
  BY FS_CardinalityType DEF Enumerates
<1>2. Len(next) = n
  <2>. HIDE DEF n
  <2>. QED BY <1>1, FunctionIsSeq
<1>. HIDE DEF n
<1>3. i \in 1 .. n BY DEF n
<1>4. i # n => i + 1 \in 1 .. n /\ i + 1 # i BY <1>1, <1>3
<1>5. /\ next[i] \in R
      /\ anchor = <<>> \/ \E y \in R : y # next[i] /\ anchor = <<y>>
  BY <1>1, <1>3, <1>4
<1>6. MoveRow(L, next, keep, i) = IF i \in keep THEN L ELSE InsertBefore(L, next[i], anchor)
  BY <1>2 DEF MoveRow
<1>. HIDE DEF anchor
<1>7. Enumerates(InsertBefore(L, next[i], anchor), R) BY <1>5, InsertBeforeMoves
<1>. QED BY <1>6, <1>7

LEMMA MoveRowOrders ==
  ASSUME NEW R, NEW L, NEW next, Enumerates(L, R), Enumerates(next, R),
         NEW keep \in SUBSET (1 .. Cardinality(R)), NEW i \in 1 .. Cardinality(R),
         InOrder(L, next, keep \cup (i + 1 .. Cardinality(R)))
  PROVE  /\ Enumerates(MoveRow(L, next, keep, i), R)
         /\ InOrder(MoveRow(L, next, keep, i), next, keep \cup (i .. Cardinality(R)))
<1>. DEFINE n == Cardinality(R)
            M == MoveRow(L, next, keep, i)
            x == next[i]
<1>1. /\ n \in Nat /\ next \in [1 .. n -> R]
      /\ \A a, b \in 1 .. n : next[a] = next[b] => a = b
  BY FS_CardinalityType DEF Enumerates
<1>2. Len(next) = n
  <2>. HIDE DEF n
  <2>. QED BY <1>1, FunctionIsSeq
<1>. HIDE DEF n
<1>3. i \in 1 .. n /\ keep \subseteq 1 .. n BY DEF n
<1>4. InOrder(L, next, keep \cup (i + 1 .. n)) BY DEF n
<1>5. CASE i \in keep
  <2>1. M = L BY <1>5 DEF MoveRow
  <2>2. keep \cup (i .. n) = keep \cup (i + 1 .. n) BY <1>1, <1>3, <1>5
  <2>. QED BY <1>4, <2>1, <2>2 DEF n
<1>6. CASE i \notin keep
  <2>. DEFINE anchor == IF i = n THEN <<>> ELSE <<next[i + 1]>>
  <2>1. M = InsertBefore(L, x, anchor) BY <1>2, <1>6 DEF MoveRow
  <2>2. x \in R /\ \A a \in 1 .. n : next[a] \in R /\ (a # i => next[a] # x)
    BY <1>1, <1>3
  <2>3. i # n => i + 1 \in 1 .. n /\ i + 1 # i BY <1>1, <1>3
  <2>4. anchor = <<>> \/ \E y \in R : y # x /\ anchor = <<y>> BY <2>2, <2>3
  <2>. HIDE DEF M, x, anchor
  <2>5. /\ Enumerates(M, R)
        /\ \A u, v \in R : u # x /\ v # x /\ Precedes(L, u, v) => Precedes(M, u, v)
        /\ anchor = <<>> => \A u \in R : u # x => Precedes(M, u, x)
        /\ \A y \in R : anchor = <<y>> =>
              /\ Precedes(M, x, y)
              /\ \A u \in R : u # x =>
                    /\ Precedes(L, u, y) => Precedes(M, u, x)
                    /\ Precedes(L, y, u) => Precedes(M, x, u)
    BY <2>1, <2>2, <2>4, InsertBeforeMoves
  <2>6. ASSUME NEW a \in keep \cup (i .. n), NEW b \in keep \cup (i .. n), a < b
        PROVE  Precedes(M, next[a], next[b])
    <3>0. a \in 1 .. n /\ b \in 1 .. n BY <1>1, <1>3
    <3>1. CASE a # i /\ b # i
      <4>1. a \in keep \cup (i + 1 .. n) /\ b \in keep \cup (i + 1 .. n)
        BY <1>1, <1>3, <3>1
      <4>2. Precedes(L, next[a], next[b]) BY <1>4, <2>6, <4>1 DEF InOrder
      <4>. QED BY <2>2, <2>5, <3>0, <3>1, <4>2
    <3>2. CASE a = i
      <4>1. i # n /\ i + 1 \in 1 .. n /\ b # i BY <1>1, <1>3, <2>6, <3>0, <3>2
      <4>. DEFINE y == next[i + 1]
      <4>2. y \in R /\ anchor = <<y>> BY <2>2, <4>1 DEF anchor
      <4>. HIDE DEF y
      <4>3. CASE b = i + 1 BY <2>5, <3>2, <4>2, <4>3 DEF x, y
      <4>4. CASE b # i + 1
        <5>1. /\ i + 1 < b
              /\ i + 1 \in keep \cup (i + 1 .. n) /\ b \in keep \cup (i + 1 .. n)
          BY <1>1, <1>3, <2>6, <3>0, <3>2, <4>1, <4>4
        <5>2. Precedes(L, y, next[b]) BY <1>4, <5>1 DEF InOrder, y
        <5>3. next[b] \in R /\ next[b] # x BY <2>2, <3>0, <4>1
        <5>4. Precedes(M, x, next[b]) BY <2>5, <4>2, <5>2, <5>3
        <5>. QED BY <3>2, <5>4 DEF x
      <4>. QED BY <4>3, <4>4
    <3>3. CASE b = i
      <4>1. a # i /\ a \in keep /\ a < i BY <1>1, <1>3, <2>6, <3>0, <3>3
      <4>2. next[a] \in R /\ next[a] # x BY <2>2, <3>0, <4>1
      <4>3. CASE i = n
        <5>1. anchor = <<>> BY <4>3 DEF anchor
        <5>. QED BY <2>5, <3>3, <4>2, <5>1 DEF x
      <4>4. CASE i # n
        <5>. DEFINE y == next[i + 1]
        <5>1. y \in R /\ anchor = <<y>> BY <2>2, <2>3, <4>4 DEF anchor
        <5>. HIDE DEF y
        <5>2. /\ a < i + 1 /\ a \in keep \cup (i + 1 .. n)
              /\ i + 1 \in keep \cup (i + 1 .. n)
          BY <1>1, <1>3, <2>3, <3>0, <4>1, <4>4
        <5>3. Precedes(L, next[a], y) BY <1>4, <5>2 DEF InOrder, y
        <5>4. Precedes(M, next[a], x) BY <2>5, <4>2, <5>1, <5>3
        <5>. QED BY <3>3, <5>4 DEF x
      <4>. QED BY <4>3, <4>4
    <3>. QED BY <3>1, <3>2, <3>3
  <2>7. InOrder(M, next, keep \cup (i .. n)) BY <2>6 DEF InOrder
  <2>. QED BY <2>5, <2>7 DEF M, n
<1>. QED BY <1>5, <1>6

(* The moves of reorderRows bring the list from any order of some rows to  *)
(* any other order of them, whichever rows lisPositions keeps.             *)
THEOREM RowsAreMoved ==
  ASSUME NEW R, NEW previous, NEW next, Enumerates(previous, R), Enumerates(next, R)
  PROVE  MoveRows(previous, previous, next) = next
<1>. DEFINE n == Cardinality(R)
            values == PreviousIndexes(previous, next)
            keep == LisPositions(values)
            D == {L \in [1 .. n -> R] : Enumerates(L, R)}
            Eq(f) == f = [k \in 0 .. n |->
                            IF k = 0 THEN previous
                            ELSE MoveRow(f[k - 1], next, keep, n - k + 1)]
            moved == CHOOSE f : Eq(f)
<1>1. /\ n \in Nat /\ previous \in D /\ next \in [1 .. n -> R]
      /\ DOMAIN previous = 1 .. n /\ DOMAIN next = 1 .. n
  BY FS_CardinalityType DEF Enumerates
<1>2. /\ values \in [1 .. n -> Nat]
      /\ \A i \in 1 .. n : values[i] \in 1 .. n /\ previous[values[i]] = next[i]
  BY PreviousIndexesAre
<1>3. keep \subseteq 1 .. n /\ Increasing(values, keep)
  <2>. HIDE DEF n, values
  <2>. QED BY <1>1, <1>2, LongestRunIsKept
<1>4. MoveRows(previous, previous, next) = moved[n]
  <2>1. Len(next) = n
    <3>. HIDE DEF n
    <3>. QED BY <1>1, FunctionIsSeq
  <2>. QED BY <2>1 DEF MoveRows
<1>5. \A L : Enumerates(L, R) <=> L \in D BY DEF Enumerates
<1>. HIDE DEF n, values, keep, D
<1>6. ASSUME NEW L \in D, NEW k \in 1 .. n
      PROVE  /\ MoveRow(L, next, keep, n - k + 1) \in D
             /\ InOrder(L, next, keep \cup (n - (k - 1) + 1 .. n))
                  => InOrder(MoveRow(L, next, keep, n - k + 1), next,
                             keep \cup (n - k + 1 .. n))
  <2>. DEFINE i == n - k + 1
  <2>1. i \in 1 .. n /\ i + 1 = n - (k - 1) + 1 BY <1>1
  <2>. HIDE DEF i
  <2>2. MoveRow(L, next, keep, i) \in D BY <1>5, <2>1, MoveRowLists DEF n
  <2>3. ASSUME InOrder(L, next, keep \cup (i + 1 .. n))
        PROVE  InOrder(MoveRow(L, next, keep, i), next, keep \cup (i .. n))
    BY <1>3, <1>5, <2>1, <2>3, MoveRowOrders DEF n
  <2>. QED BY <2>1, <2>2, <2>3 DEF i
<1>7. \E f : Eq(f)
  <2>. DEFINE back == [k \in 1 .. n |-> k - 1]
              step == [k \in 1 .. n |-> [L \in D |-> MoveRow(L, next, keep, n - k + 1)]]
  <2>1. step \in [1 .. n -> [D -> D]] BY <1>6
  <2>2. back \in [1 .. n -> Nat] /\ \A k \in 1 .. n : back[k] < k BY <1>1
  <2>. HIDE DEF step, back
  <2>3. Recursion(D, previous, n, step, back) BY <1>1, <2>1, <2>2 DEF Recursion
  <2>4. PICK f : Solves(f, D, previous, n, step, back) BY <2>3, RecursionExists
  <2>5. f \in [0 .. n -> D] /\ f[0] = previous
        /\ \A k \in 1 .. n : f[k] = step[k][f[back[k]]]
    BY <2>4 DEF Solves
  <2>6. ASSUME NEW k \in 1 .. n PROVE f[k] = MoveRow(f[k - 1], next, keep, n - k + 1)
    <3>1. back[k] = k - 1 /\ k - 1 \in 0 .. n BY <1>1 DEF back
    <3>2. f[k - 1] \in D BY <2>5, <3>1
    <3>. QED BY <2>5, <3>1, <3>2 DEF step
  <2>7. \A k \in 0 .. n : f[k] = IF k = 0 THEN previous
                                 ELSE MoveRow(f[k - 1], next, keep, n - k + 1)
    <3>1. \A k \in 0 .. n : k = 0 \/ k \in 1 .. n BY <1>1
    <3>. QED BY <2>5, <2>6, <3>1
  <2>. QED BY <2>5, <2>7
<1>8. Eq(moved) BY <1>7
<1>. HIDE DEF moved
<1>9. moved[0] = previous
      /\ \A k \in 1 .. n : moved[k] = MoveRow(moved[k - 1], next, keep, n - k + 1)
  <2>1. \A k \in 0 .. n : moved[k] = IF k = 0 THEN previous
                                     ELSE MoveRow(moved[k - 1], next, keep, n - k + 1)
    BY <1>8
  <2>2. 0 \in 0 .. n /\ \A k \in 1 .. n : k \in 0 .. n /\ k # 0 BY <1>1
  <2>. QED BY <2>1, <2>2
<1>. DEFINE Good(k) == /\ moved[k] \in D
                       /\ InOrder(moved[k], next, keep \cup (n - k + 1 .. n))
            Bad == {k \in 0 .. n : ~Good(k)}
<1>10. Good(0)
  <2>1. n - 0 + 1 = n + 1 /\ n + 1 .. n = {} BY <1>1
  <2>2. ASSUME NEW a \in keep, NEW b \in keep, a < b
        PROVE  Precedes(previous, next[a], next[b])
    <3>1. values[a] < values[b] BY <1>3, <2>2 DEF Increasing
    <3>2. a \in 1 .. n /\ b \in 1 .. n BY <1>3
    <3>. QED BY <1>1, <1>2, <3>1, <3>2 DEF Precedes
  <2>3. InOrder(previous, next, keep) BY <2>2 DEF InOrder
  <2>4. keep \cup (n - 0 + 1 .. n) = keep BY <2>1
  <2>. QED BY <1>1, <1>9, <2>3, <2>4
<1>11. ASSUME NEW k \in 1 .. n, Good(k - 1) PROVE Good(k)
  BY <1>6, <1>9, <1>11
<1>12. Bad = {}
  <2>. SUFFICES ASSUME Bad # {} PROVE FALSE OBVIOUS
  <2>1. Bad \in SUBSET Nat OBVIOUS
  <2>2. PICK k \in Bad : \A j \in Bad : k <= j BY <2>1, LeastNatural
  <2>3. k \in 0 .. n /\ ~Good(k) BY <2>2
  <2>. HIDE DEF Good
  <2>4. k \in 1 .. n /\ k - 1 \in 0 .. n /\ ~(k <= k - 1) BY <1>1, <1>10, <2>3
  <2>5. Good(k - 1) BY <2>2, <2>4
  <2>. QED BY <1>11, <2>3, <2>4, <2>5
<1>13. Good(n)
  <2>1. n \in 0 .. n BY <1>1
  <2>. HIDE DEF Good
  <2>. QED BY <1>12, <2>1
<1>14. keep \cup (n - n + 1 .. n) = 1 .. n
  <2>1. n - n + 1 = 1 BY <1>1
  <2>. QED BY <1>1, <1>3, <2>1
<1>15. Enumerates(moved[n], R) /\ InOrder(moved[n], next, 1 .. n) BY <1>5, <1>13, <1>14
<1>16. moved[n] = next BY <1>1, <1>15, OneOrderOneList DEF InOrder
<1>. QED BY <1>4, <1>16

-----------------------------------------------------------------------------
(* The site's list of locations (LocationsCache).                          *)

USE CacheAssumption

(* The cached list was read at most one request before it was stored; a    *)
(* request under way is no older than its timeout; and what was served is  *)
(* in the cache, or something newer is.                                    *)
CacheAge == cache.list # NoList => cache.fetched - cache.read <= Timeout

RequestAges == \A r \in Requests :
    /\ Pending(r) => request[r].asked <= now /\ now - request[r].asked <= Timeout
    /\ request[r].pc = "answered" => /\ request[r].list \in Lists
                                     /\ request[r].asked <= request[r].read
                                     /\ request[r].read <= now

FallBack == \A r \in Requests :
    request[r].pc = "served" /\ request[r].list # NoList => cache.list # NoList

CacheInv == CacheTypeOK /\ CacheAge /\ RequestAges /\ FallBack /\ ServedListsAreRecent

LEMMA CacheInitInv == CacheInit => CacheInv
BY DEF CacheInit, Idle, CacheInv, CacheTypeOK, CacheAge, RequestAges, FallBack,
       ServedListsAreRecent, Pending

LEMMA TickInv ==
  ASSUME CacheInv, Tick PROVE CacheInv'
<1>1. /\ now' = now + 1 /\ UNCHANGED <<listed, changes, cache, request>>
      /\ \A r \in Requests : Pending(r) => now - request[r].asked < Timeout
  BY DEF Tick
<1>2. CacheTypeOK' BY <1>1 DEF CacheInv, CacheTypeOK
<1>3. RequestAges'
  <2>1. \A r \in Requests : request[r].asked \in Nat /\ request[r].read \in Nat
    BY DEF CacheInv, CacheTypeOK
  <2>2. now \in Nat BY DEF CacheInv, CacheTypeOK
  <2>. QED BY <1>1, <2>1, <2>2 DEF CacheInv, RequestAges, Pending
<1>. QED BY <1>1, <1>2, <1>3
         DEF CacheInv, CacheAge, FallBack, ServedListsAreRecent

(* A step of one request: what is left to show is about that request and   *)
(* the cache.                                                              *)
LEMMA RequestStep ==
  ASSUME CacheInv, NEW r \in Requests, NEW q,
         request' = [request EXCEPT ![r] = q],
         UNCHANGED <<now, listed, changes>>,
         q \in [pc : {"asking", "answered", "served"}, list : Lists \cup {NoList},
                read : Nat, asked : Nat, failed : BOOLEAN],
         \/ UNCHANGED cache
         \/ /\ cache' \in [list : Lists, read : Nat, fetched : Nat]
            /\ cache'.read <= cache'.fetched /\ cache'.fetched <= now
            /\ cache'.fetched - cache'.read <= Timeout,
         q.pc # "served" => q.asked <= now /\ now - q.asked <= Timeout,
         q.pc = "answered" => q.list \in Lists /\ q.asked <= q.read /\ q.read <= now,
         q.pc = "served" /\ q.list # NoList => cache'.list # NoList,
         q.pc = "served" /\ ~q.failed =>
            q.list # NoList /\ q.asked - q.read < CacheTtl + Timeout
  PROVE  CacheInv'
<1>1. /\ request \in [Requests -> [pc : {"idle", "asking", "answered", "served"},
                                   list : Lists \cup {NoList}, read : Nat, asked : Nat,
                                   failed : BOOLEAN]]
      /\ now \in Nat
  BY DEF CacheInv, CacheTypeOK
<1>2. \A s \in Requests : request'[s] = IF s = r THEN q ELSE request[s]
  BY <1>1
<1>3. request' \in [Requests -> [pc : {"idle", "asking", "answered", "served"},
                                 list : Lists \cup {NoList}, read : Nat, asked : Nat,
                                 failed : BOOLEAN]]
  BY <1>1
<1>4. CacheTypeOK' BY <1>3 DEF CacheInv, CacheTypeOK
<1>5. CacheAge' BY DEF CacheInv, CacheAge
<1>6. cache.list # NoList => cache'.list # NoList OBVIOUS
<1>7. RequestAges' BY <1>2 DEF CacheInv, RequestAges, Pending
<1>8. FallBack' BY <1>2, <1>6 DEF CacheInv, FallBack
<1>9. ServedListsAreRecent' BY <1>2 DEF CacheInv, ServedListsAreRecent
<1>. QED BY <1>4, <1>5, <1>7, <1>8, <1>9 DEF CacheInv

LEMMA AskInv ==
  ASSUME CacheInv, NEW r \in Requests, Ask(r) PROVE CacheInv'
<1>1. /\ now \in Nat /\ cache.read \in Nat /\ cache.fetched \in Nat
      /\ cache.list \in Lists \cup {NoList} /\ cache.fetched <= now
  BY DEF CacheInv, CacheTypeOK
<1>2. CASE Fresh
  <2>. DEFINE q == [pc |-> "served", list |-> cache.list, read |-> cache.read,
                    asked |-> now, failed |-> FALSE]
  <2>1. request' = [request EXCEPT ![r] = q] /\ UNCHANGED <<now, listed, changes, cache>>
    BY <1>2 DEF Ask
  <2>2. cache.list # NoList /\ now - cache.fetched < CacheTtl BY <1>2 DEF Fresh
  <2>3. cache.fetched - cache.read <= Timeout BY <2>2 DEF CacheInv, CacheAge
  <2>4. now - cache.read < CacheTtl + Timeout BY <1>1, <2>2, <2>3
  <2>. QED BY <1>1, <2>1, <2>2, <2>4, RequestStep
<1>3. CASE ~Fresh
  <2>. DEFINE q == [pc |-> "asking", list |-> NoList, read |-> 0, asked |-> now,
                    failed |-> FALSE]
  <2>1. request' = [request EXCEPT ![r] = q] /\ UNCHANGED <<now, listed, changes, cache>>
    BY <1>3 DEF Ask, Idle
  <2>2. /\ q \in [pc : {"asking", "answered", "served"}, list : Lists \cup {NoList},
                  read : Nat, asked : Nat, failed : BOOLEAN]
        /\ q.pc = "asking" /\ q.asked <= now /\ now - q.asked <= Timeout
    BY <1>1
  <2>. HIDE DEF q
  <2>. QED BY <2>1, <2>2, RequestStep
<1>. QED BY <1>2, <1>3

LEMMA ApiReadsInv ==
  ASSUME CacheInv, NEW r \in Requests, ApiReads(r) PROVE CacheInv'
<1>. DEFINE q == [request[r] EXCEPT !.pc = "answered", !.list = listed, !.read = now]
<1>1. /\ request[r] \in [pc : {"idle", "asking", "answered", "served"},
                         list : Lists \cup {NoList}, read : Nat, asked : Nat,
                         failed : BOOLEAN]
      /\ now \in Nat /\ listed \in Lists
  BY DEF CacheInv, CacheTypeOK
<1>2. request[r].asked <= now /\ now - request[r].asked <= Timeout
  BY DEF ApiReads, CacheInv, RequestAges, Pending
<1>3. request' = [request EXCEPT ![r] = q] /\ UNCHANGED <<now, listed, changes, cache>>
  BY DEF ApiReads
<1>4. /\ q \in [pc : {"asking", "answered", "served"}, list : Lists \cup {NoList},
                read : Nat, asked : Nat, failed : BOOLEAN]
      /\ q.pc = "answered" /\ q.list = listed /\ q.read = now
      /\ q.asked = request[r].asked
  BY <1>1
<1>5. /\ q.asked <= now /\ now - q.asked <= Timeout
      /\ q.list \in Lists /\ q.asked <= q.read /\ q.read <= now
  BY <1>1, <1>2, <1>4
<1>. HIDE DEF q
<1>. QED BY <1>3, <1>4, <1>5, RequestStep

LEMMA StoreInv ==
  ASSUME CacheInv, NEW r \in Requests, Store(r) PROVE CacheInv'
<1>. DEFINE q == [request[r] EXCEPT !.pc = "served", !.list = request[r].list,
                                    !.read = request[r].read, !.failed = FALSE]
<1>1. /\ request[r] \in [pc : {"idle", "asking", "answered", "served"},
                         list : Lists \cup {NoList}, read : Nat, asked : Nat,
                         failed : BOOLEAN]
      /\ now \in Nat
  BY DEF CacheInv, CacheTypeOK
<1>2. /\ request[r].asked <= now /\ now - request[r].asked <= Timeout
      /\ request[r].list \in Lists /\ request[r].list # NoList
      /\ request[r].asked <= request[r].read /\ request[r].read <= now
  BY DEF Store, CacheInv, RequestAges, Pending
<1>3. /\ request' = [request EXCEPT ![r] = q] /\ UNCHANGED <<now, listed, changes>>
      /\ cache' = [list |-> request[r].list, read |-> request[r].read, fetched |-> now]
  BY DEF Store, Serve
<1>4. /\ q \in [pc : {"asking", "answered", "served"}, list : Lists \cup {NoList},
                read : Nat, asked : Nat, failed : BOOLEAN]
      /\ q.pc = "served" /\ q.list = request[r].list /\ q.read = request[r].read
      /\ q.asked = request[r].asked
  BY <1>1
<1>5. /\ cache' \in [list : Lists, read : Nat, fetched : Nat]
      /\ cache'.list = request[r].list /\ cache'.read = request[r].read
      /\ cache'.fetched = now
  BY <1>1, <1>2, <1>3
<1>6. /\ cache'.read <= cache'.fetched /\ cache'.fetched <= now
      /\ cache'.fetched - cache'.read <= Timeout
      /\ cache'.list # NoList
  BY <1>1, <1>2, <1>5
<1>7. q.list # NoList /\ q.asked - q.read < CacheTtl + Timeout
  BY <1>1, <1>2, <1>4
<1>. HIDE DEF q
<1>. QED BY <1>3, <1>4, <1>5, <1>6, <1>7, RequestStep

LEMMA FailInv ==
  ASSUME CacheInv, NEW r \in Requests, Fail(r) PROVE CacheInv'
<1>. DEFINE q == [request[r] EXCEPT !.pc = "served", !.list = cache.list,
                                    !.read = cache.read, !.failed = TRUE]
<1>1. /\ request[r] \in [pc : {"idle", "asking", "answered", "served"},
                         list : Lists \cup {NoList}, read : Nat, asked : Nat,
                         failed : BOOLEAN]
      /\ cache.list \in Lists \cup {NoList} /\ cache.read \in Nat
  BY DEF CacheInv, CacheTypeOK
<1>2. request' = [request EXCEPT ![r] = q] /\ UNCHANGED <<now, listed, changes, cache>>
  BY DEF Fail, Serve
<1>3. /\ q \in [pc : {"asking", "answered", "served"}, list : Lists \cup {NoList},
                read : Nat, asked : Nat, failed : BOOLEAN]
      /\ q.pc = "served" /\ q.list = cache.list /\ q.failed
  BY <1>1
<1>. HIDE DEF q
<1>. QED BY <1>2, <1>3, RequestStep

LEMMA CacheNextInv == CacheInv /\ [CacheNext]_cacheVars => CacheInv'
<1>. SUFFICES ASSUME CacheInv, [CacheNext]_cacheVars PROVE CacheInv'
  OBVIOUS
<1>1. CASE Change
  BY <1>1 DEF Change, CacheInv, CacheTypeOK, CacheAge, RequestAges, FallBack,
              ServedListsAreRecent, Pending
<1>2. CASE Tick BY <1>2, TickInv
<1>3. CASE \E r \in Requests : Ask(r) \/ Answering(r)
  BY <1>3, AskInv, ApiReadsInv, StoreInv, FailInv DEF Answering
<1>4. CASE UNCHANGED cacheVars
  BY <1>4 DEF cacheVars, CacheInv, CacheTypeOK, CacheAge, RequestAges, FallBack,
              ServedListsAreRecent, Pending
<1>. QED BY <1>1, <1>2, <1>3, <1>4 DEF CacheNext

(* The ages of the cache and of the requests are an invariant.             *)
THEOREM CacheInvariance == CacheSpec => []CacheInv
BY CacheInitInv, CacheNextInv, PTL DEF CacheSpec

(* Every reachable state is type correct; the cache is never stored in the *)
(* future nor read after it was stored (cached_locations).                 *)
THEOREM CacheTypeCorrect == CacheSpec => []CacheTypeOK
<1>1. CacheInv => CacheTypeOK BY DEF CacheInv
<1>. QED BY <1>1, CacheInvariance, PTL

(* A list served without a failure is younger than the cache's time plus   *)
(* one request, however requests overlap (cached_locations).               *)
THEOREM ListsAreRecent == CacheSpec => []ServedListsAreRecent
<1>1. CacheInv => ServedListsAreRecent BY DEF CacheInv
<1>. QED BY <1>1, CacheInvariance, PTL

(* Once a page had a list, no request that was then under way or comes     *)
(* later is answered without one (the fallback of cached_locations).       *)
THEOREM AlwaysAListAgain == CacheSpec => NeverEmptyAgain
<1>1. CacheInv /\ [CacheNext]_cacheVars =>
        [\A r, s \in Requests :
           request[r].pc = "served" /\ request[r].list # NoList /\ Pending(s)
             => (request'[s].pc = "served" => request'[s].list # NoList)]_cacheVars
  <2>. SUFFICES ASSUME CacheInv, CacheNext, NEW r \in Requests, NEW s \in Requests,
                       request[r].pc = "served", request[r].list # NoList, Pending(s),
                       request'[s].pc = "served"
                PROVE  request'[s].list # NoList
    BY DEF cacheVars, Pending
  <2>1. cache.list # NoList BY DEF CacheInv, FallBack
  <2>2. /\ request \in [Requests -> [pc : {"idle", "asking", "answered", "served"},
                                     list : Lists \cup {NoList}, read : Nat, asked : Nat,
                                     failed : BOOLEAN]]
        /\ request[s].pc # "served"
    BY DEF CacheInv, CacheTypeOK, Pending
  <2>3. CASE Change \/ Tick BY <2>2, <2>3 DEF Change, Tick
  <2>4. ASSUME NEW t \in Requests, Ask(t) \/ ApiReads(t) PROVE FALSE
    BY <2>2, <2>4 DEF Ask, ApiReads, Pending
  <2>5. ASSUME NEW t \in Requests, Store(t) PROVE request'[s].list # NoList
    <3>1. t = s BY <2>2, <2>5 DEF Store, Serve
    <3>2. request[s].list \in Lists BY <2>5, <3>1 DEF Store, CacheInv, RequestAges
    <3>. QED BY <2>2, <2>5, <3>1, <3>2 DEF Store, Serve
  <2>6. ASSUME NEW t \in Requests, Fail(t) PROVE request'[s].list # NoList
    <3>1. t = s BY <2>2, <2>6 DEF Fail, Serve
    <3>. QED BY <2>1, <2>2, <2>6, <3>1 DEF Fail, Serve
  <2>. QED BY <2>3, <2>4, <2>5, <2>6 DEF CacheNext, Answering
<1>. QED BY <1>1, CacheInvariance, PTL DEF CacheSpec, NeverEmptyAgain

-----------------------------------------------------------------------------
(* The page.                                                               *)

USE FinderAssumption

Places == DOMAIN DistanceFrom \cup {NoPlace}

Row == [shop : Shops, standing : Nat, index : Nat, origin : Places]

Numbered(rs, from) == \A i \in 1 .. Len(rs) : rs[i].index = from + i - 1

PageTypeOK ==
    /\ guess \in Guesses /\ page \in {"loading", "shown"}
    /\ rest \in {"none", "due", "asked", "streaming", "done", "broken"}
    /\ rows \in Seq(Row) /\ batch \in Seq(Row) /\ pending \in Seq(Row)
    /\ here \in Positions \cup {NoPlace} /\ term \in Terms \cup {NoTerm}
    /\ aliased \in BOOLEAN /\ visible \in Seq(Nat)

(* What there is at each stage; a row carries its place in the whole list, *)
(* which makes any two rows different to compareDistance.                  *)
Stage ==
    /\ page = "loading" => /\ rest = "none" /\ rows = <<>>
                           /\ here = NoPlace /\ term = NoTerm /\ aliased
    /\ page = "shown" => request["page"].pc = "served"
    /\ rest \in {"streaming", "done"} => request["stream"].pc = "served"
    /\ rest # "streaming" => pending = <<>> /\ batch = <<>>
    /\ Numbered(rows, 0) /\ Numbered(batch, Len(rows))
    /\ Numbered(pending, Len(rows) + Len(batch))

(* visibleRows is what the page shows, but for the rows that are appended  *)
(* twice to it when it is still the array `rows`: it is then longer.       *)
Shown ==
    /\ ListIsWhatWasAskedFor
    /\ aliased => here = NoPlace /\ term = NoTerm
    /\ ~aliased => IF here = NoPlace /\ term = NoTerm
                   THEN Len(visible) > Len(rows) ELSE visible = list

(* The rows of the page come from one list, those after them from another. *)
Server(p) ==
    IF p <= InitialLimit THEN SortLocations(request["page"].list, guess)[p]
    ELSE SortLocations(request["stream"].list, guess)[p]

ServerLength(l) == Len(SortLocations(l, guess))

Carries(rs, from) == \A i \in 1 .. Len(rs) : rs[i].shop = Server(from + i)

Sources ==
    /\ rest \in {"due", "asked"} =>
          /\ Len(rows) = InitialLimit /\ ServerLength(request["page"].list) > InitialLimit
          /\ Carries(rows, 0)
    /\ rest \in {"streaming", "done"} =>
          /\ Len(rows) >= InitialLimit
          /\ ServerLength(request["page"].list) > InitialLimit
          /\ \/ Len(rows) + Len(batch) + Len(pending)
                   = ServerLength(request["stream"].list)
             \/ /\ ServerLength(request["stream"].list) <= InitialLimit
                /\ Len(rows) + Len(batch) + Len(pending) = InitialLimit
          /\ Carries(rows, 0) /\ Carries(batch, Len(rows))
          /\ Carries(pending, Len(rows) + Len(batch))

PageInv == CacheInv /\ PageTypeOK /\ Stage /\ Shown /\ Sources

-----------------------------------------------------------------------------
(* The list of locations behind the page.                                  *)

(* Every step of the page is a step of the site's cache or leaves it.      *)
LEMMA PageStepIsCacheStep == [Next]_vars => [CacheNext]_cacheVars
<1>. SUFFICES ASSUME [Next]_vars PROVE [CacheNext]_cacheVars OBVIOUS
<1>1. CASE Site BY <1>1 DEF Site, Others, CacheNext
<1>2. CASE RequestPage BY <1>2 DEF RequestPage, CacheNext
<1>3. CASE LoadRemaining BY <1>3 DEF LoadRemaining, CacheNext
<1>4. CASE LoadPage \/ StreamStarts \/ StreamLine \/ StreamEnds \/ StreamBreaks
  BY <1>4 DEF LoadPage, StreamStarts, StreamLine, StreamEnds, StreamBreaks
<1>5. CASE \E t \in Terms \cup {NoTerm} : ApplyFilter(t) BY <1>5 DEF ApplyFilter
<1>6. CASE \E p \in Positions : UseBrowserLocation(p) BY <1>6 DEF UseBrowserLocation
<1>7. CASE UNCHANGED vars BY <1>7 DEF vars
<1>. QED BY <1>1, <1>2, <1>3, <1>4, <1>5, <1>6, <1>7 DEF Next

(* The pages' traffic is one that the site's cache of locations allows:    *)
(* what is proved of cached_locations holds behind the finder.             *)
THEOREM PageKeepsTheCache == Spec => CacheSpec
<1>1. Init => CacheInit BY DEF Init
<1>. QED BY <1>1, PageStepIsCacheStep, PTL DEF Spec, CacheSpec

(* The lists that the page and its stream are made from are as recent as   *)
(* the cache promises, whatever the page does (cached_locations).          *)
THEOREM ThePagesListsAreRecent == Spec => []ServedListsAreRecent
BY PageKeepsTheCache, ListsAreRecent, PTL

(* What was served to the page stays while the site goes on.               *)
LEMMA ServedStays ==
  ASSUME Site \/ LoadRemaining, CacheTypeOK, request["page"].pc = "served"
  PROVE  request'["page"] = request["page"]
<1>. DEFINE Type == [pc : {"idle", "asking", "answered", "served"},
                     list : Lists \cup {NoList}, read : Nat, asked : Nat,
                     failed : BOOLEAN]
<1>1. request \in [Requests -> Type] /\ ~Pending("page")
  BY DEF CacheTypeOK, Pending
<1>. HIDE DEF Type
<1>2. ASSUME NEW r \in Requests, Ask(r), r # "page"
      PROVE  request'["page"] = request["page"]
  BY <1>1, <1>2 DEF Ask
<1>3. ASSUME NEW r \in Requests, Answering(r)
      PROVE  request'["page"] = request["page"]
  <2>1. r # "page" BY <1>1, <1>3 DEF Answering, ApiReads, Store, Fail, Pending
  <2>. QED BY <1>1, <1>3, <2>1 DEF Answering, ApiReads, Store, Fail, Serve
<1>4. CASE Site
  <2>1. CASE Change \/ Tick BY <2>1 DEF Change, Tick
  <2>. QED BY <1>2, <1>3, <1>4, <2>1 DEF Site, Others
<1>5. CASE LoadRemaining BY <1>2, <1>5 DEF LoadRemaining
<1>. QED BY <1>4, <1>5

-----------------------------------------------------------------------------
(* The server's rows and the script's orders.                              *)

LEMMA DistanceIsNatural ==
  ASSUME NEW place \in Places, NEW s \in Shops PROVE Distance(place, s) \in Nat
BY DEF Distance, Places

LEMMA LocationsAreSorted ==
  ASSUME NEW l \in Lists \cup {NoList}, NEW place \in Places
  PROVE  /\ Enumerates(SortLocations(l, place), Listed(l))
         /\ SortLocations(l, place) \in Seq(Shops)
         /\ \A s \in Listed(l) : s \in Shops /\ l[s] \in Nat
<1>. DEFINE key == [s \in Listed(l) |-> <<Distance(place, s), l[s], s>>]
<1>1. \A s \in Listed(l) : s \in Shops /\ l[s] \in Nat
  BY DEF Listed, Gone
<1>2. IsFiniteSet(Listed(l))
  <2>1. Listed(l) \subseteq Shops BY <1>1
  <2>. QED BY <2>1, FS_Subset
<1>3. ASSUME NEW s \in Listed(l) PROVE key[s] \in [1 .. 3 -> Int]
  <2>1. s \in Shops /\ l[s] \in Nat BY <1>1
  <2>2. Distance(place, s) \in Nat BY <2>1, DistanceIsNatural
  <2>. QED BY <2>1, <2>2
<1>4. \A s, o \in Listed(l) : key[s] = key[o] => s = o OBVIOUS
<1>5. Sortable(key, 3)
  <2>1. DOMAIN key = Listed(l) OBVIOUS
  <2>2. key \in [DOMAIN key -> [1 .. 3 -> Int]] BY <1>3
  <2>. HIDE DEF key
  <2>. QED BY <1>2, <1>4, <2>1, <2>2 DEF Sortable
<1>6. Enumerates(SortLocations(l, place), Listed(l))
  <2>1. DOMAIN key = Listed(l) OBVIOUS
  <2>2. SortLocations(l, place) = SortByKey(key) BY DEF SortLocations
  <2>. HIDE DEF key
  <2>. QED BY <1>5, <2>1, <2>2, SortEnumerates
<1>7. SortLocations(l, place) \in Seq(Shops)
  <2>. DEFINE n == Cardinality(Listed(l))
  <2>1. n \in Nat /\ SortLocations(l, place) \in [1 .. n -> Shops]
    BY <1>1, <1>6, FS_CardinalityType DEF Enumerates
  <2>. HIDE DEF n
  <2>. QED BY <2>1, FunctionIsSeq
<1>. QED BY <1>1, <1>6, <1>7

LEMMA LocationRowsAre ==
  ASSUME NEW l \in Lists \cup {NoList}, guess \in Guesses
  PROVE  /\ LocationRows(l) \in Seq(Row)
         /\ Len(LocationRows(l)) = ServerLength(l) /\ ServerLength(l) \in Nat
         /\ \A i \in 1 .. ServerLength(l) :
               /\ LocationRows(l)[i].shop = SortLocations(l, guess)[i]
               /\ LocationRows(l)[i].index = i - 1
<1>. DEFINE s == SortLocations(l, guess)
            n == Len(s)
<1>1. guess \in Places BY DEF Places
<1>2. /\ s \in Seq(Shops) /\ n \in Nat /\ DOMAIN s = 1 .. n
      /\ \A i \in 1 .. n : s[i] \in Shops /\ l[s[i]] \in Nat
  <2>1. s \in Seq(Shops) /\ n \in Nat /\ DOMAIN s = 1 .. n
    BY <1>1, LocationsAreSorted, LenProperties
  <2>2. \A i \in DOMAIN s : s[i] \in Listed(l)
    <3>1. Enumerates(s, Listed(l)) BY <1>1, LocationsAreSorted
    <3>. HIDE DEF s
    <3>. QED BY <3>1 DEF Enumerates
  <2>. QED BY <1>1, <2>1, <2>2, LocationsAreSorted
<1>3. LocationRows(l) = [i \in 1 .. n |->
        [shop |-> s[i], standing |-> l[s[i]], index |-> i - 1, origin |-> guess]]
  BY <1>2 DEF LocationRows
<1>. HIDE DEF s, n
<1>4. LocationRows(l) \in [1 .. n -> Row]
  <2>1. \A i \in 1 .. n :
           [shop |-> s[i], standing |-> l[s[i]], index |-> i - 1, origin |-> guess] \in Row
    BY <1>1, <1>2 DEF Row
  <2>. QED BY <1>3, <2>1
<1>5. LocationRows(l) \in Seq(Row) /\ Len(LocationRows(l)) = n
  BY <1>2, <1>4, FunctionIsSeq
<1>6. \A i \in 1 .. n : LocationRows(l)[i].shop = s[i] /\ LocationRows(l)[i].index = i - 1
  BY <1>3
<1>. QED BY <1>2, <1>5, <1>6 DEF ServerLength, s, n

(* Whatever is searched for and wherever the visitor is, the rows found    *)
(* are shown, each once.                                                   *)
LEMMA FilteredEnumerates ==
  ASSUME NEW rs \in Seq(Row), Numbered(rs, 0), NEW place, NEW t
  PROVE  /\ Enumerates(Filtered(rs, place, t), Found(rs, t))
         /\ Found(rs, t) \subseteq 1 .. Len(rs)
         /\ Filtered(rs, place, t) \in Seq(Nat)
         /\ Len(Filtered(rs, place, t)) \in Nat
         /\ Len(Filtered(rs, place, t)) <= Len(rs)
<1>. DEFINE F == Found(rs, t)
            key == [i \in F |-> IF place = NoPlace THEN <<i>> ELSE CompareKey(rs[i])]
            n == Len(rs)
            s == Filtered(rs, place, t)
<1>1. n \in Nat /\ DOMAIN rs = 1 .. n /\ \A i \in 1 .. n : rs[i] \in Row
  BY LenProperties, ElementOfSeq
<1>2. \A i \in 1 .. n : rs[i].index = i - 1
  <2>1. \A i \in 1 .. n : rs[i].index = 0 + i - 1 BY DEF Numbered
  <2>. QED BY <2>1
<1>. HIDE DEF n
<1>3. F \subseteq 1 .. n /\ IsFiniteSet(F) /\ Cardinality(F) <= n
  <2>1. F \subseteq 1 .. n BY <1>1 DEF Found
  <2>. HIDE DEF F
  <2>2. IsFiniteSet(1 .. n) /\ Cardinality(1 .. n) = n BY <1>1, IntervalCounts
  <2>3. IsFiniteSet(F) /\ Cardinality(F) <= Cardinality(1 .. n)
    <3>1. F \in SUBSET (1 .. n) BY <2>1
    <3>. QED BY <2>2, <3>1, FS_Subset
  <2>. QED BY <2>1, <2>2, <2>3
<1>. HIDE DEF F
<1>4. s = SortByKey(key) /\ DOMAIN key = F BY DEF Filtered, F
<1>5. \E k \in Nat : Sortable(key, k)
  <2>1. CASE place = NoPlace
    <3>1. key = [i \in F |-> <<i>>] BY <2>1
    <3>2. key \in [F -> [1 .. 1 -> Int]]
      <4>1. \A i \in F : <<i>> \in [1 .. 1 -> Int] BY <1>3
      <4>. QED BY <3>1, <4>1
    <3>3. \A i, j \in F : key[i] = key[j] => i = j BY <3>1
    <3>4. Sortable(key, 1)
      <4>. HIDE DEF key
      <4>. QED BY <1>3, <1>4, <3>2, <3>3 DEF Sortable
    <3>. QED BY <3>4
  <2>2. CASE place # NoPlace
    <3>1. \A i \in F : key[i] = CompareKey(rs[i]) BY <2>2
    <3>2. ASSUME NEW i \in F
          PROVE  CompareKey(rs[i]) \in [1 .. 4 -> Int] /\ CompareKey(rs[i])[4] = i - 1
      <4>1. i \in 1 .. n /\ rs[i] \in Row BY <1>1, <1>3
      <4>2. /\ Distance(rs[i].origin, rs[i].shop) \in Int /\ rs[i].standing \in Int
            /\ rs[i].shop \in Int /\ rs[i].index \in Int
        <5>1. /\ rs[i].origin \in Places /\ rs[i].shop \in Shops
              /\ rs[i].standing \in Nat /\ rs[i].index \in Nat
          BY <4>1 DEF Row
        <5>2. Distance(rs[i].origin, rs[i].shop) \in Nat BY <5>1, DistanceIsNatural
        <5>3. rs[i].shop \in Nat BY <5>1
        <5>4. \A x \in Nat : x \in Int OBVIOUS
        <5>. QED BY <5>1, <5>2, <5>3, <5>4
      <4>. QED BY <1>2, <4>1, <4>2 DEF CompareKey
    <3>3. key \in [F -> [1 .. 4 -> Int]]
      BY <2>2, <3>2
    <3>4. ASSUME NEW i \in F, NEW j \in F, key[i] = key[j] PROVE i = j
      <4>1. i - 1 = j - 1 BY <3>1, <3>2, <3>4
      <4>2. i \in Int /\ j \in Int BY <1>3
      <4>. QED BY <4>1, <4>2
    <3>5. Sortable(key, 4)
      <4>. HIDE DEF key
      <4>. QED BY <1>3, <1>4, <3>3, <3>4 DEF Sortable
    <3>. QED BY <3>5
  <2>. QED BY <2>1, <2>2
<1>. HIDE DEF key
<1>6. Enumerates(s, F) BY <1>4, <1>5, SortEnumerates
<1>. HIDE DEF s
<1>7. /\ Cardinality(F) \in Nat /\ s \in [1 .. Cardinality(F) -> Nat]
  BY <1>3, <1>6, FS_CardinalityType DEF Enumerates
<1>8. s \in Seq(Nat) /\ Len(s) = Cardinality(F) BY <1>7, FunctionIsSeq
<1>. QED BY <1>3, <1>6, <1>7, <1>8 DEF n, s, F

(* With no search and no position the rows are shown as they came.         *)
LEMMA AllAsTheyCame ==
  ASSUME NEW rs \in Seq(Row)
  PROVE  /\ Filtered(rs, NoPlace, NoTerm) = [i \in 1 .. Len(rs) |-> i]
         /\ Found(rs, NoTerm) = 1 .. Len(rs) /\ DOMAIN rs = 1 .. Len(rs)
<1>1. Len(rs) \in Nat /\ DOMAIN rs = 1 .. Len(rs) BY LenProperties
<1>2. Found(rs, NoTerm) = 1 .. Len(rs) BY <1>1 DEF Found
<1>3. Filtered(rs, NoPlace, NoTerm) = SortByKey([i \in 1 .. Len(rs) |-> <<i>>])
  BY <1>2 DEF Filtered
<1>. QED BY <1>1, <1>2, <1>3, PositionsAreSorted

LEMMA PositionsEnumerate ==
  ASSUME NEW n \in Nat
  PROVE  /\ Enumerates([i \in 1 .. n |-> i], 1 .. n)
         /\ [i \in 1 .. n |-> i] \in Seq(Nat) /\ Len([i \in 1 .. n |-> i]) = n
<1>1. [i \in 1 .. n |-> i] \in [1 .. n -> Nat] OBVIOUS
<1>2. IsFiniteSet(1 .. n) /\ Cardinality(1 .. n) = n BY IntervalCounts
<1>. QED BY <1>1, <1>2, FunctionIsSeq DEF Enumerates

-----------------------------------------------------------------------------
(* The page shows what was asked for.                                      *)

(* A search that finds every row: its order has them all.                  *)
LEMMA AllAreFound ==
  ASSUME NEW rs \in Seq(Row), Numbered(rs, 0), NEW place, NEW t,
         Len(Filtered(rs, place, t)) = Len(rs)
  PROVE  Found(rs, t) = 1 .. Len(rs) /\ Enumerates(Filtered(rs, place, t), 1 .. Len(rs))
<1>. DEFINE n == Len(rs)
            F == Found(rs, t)
            s == Filtered(rs, place, t)
<1>1. n \in Nat BY LenProperties
<1>2. Enumerates(s, F) BY FilteredEnumerates
<1>3. F \subseteq 1 .. n BY FilteredEnumerates
<1>4. Len(s) = n OBVIOUS
<1>. HIDE DEF n, F, s
<1>5. IsFiniteSet(1 .. n) /\ Cardinality(1 .. n) = n BY <1>1, IntervalCounts
<1>6. Cardinality(F) = n
  <2>1. Cardinality(F) \in Nat /\ s \in [1 .. Cardinality(F) -> F]
    BY <1>2, FS_CardinalityType DEF Enumerates
  <2>2. Len(s) = Cardinality(F) BY <2>1, FunctionIsSeq
  <2>. QED BY <1>4, <2>2
<1>7. F = 1 .. n
  <2>1. F \in SUBSET (1 .. n) BY <1>3
  <2>. QED BY <1>5, <1>6, <2>1, FS_Subset
<1>. QED BY <1>2, <1>7 DEF n, F, s

(* render leaves the rows that were asked for, in their order, provided    *)
(* that it moves single rows only in a list that shows every row in the    *)
(* order of visibleRows.                                                   *)
LEMMA RenderShows ==
  ASSUME NEW rs \in Seq(Row), Numbered(rs, 0), NEW place, NEW t,
         NEW minimal \in BOOLEAN, Render(rs, place, t, minimal),
         rows' = rs, here' = place, term' = t,
         /\ minimal
         /\ Len(Filtered(rs, place, t)) = Len(VisibleRows(rs))
         /\ Len(Filtered(rs, place, t)) = Len(rs)
         => list = VisibleRows(rs) /\ Enumerates(list, 1 .. Len(rs))
  PROVE  Shown' /\ visible' \in Seq(Nat) /\ aliased' \in BOOLEAN
<1>. DEFINE next == Filtered(rs, place, t)
            previous == VisibleRows(rs)
            Direct == minimal /\ Len(next) = Len(previous) /\ Len(next) = Len(rs)
<1>1. list' = IF Direct THEN ReorderRows(list, previous, next) ELSE next
  BY DEF Render
<1>2. aliased' = (t = NoTerm /\ place = NoPlace) BY DEF Render
<1>3. visible' = IF aliased' THEN <<>> ELSE next BY DEF Render
<1>4. ASSUME Direct PROVE ReorderRows(list, previous, next) = next
  <2>1. list = previous /\ Enumerates(list, 1 .. Len(rs)) BY <1>4
  <2>2. Enumerates(next, 1 .. Len(rs)) BY <1>4, AllAreFound
  <2>. HIDE DEF next, previous
  <2>3. MoveRows(list, previous, next) = next BY <2>1, <2>2, RowsAreMoved
  <2>. QED BY <2>3 DEF ReorderRows
<1>5. next \in Seq(Nat) BY FilteredEnumerates
<1>6. list' = Filtered(rows', here', term')
  <2>. HIDE DEF Direct
  <2>. QED BY <1>1, <1>4
<1>. HIDE DEF next, previous
<1>7. aliased' \in BOOLEAN BY <1>2
<1>8. visible' \in Seq(Nat) BY <1>3, <1>5
<1>9. aliased' => here' = NoPlace /\ term' = NoTerm BY <1>2
<1>10. ~aliased' => ~(here' = NoPlace /\ term' = NoTerm) BY <1>2
<1>11. ~aliased' => visible' = list' BY <1>3, <1>6 DEF next
<1>. QED BY <1>6, <1>7, <1>8, <1>9, <1>10, <1>11 DEF Shown, ListIsWhatWasAskedFor

(* The rows after the ones there are are numbered on.                      *)
LEMMA RowsGrow ==
  ASSUME NEW rs \in Seq(Row), NEW new \in Seq(Row), NEW from \in Nat,
         Numbered(rs, from), Numbered(new, from + Len(rs))
  PROVE  /\ rs \o new \in Seq(Row) /\ Len(rs \o new) = Len(rs) + Len(new)
         /\ Numbered(rs \o new, from)
<1>1. /\ rs \o new \in Seq(Row) /\ Len(rs \o new) = Len(rs) + Len(new)
      /\ Len(rs) \in Nat /\ Len(new) \in Nat
  BY ConcatProperties, LenProperties
<1>2. ASSUME NEW i \in 1 .. Len(rs \o new) PROVE (rs \o new)[i].index = from + i - 1
  <2>1. CASE i <= Len(rs)
    <3>1. i \in 1 .. Len(rs) /\ (rs \o new)[i] = rs[i] BY <1>1, <2>1, ConcatProperties
    <3>. QED BY <3>1 DEF Numbered
  <2>2. CASE i > Len(rs)
    <3>1. /\ i - Len(rs) \in 1 .. Len(new)
          /\ (rs \o new)[i] = new[i - Len(rs)] BY <1>1, <2>2, ConcatProperties
    <3>2. new[i - Len(rs)].index = (from + Len(rs)) + (i - Len(rs)) - 1
      BY <3>1 DEF Numbered
    <3>. QED BY <1>1, <3>1, <3>2
  <2>. QED BY <1>1, <2>1, <2>2
<1>. QED BY <1>1, <1>2 DEF Numbered

(* appendRows leaves the list that was asked for, whether it adds to it or *)
(* renders it anew: visibleRows is shorter than the rows by then, or has   *)
(* the new ones twice.                                                     *)
LEMMA AppendRowsShows ==
  ASSUME PageTypeOK, Shown, Numbered(rows, 0),
         NEW new \in Seq(Row), new # <<>>, Numbered(new, Len(rows)),
         AppendRows(new), UNCHANGED <<here, term>>
  PROVE  /\ rows' = rows \o new /\ rows' \in Seq(Row) /\ Numbered(rows', 0)
         /\ Len(rows') = Len(rows) + Len(new)
         /\ Shown' /\ visible' \in Seq(Nat) /\ aliased' \in BOOLEAN
<1>. DEFINE rs == rows \o new
            n == Len(rows)
            k == Len(new)
            added == [i \in DOMAIN new |-> n + i]
<1>1. n \in Nat /\ k \in Nat /\ k > 0 /\ DOMAIN new = 1 .. k /\ rows \in Seq(Row)
  BY LenProperties, EmptySeq DEF PageTypeOK
<1>2. rs \in Seq(Row) /\ Len(rs) = n + k /\ Numbered(rs, 0)
  <2>1. Numbered(new, 0 + Len(rows)) BY <1>1
  <2>. QED BY <1>1, <2>1, RowsGrow
<1>3. rows' = rs BY DEF AppendRows
<1>4. visible \in Seq(Nat) /\ Len(visible) \in Nat BY LenProperties DEF PageTypeOK
<1>5. CASE here = NoPlace /\ term = NoTerm
  <2>1. list' = list \o added /\ visible' = VisibleRows(rs) \o added /\ aliased' = FALSE
    BY <1>5 DEF AppendRows
  <2>2. list = [i \in 1 .. n |-> i]
    BY <1>1, <1>5, AllAsTheyCame DEF Shown, ListIsWhatWasAskedFor
  <2>3. Filtered(rs, NoPlace, NoTerm) = [i \in 1 .. n + k |-> i]
    BY <1>2, AllAsTheyCame
  <2>4. added \in Seq(Nat) /\ Len(added) = k
    <3>1. added \in [1 .. k -> Nat] BY <1>1
    <3>. HIDE DEF added
    <3>. QED BY <1>1, <3>1, FunctionIsSeq
  <2>5. /\ VisibleRows(rs) \in Seq(Nat) /\ Len(VisibleRows(rs)) \in Nat
        /\ Len(VisibleRows(rs)) > n
    <3>1. CASE aliased
      <4>1. VisibleRows(rs) = [i \in 1 .. n + k |-> i]
        <5>1. DOMAIN rs = 1 .. n + k BY <1>2, LenProperties
        <5>. QED BY <3>1, <5>1 DEF VisibleRows
      <4>2. n + k \in Nat BY <1>1
      <4>3. /\ [i \in 1 .. n + k |-> i] \in Seq(Nat)
            /\ Len([i \in 1 .. n + k |-> i]) = n + k
        BY <4>2, PositionsEnumerate
      <4>. QED BY <1>1, <4>1, <4>2, <4>3
    <3>2. CASE ~aliased
      BY <1>4, <1>5, <3>2 DEF VisibleRows, Shown
    <3>. QED BY <3>1, <3>2
  <2>6. /\ list \in Seq(Nat) /\ Len(list) = n
    BY <1>1, <2>2, PositionsEnumerate
  <2>7. \A i \in 1 .. k : added[i] = n + i BY <1>1
  <2>8. list \o added = [i \in 1 .. n + k |-> i]
    <3>. HIDE DEF added, n, k, rs
    <3>1. n \in Nat /\ k \in Nat /\ Len(list) = n /\ Len(added) = k BY <1>1, <2>4, <2>6
    <3>2. /\ list \o added \in Seq(Nat) /\ Len(list \o added) = n + k
          /\ \A i \in 1 .. n + k :
                (list \o added)[i] = IF i <= n THEN list[i] ELSE added[i - n]
      <4>1. list \in Seq(Nat) /\ added \in Seq(Nat) BY <2>4, <2>6
      <4>2. /\ list \o added \in Seq(Nat)
            /\ Len(list \o added) = Len(list) + Len(added)
            /\ \A i \in 1 .. Len(list) + Len(added) :
                  (list \o added)[i] = IF i <= Len(list) THEN list[i]
                                       ELSE added[i - Len(list)]
        BY <4>1, ConcatProperties, Zenon
      <4>3. Len(list) = n /\ Len(added) = k BY <3>1
      <4>. QED BY <4>2, <4>3, Zenon
    <3>3. ASSUME NEW i \in 1 .. n + k PROVE (list \o added)[i] = i
      <4>1. CASE i <= n
        <5>1. i \in 1 .. n BY <3>1, <4>1
        <5>. QED BY <2>2, <3>2, <4>1, <5>1
      <4>2. CASE ~(i <= n)
        <5>1. i - n \in 1 .. k BY <3>1, <4>2
        <5>2. (list \o added)[i] = added[i - n] BY <3>2, <4>2
        <5>3. added[i - n] = n + (i - n) BY <2>7, <5>1
        <5>4. n + (i - n) = i BY <3>1
        <5>. QED BY <5>2, <5>3, <5>4
      <4>. QED BY <4>1, <4>2
    <3>4. list \o added \in [1 .. n + k -> Nat] BY <3>2, LenProperties
    <3>. QED BY <3>3, <3>4
  <2>9. visible' \in Seq(Nat) /\ Len(visible') > Len(rs)
    <3>. DEFINE v == VisibleRows(rs)
    <3>1. v \in Seq(Nat) /\ Len(v) \in Nat /\ Len(v) > n /\ visible' = v \o added
      BY <2>1, <2>5
    <3>2. n \in Nat /\ k \in Nat /\ Len(rs) = n + k BY <1>1, <1>2
    <3>. HIDE DEF added, n, k, rs, v
    <3>3. visible' \in Seq(Nat) /\ Len(visible') = Len(v) + k
      BY <2>4, <3>1, ConcatProperties
    <3>. QED BY <3>1, <3>2, <3>3
  <2>10. Shown'
    <3>1. ListIsWhatWasAskedFor'
      BY <1>3, <1>5, <2>1, <2>3, <2>8 DEF ListIsWhatWasAskedFor
    <3>. QED BY <1>3, <1>5, <2>1, <2>9, <3>1 DEF Shown
  <2>. QED BY <1>1, <1>2, <1>3, <2>1, <2>9, <2>10
<1>6. CASE ~(here = NoPlace /\ term = NoTerm)
  <2>. DEFINE minimal == here # NoPlace
  <2>1. Render(rs, here, term, minimal) BY <1>6 DEF AppendRows
  <2>2. ASSUME minimal PROVE Len(VisibleRows(rs)) # Len(rs)
    <3>1. ~aliased BY <2>2 DEF Shown
    <3>2. visible = Filtered(rows, here, term)
      BY <1>6, <3>1 DEF Shown, ListIsWhatWasAskedFor
    <3>3. Len(visible) <= n BY <1>1, <3>2, FilteredEnumerates
    <3>4. VisibleRows(rs) = visible BY <3>1 DEF VisibleRows
    <3>. HIDE DEF rs, n, k
    <3>. QED BY <1>1, <1>2, <1>4, <3>3, <3>4
  <2>3. Shown' /\ visible' \in Seq(Nat) /\ aliased' \in BOOLEAN
    <3>1. here' = here /\ term' = term OBVIOUS
    <3>2. minimal \in BOOLEAN OBVIOUS
    <3>. HIDE DEF rs, minimal
    <3>. QED BY <1>2, <1>3, <2>1, <2>2, <3>1, <3>2, RenderShows
  <2>. QED BY <1>1, <1>2, <1>3, <2>3
<1>. QED BY <1>5, <1>6

-----------------------------------------------------------------------------
(* The page's actions keep the invariant.                                  *)

LEMMA PageInitInv == Init => PageInv
<1>. SUFFICES ASSUME Init PROVE PageInv OBVIOUS
<1>1. CacheInv BY CacheInitInv DEF Init
<1>2. /\ <<>> \in Seq(Row) /\ <<>> \in Seq(Nat) /\ Len(<<>>) = 0
  BY EmptySeq
<1>3. PageTypeOK BY <1>2 DEF Init, PageTypeOK
<1>4. Stage BY <1>2 DEF Init, Stage, Numbered
<1>5. Shown
  <2>1. Filtered(<<>>, NoPlace, NoTerm) = [i \in 1 .. 0 |-> i]
    BY <1>2, AllAsTheyCame
  <2>2. Filtered(<<>>, NoPlace, NoTerm) = <<>> BY <2>1
  <2>. QED BY <2>2 DEF Init, Shown, ListIsWhatWasAskedFor
<1>6. Sources BY DEF Init, Sources
<1>. QED BY <1>1, <1>3, <1>4, <1>5, <1>6 DEF PageInv

(* The list behind the page does not change once the page is shown, nor    *)
(* the one behind the stream once it starts.                               *)
LEMMA SiteInv ==
  ASSUME PageInv, Site \/ RequestPage \/ LoadRemaining \/ UNCHANGED vars
  PROVE  PageInv'
<1>1. CacheInv'
  BY PageStepIsCacheStep, CacheNextInv DEF PageInv, Next
<1>2. /\ UNCHANGED <<guess, page, pending, batch, rows, here, visible, aliased, list, term>>
      /\ rest' = IF LoadRemaining THEN "asked" ELSE rest
  BY DEF Site, RequestPage, LoadRemaining, pageVars, vars
<1>3. rest \in {"none", "due", "asked", "streaming", "done", "broken"}
  BY DEF PageInv, PageTypeOK
<1>4. PageTypeOK' BY <1>2, <1>3 DEF PageInv, PageTypeOK
<1>5. Shown'
  <2>1. VisibleRows(rows)' = VisibleRows(rows) BY <1>2 DEF VisibleRows
  <2>. QED BY <1>2 DEF PageInv, Shown, ListIsWhatWasAskedFor
<1>6. page = "shown" => request'["page"] = request["page"]
  <2>1. CASE Site \/ LoadRemaining
    BY <2>1, ServedStays DEF PageInv, CacheInv, Stage
  <2>2. CASE RequestPage BY <2>2 DEF RequestPage
  <2>3. CASE UNCHANGED vars BY <2>3 DEF vars, cacheVars
  <2>. QED BY <2>1, <2>2, <2>3
<1>7. rest' \in {"streaming", "done"} => request' = request /\ rest' = rest
  <2>1. CASE Site BY <1>2, <1>3, <2>1 DEF Site
  <2>2. CASE RequestPage BY <1>2, <2>2 DEF RequestPage, PageInv, Stage
  <2>3. CASE LoadRemaining BY <1>2, <2>3
  <2>4. CASE UNCHANGED vars BY <2>4 DEF vars, cacheVars, pageVars
  <2>. QED BY <2>1, <2>2, <2>3, <2>4
<1>8. /\ rest' # "none" => rest # "none"
      /\ rest' # "streaming" => rest # "streaming"
      /\ rest' \in {"due", "asked"} => rest \in {"due", "asked"}
  BY <1>2 DEF LoadRemaining
<1>9. page \in {"loading", "shown"} BY DEF PageInv, PageTypeOK
<1>10. Stage'
  BY <1>2, <1>6, <1>7, <1>8, <1>9 DEF PageInv, Stage, Numbered
<1>11. Sources'
  <2>1. ASSUME rest' \in {"due", "asked"}
        PROVE  /\ Len(rows) = InitialLimit
               /\ ServerLength(request["page"].list)' > InitialLimit
               /\ Carries(rows, 0)'
    <3>1. page = "shown" BY <1>8, <1>9, <2>1 DEF PageInv, Stage
    <3>2. request'["page"] = request["page"] BY <1>6, <3>1
    <3>3. Len(rows) = InitialLimit /\ Carries(rows, 0)
      BY <1>8, <2>1 DEF PageInv, Sources
    <3>4. ServerLength(request["page"].list)' > InitialLimit
      BY <1>2, <1>8, <2>1, <3>2 DEF PageInv, Sources, ServerLength
    <3>5. \A i \in 1 .. Len(rows) : Server(0 + i)' = Server(0 + i)
      BY <1>2, <3>2, <3>3 DEF Server
    <3>. QED BY <1>2, <3>3, <3>4, <3>5 DEF Carries
  <2>2. CASE rest' \in {"streaming", "done"}
    BY <1>2, <1>7, <2>2 DEF PageInv, Sources, Carries, Server, ServerLength
  <2>. QED BY <1>2, <2>1, <2>2 DEF Sources, Carries
<1>. QED BY <1>1, <1>4, <1>5, <1>10, <1>11 DEF PageInv

(* A piece of the server's rows of a list, from after the k-th to the m-th. *)
Piece(new, l, k, m) ==
    /\ new \in Seq(Row) /\ Len(new) = (IF k <= m THEN m - k ELSE 0) /\ Numbered(new, k)
    /\ \A i \in 1 .. Len(new) : new[i].shop = SortLocations(l, guess)[k + i]

LEMMA PieceOfRows ==
  ASSUME NEW l \in Lists \cup {NoList}, guess \in Guesses,
         NEW k \in Nat, NEW m \in Nat, m <= ServerLength(l)
  PROVE  Piece(SubSeq(LocationRows(l), k + 1, m), l, k, m)
<1>. DEFINE all == LocationRows(l)
            n == ServerLength(l)
            piece == SubSeq(all, k + 1, m)
<1>1. /\ all \in Seq(Row) /\ Len(all) = n /\ n \in Nat
      /\ \A i \in 1 .. n : /\ all[i].shop = SortLocations(l, guess)[i]
                           /\ all[i].index = i - 1
  BY LocationRowsAre
<1>. HIDE DEF all, n
<1>2. \A i \in k + 1 .. m : all[i] \in Row
  <2>1. \A i \in k + 1 .. m : i \in 1 .. n BY <1>1 DEF n
  <2>. QED BY <1>1, <2>1, ElementOfSeq
<1>3. /\ piece \in Seq(Row)
      /\ Len(piece) = IF k + 1 <= m THEN m - (k + 1) + 1 ELSE 0
      /\ \A i \in 1 .. m - (k + 1) + 1 : piece[i] = all[(k + 1) + i - 1]
  <2>1. k + 1 \in Int /\ m \in Int OBVIOUS
  <2>. QED BY <1>2, <2>1, SubSeqProperties
<1>. HIDE DEF piece
<1>4. Len(piece) = IF k <= m THEN m - k ELSE 0 BY <1>3
<1>5. ASSUME NEW i \in 1 .. Len(piece)
      PROVE  /\ piece[i].index = k + i - 1
             /\ piece[i].shop = SortLocations(l, guess)[k + i]
  <2>1. /\ i \in 1 .. m - (k + 1) + 1 /\ (k + 1) + i - 1 = k + i
        /\ k + i \in 1 .. n
    BY <1>1, <1>4 DEF n
  <2>2. piece[i] = all[k + i] BY <1>3, <2>1
  <2>. QED BY <1>1, <2>1, <2>2
<1>. QED BY <1>3, <1>4, <1>5 DEF piece, all, Numbered, Piece

LEMMA ListsAreTyped ==
  ASSUME CacheTypeOK, NEW r \in Requests
  PROVE  request[r].list \in Lists \cup {NoList}
BY DEF CacheTypeOK

(* The page starts with the first rows of the list it was given.           *)
LEMMA LoadPageInv ==
  ASSUME PageInv, LoadPage PROVE PageInv'
<1>. DEFINE l == request["page"].list
            n == ServerLength(l)
            m == Min({n, InitialLimit})
<1>1. CacheInv' BY PageStepIsCacheStep, CacheNextInv DEF PageInv, Next
<1>2. l \in Lists \cup {NoList} /\ guess \in Guesses
  BY ListsAreTyped DEF PageInv, CacheInv, PageTypeOK
<1>3. n \in Nat /\ Len(LocationRows(l)) = n BY <1>2, LocationRowsAre
<1>4. /\ page = "loading" /\ rest = "none" /\ here = NoPlace /\ term = NoTerm /\ aliased
      /\ pending = <<>> /\ batch = <<>>
  BY DEF PageInv, Stage, LoadPage
<1>5. /\ rows' = SubSeq(LocationRows(l), 1, m)
      /\ rest' = IF n > InitialLimit THEN "due" ELSE "none"
      /\ list' = [i \in DOMAIN rows' |-> i]
      /\ page' = "shown" /\ request["page"].pc = "served"
      /\ UNCHANGED <<cacheVars, guess, pending, batch, here, visible, aliased, term>>
  BY <1>3 DEF LoadPage
<1>6. request' = request BY <1>5 DEF cacheVars
<1>. HIDE DEF l, n
<1>7. m \in Nat /\ m <= n /\ (n > InitialLimit => m = InitialLimit)
  <2>1. CASE n <= InitialLimit
    <3>1. n \in {n, InitialLimit} /\ \A y \in {n, InitialLimit} : n <= y
      BY <1>3, <2>1
    <3>2. \A x \in {n, InitialLimit} :
             (\A y \in {n, InitialLimit} : x <= y) => x = n
      BY <1>3, <2>1
    <3>3. m = n BY <3>1, <3>2 DEF Min
    <3>. QED BY <1>3, <2>1, <3>3
  <2>2. CASE n > InitialLimit
    <3>1. InitialLimit \in {n, InitialLimit} /\ \A y \in {n, InitialLimit} : InitialLimit <= y
      BY <1>3, <2>2
    <3>2. \A x \in {n, InitialLimit} :
             (\A y \in {n, InitialLimit} : x <= y) => x = InitialLimit
      BY <1>3, <2>2
    <3>3. m = InitialLimit BY <3>1, <3>2 DEF Min
    <3>. QED BY <1>3, <2>2, <3>3
  <2>. QED BY <1>3, <2>1, <2>2
<1>. HIDE DEF m
<1>8. /\ rows' \in Seq(Row) /\ Len(rows') = m /\ Numbered(rows', 0)
      /\ \A i \in 1 .. m : rows'[i].shop = SortLocations(l, guess)[i]
  <2>1. m <= ServerLength(l) BY <1>7 DEF n
  <2>2. Piece(SubSeq(LocationRows(l), 0 + 1, m), l, 0, m)
    BY <1>2, <1>7, <2>1, PieceOfRows
  <2>3. rows' = SubSeq(LocationRows(l), 0 + 1, m) BY <1>5
  <2>4. Piece(rows', l, 0, m) BY <2>2, <2>3
  <2>. QED BY <1>7, <2>4 DEF Piece
<1>9. PageTypeOK'
  <2>1. rest' \in {"due", "none"} BY <1>5
  <2>. QED BY <1>5, <1>8, <2>1 DEF PageInv, PageTypeOK
<1>10. Stage'
  <2>1. Len(<<>>) = 0 BY EmptySeq
  <2>2. rest' \in {"due", "none"} BY <1>5
  <2>3. Numbered(batch, Len(rows))' /\ Numbered(pending, Len(rows) + Len(batch))'
    BY <1>4, <1>5, <2>1 DEF Numbered
  <2>. QED BY <1>4, <1>5, <1>6, <1>8, <2>2, <2>3 DEF Stage
<1>11. Shown'
  <2>1. DOMAIN rows' = 1 .. Len(rows')
        /\ Filtered(rows', NoPlace, NoTerm) = [i \in 1 .. Len(rows') |-> i]
    BY <1>8, AllAsTheyCame
  <2>. QED BY <1>4, <1>5, <2>1 DEF Shown, ListIsWhatWasAskedFor
<1>12. Sources'
  <2>1. rest' \in {"due", "none"} BY <1>5
  <2>2. ASSUME rest' = "due"
        PROVE  Len(rows') = InitialLimit /\ n > InitialLimit /\ Carries(rows, 0)'
    <3>1. n > InitialLimit /\ m = InitialLimit BY <1>5, <1>7, <2>2
    <3>2. \A i \in 1 .. m : Server(0 + i)' = SortLocations(l, guess)[i]
      BY <1>5, <1>6, <3>1 DEF Server, l
    <3>. QED BY <1>8, <3>1, <3>2 DEF Carries
  <2>. QED BY <1>5, <1>6, <2>1, <2>2 DEF Sources, ServerLength, n, l
<1>. QED BY <1>1, <1>9, <1>10, <1>11, <1>12 DEF PageInv

(* What a step of the page that leaves the lists alone leaves alone.       *)
LEMMA SameServer ==
  ASSUME UNCHANGED <<request, guess>>
  PROVE  /\ \A p : Server(p)' = Server(p)
         /\ ServerLength(request["page"].list)' = ServerLength(request["page"].list)
         /\ ServerLength(request["stream"].list)' = ServerLength(request["stream"].list)
BY DEF Server, ServerLength

(* The stream starts after the rows of the page, in the list as it is now. *)
LEMMA StreamStartsInv ==
  ASSUME PageInv, StreamStarts PROVE PageInv'
<1>. DEFINE l == request["stream"].list
            n == ServerLength(l)
<1>1. CacheInv' BY PageStepIsCacheStep, CacheNextInv DEF PageInv, Next
<1>2. l \in Lists \cup {NoList} /\ guess \in Guesses
  BY ListsAreTyped DEF PageInv, CacheInv, PageTypeOK
<1>3. n \in Nat /\ Len(LocationRows(l)) = n BY <1>2, LocationRowsAre
<1>4. /\ batch = <<>> /\ pending = <<>> /\ Len(rows) = InitialLimit
      /\ ServerLength(request["page"].list) > InitialLimit /\ Carries(rows, 0)
      /\ rest = "asked"
  BY DEF PageInv, Stage, Sources, StreamStarts
<1>5. /\ rest' = "streaming" /\ request["stream"].pc = "served"
      /\ pending' = SubSeq(LocationRows(l), InitialLimit + 1, n)
      /\ UNCHANGED <<cacheVars, guess, page, batch, rows, here, visible, aliased, list, term>>
  BY <1>3 DEF StreamStarts, Remaining
<1>6. UNCHANGED request BY <1>5 DEF cacheVars
<1>. HIDE DEF l, n
<1>7. /\ pending' \in Seq(Row)
      /\ Len(pending') = (IF InitialLimit <= n THEN n - InitialLimit ELSE 0)
      /\ Numbered(pending', InitialLimit)
      /\ \A i \in 1 .. Len(pending') :
            pending'[i].shop = SortLocations(l, guess)[InitialLimit + i]
  <2>1. n <= ServerLength(l) BY <1>3 DEF n
  <2>2. Piece(SubSeq(LocationRows(l), InitialLimit + 1, n), l, InitialLimit, n)
    BY <1>2, <1>3, <2>1, PieceOfRows
  <2>3. Piece(pending', l, InitialLimit, n) BY <1>5, <2>2
  <2>. QED BY <2>3 DEF Piece
<1>8. PageTypeOK' BY <1>5, <1>7 DEF PageInv, PageTypeOK
<1>9. Len(<<>>) = 0 /\ Len(rows) + Len(batch) = InitialLimit
  BY <1>4, EmptySeq
<1>10. Stage'
  <2>1. Numbered(pending, Len(rows) + Len(batch))' BY <1>5, <1>7, <1>9
  <2>2. page' = "loading" => FALSE BY <1>4, <1>5 DEF PageInv, Stage
  <2>3. Numbered(rows, 0)' /\ Numbered(batch, Len(rows))'
    BY <1>5 DEF PageInv, Stage, Numbered
  <2>4. page' = "shown" => request'["page"].pc = "served"
    BY <1>5, <1>6 DEF PageInv, Stage
  <2>. QED BY <1>5, <1>6, <2>1, <2>2, <2>3, <2>4 DEF Stage
<1>11. Shown'
  <2>1. VisibleRows(rows)' = VisibleRows(rows) BY <1>5 DEF VisibleRows
  <2>. QED BY <1>5 DEF PageInv, Shown, ListIsWhatWasAskedFor
<1>12. Sources'
  <2>1. \A i \in 1 .. Len(pending') :
           Server(InitialLimit + i) = SortLocations(l, guess)[InitialLimit + i]
    <3>1. Len(pending') \in Nat BY <1>7, LenProperties
    <3>. QED BY <3>1 DEF Server, l
  <2>2. Carries(pending, Len(rows) + Len(batch))'
    BY <1>5, <1>6, <1>7, <1>9, <2>1, SameServer DEF Carries
  <2>3. Carries(rows, 0)' BY <1>4, <1>5, <1>6, SameServer DEF Carries
  <2>4. Carries(batch, Len(rows))' BY <1>4, <1>5, <1>9 DEF Carries
  <2>5. \/ Len(rows') + Len(batch') + Len(pending')
              = ServerLength(request["stream"].list)'
        \/ /\ ServerLength(request["stream"].list)' <= InitialLimit
           /\ Len(rows') + Len(batch') + Len(pending') = InitialLimit
    <3>1. ServerLength(request["stream"].list)' = n BY <1>5, <1>6, SameServer DEF n, l
    <3>2. Len(rows') + Len(batch') = InitialLimit BY <1>5, <1>9
    <3>. QED BY <1>3, <1>7, <3>1, <3>2
  <2>6. /\ Len(rows') >= InitialLimit
        /\ ServerLength(request["page"].list)' > InitialLimit
    BY <1>4, <1>5, <1>6, SameServer
  <2>. QED BY <1>5, <2>2, <2>3, <2>4, <2>5, <2>6 DEF Sources
<1>. QED BY <1>1, <1>8, <1>10, <1>11, <1>12 DEF PageInv

LEMMA StreamBreaksInv ==
  ASSUME PageInv, StreamBreaks PROVE PageInv'
<1>1. CacheInv' BY PageStepIsCacheStep, CacheNextInv DEF PageInv, Next
<1>2. /\ rest' = "broken" /\ pending' = <<>> /\ batch' = <<>>
      /\ rest \in {"asked", "streaming"}
      /\ UNCHANGED <<request, guess, page, rows, here, visible, aliased, list, term>>
  BY DEF StreamBreaks, cacheVars
<1>3. <<>> \in Seq(Row) /\ Len(<<>>) = 0 BY EmptySeq
<1>4. PageTypeOK' BY <1>2, <1>3 DEF PageInv, PageTypeOK
<1>5. Stage'
  <2>1. Numbered(batch, Len(rows))' /\ Numbered(pending, Len(rows) + Len(batch))'
    BY <1>2, <1>3 DEF Numbered
  <2>2. Numbered(rows, 0)' BY <1>2 DEF PageInv, Stage, Numbered
  <2>. QED BY <1>2, <2>1, <2>2 DEF PageInv, Stage
<1>6. Shown'
  <2>1. VisibleRows(rows)' = VisibleRows(rows) BY <1>2 DEF VisibleRows
  <2>. QED BY <1>2 DEF PageInv, Shown, ListIsWhatWasAskedFor
<1>7. Sources' BY <1>2 DEF Sources
<1>. QED BY <1>1, <1>4, <1>5, <1>6, <1>7 DEF PageInv

(* The visitor changes the order and the origin of the rows, never which   *)
(* rows there are.                                                         *)
LEMMA SameRowsInv ==
  ASSUME PageInv, CacheInv', page = "shown",
         UNCHANGED <<request, guess, page, rest, pending, batch>>,
         rows' \in Seq(Row), Len(rows') = Len(rows),
         \A i \in 1 .. Len(rows) : rows'[i].shop = rows[i].shop
                                   /\ rows'[i].index = rows[i].index,
         here' \in Positions \cup {NoPlace}, term' \in Terms \cup {NoTerm},
         visible' \in Seq(Nat), aliased' \in BOOLEAN, Shown'
  PROVE  PageInv'
<1>1. PageTypeOK' BY DEF PageInv, PageTypeOK
<1>2. Stage'
  <2>1. Numbered(rows, 0)' BY DEF PageInv, Stage, Numbered
  <2>2. Numbered(batch, Len(rows))' /\ Numbered(pending, Len(rows) + Len(batch))'
    BY DEF PageInv, Stage, Numbered
  <2>3. page' # "loading" BY DEF PageInv
  <2>4. /\ request'["page"].pc = "served"
        /\ rest' \in {"streaming", "done"} => request'["stream"].pc = "served"
        /\ rest' # "streaming" => pending' = <<>> /\ batch' = <<>>
    BY DEF PageInv, Stage
  <2>. QED BY <2>1, <2>2, <2>3, <2>4 DEF Stage
<1>3. Sources'
  <2>1. Carries(rows, 0) => Carries(rows, 0)' BY SameServer DEF Carries
  <2>2. Carries(batch, Len(rows)) => Carries(batch, Len(rows))'
    BY SameServer DEF Carries
  <2>3. Carries(pending, Len(rows) + Len(batch)) => Carries(pending, Len(rows) + Len(batch))'
    BY SameServer DEF Carries
  <2>. QED BY <2>1, <2>2, <2>3, SameServer DEF PageInv, Sources
<1>. QED BY <1>1, <1>2, <1>3 DEF PageInv

LEMMA ApplyFilterInv ==
  ASSUME PageInv, NEW t \in Terms \cup {NoTerm}, ApplyFilter(t) PROVE PageInv'
<1>1. CacheInv' BY PageStepIsCacheStep, CacheNextInv DEF PageInv, Next
<1>2. /\ page = "shown" /\ term' = t /\ Render(rows, here, t, FALSE)
      /\ UNCHANGED <<request, guess, page, rest, pending, batch, rows, here>>
  BY DEF ApplyFilter, cacheVars
<1>3. rows \in Seq(Row) /\ Numbered(rows, 0) /\ here \in Positions \cup {NoPlace}
  BY DEF PageInv, PageTypeOK, Stage
<1>4. Shown' /\ visible' \in Seq(Nat) /\ aliased' \in BOOLEAN
  BY <1>2, <1>3, RenderShows
<1>. QED BY <1>1, <1>2, <1>3, <1>4, SameRowsInv

(* What visibleRows holds unless it has rows twice: the page's list.       *)
LEMMA VisibleIsShown ==
  ASSUME PageInv, NEW rs, DOMAIN rs = 1 .. Len(rows),
         Len(VisibleRows(rs)) <= Len(rows)
  PROVE  VisibleRows(rs) = list /\ Enumerates(list, Found(rows, term))
<1>1. rows \in Seq(Row) /\ Numbered(rows, 0) /\ Len(rows) \in Nat
  BY LenProperties DEF PageInv, PageTypeOK, Stage
<1>2. list = Filtered(rows, here, term) BY DEF PageInv, Shown, ListIsWhatWasAskedFor
<1>3. Enumerates(list, Found(rows, term)) BY <1>1, <1>2, FilteredEnumerates
<1>4. CASE aliased
  <2>1. here = NoPlace /\ term = NoTerm BY <1>4 DEF PageInv, Shown
  <2>2. list = [i \in 1 .. Len(rows) |-> i] BY <1>1, <1>2, <2>1, AllAsTheyCame
  <2>3. VisibleRows(rs) = [i \in 1 .. Len(rows) |-> i] BY <1>4 DEF VisibleRows
  <2>. QED BY <1>3, <2>2, <2>3
<1>5. CASE ~aliased
  <2>1. VisibleRows(rs) = visible BY <1>5 DEF VisibleRows
  <2>2. ~(Len(visible) > Len(rows))
    <3>1. Len(visible) \in Nat BY LenProperties DEF PageInv, PageTypeOK
    <3>. QED BY <1>1, <2>1, <3>1
  <2>3. visible = list BY <1>5, <2>2 DEF PageInv, Shown
  <2>. QED BY <1>3, <2>1, <2>3
<1>. QED BY <1>4, <1>5

LEMMA UseBrowserLocationInv ==
  ASSUME PageInv, NEW p \in Positions, UseBrowserLocation(p) PROVE PageInv'
<1>. DEFINE n == Len(rows)
            rs == [i \in DOMAIN rows |-> [rows[i] EXCEPT !.origin = p]]
<1>1. CacheInv' BY PageStepIsCacheStep, CacheNextInv DEF PageInv, Next
<1>2. /\ page = "shown" /\ here' = p /\ rows' = rs /\ Render(rs, p, term, TRUE)
      /\ UNCHANGED <<request, guess, page, rest, pending, batch, term>>
  BY DEF UseBrowserLocation, cacheVars
<1>3. /\ rows \in Seq(Row) /\ Numbered(rows, 0) /\ n \in Nat /\ DOMAIN rows = 1 .. n
      /\ \A i \in 1 .. n : rows[i] \in Row
  BY LenProperties, ElementOfSeq DEF PageInv, PageTypeOK, Stage
<1>4. \A i \in 1 .. n : /\ rs[i] \in Row /\ rs[i].shop = rows[i].shop
                        /\ rs[i].index = rows[i].index
  BY <1>3 DEF Row, Places
<1>5. rs \in Seq(Row) /\ Len(rs) = n
  <2>1. rs \in [1 .. n -> Row] BY <1>3, <1>4
  <2>. HIDE DEF rs, n
  <2>. QED BY <1>3, <2>1, FunctionIsSeq
<1>6. Numbered(rs, 0) BY <1>3, <1>4, <1>5 DEF Numbered
<1>7. ASSUME Len(Filtered(rs, p, term)) = Len(VisibleRows(rs)),
             Len(Filtered(rs, p, term)) = Len(rs)
      PROVE  list = VisibleRows(rs) /\ Enumerates(list, 1 .. Len(rs))
  <2>1. DOMAIN rs = 1 .. n /\ Len(VisibleRows(rs)) = n BY <1>3, <1>5, <1>7
  <2>. HIDE DEF rs
  <2>2. VisibleRows(rs) = list /\ Enumerates(list, Found(rows, term))
    BY <2>1, VisibleIsShown
  <2>3. Len(Filtered(rows, here, term)) = Len(rows)
    BY <2>1, <2>2 DEF PageInv, Shown, ListIsWhatWasAskedFor
  <2>4. Found(rows, term) = 1 .. n BY <1>3, <2>3, AllAreFound
  <2>. QED BY <1>5, <2>2, <2>4
<1>. HIDE DEF rs, n
<1>8. Shown' /\ visible' \in Seq(Nat) /\ aliased' \in BOOLEAN
  BY <1>2, <1>5, <1>6, <1>7, RenderShows
<1>9. term \in Terms \cup {NoTerm} BY DEF PageInv, PageTypeOK
<1>. QED BY <1>1, <1>2, <1>4, <1>5, <1>8, <1>9, SameRowsInv DEF n

(* The stream moves rows from its lines to the batch and from there to the *)
(* page.                                                                   *)
LEMMA StreamGoesOn ==
  ASSUME PageInv, CacheInv', rest = "streaming", rest' \in {"streaming", "done"},
         UNCHANGED <<request, guess, page, here, term>>,
         rows' \in Seq(Row), batch' \in Seq(Row), pending' \in Seq(Row),
         visible' \in Seq(Nat), aliased' \in BOOLEAN, Shown',
         Numbered(rows, 0)', Numbered(batch, Len(rows))',
         Numbered(pending, Len(rows) + Len(batch))',
         Carries(rows, 0)', Carries(batch, Len(rows))',
         Carries(pending, Len(rows) + Len(batch))',
         Len(rows') + Len(batch') + Len(pending') = Len(rows) + Len(batch) + Len(pending),
         Len(rows') >= Len(rows),
         rest' = "done" => pending' = <<>> /\ batch' = <<>>
  PROVE  PageInv'
<1>1. page = "shown" BY DEF PageInv, PageTypeOK, Stage
<1>2. PageTypeOK' BY DEF PageInv, PageTypeOK
<1>3. Stage' BY <1>1 DEF PageInv, Stage
<1>4. Len(rows) \in Nat /\ Len(rows') \in Nat BY LenProperties DEF PageInv, PageTypeOK
<1>5. Len(rows') >= InitialLimit BY <1>4 DEF PageInv, Sources
<1>6. Sources' BY <1>5, SameServer DEF PageInv, Sources
<1>. QED BY <1>2, <1>3, <1>6 DEF PageInv

LEMMA RowsAppended ==
  ASSUME PageInv, UNCHANGED <<request, guess, here, term>>,
         Carries(rows, 0), NEW new \in Seq(Row), new # <<>>,
         Numbered(new, Len(rows)), Carries(new, Len(rows)), AppendRows(new)
  PROVE  /\ rows' \in Seq(Row) /\ Len(rows') = Len(rows) + Len(new)
         /\ Numbered(rows, 0)' /\ Carries(rows, 0)'
         /\ Shown' /\ visible' \in Seq(Nat) /\ aliased' \in BOOLEAN
<1>1. /\ rows' = rows \o new /\ rows' \in Seq(Row) /\ Numbered(rows', 0)
      /\ Len(rows') = Len(rows) + Len(new)
      /\ Shown' /\ visible' \in Seq(Nat) /\ aliased' \in BOOLEAN
  BY AppendRowsShows DEF PageInv, Stage
<1>2. rows \in Seq(Row) /\ Len(rows) \in Nat /\ Len(new) \in Nat
  BY LenProperties DEF PageInv, PageTypeOK
<1>3. ASSUME NEW i \in 1 .. Len(rows) + Len(new)
      PROVE  rows'[i].shop = Server(0 + i)
  <2>1. CASE i <= Len(rows)
    <3>1. i \in 1 .. Len(rows) /\ rows'[i] = rows[i]
      BY <1>1, <1>2, <2>1, ConcatProperties
    <3>. QED BY <3>1 DEF Carries
  <2>2. CASE i > Len(rows)
    <3>1. i - Len(rows) \in 1 .. Len(new) /\ rows'[i] = new[i - Len(rows)]
      BY <1>1, <1>2, <2>2, ConcatProperties
    <3>2. new[i - Len(rows)].shop = Server(Len(rows) + (i - Len(rows)))
      BY <3>1 DEF Carries
    <3>3. Len(rows) + (i - Len(rows)) = 0 + i BY <1>2
    <3>. QED BY <3>1, <3>2, <3>3
  <2>. QED BY <1>2, <2>1, <2>2
<1>4. Carries(rows, 0)' BY <1>1, <1>3, SameServer DEF Carries
<1>. QED BY <1>1, <1>4

LEMMA StreamLineInv ==
  ASSUME PageInv, StreamLine PROVE PageInv'
<1>. DEFINE row == IF here = NoPlace THEN Head(pending)
                   ELSE [Head(pending) EXCEPT !.origin = here]
            read == Append(batch, row)
            n == Len(rows)
            b == Len(batch)
<1>1. CacheInv' BY PageStepIsCacheStep, CacheNextInv DEF PageInv, Next
<1>2. /\ rest = "streaming" /\ pending # <<>> /\ pending' = Tail(pending)
      /\ UNCHANGED <<request, guess, page, rest, here, term>>
      /\ IF Len(read) >= BatchSize
         THEN batch' = <<>> /\ AppendRows(read)
         ELSE batch' = read /\ UNCHANGED <<rows, visible, aliased, list>>
  BY DEF StreamLine, cacheVars
<1>3. /\ rows \in Seq(Row) /\ batch \in Seq(Row) /\ pending \in Seq(Row)
      /\ n \in Nat /\ b \in Nat /\ Len(pending) \in Nat
  BY LenProperties DEF PageInv, PageTypeOK
<1>4. /\ Numbered(rows, 0) /\ Numbered(batch, n) /\ Numbered(pending, n + b)
      /\ Carries(rows, 0) /\ Carries(batch, n) /\ Carries(pending, n + b)
  BY <1>2 DEF PageInv, Stage, Sources
<1>5. /\ Len(pending) > 0 /\ Head(pending) = pending[1] /\ Head(pending) \in Row
      /\ pending' \in Seq(Row) /\ Len(pending') = Len(pending) - 1
      /\ \A i \in 1 .. Len(pending') : pending'[i] = pending[i + 1]
  BY <1>2, <1>3, EmptySeq, HeadTailProperties
<1>6. /\ row \in Row /\ row.shop = pending[1].shop /\ row.index = pending[1].index
  <2>1. here \in Places BY DEF PageInv, PageTypeOK, Places
  <2>. QED BY <1>5, <2>1 DEF Row
<1>. HIDE DEF row
<1>7. /\ pending[1].index = n + b /\ pending[1].shop = Server(n + b + 1)
  <2>1. 1 \in 1 .. Len(pending) BY <1>3, <1>5
  <2>2. pending[1].index = (n + b) + 1 - 1 BY <1>4, <2>1 DEF Numbered
  <2>3. pending[1].shop = Server((n + b) + 1) BY <1>4, <2>1 DEF Carries
  <2>. QED BY <1>3, <2>2, <2>3
<1>8. /\ read \in Seq(Row) /\ Len(read) = b + 1 /\ read[b + 1] = row /\ read # <<>>
      /\ \A i \in 1 .. b : read[i] = batch[i]
  BY <1>3, <1>6, AppendProperties
<1>. HIDE DEF read, n, b
<1>9. Numbered(read, n) /\ Carries(read, n)
  <2>1. ASSUME NEW i \in 1 .. b + 1
        PROVE  read[i].index = n + i - 1 /\ read[i].shop = Server(n + i)
    <3>1. CASE i = b + 1
      <4>1. n + i - 1 = n + b /\ n + i = n + b + 1
        <5>1. n \in Nat /\ b \in Nat BY <1>3
        <5>. QED BY <3>1, <5>1
      <4>. QED BY <1>6, <1>7, <1>8, <3>1, <4>1
    <3>2. CASE i # b + 1
      <4>1. i \in 1 .. b BY <1>3, <3>2
      <4>2. read[i] = batch[i] BY <1>8, <4>1
      <4>. QED BY <1>4, <4>1, <4>2 DEF Numbered, Carries, b
    <3>. QED BY <3>1, <3>2
  <2>. QED BY <1>8, <2>1 DEF Numbered, Carries
<1>10. Numbered(pending', n + b + 1)
       /\ \A i \in 1 .. Len(pending') : pending'[i].shop = Server(n + b + 1 + i)
  <2>1. ASSUME NEW i \in 1 .. Len(pending')
        PROVE  /\ pending'[i].index = n + b + 1 + i - 1
               /\ pending'[i].shop = Server(n + b + 1 + i)
    <3>1. i + 1 \in 1 .. Len(pending) /\ pending'[i] = pending[i + 1]
      BY <1>3, <1>5
    <3>2. pending[i + 1].index = n + b + (i + 1) - 1 BY <1>4, <3>1 DEF Numbered
    <3>3. pending[i + 1].shop = Server(n + b + (i + 1)) BY <1>4, <3>1 DEF Carries
    <3>4. n + b + (i + 1) = n + b + 1 + i BY <1>3
    <3>5. n + b + (i + 1) - 1 = n + b + 1 + i - 1 BY <1>3, <3>4
    <3>. QED BY <3>1, <3>2, <3>3, <3>4, <3>5
  <2>. QED BY <2>1 DEF Numbered
<1>11. CASE Len(read) >= BatchSize
  <2>1. batch' = <<>> /\ AppendRows(read) BY <1>2, <1>11
  <2>2. /\ rows' \in Seq(Row) /\ Len(rows') = n + Len(read)
        /\ Numbered(rows, 0)' /\ Carries(rows, 0)'
        /\ Shown' /\ visible' \in Seq(Nat) /\ aliased' \in BOOLEAN
    BY <1>2, <1>4, <1>8, <1>9, <2>1, RowsAppended DEF n
  <2>3. batch' \in Seq(Row) /\ Len(batch') = 0 BY <2>1, EmptySeq
  <2>4. Len(rows') + Len(batch') = n + b + 1 BY <1>3, <1>8, <2>2, <2>3
  <2>5. Numbered(batch, Len(rows))' /\ Carries(batch, Len(rows))'
    BY <2>3 DEF Numbered, Carries
  <2>6. Numbered(pending, Len(rows) + Len(batch))' BY <1>10, <2>4
  <2>7. Carries(pending, Len(rows) + Len(batch))'
    BY <1>2, <1>10, <2>4, SameServer DEF Carries
  <2>8. /\ Len(rows') + Len(batch') + Len(pending') = n + b + Len(pending)
        /\ Len(rows') >= n
    <3>1. n \in Nat /\ b \in Nat /\ Len(pending) \in Nat BY <1>3
    <3>2. Len(pending') = Len(pending) - 1 BY <1>5
    <3>3. Len(rows') = n + (b + 1) BY <1>8, <2>2
    <3>. QED BY <2>4, <3>1, <3>2, <3>3
  <2>. QED BY <1>1, <1>2, <1>5, <2>2, <2>3, <2>5, <2>6, <2>7, <2>8, StreamGoesOn DEF n, b
<1>12. CASE ~(Len(read) >= BatchSize)
  <2>1. batch' = read /\ UNCHANGED <<rows, visible, aliased, list>> BY <1>2, <1>12
  <2>2. Shown'
    <3>1. VisibleRows(rows)' = VisibleRows(rows) BY <2>1 DEF VisibleRows
    <3>. QED BY <1>2, <2>1 DEF PageInv, Shown, ListIsWhatWasAskedFor
  <2>3. Len(rows') = n /\ Len(rows') + Len(batch') = n + b + 1
    <3>1. n \in Nat /\ b \in Nat BY <1>3
    <3>2. Len(rows') = n BY <2>1 DEF n
    <3>3. Len(batch') = b + 1 BY <1>8, <2>1
    <3>. QED BY <3>1, <3>2, <3>3
  <2>4. Numbered(rows, 0)' /\ Carries(rows, 0)'
    BY <1>2, <1>4, <2>1, SameServer DEF Numbered, Carries
  <2>5. Numbered(batch, Len(rows))' /\ Carries(batch, Len(rows))'
    BY <1>2, <1>9, <2>1, SameServer DEF Numbered, Carries, n
  <2>6. Numbered(pending, Len(rows) + Len(batch))' BY <1>10, <2>3
  <2>7. Carries(pending, Len(rows) + Len(batch))'
    BY <1>2, <1>10, <2>3, SameServer DEF Carries
  <2>8. /\ Len(rows') + Len(batch') + Len(pending') = n + b + Len(pending)
        /\ Len(rows') >= n
    <3>1. n \in Nat /\ b \in Nat /\ Len(pending) \in Nat BY <1>3
    <3>2. Len(pending') = Len(pending) - 1 BY <1>5
    <3>. QED BY <2>3, <3>1, <3>2
  <2>9. visible \in Seq(Nat) /\ aliased \in BOOLEAN BY DEF PageInv, PageTypeOK
  <2>. QED BY <1>1, <1>2, <1>3, <1>5, <1>8, <2>1, <2>2, <2>4, <2>5, <2>6, <2>7, <2>8,
              <2>9, StreamGoesOn DEF n, b
<1>. QED BY <1>11, <1>12

LEMMA StreamEndsInv ==
  ASSUME PageInv, StreamEnds PROVE PageInv'
<1>1. CacheInv' BY PageStepIsCacheStep, CacheNextInv DEF PageInv, Next
<1>2. /\ rest = "streaming" /\ pending = <<>> /\ rest' = "done" /\ batch' = <<>>
      /\ IF batch = <<>> THEN UNCHANGED <<rows, visible, aliased, list>>
         ELSE AppendRows(batch)
      /\ UNCHANGED <<request, guess, page, pending, here, term>>
  BY DEF StreamEnds, cacheVars
<1>3. /\ rows \in Seq(Row) /\ batch \in Seq(Row) /\ <<>> \in Seq(Row) /\ Len(<<>>) = 0
      /\ Len(rows) \in Nat /\ Len(batch) \in Nat
      /\ visible \in Seq(Nat) /\ aliased \in BOOLEAN
  BY LenProperties, EmptySeq DEF PageInv, PageTypeOK
<1>4. /\ Numbered(rows, 0) /\ Numbered(batch, Len(rows))
      /\ Carries(rows, 0) /\ Carries(batch, Len(rows))
  BY <1>2 DEF PageInv, Stage, Sources
<1>5. /\ rows' \in Seq(Row) /\ Len(rows') = Len(rows) + Len(batch)
      /\ Numbered(rows, 0)' /\ Carries(rows, 0)'
      /\ Shown' /\ visible' \in Seq(Nat) /\ aliased' \in BOOLEAN
  <2>1. CASE batch = <<>>
    <3>1. UNCHANGED <<rows, visible, aliased, list>> BY <1>2, <2>1
    <3>2. Shown'
      <4>1. VisibleRows(rows)' = VisibleRows(rows) BY <3>1 DEF VisibleRows
      <4>. QED BY <1>2, <3>1 DEF PageInv, Shown, ListIsWhatWasAskedFor
    <3>3. Numbered(rows, 0)' /\ Carries(rows, 0)'
      BY <1>2, <1>4, <3>1, SameServer DEF Numbered, Carries
    <3>. QED BY <1>3, <2>1, <3>1, <3>2, <3>3
  <2>2. CASE batch # <<>>
    BY <1>2, <1>3, <1>4, <2>2, RowsAppended
  <2>. QED BY <2>1, <2>2
<1>6. /\ Numbered(batch, Len(rows))' /\ Numbered(pending, Len(rows) + Len(batch))'
      /\ Carries(batch, Len(rows))' /\ Carries(pending, Len(rows) + Len(batch))'
  BY <1>2, <1>3 DEF Numbered, Carries
<1>7. /\ Len(rows') + Len(batch') + Len(pending') = Len(rows) + Len(batch) + Len(pending)
      /\ Len(rows') >= Len(rows)
  BY <1>2, <1>3, <1>5
<1>8. batch' \in Seq(Row) /\ pending' \in Seq(Row) BY <1>2, <1>3
<1>. QED BY <1>1, <1>2, <1>5, <1>6, <1>7, <1>8, StreamGoesOn

-----------------------------------------------------------------------------
(* Theorems.                                                               *)

LEMMA PageNextInv == PageInv /\ [Next]_vars => PageInv'
<1>. SUFFICES ASSUME PageInv, [Next]_vars PROVE PageInv' OBVIOUS
<1>1. CASE Site \/ RequestPage \/ LoadRemaining \/ UNCHANGED vars BY <1>1, SiteInv
<1>2. CASE LoadPage BY <1>2, LoadPageInv
<1>3. CASE StreamStarts BY <1>3, StreamStartsInv
<1>4. CASE StreamLine BY <1>4, StreamLineInv
<1>5. CASE StreamEnds BY <1>5, StreamEndsInv
<1>6. CASE StreamBreaks BY <1>6, StreamBreaksInv
<1>7. CASE \E t \in Terms \cup {NoTerm} : ApplyFilter(t) BY <1>7, ApplyFilterInv
<1>8. CASE \E p \in Positions : UseBrowserLocation(p) BY <1>8, UseBrowserLocationInv
<1>. QED BY <1>1, <1>2, <1>3, <1>4, <1>5, <1>6, <1>7, <1>8 DEF Next

(* The page is well formed in every reachable state, its rows are numbered *)
(* as the script numbers them, and visibleRows is the page's list or is    *)
(* longer than the rows (appendRows, render, loadRemaining).               *)
THEOREM PageInvariance == Spec => []PageInv
BY PageInitInv, PageNextInv, PTL DEF Spec

(* However batches of the stream, searches and positions interleave, the   *)
(* page's list is the sorted list of the rows that are found: appending at *)
(* the end and moving single rows never leave another one (appendRows,     *)
(* render, reorderRows).                                                   *)
THEOREM TheListIsWhatWasAskedFor == Spec => []ListIsWhatWasAskedFor
<1>1. PageInv => ListIsWhatWasAskedFor BY DEF PageInv, Shown
<1>. QED BY <1>1, PageInvariance, PTL

(* A page and a stream that were cut from the same list have all of its    *)
(* rows when the stream is done, in the server's order, whatever was       *)
(* searched for or measured meanwhile (finder_remaining, loadRemaining).   *)
THEOREM APageIsCompleted == Spec => []OneListIsComplete
<1>1. PageInv => OneListIsComplete
  <2>. SUFFICES ASSUME PageInv, rest = "done",
                       request["page"].list = request["stream"].list
                PROVE  ShopsOf(rows) = SortLocations(request["page"].list, guess)
    BY DEF OneListIsComplete
  <2>. DEFINE l == request["page"].list
              n == ServerLength(l)
              s == SortLocations(l, guess)
  <2>1. l \in Lists \cup {NoList} /\ guess \in Guesses /\ guess \in Places
    BY ListsAreTyped DEF PageInv, CacheInv, PageTypeOK, Places
  <2>2. rows \in Seq(Row) /\ DOMAIN rows = 1 .. Len(rows) /\ Len(rows) \in Nat
    BY LenProperties DEF PageInv, PageTypeOK
  <2>3. pending = <<>> /\ batch = <<>> /\ Len(<<>>) = 0
    BY EmptySeq DEF PageInv, Stage
  <2>4. n > InitialLimit /\ n \in Nat
    BY <2>1, LocationRowsAre DEF PageInv, Sources
  <2>5. \/ Len(rows) + Len(batch) + Len(pending) = n
        \/ n <= InitialLimit
    BY DEF PageInv, Sources
  <2>6. Len(rows) = n BY <2>2, <2>3, <2>4, <2>5
  <2>7. \A i \in 1 .. n : rows[i].shop = s[i]
    <3>1. \A i \in 1 .. n : rows[i].shop = Server(0 + i)
      BY <2>6 DEF PageInv, Sources, Carries
    <3>2. \A i \in 1 .. n : Server(0 + i) = s[i] BY <2>4 DEF Server
    <3>. QED BY <3>1, <3>2
  <2>8. s = [i \in 1 .. n |-> s[i]]
    <3>1. s \in Seq(Shops) BY <2>1, LocationsAreSorted
    <3>2. Len(s) = n BY DEF ServerLength
    <3>. HIDE DEF s, n
    <3>. QED BY <3>1, <3>2, LenProperties
  <2>9. ShopsOf(rows) = [i \in 1 .. n |-> rows[i].shop] BY <2>2, <2>6 DEF ShopsOf
  <2>. HIDE DEF s, n, l
  <2>10. [i \in 1 .. n |-> rows[i].shop] = [i \in 1 .. n |-> s[i]] BY <2>7
  <2>. QED BY <2>8, <2>9, <2>10 DEF s, l
<1>. QED BY <1>1, PageInvariance, PTL

(* Whatever position the browser names, the rows that reorderRows keeps in *)
(* place are in the new order, no larger choice of rows is, and moving the *)
(* other ones leaves the new order (lisPositions, reorderRows).            *)
THEOREM ReorderingMovesFewest == Spec => []FewestRowsMove
<1>1. PageInv => FewestRowsMove
  <2>. SUFFICES ASSUME PageInv, NEW p \in Positions,
                       Len(Filtered(rows, p, term)) = Len(VisibleRows(rows))
                PROVE  LET next == Filtered(rows, p, term)
                           previous == VisibleRows(rows)
                           values == PreviousIndexes(previous, next)
                           keep == LisPositions(values)
                       IN  /\ MoveRows(previous, previous, next) = next
                           /\ Increasing(values, keep)
                           /\ \A S \in SUBSET DOMAIN next :
                                 \/ Cardinality(S) <= Cardinality(keep)
                                 \/ ~Increasing(values, S)
    BY DEF FewestRowsMove
  <2>. DEFINE next == Filtered(rows, p, term)
              previous == VisibleRows(rows)
              values == PreviousIndexes(previous, next)
              keep == LisPositions(values)
              R == Found(rows, term)
              n == Cardinality(R)
  <2>1. rows \in Seq(Row) /\ Numbered(rows, 0) /\ DOMAIN rows = 1 .. Len(rows)
    BY LenProperties DEF PageInv, PageTypeOK, Stage
  <2>2. Enumerates(next, R) /\ Len(next) <= Len(rows) BY <2>1, FilteredEnumerates
  <2>3. previous = list /\ Enumerates(list, R)
    <3>1. Len(previous) <= Len(rows) BY <2>2
    <3>. QED BY <2>1, <3>1, VisibleIsShown
  <2>. HIDE DEF next, previous, R
  <2>4. Enumerates(previous, R) BY <2>3
  <2>5. MoveRows(previous, previous, next) = next BY <2>2, <2>4, RowsAreMoved
  <2>6. n \in Nat /\ DOMAIN next = 1 .. n
    BY <2>2, FS_CardinalityType DEF Enumerates
  <2>7. values \in [1 .. n -> Nat] BY <2>2, <2>4, PreviousIndexesAre
  <2>. HIDE DEF n, values
  <2>8. Increasing(values, LisPositions(values)) BY <2>6, <2>7, LongestRunIsKept
  <2>9. \A S \in SUBSET (1 .. n) : Increasing(values, S)
           => Cardinality(S) <= Cardinality(LisPositions(values))
    BY <2>6, <2>7, LongestRunIsKept
  <2>. QED BY <2>5, <2>6, <2>8, <2>9 DEF next, previous, values
<1>. QED BY <1>1, PageInvariance, PTL

(* Once the site had a list of locations, no page and no stream is made    *)
(* from an empty one again (cached_locations).                             *)
THEOREM ThePageIsNeverEmptyAgain == Spec => NeverEmptyAgain
BY PageKeepsTheCache, AlwaysAListAgain, PTL
=============================================================================
