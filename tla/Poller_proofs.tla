--------------------------- MODULE Poller_proofs ---------------------------
(***************************************************************************)
(* What TLAPS proves about Poller, for every set of shops and providers    *)
(* and every interval, spacing, cooldown and fault bound.                  *)
(***************************************************************************)
EXTENDS Poller, FiniteSetTheorems, TLAPS

(* Abbreviations of the actions, expanded everywhere.                      *)
USE DEF FollowingBatch, Observed, Announces, CatalogSucceeded

-----------------------------------------------------------------------------
(* Small facts about the operators the actions are built from.             *)

(* A countdown stays a natural number below the value it started from.     *)
LEMMA DecType == ASSUME NEW m \in Nat, NEW n \in 0..m PROVE Dec(n) \in 0..m
  BY DEF Dec

(* Setting a cooldown keeps it within the configured duration.             *)
LEMMA LongerType == ASSUME NEW a \in 0..Cooldown PROVE Longer(a, Cooldown) \in 0..Cooldown
  BY TimingAssumption DEF Longer

(* Ranks and the number of batches are natural numbers, and a schedule     *)
(* that has shops has at least one batch.                                  *)
LEMMA NumBatchesPositive ==
  ASSUME NEW p \in Providers, NEW S \in SUBSET Shops, S # {}
  PROVE  NumBatches(p, S) \in Nat \ {0}
<1>1. IsFiniteSet(S) BY FS_Subset, ShopsAssumption
<1>2. Cardinality(S) \in Nat /\ Cardinality(S) # 0
  BY <1>1, FS_CardinalityType, FS_EmptySet
<1>3. BatchSize[p] \in Nat \ {0} BY ShopsAssumption
<1>. DEFINE c == Cardinality(S)
            b == BatchSize[p]
<1>4. c \in Nat \ {0} /\ b \in Nat \ {0} BY <1>2, <1>3
<1>. HIDE DEF c, b
<1>5. (c + b - 1) \div b \in Nat \ {0} BY <1>4, Z3
<1>. QED BY <1>5 DEF NumBatches, c, b

(* A staggered start is never in the past.                                 *)
LEMMA StaggerType ==
  ASSUME NEW p \in Providers, NEW sched \in [Providers -> SUBSET Shops], sched[p] # {}
  PROVE  Stagger(p, sched) \in Nat
<1>. DEFINE G == Groups(sched)
            r == Rank(p, G)
            c == Cardinality(G)
            s == Spacing
<1>1. G \subseteq Providers /\ p \in G BY DEF Groups
<1>2. IsFiniteSet(G) /\ IsFiniteSet({t \in G : t < p})
  BY <1>1, FS_Subset, ShopsAssumption
<1>3. c \in Nat \ {0} BY <1>1, <1>2, FS_CardinalityType, FS_EmptySet
<1>4. r \in Nat /\ s \in Nat BY <1>2, FS_CardinalityType, TimingAssumption DEF Rank
<1>. HIDE DEF G, r, c, s
<1>5. s * r \in Nat BY <1>4
<1>6. (s * r) \div c \in Nat BY <1>3, <1>5
<1>. QED BY <1>6 DEF Stagger, G, r, c, s

(* The jobs built by the two selection steps are jobs.                     *)
LEMMA WaitJobType ==
  ASSUME TypeOK, NEW p \in Providers PROVE WaitJob(p) \in Jobs
  BY DEF TypeOK, WaitJob, Batch, Jobs, ShopEndpoints

(* The notice jobs selected from the stored rows are jobs the model knows. *)
LEMMA NoticeJobsType == TypeOK => NoticeJobs \subseteq Jobs
<1>. SUFFICES ASSUME TypeOK, NEW j \in NoticeJobs PROVE j \in Jobs
  OBVIOUS
<1>1. PICK e \in {"notice", "closing_notice"}, s \in NoticeShops : j = NoticeJob(e, s)
  BY DEF NoticeJobs
<1>2. s \in Shops /\ ProviderOf[s] \in Providers
  BY ShopsAssumption DEF NoticeShops, TypeOK
<1>. QED
  BY <1>1, <1>2 DEF NoticeJob, Jobs, ShopEndpoints

(* The cooldown row a job is checked against is a target.                  *)
LEMMA TargetType == ASSUME NEW j \in Jobs PROVE TargetOf(j) \in Targets
  BY DEF Jobs, TargetOf, Targets

(* A catalog request that fetched nothing is a well-formed answer.         *)
LEMMA NothingFetchedType == NothingFetched \in CatalogAnswers
<1>1. NothingFetched \in [seen : SUBSET Shops, on : SUBSET Shops,
                          denied : BOOLEAN, code : BOOLEAN]
  BY DEF NothingFetched
<1>2. NothingFetched.on \subseteq NothingFetched.seen /\ ~NothingFetched.code
  BY DEF NothingFetched
<1>. QED
  BY <1>1, <1>2 DEF CatalogAnswers

(* The catalog answer held between two steps names shops of the model only. *)
LEMMA CatalogAnswerType ==
  ASSUME TypeOK
  PROVE  catalog.seen \subseteq Shops /\ catalog.on \subseteq Shops
  BY DEF TypeOK, CatalogAnswers

(* A database call leaves the budgets natural numbers.                     *)
LEMMA BudgetType ==
  TypeOK /\ (NoFault \/ DbFault) =>
    faults' \in Nat /\ upstreamFaults' \in Nat /\ spent' \in Nat
  BY DEF TypeOK, NoFault, DbFault, budgetVars

-----------------------------------------------------------------------------
(* Type correctness.                                                       *)
THEOREM InitType == Init => TypeOK
<1>. SUFFICES ASSUME Init PROVE TypeOK
  OBVIOUS
<1>1. catalog \in CatalogAnswers
  BY NothingFetchedType DEF Init
<1>2. /\ cooldownLeft \in [Targets -> 0..Cooldown] /\ backoff \in [Targets -> 0..Cooldown]
      /\ sinceRequest \in [Providers -> 0..Spacing]
      /\ sinceEarlier \in [Providers -> 0..Spacing]
      /\ catalogDueIn \in 0..CatalogInterval /\ catalogRetryIn \in 0..CatalogRetryInterval
      /\ noticeDueIn \in 0..NoticeInterval
  BY TimingAssumption DEF Init
<1>3. pc \in Phases /\ loaded \in BOOLEAN /\ pollNotices \in BOOLEAN /\ observed \in BOOLEAN
  BY DEF Init, Phases
<1>4. /\ schedule \in [Providers -> SUBSET Shops]
      /\ nextBatch \in [Providers -> Nat] /\ dueIn \in [Providers -> Nat]
  BY DEF Init
<1>5. faults \in Nat /\ upstreamFaults \in Nat /\ spent \in Nat
  BY DEF Init
<1>6. waiting = {} /\ inflight = {} /\ results = {} /\ kept = {} /\ enabled = {}
      /\ managed = {} /\ unannounced = {} /\ lostDenials = {}
  BY DEF Init
<1>. QED
  BY <1>1, <1>2, <1>3, <1>4, <1>5, <1>6 DEF TypeOK

(* Time passing, in a sleep or inside a request, keeps every type.         *)
LEMMA PassTimeType == ASSUME TypeOK, PassTime, pc' \in Phases, spent' \in Nat PROVE TypeOK'
<1>1. catalogDueIn' \in 0..CatalogInterval /\ catalogRetryIn' \in 0..CatalogRetryInterval
      /\ noticeDueIn' \in 0..NoticeInterval
  BY DecType, TimingAssumption DEF TypeOK, PassTime
<1>2. dueIn' \in [Providers -> Nat]
  BY DEF TypeOK, PassTime, Dec
<1>3. cooldownLeft' \in [Targets -> 0..Cooldown] /\ backoff' \in [Targets -> 0..Cooldown]
  BY DecType, TimingAssumption DEF TypeOK, PassTime
<1>4. sinceRequest' \in [Providers -> 0..Spacing] /\ sinceEarlier' \in [Providers -> 0..Spacing]
  BY TimingAssumption DEF TypeOK, PassTime, Grown
<1>. QED
  BY <1>1, <1>2, <1>3, <1>4 DEF TypeOK, PassTime, fetchVars

(* Every step of the loop, of its tables and of the clock keeps the types. *)
LEMMA NextType == TypeOK /\ [Next]_vars => TypeOK'
<1>. SUFFICES ASSUME TypeOK, [Next]_vars PROVE TypeOK'
  OBVIOUS
<1>. USE DEF loopVars, schedVars, fetchVars, dbVars, budgetVars, paceVars, denialVars
<1>1. CASE StartIteration
  BY <1>1, TimingAssumption DEF StartIteration, TypeOK, Phases
<1>2. CASE CheckCatalogCooldown
  BY <1>2 DEF CheckCatalogCooldown, TypeOK, Phases, NoFault, DbFault
<1>3. CASE FetchCatalog
  BY <1>3, LongerType DEF FetchCatalog, TypeOK, Phases, Charge, Deny, Targets
<1>4. CASE RecordCatalog
  <2>1. faults' \in Nat /\ upstreamFaults' \in Nat /\ spent' \in Nat
    BY <1>4, BudgetType DEF RecordCatalog
  <2>2. catalog' \in CatalogAnswers
    BY <1>4, NothingFetchedType DEF RecordCatalog, TypeOK
  <2>3. cooldownLeft' \in [Targets -> 0..Cooldown]
    BY <1>4, LongerType DEF RecordCatalog, Trip, TypeOK, Targets
  <2>. QED
    BY <1>4, <2>1, <2>2, <2>3 DEF RecordCatalog, TypeOK, Phases, Targets
<1>5. CASE PersistCatalog
  <2>1. faults' \in Nat /\ upstreamFaults' \in Nat /\ spent' \in Nat
    BY <1>5, BudgetType DEF PersistCatalog
  <2>2. catalog' \in CatalogAnswers
    BY <1>5, NothingFetchedType DEF PersistCatalog, TypeOK
  <2>3. enabled' \subseteq Shops
    BY <1>5, CatalogAnswerType DEF PersistCatalog, UpsertLocations, TypeOK
  <2>4. unannounced' \subseteq {"catalog", "wait", "notice"}
    BY <1>5 DEF PersistCatalog, UpsertLocations, TypeOK
  <2>. QED
    BY <1>5, <2>1, <2>2, <2>3, <2>4 DEF PersistCatalog, TypeOK, Phases
<1>6. CASE RefreshManaged
  <2>1. faults' \in Nat /\ upstreamFaults' \in Nat /\ spent' \in Nat
    BY <1>6, BudgetType DEF RefreshManaged
  <2>2. catalog' \in CatalogAnswers
    BY <1>6, NothingFetchedType DEF RefreshManaged
  <2>3. managed' \subseteq Shops /\ catalogDueIn' \in 0..CatalogInterval
    BY <1>6, TimingAssumption DEF RefreshManaged, TypeOK
  <2>4. loaded' \in BOOLEAN
    BY <1>6, Zenon DEF RefreshManaged, TypeOK
  <2>. QED
    BY <1>6, <2>1, <2>2, <2>3, <2>4 DEF RefreshManaged, TypeOK, Phases
<1>7. CASE LoadSchedules
  <2>1. faults' \in Nat /\ upstreamFaults' \in Nat /\ spent' \in Nat
    BY <1>7, BudgetType DEF LoadSchedules
  <2>2. Tracked(enabled) \in [Providers -> SUBSET Shops]
    BY DEF Tracked, TypeOK
  <2>3. schedule' \in [Providers -> SUBSET Shops] /\ nextBatch' \in [Providers -> Nat]
    BY <1>7, <2>2 DEF LoadSchedules, TypeOK
  <2>4. dueIn' \in [Providers -> Nat]
    BY <1>7, <2>2, StaggerType DEF LoadSchedules, TypeOK
  <2>5. loaded' \in BOOLEAN
    BY <1>7, Zenon DEF LoadSchedules, TypeOK
  <2>6. sinceRequest' \in [Providers -> 0..Spacing] /\ sinceEarlier' \in [Providers -> 0..Spacing]
    BY <1>7, TimingAssumption DEF LoadSchedules, TypeOK
  <2>. QED
    BY <1>7, <2>1, <2>3, <2>4, <2>5, <2>6 DEF LoadSchedules, TypeOK, Phases
<1>8. CASE SelectWaitBatches
  BY <1>8, NumBatchesPositive, WaitJobType, TimingAssumption
  DEF SelectWaitBatches, TypeOK, Phases, NoFault, DbFault, SendFirst, NoteSent,
      AskedProviders, DueProviders, DueAfter, Groups
<1>9. CASE ReceiveWait
  BY <1>9, LongerType, TargetType, TimingAssumption
  DEF ReceiveWait, Answer, TypeOK, Phases, Charge, Deny, NoteSent, Results
<1>10. CASE RecordWait
  BY <1>10, LongerType, TargetType
  DEF RecordWait, Record, TypeOK, Phases, NoFault, DbFault, Trip, Results, DeniedTargets
<1>11. CASE PersistWaits
  <2>1. faults' \in Nat /\ upstreamFaults' \in Nat /\ spent' \in Nat
    BY <1>11, BudgetType DEF PersistWaits
  <2>2. unannounced' \subseteq {"catalog", "wait", "notice"}
    BY <1>11 DEF PersistWaits, TypeOK
  <2>3. observed' \in BOOLEAN
    <3>1. ("rows" \in kept) \in BOOLEAN
      OBVIOUS
    <3>2. observed' = observed \/ observed' = ("rows" \in kept)
      BY <1>11, Zenon DEF PersistWaits
    <3>. QED
      BY <3>1, <3>2, Zenon DEF TypeOK
  <2>. QED
    BY <1>11, <2>1, <2>2, <2>3 DEF PersistWaits, TypeOK, Phases
<1>12. CASE StartNotices
  BY <1>12, NoticeJobsType
  DEF StartNotices, TypeOK, Phases, NoFault, DbFault, SendFirst
<1>13. CASE ReceiveNotice
  BY <1>13, LongerType, TargetType, TimingAssumption
  DEF ReceiveNotice, Answer, TypeOK, Phases, Charge, Deny, NoteSent, Results
<1>14. CASE RecordNotice
  BY <1>14, LongerType, TargetType
  DEF RecordNotice, Record, TypeOK, Phases, NoFault, DbFault, Trip, Results
<1>15. CASE PersistNotices
  <2>1. faults' \in Nat /\ upstreamFaults' \in Nat /\ spent' \in Nat
    BY <1>15, BudgetType DEF PersistNotices
  <2>2. unannounced' \subseteq {"catalog", "wait", "notice"}
    BY <1>15 DEF PersistNotices, TypeOK
  <2>3. observed' \in BOOLEAN
    BY <1>15, Zenon DEF PersistNotices, TypeOK
  <2>. QED
    BY <1>15, <2>1, <2>2, <2>3 DEF PersistNotices, TypeOK, Phases
<1>16. CASE Publish
  <2>1. faults' \in Nat /\ upstreamFaults' \in Nat /\ spent' \in Nat
    BY <1>16, BudgetType DEF Publish
  <2>. QED
    BY <1>16, <2>1 DEF Publish, TypeOK, Phases
<1>17. CASE Sleep
  BY <1>17, PassTimeType DEF Sleep, Phases, TypeOK
<1>18. CASE Elapse
  BY <1>18, PassTimeType DEF Elapse, TypeOK
<1>19. CASE Crash
  <2>1. DeniedTargets(results) \subseteq Targets
    BY TargetType DEF DeniedTargets, TypeOK, Results
  <2>2. lostDenials' \subseteq Targets
    BY <1>19, <2>1 DEF Crash, TypeOK, Targets
  <2>3. catalog' \in CatalogAnswers
    BY <1>19, NothingFetchedType DEF Crash
  <2>4. /\ catalogDueIn' \in 0..CatalogInterval /\ catalogRetryIn' \in 0..CatalogRetryInterval
        /\ noticeDueIn' \in 0..NoticeInterval
    BY <1>19, TimingAssumption DEF Crash
  <2>5. /\ schedule' \in [Providers -> SUBSET Shops]
        /\ nextBatch' \in [Providers -> Nat] /\ dueIn' \in [Providers -> Nat]
    BY <1>19 DEF Crash
  <2>6. loaded' \in BOOLEAN /\ pollNotices' \in BOOLEAN /\ observed' \in BOOLEAN
    BY <1>19 DEF Crash
  <2>7. /\ waiting' = {} /\ inflight' = {} /\ results' = {} /\ kept' = {}
        /\ pc' \in Phases /\ faults' \in Nat
    BY <1>19 DEF Crash, Phases, TypeOK
  <2>. QED
    BY <1>19, <2>2, <2>3, <2>4, <2>5, <2>6, <2>7 DEF Crash, TypeOK
<1>20. CASE UNCHANGED vars
  BY <1>20 DEF vars, TypeOK
<1>. QED
  BY <1>1, <1>2, <1>3, <1>4, <1>5, <1>6, <1>7, <1>8, <1>9, <1>10, <1>11, <1>12, <1>13,
     <1>14, <1>15, <1>16, <1>17, <1>18, <1>19, <1>20 DEF Next, PollerStep

(* Every reachable state is well typed: timers stay within their           *)
(* intervals and every job and result is one the program can build.        *)
THEOREM TypeCorrect == Spec => []TypeOK
  BY InitType, NextType, PTL DEF Spec

-----------------------------------------------------------------------------
(* The batches of a schedule.                                              *)

(* Quotients by a positive number: what lies between two multiples.        *)
LEMMA Quotient ==
  ASSUME NEW a \in Nat, NEW b \in Nat \ {0}
  PROVE  /\ a \div b \in Nat
         /\ b * (a \div b) <= a /\ a < b * (a \div b) + b
<1>1. a \div b \in Nat BY SMT
<1>2. b * (a \div b) <= a BY SMT
<1>3. a < b * (a \div b) + b BY SMT
<1>. QED BY <1>1, <1>2, <1>3

LEMMA QuotientUnique ==
  ASSUME NEW a \in Nat, NEW b \in Nat \ {0}, NEW q \in Nat,
         b * q <= a, a < b * q + b
  PROVE  a \div b = q
<1>. DEFINE d == a \div b
<1>1. d \in Nat /\ b * d <= a /\ a < b * d + b BY Quotient
<1>. HIDE DEF d
<1>2. CASE d < q
  <2>1. b * (d + 1) <= b * q BY <1>1, <1>2, Z3
  <2>. QED BY <1>1, <2>1, Z3
<1>3. CASE q < d
  <2>1. b * (q + 1) <= b * d BY <1>1, <1>3, Z3
  <2>. QED BY <1>1, <2>1, Z3
<1>4. d = q BY <1>1, <1>2, <1>3
<1>. QED BY <1>4 DEF d

LEMMA QuotientMonotonic ==
  ASSUME NEW a \in Nat, NEW c \in Nat, NEW b \in Nat \ {0}, a <= c
  PROVE  a \div b <= c \div b
<1>. DEFINE d == a \div b
            e == c \div b
<1>1. d \in Nat /\ b * d <= a /\ a < b * d + b BY Quotient
<1>2. e \in Nat /\ b * e <= c /\ c < b * e + b BY Quotient
<1>. HIDE DEF d, e
<1>3. CASE e < d
  <2>1. b * (e + 1) <= b * d BY <1>1, <1>2, <1>3, Z3
  <2>. QED BY <1>1, <1>2, <2>1, Z3
<1>4. d <= e BY <1>1, <1>2, <1>3
<1>. QED BY <1>4 DEF d, e

(* The rank numbers the elements of a finite set from 0, without gaps.     *)
LEMMA RankIncreases ==
  ASSUME NEW S \in SUBSET Nat, IsFiniteSet(S), NEW s \in S, NEW t \in S, t < s
  PROVE  Rank(t, S) < Rank(s, S)
<1>. DEFINE A == {x \in S : x < t}
            B == {x \in S : x < s}
<1>0. s \in Nat /\ t \in Nat OBVIOUS
<1>1. A \subseteq B /\ B \subseteq S /\ t \in B /\ t \notin A
  <2>1. \A x \in A : x \in Nat /\ x < s BY <1>0
  <2>2. ~ (t < t) BY <1>0
  <2>. QED BY <2>1, <2>2
<1>2. IsFiniteSet(A) /\ IsFiniteSet(B) BY <1>1, FS_Subset
<1>3. Cardinality(A) <= Cardinality(B) /\ Cardinality(A) # Cardinality(B)
  BY <1>1, <1>2, FS_Subset
<1>4. Cardinality(A) \in Nat /\ Cardinality(B) \in Nat BY <1>2, FS_CardinalityType
<1>. QED BY <1>3, <1>4 DEF Rank

LEMMA RankBound ==
  ASSUME NEW S \in SUBSET Nat, IsFiniteSet(S), NEW s \in S
  PROVE  Rank(s, S) \in 0 .. Cardinality(S) - 1
<1>. DEFINE A == {x \in S : x < s}
<1>1. A \subseteq S /\ s \notin A OBVIOUS
<1>2. Cardinality(A) <= Cardinality(S) /\ Cardinality(A) # Cardinality(S) /\ IsFiniteSet(A)
  BY <1>1, FS_Subset
<1>3. Cardinality(A) \in Nat /\ Cardinality(S) \in Nat BY <1>2, FS_CardinalityType
<1>. QED BY <1>2, <1>3 DEF Rank

LEMMA RankOnto ==
  ASSUME NEW S \in SUBSET Nat, IsFiniteSet(S), NEW k \in 0 .. Cardinality(S) - 1
  PROVE  \E s \in S : Rank(s, S) = k
<1>. DEFINE n == Cardinality(S)
            f == [s \in S |-> Rank(s, S)]
<1>1. n \in Nat BY FS_CardinalityType
<1>2. f \in [S -> 0 .. n - 1] BY RankBound
<1>3. ASSUME NEW s \in S, NEW t \in S, s # t PROVE f[s] # f[t]
  <2>1. s < t \/ t < s BY <1>3
  <2>2. Rank(s, S) \in Nat /\ Rank(t, S) \in Nat BY RankBound, <1>1
  <2>3. Rank(s, S) # Rank(t, S) BY <2>1, <2>2, RankIncreases
  <2>. QED BY <2>3
<1>4. f \in Injection(S, 0 .. n - 1) BY <1>2, <1>3 DEF Injection, IsInjective
<1>5. IsFiniteSet(0 .. n - 1) /\ Cardinality(0 .. n - 1) = n BY <1>1, FS_Interval
<1>6. f \in Surjection(S, 0 .. n - 1) BY <1>4, <1>5, FS_Injection
<1>. QED BY <1>6 DEF Surjection

(* The ranks of a batch are an interval as long as a batch may be.         *)
LEMMA BatchFits ==
  ASSUME NEW p \in Providers, NEW S \in SUBSET Shops, NEW i \in Nat
  PROVE  Cardinality(Batch(p, S, i)) <= BatchSize[p] /\ IsFiniteSet(Batch(p, S, i))
<1>. DEFINE b == BatchSize[p]
            T == Batch(p, S, i)
            m == b * i
            f == [s \in T |-> Rank(s, S)]
<1>1. S \in SUBSET Nat /\ IsFiniteSet(S) /\ b \in Nat \ {0}
  BY ShopsAssumption, FS_Subset
<1>2. T \subseteq S /\ IsFiniteSet(T) BY <1>1, FS_Subset DEF Batch
<1>3. Cardinality(S) \in Nat BY <1>1, FS_CardinalityType
<1>4. ASSUME NEW s \in T PROVE Rank(s, S) \in m .. m + b - 1
  <2>0. s \in S BY <1>2
  <2>1. Rank(s, S) \in Nat BY <1>1, <1>3, <2>0, RankBound
  <2>2. Rank(s, S) \div b = i BY DEF Batch
  <2>3. b * i <= Rank(s, S) /\ Rank(s, S) < b * i + b
    BY <1>1, <2>1, <2>2, Quotient
  <2>4. m \in Nat BY <1>1
  <2>. HIDE DEF b
  <2>. QED BY <1>1, <2>1, <2>3, <2>4
<1>5. f \in [T -> m .. m + b - 1] BY <1>4
<1>6. ASSUME NEW s \in T, NEW t \in T, s # t PROVE f[s] # f[t]
  <2>0. s \in S /\ t \in S BY <1>2
  <2>1. s < t \/ t < s
    <3>1. s \in Nat /\ t \in Nat BY <1>1, <2>0
    <3>. QED BY <1>6, <3>1
  <2>2. Rank(s, S) \in Nat /\ Rank(t, S) \in Nat BY <1>1, <1>3, <2>0, RankBound
  <2>3. Rank(s, S) # Rank(t, S) BY <1>1, <2>0, <2>1, <2>2, RankIncreases
  <2>. QED BY <2>3
<1>7. f \in Injection(T, m .. m + b - 1) BY <1>5, <1>6 DEF Injection, IsInjective
<1>8. m \in Nat BY <1>1
<1>. HIDE DEF m, b
<1>9. IsFiniteSet(m .. m + b - 1) /\ Cardinality(m .. m + b - 1) = b
  BY <1>1, <1>8, FS_Interval
<1>10. Cardinality(T) <= b BY <1>7, <1>9, FS_Injection
<1>. QED BY <1>2, <1>10 DEF b

(* The chunks of a provider's shops are a partition of them.               *)
LEMMA BatchesPartition ==
  ASSUME NEW p \in Providers, NEW S \in SUBSET Shops, S # {}
  PROVE  LET I == 0 .. NumBatches(p, S) - 1
         IN  /\ UNION {Batch(p, S, i) : i \in I} = S
             /\ \A i \in I : Cardinality(Batch(p, S, i)) \in 1 .. BatchSize[p]
             /\ \A i, j \in I : i # j => Batch(p, S, i) \cap Batch(p, S, j) = {}
<1>. DEFINE b == BatchSize[p]
            n == Cardinality(S)
            last == (n - 1) \div b
            I == 0 .. NumBatches(p, S) - 1
<1>1. S \in SUBSET Nat /\ IsFiniteSet(S) /\ b \in Nat \ {0}
  BY ShopsAssumption, FS_Subset
<1>2. n \in Nat \ {0} BY <1>1, FS_CardinalityType, FS_EmptySet
<1>3. last \in Nat /\ b * last <= n - 1 /\ n - 1 < b * last + b
  <2>1. n - 1 \in Nat BY <1>2
  <2>. QED BY <1>1, <2>1, Quotient
<1>4. I = 0 .. last
  <2>. HIDE DEF n, b, last
  <2>1. n + b - 1 \in Nat /\ last + 1 \in Nat BY <1>1, <1>2, <1>3
  <2>2. b * (last + 1) = b * last + b BY <1>1, <1>3, Z3
  <2>3. b * last \in Nat BY <1>1, <1>3
  <2>4. b * (last + 1) <= n + b - 1 /\ n + b - 1 < b * (last + 1) + b
    BY <1>1, <1>2, <1>3, <2>2, <2>3
  <2>5. (n + b - 1) \div b = last + 1 BY <1>1, <2>1, <2>4, QuotientUnique
  <2>6. NumBatches(p, S) = last + 1 BY <2>5 DEF NumBatches, n, b
  <2>. QED BY <1>3, <2>6
<1>5. ASSUME NEW s \in S PROVE Rank(s, S) \div b \in I
  <2>1. Rank(s, S) \in 0 .. n - 1 BY <1>1, RankBound
  <2>. HIDE DEF n, b
  <2>2. Rank(s, S) \in Nat /\ n - 1 \in Nat /\ Rank(s, S) <= n - 1 BY <1>2, <2>1
  <2>3. Rank(s, S) \div b <= last BY <1>1, <2>2, QuotientMonotonic
  <2>4. Rank(s, S) \div b \in Nat BY <1>1, <2>2, Quotient
  <2>5. last \in Nat BY <1>3
  <2>. HIDE DEF last, I
  <2>. QED BY <1>4, <2>3, <2>4, <2>5
<1>6. UNION {Batch(p, S, i) : i \in I} = S BY <1>5 DEF Batch
<1>7. ASSUME NEW i \in I PROVE Cardinality(Batch(p, S, i)) \in 1 .. b
  <2>1. i \in Nat /\ i <= last
    <3>1. i \in 0 .. last /\ last \in Nat BY <1>3, <1>4
    <3>. HIDE DEF last
    <3>. QED BY <3>1
  <2>2. Cardinality(Batch(p, S, i)) <= b /\ IsFiniteSet(Batch(p, S, i))
    BY <2>1, BatchFits
  <2>3. b * i \in 0 .. n - 1
    <3>. HIDE DEF n, b, last
    <3>1. b * i \in Nat /\ b * last \in Nat BY <1>1, <1>3, <2>1
    <3>2. b * i <= b * last BY <1>1, <1>3, <2>1, Z3
    <3>. QED BY <1>2, <1>3, <3>1, <3>2
  <2>4. PICK s \in S : Rank(s, S) = b * i BY <1>1, <2>3, RankOnto
  <2>5. (b * i) \div b = i
    <3>. HIDE DEF b
    <3>1. b * i \in Nat BY <1>1, <2>1
    <3>2. b * i <= b * i /\ b * i < b * i + b BY <1>1, <3>1
    <3>. QED BY <1>1, <2>1, <3>1, <3>2, QuotientUnique
  <2>6. Batch(p, S, i) # {} BY <2>4, <2>5 DEF Batch
  <2>7. Cardinality(Batch(p, S, i)) \in Nat \ {0}
    BY <2>2, <2>6, FS_CardinalityType, FS_EmptySet
  <2>. QED BY <1>1, <2>2, <2>7
<1>8. \A i, j \in I : i # j => Batch(p, S, i) \cap Batch(p, S, j) = {} BY DEF Batch
<1>. QED BY <1>6, <1>7, <1>8

(* The batches of every schedule are a partition of its shops into chunks  *)
(* of at most the batch size (load_wait_schedules): no shop is left out of the  *)
(* round and none is asked for twice.                                      *)
THEOREM BatchesArePartitions == Spec => []BatchesPartitionSchedule
<1>1. TypeOK => BatchesPartitionSchedule
  <2>. SUFFICES ASSUME TypeOK, NEW p \in Groups(schedule)
                PROVE  LET S == schedule[p]
                           I == 0 .. NumBatches(p, S) - 1
                       IN  /\ UNION {Batch(p, S, i) : i \in I} = S
                           /\ \A i \in I : Cardinality(Batch(p, S, i)) \in 1 .. BatchSize[p]
                           /\ \A i, j \in I : i # j => Batch(p, S, i) \cap Batch(p, S, j) = {}
    BY DEF BatchesPartitionSchedule
  <2>1. p \in Providers /\ schedule[p] \in SUBSET Shops /\ schedule[p] # {}
    BY DEF TypeOK, Groups
  <2>. QED BY <2>1, BatchesPartition
<1>. QED BY <1>1, TypeCorrect, PTL

-----------------------------------------------------------------------------
(* The index of the next batch.                                            *)
(* schedule.batches[schedule.next_batch] is always in range: the index is  *)
(* reset with the batches it points into and advances modulo their number. *)
THEOREM BatchIndexAlwaysInRange == Spec => []BatchIndexInRange
<1>. USE DEF BatchIndexInRange, loopVars, schedVars, fetchVars, dbVars, budgetVars, paceVars,
             denialVars
<1>1. Init => BatchIndexInRange
  BY DEF Init, Groups
<1>2. TypeOK /\ BatchIndexInRange /\ [Next]_vars => BatchIndexInRange'
  <2>. SUFFICES ASSUME TypeOK, BatchIndexInRange, [Next]_vars PROVE BatchIndexInRange'
    OBVIOUS
  <2>1. CASE LoadSchedules
    <3>1. CASE UNCHANGED schedVars
      BY <3>1 DEF Groups
    <3>2. CASE schedule' = Tracked(enabled) /\ nextBatch' = [p \in Providers |-> 0]
      <4>. SUFFICES ASSUME NEW p \in Providers, Tracked(enabled)[p] # {}
                    PROVE  0 < NumBatches(p, Tracked(enabled)[p])
        BY <3>2 DEF Groups
      <4>1. Tracked(enabled)[p] \in SUBSET Shops
        BY DEF Tracked, TypeOK
      <4>. QED
        BY <4>1, NumBatchesPositive
    <3>. QED
      BY <2>1, <3>1, <3>2 DEF LoadSchedules
  <2>2. CASE SelectWaitBatches
    <3>1. CASE UNCHANGED <<schedule, nextBatch>>
      BY <3>1 DEF Groups
    <3>2. CASE /\ schedule' = schedule
               /\ nextBatch' = [p \in Providers |->
                                  IF p \in AskedProviders
                                    THEN (nextBatch[p] + 1) % NumBatches(p, schedule[p])
                                    ELSE nextBatch[p]]
      <4>. SUFFICES ASSUME NEW p \in Groups(schedule)
                    PROVE  nextBatch'[p] < NumBatches(p, schedule[p])
        BY <3>2 DEF Groups
      <4>1. p \in Providers /\ nextBatch[p] \in Nat /\ schedule[p] \in SUBSET Shops
            /\ schedule[p] # {}
        BY DEF Groups, TypeOK
      <4>2. NumBatches(p, schedule[p]) \in Nat \ {0}
        BY <4>1, NumBatchesPositive
      <4>3. (nextBatch[p] + 1) % NumBatches(p, schedule[p]) < NumBatches(p, schedule[p])
        BY <4>1, <4>2
      <4>. QED
        BY <3>2, <4>1, <4>3
    <3>. QED
      BY <2>2, <3>1, <3>2 DEF SelectWaitBatches
  <2>3. CASE Crash
    BY <2>3 DEF Crash, Groups
  <2>4. CASE UNCHANGED <<schedule, nextBatch>>
    BY <2>4 DEF Groups
  <2>. QED
    BY <2>1, <2>2, <2>3, <2>4
    DEF Next, PollerStep, vars, StartIteration, CheckCatalogCooldown, FetchCatalog,
        RecordCatalog, PersistCatalog, RefreshManaged, ReceiveWait, RecordWait, PersistWaits,
        StartNotices, ReceiveNotice, RecordNotice, PersistNotices, Publish, Sleep, Elapse,
        PassTime
<1>. QED
  BY <1>1, <1>2, TypeCorrect, PTL DEF Spec

-----------------------------------------------------------------------------
(* Schedules that are behind the locations table.                          *)
(* The inductive part: a catalog poll is only under way when the catalog   *)
(* is due, so a commit whose refresh fails leaves it due.                  *)
CatalogPhases == {"catalogCheck", "catalogFetch", "catalogRecord", "catalogPersist",
                  "catalogRefresh"}
StaleInv == /\ pc \in CatalogPhases => catalogDueIn = 0
            /\ StaleScheduleIsKnown

(* Whatever commits, failures and restarts happen, schedules that differ   *)
(* from the table have a reload or a catalog poll ahead of them.           *)
THEOREM StaleSchedulesAreKnown == Spec => []StaleScheduleIsKnown
<1>. USE DEF StaleInv, StaleScheduleIsKnown, CatalogPhases, loopVars, schedVars, fetchVars,
             dbVars, budgetVars, paceVars, denialVars
<1>1. Init => StaleInv
  BY DEF Init
<1>2. TypeOK /\ StaleInv /\ [Next]_vars => StaleInv'
  <2>. SUFFICES ASSUME TypeOK, StaleInv, [Next]_vars PROVE StaleInv'
    OBVIOUS
  <2>1. CASE StartIteration
    BY <2>1 DEF StartIteration, Tracked
  <2>2. CASE CheckCatalogCooldown
    BY <2>2 DEF CheckCatalogCooldown, Tracked
  <2>3. CASE FetchCatalog
    BY <2>3 DEF FetchCatalog, Tracked
  <2>4. CASE RecordCatalog
    BY <2>4 DEF RecordCatalog, Tracked
  <2>5. CASE PersistCatalog
    BY <2>5 DEF PersistCatalog
  <2>6. CASE RefreshManaged
    BY <2>6 DEF RefreshManaged, Tracked
  <2>7. CASE LoadSchedules
    BY <2>7 DEF LoadSchedules, Tracked
  <2>8. CASE Sleep
    BY <2>8 DEF Sleep, PassTime, Dec, Tracked
  <2>9. CASE Elapse
    BY <2>9 DEF Elapse, PassTime, Dec, Tracked
  <2>10. CASE Crash
    BY <2>10 DEF Crash, Tracked
  <2>11. CASE SelectWaitBatches \/ ReceiveWait \/ RecordWait \/ PersistWaits \/ StartNotices
              \/ ReceiveNotice \/ RecordNotice \/ PersistNotices \/ Publish
    <3>1. UNCHANGED <<schedule, enabled, loaded, catalogDueIn>> /\ pc' \notin CatalogPhases
      BY <2>11
      DEF SelectWaitBatches, ReceiveWait, RecordWait, PersistWaits, StartNotices,
          ReceiveNotice, RecordNotice, PersistNotices, Publish
    <3>. QED
      BY <3>1 DEF Tracked
  <2>12. CASE UNCHANGED vars
    BY <2>12 DEF vars, Tracked
  <2>. QED
    BY <2>1, <2>2, <2>3, <2>4, <2>5, <2>6, <2>7, <2>8, <2>9, <2>10, <2>11, <2>12
    DEF Next, PollerStep
<1>3. StaleInv => StaleScheduleIsKnown
  OBVIOUS
<1>. QED
  BY <1>1, <1>2, <1>3, TypeCorrect, PTL DEF Spec

-----------------------------------------------------------------------------
(* Cooldowns recorded in the table.                                        *)
(* Requests wait in the queue of a fetch phase only, and none of them is   *)
(* for a target that is cooling down: nothing trips a cooldown before the  *)
(* last answer of the batch is in.                                         *)
FetchPhases == {"waitFetch", "noticeFetch"}
QueueInv == /\ pc \notin FetchPhases => waiting = {}
            /\ \A j \in waiting : cooldownLeft[TargetOf(j)] = 0
            /\ pc = "noticeFetch" => \A j \in waiting : j.endpoint # "wait_time"

(* The jobs either fetch phase starts with have no cooldown, and a notice  *)
(* phase makes no wait request.                                            *)
LEMMA SelectedJobsFree ==
  /\ \A j \in {WaitJob(p) : p \in AskedProviders} : cooldownLeft[TargetOf(j)] = 0
  /\ \A j \in NoticeJobs : cooldownLeft[TargetOf(j)] = 0 /\ j.endpoint # "wait_time"
<1>1. ASSUME NEW p \in AskedProviders PROVE cooldownLeft[TargetOf(WaitJob(p))] = 0
  BY DEF AskedProviders, WaitJob, TargetOf, WaitTarget
<1>2. \A j \in NoticeJobs : j.endpoint # "wait_time"
  BY DEF NoticeJobs, NoticeJob
<1>. QED
  BY <1>1, <1>2 DEF NoticeJobs

(* Nothing is queued when the poller starts.                               *)
LEMMA QueueInvInit == Init => QueueInv
  BY DEF Init, QueueInv

(* Every step keeps the queue free of targets that are cooling down.       *)
LEMMA QueueInvNext == TypeOK /\ QueueInv /\ [Next]_vars => QueueInv'
<1>. SUFFICES ASSUME TypeOK, QueueInv, [Next]_vars PROVE QueueInv'
  OBVIOUS
<1>. USE DEF QueueInv, FetchPhases, loopVars, schedVars, fetchVars, dbVars, budgetVars,
             paceVars, denialVars
<1>1. CASE UNCHANGED <<waiting, cooldownLeft>> /\ (pc' = pc \/ pc \notin FetchPhases)
  BY <1>1
<1>2. CASE RecordCatalog \/ RecordWait \/ RecordNotice
  BY <1>2 DEF RecordCatalog, RecordWait, RecordNotice
<1>3. CASE SelectWaitBatches
  <2>1. CASE pc' = "notice" /\ waiting' = waiting
    BY <1>3, <2>1 DEF SelectWaitBatches
  <2>2. CASE pc' = (IF AskedProviders = {} THEN "notice" ELSE "waitFetch")
    <3>1. PICK first \in SUBSET {WaitJob(p) : p \in AskedProviders} :
             SendFirst({WaitJob(p) : p \in AskedProviders}, first) \/ waiting' = waiting
      BY <1>3 DEF SelectWaitBatches
    <3>2. waiting' \subseteq {WaitJob(p) : p \in AskedProviders} \/ waiting' = {}
      BY <1>3, <3>1 DEF SendFirst, SelectWaitBatches
    <3>3. AskedProviders = {} => waiting' = {}
      BY <3>2
    <3>. QED
      BY <1>3, <2>2, <3>2, <3>3, SelectedJobsFree DEF SelectWaitBatches
  <2>. QED
    BY <1>3, <2>1, <2>2 DEF SelectWaitBatches
<1>4. CASE StartNotices
  <2>1. CASE pc' = "publish" /\ waiting' = waiting
    BY <1>4, <2>1 DEF StartNotices
  <2>2. CASE pc' = (IF NoticeJobs = {} THEN "publish" ELSE "noticeFetch")
             /\ waiting' \subseteq NoticeJobs
    BY <1>4, <2>2, SelectedJobsFree DEF StartNotices
  <2>. QED
    BY <1>4, <2>1, <2>2 DEF StartNotices, SendFirst
<1>5. CASE ReceiveWait \/ ReceiveNotice
  <2>1. PICK next \in SUBSET waiting, job \in inflight :
           /\ waiting # {} <=> next # {}
           /\ inflight' = (inflight \ {job}) \cup next
           /\ waiting' = waiting \ next
    BY <1>5 DEF ReceiveWait, ReceiveNotice, Answer
  <2>2. inflight' = {} => waiting' = {}
    BY <2>1
  <2>. QED
    BY <1>5, <2>1, <2>2 DEF ReceiveWait, ReceiveNotice
<1>6. CASE Sleep \/ Elapse
  <2>1. \A t \in Targets : cooldownLeft[t] = 0 => cooldownLeft'[t] = 0
    BY <1>6 DEF Sleep, Elapse, PassTime, Dec
  <2>2. \A j \in waiting : TargetOf(j) \in Targets
    BY TargetType DEF TypeOK
  <2>. QED
    BY <1>6, <2>1, <2>2 DEF Sleep, Elapse, PassTime
<1>7. CASE Crash
  BY <1>7 DEF Crash
<1>. QED
  BY <1>1, <1>2, <1>3, <1>4, <1>5, <1>6, <1>7
  DEF Next, PollerStep, vars, StartIteration, CheckCatalogCooldown, FetchCatalog,
      PersistCatalog, RefreshManaged, LoadSchedules, PersistWaits, PersistNotices, Publish

(* The step that sends a request finds no cooldown on its target.          *)
LEMMA SentJobsFree ==
  TypeOK /\ QueueInv /\ Next =>
    /\ \A j \in Sent : cooldownLeft[TargetOf(j)] = 0
    /\ pc' = "catalogFetch" /\ pc # "catalogFetch" => cooldownLeft[CatalogTarget] = 0
<1>. SUFFICES ASSUME TypeOK, QueueInv, Next
              PROVE  /\ \A j \in Sent : cooldownLeft[TargetOf(j)] = 0
                     /\ pc' = "catalogFetch" /\ pc # "catalogFetch" =>
                          cooldownLeft[CatalogTarget] = 0
  OBVIOUS
<1>. USE DEF Sent, loopVars, schedVars, fetchVars, dbVars, budgetVars, paceVars, denialVars
<1>1. CASE CheckCatalogCooldown
  <2>1. cooldownLeft[CatalogTarget] \in Nat
    BY DEF TypeOK, Targets
  <2>. QED
    BY <1>1, <2>1 DEF CheckCatalogCooldown
<1>2. CASE SelectWaitBatches
  <2>1. inflight' \subseteq {WaitJob(p) : p \in AskedProviders} \/ inflight' = inflight
    BY <1>2 DEF SelectWaitBatches, SendFirst
  <2>. QED
    BY <1>2, <2>1, SelectedJobsFree DEF SelectWaitBatches
<1>3. CASE StartNotices
  <2>1. inflight' \subseteq NoticeJobs \/ inflight' = inflight
    BY <1>3 DEF StartNotices, SendFirst
  <2>. QED
    BY <1>3, <2>1, SelectedJobsFree DEF StartNotices
<1>4. CASE ReceiveWait \/ ReceiveNotice
  <2>1. inflight' \subseteq inflight \cup waiting
    BY <1>4 DEF ReceiveWait, ReceiveNotice, Answer
  <2>. QED
    BY <1>4, <2>1 DEF ReceiveWait, ReceiveNotice, QueueInv
<1>5. CASE (inflight' = inflight \/ inflight' = {})
           /\ (pc' = "catalogFetch" => pc = "catalogFetch")
  BY <1>5
<1>. QED
  BY <1>1, <1>2, <1>3, <1>4, <1>5
  DEF Next, PollerStep, StartIteration, FetchCatalog, RecordCatalog, PersistCatalog,
      RefreshManaged, LoadSchedules, RecordWait, PersistWaits, RecordNotice,
      PersistNotices, Publish, Sleep, Elapse, PassTime, Crash

(* No wait, notice, closing-notice or catalog request leaves while its     *)
(* endpoint and provider are cooling down in the table.                    *)
THEOREM CooldownsAreHonoured == Spec => CooldownHonoured
<1>1. TypeOK /\ QueueInv /\ [Next]_vars =>
        [/\ \A j \in Sent : cooldownLeft[TargetOf(j)] = 0
         /\ pc' = "catalogFetch" /\ pc # "catalogFetch" => cooldownLeft[CatalogTarget] = 0]_vars
  BY SentJobsFree
<1>. QED
  BY <1>1, QueueInvInit, QueueInvNext, TypeCorrect, PTL DEF Spec, CooldownHonoured

-----------------------------------------------------------------------------
(* Announcements.                                                          *)
(* Without faults an unannounced wait or notice commit is one this         *)
(* iteration remembers and is still on its way to publish.                 *)
AfterWaits == {"notice", "noticeFetch", "noticeRecord", "noticePersist", "publish"}
AnnounceInv == faults = 0 => \/ unannounced \subseteq {"catalog"}
                             \/ observed /\ pc \in AfterWaits

(* In an iteration without database errors or crashes no committed wait or *)
(* notice is left unannounced when the loop goes to sleep.                 *)
THEOREM CommitsAnnouncedAtRest == Spec => []AnnouncedAtRest
<1>. USE DEF AnnounceInv, AfterWaits, loopVars, schedVars, fetchVars, dbVars, budgetVars,
             paceVars, denialVars
<1>1. Init => AnnounceInv
  BY DEF Init
<1>2. TypeOK /\ AnnounceInv /\ [Next]_vars => AnnounceInv'
  <2>. SUFFICES ASSUME TypeOK, AnnounceInv, [Next]_vars PROVE AnnounceInv'
    OBVIOUS
  <2>1. CASE faults' # 0
    BY <2>1
  <2>. SUFFICES ASSUME faults' = 0 PROVE AnnounceInv'
    BY <2>1
  <2>0. ~DbFault /\ (NoFault => faults = 0)
    BY DEF DbFault, NoFault, TypeOK
  <2>2. CASE PersistCatalog
    BY <2>0, <2>2 DEF PersistCatalog, UpsertLocations
  <2>3. CASE PersistWaits
    <3>1. faults = 0 /\ unannounced \subseteq {"catalog"}
      BY <2>0, <2>3 DEF PersistWaits
    <3>2. CASE "rows" \in kept /\ "bad" \notin kept
      BY <2>0, <2>3, <3>2 DEF PersistWaits
    <3>3. CASE ~("rows" \in kept /\ "bad" \notin kept)
      BY <2>0, <2>3, <3>1, <3>3 DEF PersistWaits
    <3>. QED
      BY <3>2, <3>3
  <2>4. CASE PersistNotices
    <3>1. faults = 0 /\ pc = "noticePersist" /\ pc' = "publish"
      BY <2>0, <2>4 DEF PersistNotices
    <3>2. CASE "rows" \in kept
      <4>1. observed'
        BY <2>0, <2>4, <3>2, Zenon DEF PersistNotices
      <4>. QED
        BY <3>1, <4>1
    <3>3. CASE "rows" \notin kept
      <4>1. unannounced' = unannounced
        BY <2>0, <2>4, <3>3 DEF PersistNotices
      <4>2. observed => observed'
        BY <2>0, <2>4, Zenon DEF PersistNotices
      <4>. QED
        BY <3>1, <4>1, <4>2
    <3>. QED
      BY <3>2, <3>3
  <2>5. CASE Publish
    BY <2>0, <2>5 DEF Publish
  <2>6. CASE StartNotices \/ ReceiveNotice \/ RecordNotice
    <3>1. /\ UNCHANGED <<unannounced, observed>> /\ pc' \in AfterWaits
          /\ faults' \in {faults, faults + 1}
      BY <2>6
      DEF StartNotices, ReceiveNotice, RecordNotice, NoFault, DbFault, Answer, Charge
    <3>. QED
      BY <3>1 DEF TypeOK
  <2>7. CASE UNCHANGED <<unannounced, observed>> /\ (pc' = pc \/ pc \notin AfterWaits)
             /\ faults' \in {faults, faults + 1}
    BY <2>7 DEF TypeOK
  <2>8. CASE Crash
    BY <2>8 DEF Crash, TypeOK
  <2>. QED
    BY <2>2, <2>3, <2>4, <2>5, <2>6, <2>7, <2>8
    DEF Next, PollerStep, vars, NoFault, DbFault, Charge, StartIteration,
        CheckCatalogCooldown, FetchCatalog, RecordCatalog, RefreshManaged, LoadSchedules,
        SelectWaitBatches, ReceiveWait, Answer, RecordWait, Sleep, Elapse, PassTime
<1>3. AnnounceInv => AnnouncedAtRest
  BY DEF AnnouncedAtRest
<1>. QED
  BY <1>1, <1>2, <1>3, TypeCorrect, PTL DEF Spec

-----------------------------------------------------------------------------
(* Backing off after a denial.                                             *)
(* What upstream still asks for is covered by the cooldown table, by an    *)
(* answer whose cooldown is about to be recorded, or was lost.  While wait *)
(* requests are out, each is for a provider of its own.                    *)
ResultPhases == {"waitFetch", "waitRecord", "noticeFetch", "noticeRecord"}
Covered(t) == \/ backoff[t] <= cooldownLeft[t]
              \/ t \in lostDenials
              \/ t \in DeniedTargets(results)
OneRequestEach ==
    \A j \in waiting :
        /\ j \notin inflight
        /\ \A k \in waiting \cup inflight : TargetOf(j) = TargetOf(k) => j = k
        /\ \A r \in results : TargetOf(r.job) # TargetOf(j)
BackOffInv ==
    /\ pc \notin ResultPhases => results = {}
    /\ \A t \in ShopEndpoints \X Providers : Covered(t)
    /\ pc = "waitFetch" => OneRequestEach

(* The catalog's target is not one of the per-provider ones.               *)
LEMMA ShopTargets ==
  ASSUME NEW t \in ShopEndpoints \X Providers PROVE t # CatalogTarget /\ t \in Targets
  BY DEF ShopEndpoints, CatalogTarget, Targets

(* An answer joins the results, and its denial is then covered by them.    *)
LEMMA AnswerCovers ==
  ASSUME TypeOK, BackOffInv, NEW job \in Jobs, NEW denied \in BOOLEAN, NEW outcome \in Outcomes,
         Answer(job, denied, outcome), UNCHANGED <<cooldownLeft, lostDenials>>,
         NEW t \in ShopEndpoints \X Providers
  PROVE  Covered(t)'
<1>1. DeniedTargets(results) \subseteq DeniedTargets(results')
  BY DEF Answer, DeniedTargets
<1>2. CASE denied /\ t = TargetOf(job)
  <2>1. [job |-> job, denied |-> denied, outcome |-> outcome] \in {x \in results' : x.denied}
    BY <1>2 DEF Answer
  <2>. QED
    BY <1>2, <2>1 DEF Covered, DeniedTargets
<1>3. CASE ~(denied /\ t = TargetOf(job))
  <2>1. backoff'[t] = backoff[t]
    BY <1>3, ShopTargets DEF Answer, Deny, TypeOK
  <2>. QED
    BY <1>1, <2>1 DEF BackOffInv, Covered
<1>. QED
  BY <1>2, <1>3

(* Recording a denial in the table covers it there.                        *)
LEMMA RecordCovers ==
  ASSUME TypeOK, BackOffInv, NEW r \in results, results' = results \ {r},
         Record(r), UNCHANGED backoff, NEW t \in ShopEndpoints \X Providers
  PROVE  Covered(t)'
<1>1. t \in Targets
  BY ShopTargets
<1>2. cooldownLeft[t] \in 0..Cooldown /\ backoff[t] \in 0..Cooldown
  BY <1>1 DEF TypeOK
<1>3. CASE r.denied /\ t = TargetOf(r.job)
  <2>1. cooldownLeft'[t] = Longer(cooldownLeft[t], Cooldown)
    BY <1>1, <1>3 DEF Record, Trip, TypeOK
  <2>2. backoff[t] <= cooldownLeft'[t]
    BY <1>2, <2>1, TimingAssumption DEF Longer
  <2>. QED
    BY <2>2 DEF Covered
<1>4. CASE ~(r.denied /\ t = TargetOf(r.job))
  <2>1. t \in DeniedTargets(results) => t \in DeniedTargets(results')
    BY <1>4 DEF DeniedTargets
  <2>2. cooldownLeft'[t] = cooldownLeft[t] /\ (t \in lostDenials => t \in lostDenials')
    BY <1>1, <1>4 DEF Record, Trip, TypeOK
  <2>. QED
    BY <2>1, <2>2 DEF BackOffInv, Covered
<1>. QED
  BY <1>3, <1>4

(* No denial is outstanding when the poller starts.                        *)
LEMMA BackOffInvInit == Init => BackOffInv
  BY ShopTargets DEF Init, BackOffInv, Covered, ResultPhases

(* Every step keeps each denial covered: recorded, lost or still to record. *)
LEMMA BackOffInvNext == TypeOK /\ BackOffInv /\ [Next]_vars => BackOffInv'
<1>. SUFFICES ASSUME TypeOK, BackOffInv, [Next]_vars PROVE BackOffInv'
  OBVIOUS
<1>. USE DEF loopVars, schedVars, fetchVars, dbVars, budgetVars, paceVars, denialVars
<1>1. CASE FetchCatalog
  <2>1. \A t \in ShopEndpoints \X Providers : backoff'[t] = backoff[t]
    BY <1>1, ShopTargets DEF FetchCatalog, Deny, TypeOK
  <2>. QED
    BY <1>1, <2>1 DEF FetchCatalog, BackOffInv, Covered, ResultPhases
<1>2. CASE RecordCatalog
  <2>1. \A t \in ShopEndpoints \X Providers : cooldownLeft'[t] = cooldownLeft[t]
    BY <1>2, ShopTargets DEF RecordCatalog, Trip, TypeOK
  <2>2. lostDenials \subseteq lostDenials'
    BY <1>2 DEF RecordCatalog
  <2>. QED
    BY <1>2, <2>1, <2>2 DEF RecordCatalog, BackOffInv, Covered, ResultPhases
<1>3. CASE SelectWaitBatches
  <2>1. results' = results /\ results = {} /\ \A t \in ShopEndpoints \X Providers : Covered(t)'
    BY <1>3 DEF SelectWaitBatches, BackOffInv, Covered, ResultPhases
  <2>2. ASSUME pc' = "waitFetch" PROVE OneRequestEach'
    <3>1. PICK first \in SUBSET {WaitJob(p) : p \in AskedProviders} :
             /\ inflight' = first
             /\ waiting' = {WaitJob(p) : p \in AskedProviders} \ first
      BY <1>3, <2>2 DEF SelectWaitBatches, SendFirst
    <3>2. ASSUME NEW p, NEW q, TargetOf(WaitJob(p)) = TargetOf(WaitJob(q))
          PROVE  WaitJob(p) = WaitJob(q)
      BY <3>2 DEF TargetOf, WaitJob
    <3>. QED
      BY <2>1, <3>1, <3>2 DEF OneRequestEach
  <2>. QED
    BY <2>1, <2>2 DEF BackOffInv
<1>4. CASE ReceiveWait
  <2>1. PICK job \in inflight, denied \in BOOLEAN, outcome \in Outcomes :
           Answer(job, denied, outcome)
    BY <1>4 DEF ReceiveWait
  <2>2. PICK next \in SUBSET waiting :
           inflight' = (inflight \ {job}) \cup next /\ waiting' = waiting \ next
    BY <2>1 DEF Answer
  <2>3. OneRequestEach'
    BY <1>4, <2>1, <2>2 DEF ReceiveWait, Answer, BackOffInv, OneRequestEach
  <2>4. \A t \in ShopEndpoints \X Providers : Covered(t)'
    BY <1>4, <2>1, AnswerCovers DEF ReceiveWait, TypeOK
  <2>. QED
    BY <1>4, <2>3, <2>4 DEF ReceiveWait, BackOffInv, ResultPhases
<1>5. CASE ReceiveNotice
  <2>1. \A t \in ShopEndpoints \X Providers : Covered(t)'
    BY <1>5, AnswerCovers DEF ReceiveNotice, TypeOK
  <2>. QED
    BY <1>5, <2>1 DEF ReceiveNotice, BackOffInv, ResultPhases
<1>6. CASE RecordWait
  <2>1. CASE /\ pc' = IF results' = {} THEN "waitPersist" ELSE pc
             /\ \E r \in results : results' = results \ {r} /\ Record(r)
    <3>1. \A t \in ShopEndpoints \X Providers : Covered(t)'
      BY <1>6, <2>1, RecordCovers DEF RecordWait
    <3>. QED
      BY <1>6, <2>1, <3>1 DEF RecordWait, BackOffInv, ResultPhases
  <2>2. CASE /\ lostDenials' = lostDenials \cup DeniedTargets(results)
             /\ results' = {} /\ pc' = "notice" /\ UNCHANGED cooldownLeft
    BY <1>6, <2>2 DEF RecordWait, BackOffInv, Covered, ResultPhases
  <2>. QED
    BY <1>6, <2>1, <2>2 DEF RecordWait
<1>7. CASE RecordNotice
  <2>1. PICK r \in results :
           /\ results' = results \ {r}
           /\ pc' = IF results' = {} THEN "noticePersist" ELSE pc
           /\ \/ Record(r)
              \/ /\ lostDenials' = lostDenials \cup {TargetOf(r.job)}
                 /\ UNCHANGED cooldownLeft
    BY <1>7 DEF RecordNotice
  <2>2. CASE Record(r)
    <3>1. \A t \in ShopEndpoints \X Providers : Covered(t)'
      BY <1>7, <2>1, <2>2, RecordCovers DEF RecordNotice
    <3>. QED
      BY <1>7, <2>1, <3>1 DEF RecordNotice, BackOffInv, ResultPhases
  <2>3. CASE /\ lostDenials' = lostDenials \cup {TargetOf(r.job)}
             /\ UNCHANGED cooldownLeft
    <3>1. DeniedTargets(results) \subseteq DeniedTargets(results') \cup {TargetOf(r.job)}
      BY <2>1 DEF DeniedTargets
    <3>. QED
      BY <1>7, <2>1, <2>3, <3>1 DEF RecordNotice, BackOffInv, Covered, ResultPhases
  <2>. QED
    BY <2>1, <2>2, <2>3
<1>8. CASE Sleep \/ Elapse
  <2>1. ASSUME NEW t \in ShopEndpoints \X Providers PROVE Covered(t)'
    <3>1. t \in Targets
      BY ShopTargets
    <3>2. /\ backoff[t] <= cooldownLeft[t] => backoff'[t] <= cooldownLeft'[t]
          /\ backoff[t] <= 1 => backoff'[t] <= cooldownLeft'[t]
      BY <1>8, <3>1, TimingAssumption DEF Sleep, Elapse, PassTime, Dec, TypeOK
    <3>3. t \in lostDenials => backoff[t] <= 1 \/ t \in lostDenials'
      BY <1>8, <3>1, TimingAssumption DEF Sleep, Elapse, PassTime, TypeOK
    <3>. QED
      BY <1>8, <3>2, <3>3 DEF Sleep, Elapse, PassTime, BackOffInv, Covered
  <2>. QED
    BY <1>8, <2>1 DEF Sleep, Elapse, PassTime, BackOffInv, OneRequestEach, ResultPhases
<1>9. CASE Crash
  BY <1>9 DEF Crash, BackOffInv, Covered, ResultPhases
<1>10. CASE /\ UNCHANGED <<results, backoff, cooldownLeft, lostDenials>>
            /\ pc' # "waitFetch" /\ (pc \in ResultPhases => pc' \in ResultPhases)
  BY <1>10 DEF BackOffInv, Covered
<1>11. CASE UNCHANGED vars
  BY <1>11 DEF vars, BackOffInv, Covered, OneRequestEach
<1>. QED
  BY <1>1, <1>2, <1>3, <1>4, <1>5, <1>6, <1>7, <1>8, <1>9, <1>10, <1>11
  DEF Next, PollerStep, StartIteration, CheckCatalogCooldown, PersistCatalog,
      RefreshManaged, LoadSchedules, PersistWaits, StartNotices, PersistNotices, Publish,
      ResultPhases

(* After a wait provider denied a request nothing more is asked of it for  *)
(* a whole cooldown, however often the poller restarts and whatever other  *)
(* database calls fail, unless that very denial was lost unrecorded.       *)
THEOREM DeniedProvidersLeftAlone == Spec => WaitBackOff
<1>1. TypeOK /\ QueueInv /\ BackOffInv /\ [Next]_vars =>
        [\A p \in Providers : WaitsSent(p) =>
           backoff[WaitTarget(p)] = 0 \/ WaitTarget(p) \in lostDenials]_vars
  <2>. SUFFICES ASSUME TypeOK, QueueInv, BackOffInv, Next, NEW p \in Providers, WaitsSent(p)
                PROVE  backoff[WaitTarget(p)] = 0 \/ WaitTarget(p) \in lostDenials
    OBVIOUS
  <2>. PICK j \in Sent : j.endpoint = "wait_time" /\ j.provider = p
    BY DEF WaitsSent
  <2>1. TargetOf(j) = WaitTarget(p) /\ WaitTarget(p) \in ShopEndpoints \X Providers
    BY DEF TargetOf, WaitTarget, ShopEndpoints
  <2>2. cooldownLeft[WaitTarget(p)] = 0
    BY <2>1, SentJobsFree
  <2>3. WaitTarget(p) \notin DeniedTargets(results)
    <3>. USE DEF Sent, loopVars, schedVars, fetchVars, dbVars, budgetVars, paceVars, denialVars
    <3>1. CASE SelectWaitBatches
      BY <3>1 DEF SelectWaitBatches, BackOffInv, ResultPhases, DeniedTargets
    <3>2. CASE StartNotices
      BY <3>2, SelectedJobsFree DEF StartNotices, SendFirst
    <3>3. CASE ReceiveWait
      <4>1. j \in waiting
        BY <3>3 DEF ReceiveWait, Answer
      <4>. QED
        BY <2>1, <3>3, <4>1 DEF ReceiveWait, BackOffInv, OneRequestEach, DeniedTargets
    <3>4. CASE ReceiveNotice
      BY <3>4 DEF ReceiveNotice, Answer, QueueInv
    <3>5. CASE inflight' = inflight \/ inflight' = {}
      BY <3>5
    <3>. QED
      BY <3>1, <3>2, <3>3, <3>4, <3>5
      DEF Next, PollerStep, StartIteration, CheckCatalogCooldown, FetchCatalog,
          RecordCatalog, PersistCatalog, RefreshManaged, LoadSchedules, RecordWait,
          PersistWaits, RecordNotice, PersistNotices, Publish, Sleep, Elapse, PassTime, Crash
  <2>4. Covered(WaitTarget(p)) /\ backoff[WaitTarget(p)] \in 0..Cooldown
    BY <2>1, ShopTargets DEF BackOffInv, TypeOK
  <2>. QED
    BY <2>2, <2>3, <2>4, TimingAssumption DEF Covered
<1>. QED
  BY <1>1, BackOffInvInit, BackOffInvNext, QueueInvInit, QueueInvNext, TypeCorrect, PTL
  DEF Spec, WaitBackOff

-----------------------------------------------------------------------------
(* Pacing.                                                                 *)
(* next_due and the time since the last but one request of a schedule add  *)
(* up to a spacing.  While a request waits for a place the last one takes  *)
(* over, and the last but one is already a spacing old.                    *)
Queued(p) == \E j \in waiting : j.endpoint = "wait_time" /\ j.provider = p
Paced(p)  == IF Queued(p)
               THEN sinceEarlier[p] >= Spacing /\ sinceRequest[p] + dueIn[p] >= Spacing
               ELSE sinceEarlier[p] + dueIn[p] >= Spacing
PaceInv == /\ \A p \in Providers : Queued(p) => p \in Groups(schedule)
           /\ \A p \in Groups(schedule) : Paced(p)

(* Requests leaving the queue are those of the schedules they belong to;   *)
(* the request of a schedule left nothing of it in the queue.              *)
LEMMA LeavingQueue ==
  ASSUME TypeOK, QueueInv, BackOffInv, pc \in FetchPhases, NEW next \in SUBSET waiting,
         waiting' = waiting \ next, NEW p \in Providers
  PROVE  /\ p \in WaitProvidersOf(next) => Queued(p) /\ ~Queued(p)'
         /\ p \notin WaitProvidersOf(next) => (Queued(p)' <=> Queued(p))
<1>1. CASE pc = "noticeFetch"
  BY <1>1 DEF QueueInv, Queued, WaitProvidersOf
<1>2. CASE pc = "waitFetch"
  <2>1. ASSUME NEW j \in next, j.endpoint = "wait_time", j.provider = p
        PROVE  Queued(p) /\ ~Queued(p)'
    <3>1. ASSUME NEW k \in waiting, k.endpoint = "wait_time", k.provider = p
          PROVE  k = j
      BY <1>2, <2>1, <3>1 DEF BackOffInv, OneRequestEach, TargetOf
    <3>. QED
      BY <2>1, <3>1 DEF Queued
  <2>2. ASSUME p \notin WaitProvidersOf(next) PROVE Queued(p)' <=> Queued(p)
    BY <2>2 DEF Queued, WaitProvidersOf
  <2>. QED
    BY <1>2, <2>1, <2>2 DEF WaitProvidersOf, QueueInv
<1>. QED
  BY <1>1, <1>2 DEF FetchPhases

(* Nothing is queued or scheduled when the poller starts.                  *)
LEMMA PaceInvInit == Init => PaceInv
  BY DEF Init, PaceInv, Queued, Groups

(* Every step keeps the pace of each schedule.                             *)
LEMMA PaceInvNext == TypeOK /\ QueueInv /\ BackOffInv /\ PaceInv /\ [Next]_vars => PaceInv'
<1>. SUFFICES ASSUME TypeOK, QueueInv, BackOffInv, PaceInv, [Next]_vars PROVE PaceInv'
  OBVIOUS
<1>. USE DEF loopVars, schedVars, fetchVars, dbVars, budgetVars, paceVars, denialVars
<1>1. CASE LoadSchedules
  <2>1. waiting = {} /\ waiting' = {}
    BY <1>1 DEF LoadSchedules, QueueInv, FetchPhases
  <2>2. CASE UNCHANGED <<schedule, dueIn, sinceRequest, sinceEarlier>>
    BY <2>1, <2>2 DEF PaceInv, Queued, Paced, Groups
  <2>3. CASE /\ sinceEarlier' = [p \in Providers |-> Spacing]
             /\ dueIn' \in [Providers -> Nat]
    BY <2>1, <2>3, TimingAssumption DEF PaceInv, Queued, Paced, Groups
  <2>4. TypeOK'
    BY <1>1, NextType DEF Next, PollerStep
  <2>. QED
    BY <1>1, <2>2, <2>3, <2>4 DEF LoadSchedules, TypeOK
<1>2. CASE SelectWaitBatches
  <2>0. waiting = {} /\ \A p \in Providers : ~Queued(p)
    BY <1>2 DEF SelectWaitBatches, QueueInv, FetchPhases, Queued
  <2>1. CASE UNCHANGED <<schedule, waiting, dueIn, sinceRequest, sinceEarlier>>
    BY <2>1 DEF PaceInv, Queued, Paced, Groups
  <2>2. CASE \E first \in SUBSET {WaitJob(p) : p \in AskedProviders} :
               SendFirst({WaitJob(p) : p \in AskedProviders}, first) /\ NoteSent(first)
             /\ dueIn' = [p \in Providers |-> DueAfter(p)]
    <3>1. PICK first \in SUBSET {WaitJob(p) : p \in AskedProviders} :
             waiting' = {WaitJob(p) : p \in AskedProviders} \ first /\ NoteSent(first)
      BY <2>2 DEF SendFirst
    <3>2. schedule' = schedule
      BY <1>2 DEF SelectWaitBatches
    <3>3. ASSUME NEW p \in Providers, Queued(p)'
          PROVE  p \in AskedProviders /\ p \notin WaitProvidersOf(first)
      <4>1. PICK q \in AskedProviders : q = p /\ WaitJob(q) \notin first
        BY <3>1, <3>3 DEF Queued, WaitJob
      <4>2. \A j \in first : j.provider = p => j = WaitJob(p)
        BY <3>1 DEF WaitJob
      <4>. QED
        BY <4>1, <4>2 DEF WaitProvidersOf
    <3>4. ASSUME NEW p \in Groups(schedule) PROVE Paced(p)'
      <4>0. /\ p \in Providers /\ sinceEarlier[p] + dueIn[p] >= Spacing
            /\ sinceRequest[p] \in Nat /\ sinceEarlier[p] \in Nat /\ dueIn[p] \in Nat
        BY <2>0, TimingAssumption DEF PaceInv, Paced, Groups, TypeOK
      <4>1. CASE p \in DueProviders
        <5>1. dueIn[p] = 0 /\ dueIn'[p] = Spacing
          BY <2>2, <4>0, <4>1 DEF DueProviders, DueAfter
        <5>2. sinceEarlier'[p] \in Nat /\ sinceRequest'[p] \in Nat
          BY <3>1, <4>0 DEF NoteSent
        <5>3. CASE Queued(p)'
          <6>1. sinceEarlier'[p] = sinceEarlier[p]
            BY <3>1, <3>3, <4>0, <5>3 DEF NoteSent
          <6>. QED
            BY <4>0, <5>1, <5>2, <5>3, <6>1, TimingAssumption DEF Paced
        <5>4. CASE ~Queued(p)'
          BY <5>1, <5>2, <5>4, TimingAssumption DEF Paced
        <5>. QED
          BY <5>3, <5>4
      <4>2. CASE p \notin DueProviders
        <5>1. p \notin AskedProviders /\ dueIn'[p] = dueIn[p]
          BY <2>2, <4>0, <4>2 DEF AskedProviders, DueAfter
        <5>2. p \notin WaitProvidersOf(first) /\ ~Queued(p)'
          BY <3>1, <3>3, <4>0, <5>1 DEF WaitProvidersOf, WaitJob
        <5>3. sinceEarlier'[p] = sinceEarlier[p]
          BY <3>1, <4>0, <5>2 DEF NoteSent
        <5>. QED
          BY <4>0, <5>1, <5>2, <5>3 DEF Paced
      <4>. QED
        BY <4>1, <4>2
    <3>. QED
      BY <3>2, <3>3, <3>4 DEF PaceInv, Groups, AskedProviders, DueProviders
  <2>. QED
    BY <1>2, <2>1, <2>2 DEF SelectWaitBatches
<1>3. CASE ReceiveWait \/ ReceiveNotice
  <2>1. PICK next \in SUBSET waiting :
           waiting' = waiting \ next /\ NoteSent(next)
    BY <1>3 DEF ReceiveWait, ReceiveNotice, Answer
  <2>2. UNCHANGED <<schedule, dueIn>> /\ pc \in FetchPhases
    BY <1>3 DEF ReceiveWait, ReceiveNotice, FetchPhases
  <2>3. ASSUME NEW p \in Groups(schedule) PROVE Paced(p)'
    <3>0. /\ p \in Providers /\ Paced(p)
          /\ sinceRequest[p] \in Nat /\ sinceEarlier[p] \in Nat /\ dueIn[p] \in Nat
      BY TimingAssumption DEF PaceInv, Groups, TypeOK
    <3>1. CASE p \in WaitProvidersOf(next)
      <4>1. Queued(p) /\ ~Queued(p)'
        BY <2>1, <2>2, <3>0, <3>1, LeavingQueue
      <4>2. sinceEarlier'[p] = sinceRequest[p]
        BY <2>1, <3>0, <3>1 DEF NoteSent
      <4>. QED
        BY <2>2, <3>0, <4>1, <4>2 DEF Paced
    <3>2. CASE p \notin WaitProvidersOf(next)
      <4>1. Queued(p)' <=> Queued(p)
        BY <2>1, <2>2, <3>0, <3>2, LeavingQueue
      <4>2. sinceEarlier'[p] = sinceEarlier[p] /\ sinceRequest'[p] = sinceRequest[p]
        BY <2>1, <3>0, <3>2 DEF NoteSent
      <4>. QED
        BY <2>2, <3>0, <4>1, <4>2 DEF Paced
    <3>. QED
      BY <3>1, <3>2
  <2>4. \A p \in Providers : Queued(p)' => Queued(p)
    BY <2>1 DEF Queued
  <2>. QED
    BY <2>2, <2>3, <2>4 DEF PaceInv, Groups
<1>4. CASE Sleep \/ Elapse
  <2>0. UNCHANGED <<waiting, schedule>>
    BY <1>4 DEF Sleep, Elapse, PassTime
  <2>1. ASSUME NEW p \in Groups(schedule) PROVE Paced(p)'
    <3>1. /\ p \in Providers /\ Paced(p) /\ (Queued(p)' <=> Queued(p))
          /\ sinceRequest[p] \in 0..Spacing /\ sinceEarlier[p] \in 0..Spacing /\ dueIn[p] \in Nat
      BY <2>0 DEF PaceInv, Groups, TypeOK, Queued
    <3>2. /\ sinceRequest'[p] = Grown(sinceRequest[p])
          /\ sinceEarlier'[p] = Grown(sinceEarlier[p]) /\ dueIn'[p] = Dec(dueIn[p])
      BY <1>4, <3>1 DEF Sleep, Elapse, PassTime
    <3>. QED
      BY <3>1, <3>2, TimingAssumption DEF Paced, Grown, Dec
  <2>. QED
    BY <2>0, <2>1 DEF PaceInv, Groups, Queued
<1>5. CASE Crash
  BY <1>5 DEF Crash, PaceInv, Groups, Queued
<1>6. CASE StartNotices
  <2>1. waiting = {} /\ \A j \in waiting' : j.endpoint # "wait_time"
    BY <1>6, SelectedJobsFree DEF StartNotices, SendFirst, QueueInv, FetchPhases
  <2>. QED
    BY <1>6, <2>1 DEF StartNotices, PaceInv, Groups, Paced, Queued
<1>7. CASE UNCHANGED <<waiting, schedule, dueIn, sinceRequest, sinceEarlier>>
  BY <1>7 DEF PaceInv, Groups, Paced, Queued
<1>. QED
  BY <1>1, <1>2, <1>3, <1>4, <1>5, <1>6, <1>7
  DEF Next, PollerStep, vars, StartIteration, CheckCatalogCooldown, FetchCatalog,
      RecordCatalog, PersistCatalog, RefreshManaged, RecordWait, PersistWaits, RecordNotice,
      PersistNotices, Publish

(* Whatever the number of places for concurrent requests, of three wait    *)
(* requests of one schedule the first and the third leave at least a       *)
(* spacing apart: a queue costs the configured rate one request, never     *)
(* more.                                                                   *)
THEOREM ThirdRequestIsPaced == Spec => PacedBetweenLoads
<1>1. TypeOK /\ QueueInv /\ PaceInv /\ [Next]_vars =>
        [\A p \in Providers : WaitsSent(p) => sinceEarlier[p] >= Spacing]_vars
  <2>. SUFFICES ASSUME TypeOK, QueueInv, PaceInv, Next, NEW p \in Providers, WaitsSent(p)
                PROVE  sinceEarlier[p] >= Spacing
    OBVIOUS
  <2>. PICK j \in Sent : j.endpoint = "wait_time" /\ j.provider = p
    BY DEF WaitsSent
  <2>0. sinceEarlier[p] \in Nat
    BY TimingAssumption DEF TypeOK
  <2>. USE DEF Sent, loopVars, schedVars, fetchVars, dbVars, budgetVars, paceVars, denialVars
  <2>1. CASE SelectWaitBatches
    <3>1. p \in Groups(schedule) /\ dueIn[p] = 0
      BY <2>1 DEF SelectWaitBatches, SendFirst, WaitJob, AskedProviders, DueProviders
    <3>2. ~Queued(p)
      BY <2>1 DEF SelectWaitBatches, QueueInv, FetchPhases, Queued
    <3>. QED
      BY <2>0, <3>1, <3>2, TimingAssumption DEF PaceInv, Paced
  <2>2. CASE StartNotices
    BY <2>2, SelectedJobsFree DEF StartNotices, SendFirst
  <2>3. CASE ReceiveWait \/ ReceiveNotice
    BY <2>3 DEF ReceiveWait, ReceiveNotice, Answer, PaceInv, Paced, Queued
  <2>4. CASE inflight' = inflight \/ inflight' = {}
    BY <2>4
  <2>. QED
    BY <2>1, <2>2, <2>3, <2>4
    DEF Next, PollerStep, StartIteration, CheckCatalogCooldown, FetchCatalog, RecordCatalog,
        PersistCatalog, RefreshManaged, LoadSchedules, RecordWait, PersistWaits,
        RecordNotice, PersistNotices, Publish, Sleep, Elapse, PassTime, Crash
<1>. QED
  BY <1>1, PaceInvInit, PaceInvNext, BackOffInvInit, BackOffInvNext, QueueInvInit,
     QueueInvNext, TypeCorrect, PTL
  DEF Spec, PacedBetweenLoads
=============================================================================
