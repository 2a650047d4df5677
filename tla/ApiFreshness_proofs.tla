------------------------ MODULE ApiFreshness_proofs ------------------------
(***************************************************************************)
(* What TLAPS proves about ApiFreshness, for every lifetime, every length  *)
(* of a second and every bound: no reused answer is wrong about itself.    *)
(***************************************************************************)
EXTENDS ApiFreshness, TLAPS

USE FreshnessAssumption

(* The endpoints whose header follows from what they answer.               *)
Told == endpoint \notin {"history", "locations"}

ClockOK ==
    /\ now \in Nat /\ endpoint \in Endpoints
    /\ \A p \in Parts : observed[p] \in Times
    /\ listTtl \in Times

(* An answer that is marked stale is stale from then on, and one without a *)
(* time is marked; a header is of what the answer says.                    *)
Readings == [body : Times, stale : BOOLEAN, basis : Times, ready : BOOLEAN]
AnsweringOK == answering # NoAnswer =>
    /\ answering \in Readings
    /\ endpoint # "history" => answering.basis = answering.body
    /\ answering.stale => answering.body = NoTime \/ now > StaleAt(answering.body)
    /\ endpoint # "history" /\ answering.ready /\ answering.body = NoTime
         => answering.stale

(* An answer that can be reused at all was fresh, and its reuse ends when  *)
(* its freshness does.                                                     *)
Lifetime == cache.ttl * Second
CacheOK == cache # NoAnswer =>
    /\ cache.body \in Times /\ cache.stale \in BOOLEAN
    /\ cache.at \in Nat /\ cache.at <= now
    /\ Told => Lifetime \in Nat
    /\ Told /\ Lifetime # 0 => /\ cache.body # NoTime /\ ~cache.stale
                               /\ cache.at + Lifetime <= StaleAt(cache.body)

FreshInv == ClockOK /\ AnsweringOK /\ CacheOK

-----------------------------------------------------------------------------
(* A header counts whole seconds, never more than there are.               *)
LEMMA TtlIsWithin ==
  ASSUME NEW t \in Nat, now \in Nat
  PROVE  /\ Ttl(t) * Second \in Nat
         /\ Ttl(t) * Second # 0 => t > now /\ now + Ttl(t) * Second <= t
<1>1. CASE t > now
  <2>. DEFINE left == t - now
  <2>1. left \in Nat /\ now + left = t BY <1>1
  <2>. HIDE DEF left
  <2>2. left \div Second \in Nat /\ (left \div Second) * Second <= left BY <2>1, SMT
  <2>3. (left \div Second) * Second \in Nat BY <2>2, SMT
  <2>4. Ttl(t) = left \div Second BY <1>1 DEF Ttl, left
  <2>. QED BY <1>1, <2>1, <2>2, <2>3, <2>4
<1>2. CASE ~(t > now)
  <2>1. Ttl(t) = 0 BY <1>2 DEF Ttl
  <2>. QED BY <2>1
<1>. QED BY <1>1, <1>2

LEMMA InitInv == Init => FreshInv
<1>. SUFFICES ASSUME Init PROVE FreshInv OBVIOUS
<1>1. ClockOK BY DEF Init, ClockOK, Times
<1>. QED BY <1>1 DEF Init, FreshInv, AnsweringOK, CacheOK

(* The header of the list says nothing of the rows it goes with.           *)
LEMMA ListHeaderInv == ASSUME FreshInv, ListHeader PROVE FreshInv'
<1>1. PICK asked \in 0 .. now : listTtl' = Ttl(asked + ListAge) BY DEF ListHeader
<1>2. UNCHANGED <<endpoint, now, observed, answering, cache, polls>> BY DEF ListHeader
<1>3. now \in Nat /\ asked + ListAge \in Nat BY <1>1 DEF FreshInv, ClockOK
<1>. DEFINE at == asked + ListAge
<1>3a. at \in Nat BY <1>3
<1>. HIDE DEF at
<1>4. Ttl(at) \in Nat
  <2>1. CASE at > now
    <3>1. at - now \in Nat BY <1>3, <1>3a, <2>1
    <3>2. \A left \in Nat : left \div Second \in Nat BY SMT
    <3>. QED BY <2>1, <3>1, <3>2 DEF Ttl
  <2>2. CASE ~(at > now) BY <2>2 DEF Ttl
  <2>. QED BY <2>1, <2>2
<1>5. listTtl' \in Times BY <1>1, <1>4 DEF at, Times
<1>. QED BY <1>2, <1>5
         DEF FreshInv, ClockOK, Times, AnsweringOK, CacheOK, Lifetime, Told, StaleAt

LEMMA ReadInv == ASSUME FreshInv, Read PROVE FreshInv'
<1>. DEFINE t == observed[PartOf[endpoint]]
            a == [body |-> t, stale |-> FALSE, basis |-> t, ready |-> FALSE]
<1>1. answering' = a /\ UNCHANGED <<endpoint, now, observed, listTtl, cache, polls>>
  BY DEF Read
<1>2. t \in Times
  <2>1. PartOf[endpoint] \in Parts BY DEF FreshInv, ClockOK, Endpoints, PartOf, Parts
  <2>. QED BY <2>1 DEF FreshInv, ClockOK
<1>3. a \in Readings /\ a.body = t /\ a.basis = t /\ ~a.stale /\ ~a.ready
  BY <1>2 DEF Readings
<1>. HIDE DEF a, t
<1>4. ClockOK' /\ CacheOK'
  BY <1>1 DEF FreshInv, ClockOK, CacheOK, Lifetime, Told, StaleAt
<1>. QED BY <1>1, <1>3, <1>4 DEF FreshInv, AnsweringOK

(* What is marked stale is so at that moment.                              *)
LEMMA MarkInv == ASSUME FreshInv, Mark PROVE FreshInv'
<1>1. /\ answering # NoAnswer /\ endpoint # "history"
      /\ answering' = [answering EXCEPT !.stale = IsStale(answering.body), !.ready = TRUE]
      /\ UNCHANGED <<endpoint, now, observed, listTtl, cache, polls>>
  BY DEF Mark, Reading
<1>2. answering \in Readings /\ answering.basis = answering.body
  BY <1>1 DEF FreshInv, AnsweringOK
<1>3. /\ IsStale(answering.body) \in BOOLEAN
      /\ IsStale(answering.body)
           <=> answering.body = NoTime \/ now > StaleAt(answering.body)
  BY Zenon DEF IsStale
<1>4. /\ answering' \in Readings /\ answering'.body = answering.body
      /\ answering'.basis = answering.basis
      /\ answering'.stale = IsStale(answering.body)
  BY <1>1, <1>2, <1>3 DEF Readings
<1>5. ClockOK' /\ CacheOK'
  BY <1>1 DEF FreshInv, ClockOK, CacheOK, Lifetime, Told, StaleAt
<1>6. AnsweringOK' BY <1>1, <1>2, <1>3, <1>4 DEF AnsweringOK, StaleAt
<1>. QED BY <1>5, <1>6 DEF FreshInv

LEMMA RespondInv == ASSUME FreshInv, Respond PROVE FreshInv'
<1>. DEFINE ttl == IF endpoint = "locations" THEN listTtl ELSE Ttl(HeaderTime)
            c == [body |-> answering.body, stale |-> answering.stale, at |-> now,
                  ttl |-> ttl]
<1>1. /\ answering # NoAnswer /\ answering.ready
      /\ cache' = c /\ answering' = NoAnswer /\ listTtl' = NoTime
      /\ UNCHANGED <<endpoint, now, observed, polls>>
  BY DEF Respond
<1>2. c.body = answering.body /\ c.stale = answering.stale /\ c.at = now /\ c.ttl = ttl
  OBVIOUS
<1>3. Told => ttl = Ttl(HeaderTime) BY DEF Told
<1>. HIDE DEF c, ttl
<1>4. /\ now \in Nat /\ answering.body \in Times /\ answering.stale \in BOOLEAN
      /\ answering.basis \in Times
      /\ answering.stale => answering.body = NoTime \/ now > StaleAt(answering.body)
      /\ Told => /\ answering.basis = answering.body
                 /\ answering.body = NoTime => answering.stale
  BY <1>1 DEF FreshInv, ClockOK, AnsweringOK, Readings, Told
<1>5. HeaderTime \in Nat
  <2>1. CASE answering.basis = NoTime BY <1>4, <2>1 DEF HeaderTime
  <2>2. CASE answering.basis # NoTime BY <1>4, <2>2 DEF HeaderTime, StaleAt, Times
  <2>. QED BY <2>1, <2>2
<1>6. Ttl(HeaderTime) * Second \in Nat BY <1>4, <1>5, TtlIsWithin
<1>7. ASSUME Told, Ttl(HeaderTime) * Second # 0
      PROVE  /\ answering.body # NoTime /\ ~answering.stale
             /\ now + Ttl(HeaderTime) * Second <= StaleAt(answering.body)
  <2>1. HeaderTime > now /\ now + Ttl(HeaderTime) * Second <= HeaderTime
    BY <1>4, <1>5, <1>7, TtlIsWithin
  <2>2. HeaderTime = IF answering.body = NoTime THEN now ELSE StaleAt(answering.body)
    BY <1>4, <1>7 DEF HeaderTime
  <2>3. answering.body # NoTime BY <1>4, <2>1, <2>2
  <2>4. ~(now > StaleAt(answering.body)) BY <1>4, <1>5, <2>1, <2>2, <2>3
  <2>. QED BY <1>4, <2>1, <2>2, <2>3, <2>4
<1>8. CacheOK'
  <2>1. Told' = Told BY <1>1 DEF Told
  <2>2. Told => Lifetime' = Ttl(HeaderTime) * Second BY <1>1, <1>2, <1>3 DEF Lifetime
  <2>3. cache'.body = answering.body /\ cache'.stale = answering.stale /\ cache'.at = now
    BY <1>1, <1>2
  <2>. QED BY <1>1, <1>4, <1>6, <1>7, <2>1, <2>2, <2>3 DEF CacheOK, StaleAt
<1>. QED BY <1>1, <1>8 DEF FreshInv, ClockOK, AnsweringOK, Times

(* The second read of the history changes the header's basis alone.        *)
LEMMA ReadStatusInv == ASSUME FreshInv, ReadStatus PROVE FreshInv'
<1>1. PICK t \in {observed["wait"], NoTime} :
         answering' = [answering EXCEPT !.basis = t, !.ready = TRUE]
  BY DEF ReadStatus
<1>2. /\ answering # NoAnswer /\ endpoint = "history"
      /\ UNCHANGED <<endpoint, now, observed, listTtl, cache, polls>>
  BY DEF ReadStatus, Reading
<1>3. t \in Times BY DEF FreshInv, ClockOK, Parts, Times
<1>4. ClockOK' /\ CacheOK'
  BY <1>2 DEF FreshInv, ClockOK, CacheOK, Lifetime, Told, StaleAt
<1>5. answering \in Readings BY <1>2 DEF FreshInv, AnsweringOK
<1>6. /\ answering' \in Readings
      /\ answering'.body = answering.body /\ answering'.stale = answering.stale
  BY <1>1, <1>3, <1>5 DEF Readings
<1>7. AnsweringOK' BY <1>2, <1>6 DEF FreshInv, AnsweringOK, StaleAt
<1>. QED BY <1>4, <1>7 DEF FreshInv

(* Time and the poller change nothing of what was read.                    *)
LEMMA OthersInv == ASSUME FreshInv, Tick \/ \E p \in Parts : Poll(p) PROVE FreshInv'
<1>1. /\ now \in Nat /\ now' \in Nat /\ now <= now'
      /\ UNCHANGED <<endpoint, listTtl, answering, cache>>
  BY DEF FreshInv, ClockOK, Tick, Poll
<1>2. \A p \in Parts : observed'[p] \in Times
  <2>1. CASE Tick BY <2>1 DEF Tick, FreshInv, ClockOK
  <2>2. CASE \E p \in Parts : Poll(p)
    <3>1. PICK p \in Parts : Poll(p) BY <2>2
    <3>2. \A q \in Parts : observed'[q] = now \/ observed'[q] = observed[q]
      BY <3>1 DEF Poll
    <3>. QED BY <1>1, <3>2 DEF FreshInv, ClockOK, Times
  <2>. QED BY <2>1, <2>2
<1>3. AnsweringOK'
  <2>1. \A t \in Nat : StaleAt(t) \in Nat BY DEF StaleAt
  <2>. QED BY <1>1, <2>1 DEF FreshInv, AnsweringOK, Readings, Times, StaleAt
<1>4. CacheOK'
  BY <1>1 DEF FreshInv, CacheOK, Lifetime, Told, StaleAt
<1>. QED BY <1>1, <1>2, <1>3, <1>4 DEF FreshInv, ClockOK

LEMMA NextInv == FreshInv /\ [Next]_vars => FreshInv'
<1>. SUFFICES ASSUME FreshInv, [Next]_vars PROVE FreshInv' OBVIOUS
<1>1. CASE UNCHANGED vars
  BY <1>1 DEF vars, FreshInv, ClockOK, AnsweringOK, Readings, CacheOK, Lifetime, Told, StaleAt
<1>. QED BY <1>1, ListHeaderInv, ReadInv, MarkInv, ReadStatusInv, RespondInv, OthersInv
  DEF Next

(* An answer that a cache may still reuse tells the truth about its own    *)
(* freshness, however late its header was computed and whatever was polled *)
(* since (freshness_headers).                                              *)
THEOREM HeadersTellTheTruth == Spec => []ReusedAnswersTellTheTruth
<1>1. FreshInv => ReusedAnswersTellTheTruth
  <2>. SUFFICES ASSUME FreshInv, Told, Reusable PROVE cache.stale = IsStale(cache.body)
    BY DEF ReusedAnswersTellTheTruth, Told
  <2>1. /\ cache.body \in Times /\ cache.stale \in BOOLEAN
        /\ cache.at \in Nat /\ cache.at <= now /\ now \in Nat
        /\ Lifetime \in Nat /\ now - cache.at < Lifetime
    BY DEF Told, FreshInv, CacheOK, ClockOK, Reusable, Lifetime
  <2>2. Lifetime # 0 BY <2>1
  <2>3. /\ cache.body # NoTime /\ ~cache.stale
        /\ cache.at + Lifetime <= StaleAt(cache.body)
    BY <2>2 DEF FreshInv, CacheOK, Reusable
  <2>4. StaleAt(cache.body) \in Nat BY <2>1, <2>3 DEF Times, StaleAt
  <2>5. ~(now > StaleAt(cache.body)) BY <2>1, <2>3, <2>4
  <2>6. ~IsStale(cache.body) BY <2>3, <2>5 DEF IsStale
  <2>7. IsStale(cache.body) \in BOOLEAN BY Zenon DEF IsStale
  <2>. QED BY <2>1, <2>3, <2>6, <2>7
<1>. QED BY <1>1, InitInv, NextInv, PTL DEF Spec
=============================================================================
