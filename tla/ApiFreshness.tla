---------------------------- MODULE ApiFreshness ----------------------------
(***************************************************************************)
(* Freshness of the API's answers (crates/api/src/routes.rs and db.rs) as  *)
(* a cache in front of it sees them: a handler reads the database, marks   *)
(* the answer stale or not, and computes the max-age header, each by a     *)
(* clock of its own, while the poller goes on committing.  /locations has  *)
(* its header before it reads, the others after.  A cache reuses an answer *)
(* for as long as its max-age says.                                        *)
(***************************************************************************)
EXTENDS Integers, FiniteSets

CONSTANTS
    Second,          \* units of time in a second: headers count whole ones
    StaleAfter,      \* DEFAULT_STALE_AFTER_SECONDS, in units
    ListAge,         \* the 30 seconds of /locations, in units
    NoTime, NoAnswer,
    MaxTime, MaxPolls    \* bounds

ASSUME FreshnessAssumption ==
    /\ Second \in Nat \ {0} /\ StaleAfter \in Nat \ {0} /\ ListAge \in Nat
    /\ MaxTime \in Nat /\ MaxPolls \in Nat

VARIABLES
    endpoint,    \* the endpoint that is asked: they share nothing but the row
    now,
    observed,    \* of location_current_status: when each part was observed
    listTtl,     \* the max-age /locations has computed, NoTime before that
    answering,   \* what the endpoint's handler has read, NoAnswer if idle
    cache,       \* the answer the cache holds
    polls

vars == <<endpoint, now, observed, listTtl, answering, cache, polls>>

Parts == {"wait", "notices", "closing"}

(* The part of the status an endpoint answers with. *)
PartOf == [location        |-> "wait",
           status          |-> "wait",
           wait_time       |-> "wait",
           notice          |-> "notices",
           closing_notice  |-> "closing",
           history         |-> "wait",
           locations       |-> "wait"]

Endpoints == DOMAIN PartOf
NeedStatus == {"status", "wait_time", "notice", "closing_notice"}

Times == Nat \cup {NoTime}

Init ==
    /\ now = 0
    /\ observed = [p \in Parts |-> NoTime]
    /\ endpoint \in Endpoints
    /\ listTtl = NoTime
    /\ answering = NoAnswer
    /\ cache = NoAnswer
    /\ polls = 0

-----------------------------------------------------------------------------

StaleAt(t) == t + StaleAfter

IsStale(t) == t = NoTime \/ now > StaleAt(t)

TtlUnclamped(staleAt) == (staleAt - now) \div Second      \* mutants of Ttl
TtlRoundedUp(staleAt) ==
    IF staleAt > now THEN (staleAt - now + Second - 1) \div Second ELSE 0

Ttl(staleAt) == IF staleAt > now THEN (staleAt - now) \div Second ELSE 0

Tick == now < MaxTime /\ now' = now + 1
        /\ UNCHANGED <<endpoint, observed, listTtl, answering, cache, polls>>

Poll(p) ==
    /\ polls < MaxPolls /\ polls' = polls + 1
    /\ observed' = [observed EXCEPT ![p] = now]
    /\ UNCHANGED <<endpoint, now, listTtl, answering, cache>>

(* locations computes its header first; it reads the clock once for the    *)
(* moment the header names and again for the seconds left until then.      *)
ListHeader ==
    /\ endpoint = "locations" /\ listTtl = NoTime
    /\ \E asked \in 0 .. now : listTtl' = Ttl(asked + ListAge)
    /\ UNCHANGED <<endpoint, now, observed, answering, cache, polls>>

(* current_status_row answers 503 until a wait was observed. *)
Read ==
    /\ answering = NoAnswer
    /\ endpoint \in NeedStatus => observed["wait"] # NoTime
    /\ endpoint = "locations" => listTtl # NoTime
    /\ LET t == observed[PartOf[endpoint]]
       IN  answering' = [body |-> t, stale |-> FALSE, basis |-> t, ready |-> FALSE]
    /\ UNCHANGED <<endpoint, now, observed, listTtl, cache, polls>>

Reading == answering # NoAnswer /\ ~answering.ready

(* The rows become an answer by a later look at the clock.                 *)
Mark ==
    /\ Reading /\ endpoint # "history"
    /\ answering' = [answering EXCEPT !.stale = IsStale(answering.body), !.ready = TRUE]
    /\ UNCHANGED <<endpoint, now, observed, listTtl, cache, polls>>

(* A history is not marked; its header is of a status read after it, and   *)
(* of no time when that second read fails.                                 *)
ReadStatus ==
    /\ Reading /\ endpoint = "history"
    /\ \E t \in {observed["wait"], NoTime} :
          answering' = [answering EXCEPT !.basis = t, !.ready = TRUE]
    /\ UNCHANGED <<endpoint, now, observed, listTtl, cache, polls>>

HeaderTime == IF answering.basis = NoTime THEN now ELSE StaleAt(answering.basis)

Respond ==
    /\ answering # NoAnswer /\ answering.ready
    /\ cache' = [body |-> answering.body, stale |-> answering.stale, at |-> now,
                 ttl |-> IF endpoint = "locations" THEN listTtl ELSE Ttl(HeaderTime)]
    /\ answering' = NoAnswer /\ listTtl' = NoTime
    /\ UNCHANGED <<endpoint, now, observed, polls>>

Next == \/ Tick \/ ListHeader \/ Read \/ Mark \/ ReadStatus \/ Respond
        \/ \E p \in Parts : Poll(p)

Spec == Init /\ [][Next]_vars

-----------------------------------------------------------------------------
(* Properties.                                                             *)

Reusable == cache # NoAnswer /\ now - cache.at < cache.ttl * Second

(* What an answer a cache may still reuse says of its own freshness is     *)
(* still true when it is reused, however late the header was computed and  *)
(* whatever was polled since (freshness_headers).                          *)
ReusedAnswersTellTheTruth ==
    endpoint \notin {"history", "locations"} /\ Reusable
        => cache.stale = IsStale(cache.body)
=============================================================================
