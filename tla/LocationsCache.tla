---------------------------- MODULE LocationsCache ----------------------------
(***************************************************************************)
(* The site's one cache of the API's list of locations                     *)
(* (crates/site/src/routes.rs, cached_locations): requests that find it    *)
(* old each ask the API, overwrite it in whatever order their answers      *)
(* arrive, and fall back on it when the API does not answer.               *)
(***************************************************************************)
EXTENDS Integers

CONSTANTS
    Requests,      \* requests of pages that need the list, at one time each
    Lists,         \* the lists the API can answer with
    FirstLists,    \* those it answers with when the site starts
    NoList,        \* no list at all: unwrap_or_default
    CacheTtl,      \* LOCATIONS_CACHE_TTL
    Timeout,       \* the client's timeout for the whole of a request
    MaxTime, MaxChanges   \* bounds

ASSUME CacheAssumption ==
    /\ NoList \notin Lists /\ FirstLists \subseteq Lists
    /\ CacheTtl \in Nat \ {0} /\ Timeout \in Nat
    /\ MaxTime \in Nat /\ MaxChanges \in Nat

VARIABLES
    now,
    listed,      \* what the API answers now
    changes,
    cache,       \* locations_cache: the list, when the API read it (ghost),
                 \* when it was stored; list = NoList for None
    request      \* what each request is doing, and its answer

cacheVars == <<now, listed, changes, cache, request>>

Idle == [pc |-> "idle", list |-> NoList, read |-> 0, asked |-> 0, failed |-> FALSE]

CacheInit ==
    /\ now = 0
    /\ listed \in FirstLists
    /\ changes = 0
    /\ cache = [list |-> NoList, read |-> 0, fetched |-> 0]
    /\ request = [r \in Requests |-> Idle]

Pending(r) == request[r].pc \in {"asking", "answered"}

-----------------------------------------------------------------------------
(* The environment: the list changes, time passes up to the timeout.       *)

Change ==
    /\ changes < MaxChanges /\ changes' = changes + 1
    /\ listed' \in Lists \ {listed}
    /\ UNCHANGED <<now, cache, request>>

Tick ==
    /\ now < MaxTime
    /\ \A r \in Requests : Pending(r) => now - request[r].asked < Timeout
    /\ now' = now + 1
    /\ UNCHANGED <<listed, changes, cache, request>>

-----------------------------------------------------------------------------
(* cached_locations.                                                       *)

FreshOneLonger == cache.list # NoList /\ now - cache.fetched <= CacheTtl  \* mutant of Fresh

Fresh == cache.list # NoList /\ now - cache.fetched < CacheTtl

Serve(r, list, read, failed) ==
    request' = [request EXCEPT ![r] = [@ EXCEPT !.pc = "served", !.list = list,
                                                !.read = read, !.failed = failed]]

Ask(r) ==
    /\ ~Pending(r)
    /\ IF Fresh
       THEN request' = [request EXCEPT ![r] =
                [pc |-> "served", list |-> cache.list, read |-> cache.read,
                 asked |-> now, failed |-> FALSE]]
       ELSE request' = [request EXCEPT ![r] = [Idle EXCEPT !.pc = "asking", !.asked = now]]
    /\ UNCHANGED <<now, listed, changes, cache>>

ApiReads(r) ==
    /\ request[r].pc = "asking"
    /\ request' = [request EXCEPT ![r] = [@ EXCEPT !.pc = "answered", !.list = listed,
                                                   !.read = now]]
    /\ UNCHANGED <<now, listed, changes, cache>>

Store(r) ==
    /\ request[r].pc = "answered"
    /\ cache' = [list |-> request[r].list, read |-> request[r].read, fetched |-> now]
    /\ Serve(r, request[r].list, request[r].read, FALSE)
    /\ UNCHANGED <<now, listed, changes>>

(* An error, a timeout, another status or a body that does not parse.      *)
Fail(r) ==
    /\ Pending(r)
    /\ Serve(r, cache.list, cache.read, TRUE)
    /\ UNCHANGED <<now, listed, changes, cache>>

Answering(r) == ApiReads(r) \/ Store(r) \/ Fail(r)

CacheNext == \/ Change \/ Tick
             \/ \E r \in Requests : Ask(r) \/ Answering(r)

CacheSpec == CacheInit /\ [][CacheNext]_cacheVars

-----------------------------------------------------------------------------
(* Properties.                                                             *)

CacheTypeOK ==
    /\ now \in Nat /\ listed \in Lists /\ changes \in 0 .. MaxChanges
    /\ cache \in [list : Lists \cup {NoList}, read : Nat, fetched : Nat]
    /\ cache.read <= cache.fetched /\ cache.fetched <= now
    /\ request \in [Requests -> [pc : {"idle", "asking", "answered", "served"},
                                 list : Lists \cup {NoList}, read : Nat, asked : Nat,
                                 failed : BOOLEAN]]

(* A list served without a failure was read from the API less than the     *)
(* cache's time and one request ago, although a request that finds the     *)
(* cache old may store, late, what it read before others.                  *)
ServedListsAreRecent ==
    \A r \in Requests :
        request[r].pc = "served" /\ ~request[r].failed
            => /\ request[r].list # NoList
               /\ request[r].asked - request[r].read < CacheTtl + Timeout

(* Once one list was fetched no later request is answered with none, API   *)
(* or no API: what was served last is still there to fall back on.         *)
NeverEmptyAgain ==
    [][\A r, s \in Requests :
          request[r].pc = "served" /\ request[r].list # NoList /\ Pending(s)
              => (request'[s].pc = "served" => request'[s].list # NoList)]_cacheVars
=============================================================================
