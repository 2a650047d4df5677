------------------------------- MODULE Poller -------------------------------
(***************************************************************************)
(* The poller process (crates/poller/src/main.rs) with the tables it       *)
(* writes (crates/poller/src/persistence.rs).  One sequential task walks   *)
(* through the same phases every second:                                   *)
(*                                                                         *)
(*   top -> [catalog: check, fetch, record, persist, refresh] -> load      *)
(*       -> waitRead -> [waitFetch, waitRecord, waitPersist]               *)
(*       -> notice   -> [noticeFetch, noticeRecord, noticePersist]         *)
(*       -> publish -> sleep -> top                                        *)
(*                                                                         *)
(* pc names the await the task is at.  One action is what runs up to the   *)
(* next await.  Every stored instant is kept as the time left until the    *)
(* comparison the code makes with it turns true (last_notice_attempt as    *)
(* noticeDueIn, next_due as dueIn, cooldown_until as cooldownLeft), 0      *)
(* standing for "due" or "expired": the code never uses the instants for   *)
(* anything else.  One unit of time is the one-second sleep of the loop.   *)
(***************************************************************************)
EXTENDS Integers, FiniteSets

CONSTANTS
    Shops,                 \* upstream shop ids (numbers: batches follow their order)
    Providers,             \* wait providers, numbered in the order of their Ord
    NoProvider, All,       \* wait_provider() = None; the catalog's cooldown key
    ProviderOf,            \* the provider of each shop, or NoProvider
    BatchSize,             \* WaitProvider::batch_size of each provider
    NoticeProviders,       \* WaitProvider::supports_notices
    RegionShops,           \* shops inside a managed region
    Spacing,               \* wait_request_spacing
    CatalogInterval, CatalogRetryInterval, NoticeInterval, Cooldown,
    Concurrency,           \* HEYTEA_UPSTREAM_CONCURRENCY
    MaxFaults,             \* bound: database errors and crashes
    MaxUpstreamFaults,     \* bound: denials, errors and bad rows from upstream
    MaxDelay               \* bound: time one iteration spends on I/O

ASSUME ShopsAssumption ==
    /\ IsFiniteSet(Shops) /\ Shops \subseteq Nat
    /\ IsFiniteSet(Providers) /\ Providers \subseteq Nat
    /\ NoProvider \notin Providers
    /\ ProviderOf \in [Shops -> Providers \cup {NoProvider}]
    /\ BatchSize \in [Providers -> Nat \ {0}]
    /\ NoticeProviders \subseteq Providers
    /\ RegionShops \subseteq Shops

ASSUME TimingAssumption ==
    /\ {Spacing, CatalogInterval, CatalogRetryInterval, NoticeInterval} \subseteq Nat
    /\ Cooldown \in Nat \ {0}
    /\ Concurrency \in Nat \ {0}
    /\ {MaxFaults, MaxUpstreamFaults, MaxDelay} \subseteq Nat

VARIABLES
    \* memory of the process
    pc,
    catalogDueIn,          \* last_catalog_success
    catalogRetryIn,        \* last_catalog_attempt
    noticeDueIn,           \* last_notice_attempt
    loaded,                \* last_schedule_load.is_some()
    pollNotices,           \* poll_notices of this iteration
    schedule,              \* wait_schedules: the shops of each provider's schedule
    nextBatch, dueIn,      \* next_batch and next_due of each schedule
    catalog,               \* the catalog answer being recorded and persisted
    waiting, inflight,     \* jobs not started, jobs sent and not answered
    results,               \* answers whose cooldown is not recorded yet
    kept,                  \* outcomes of the answers recorded so far
    observed,              \* wait_observed_at or notice_observed_at is Some
    \* Postgres
    enabled,               \* locations with is_enabled not false
    managed,               \* managed_locations with is_active
    cooldownLeft,          \* upstream_provider_cooldowns
    \* environment budgets
    faults, upstreamFaults, spent,
    \* history, read by properties only
    unannounced,           \* commits to location_current_status not notified yet
    sinceRequest,          \* time since the last wait request of the schedule,
    sinceEarlier,          \* and since the one before, at most a spacing
    backoff,               \* time upstream still asks to be left alone
    lostDenials            \* targets whose running backoff was never recorded

loopVars   == <<catalogDueIn, catalogRetryIn, noticeDueIn, loaded, pollNotices>>
schedVars  == <<schedule, nextBatch, dueIn>>
fetchVars  == <<waiting, inflight, results, kept>>
dbVars     == <<enabled, managed, cooldownLeft>>
budgetVars == <<faults, upstreamFaults, spent>>
paceVars   == <<sinceRequest, sinceEarlier>>
denialVars == <<backoff, lostDenials>>
vars == <<pc, loopVars, schedVars, catalog, fetchVars, observed, dbVars,
          budgetVars, unannounced, paceVars, denialVars>>

-----------------------------------------------------------------------------
(* Cooldown targets: the (endpoint, provider_key) pairs of the table.      *)
ShopEndpoints == {"wait_time", "notice", "closing_notice"}
CatalogTarget == <<"shop_catalog", All>>
Targets       == {CatalogTarget} \cup (ShopEndpoints \X Providers)
WaitTarget(p) == <<"wait_time", p>>

(* A job is one upstream request; a result its answer.  "rows" is an       *)
(* answer with rows to store, "bad" one with a repeated or unknown shop    *)
(* id, "failed" one without rows (an error, or an empty success).          *)
Jobs      == [endpoint : ShopEndpoints, provider : Providers, shops : SUBSET Shops]
Outcomes  == {"rows", "bad", "failed"}
Results   == [job : Jobs, denied : BOOLEAN, outcome : Outcomes]
TargetOf(job) == <<job.endpoint, job.provider>>
DeniedTargets(rs) == {TargetOf(r.job) : r \in {x \in rs : x.denied}}

(* What the catalog fetch returned: the shops seen, those of them that are *)
(* enabled, whether upstream denied a request, and whether the result has  *)
(* a denial's status code.  Only a fetch without shops has a code, read    *)
(* from the texts of the errors, which need not contain it.                *)
CatalogAnswers ==
    {a \in [seen : SUBSET Shops, on : SUBSET Shops, denied : BOOLEAN, code : BOOLEAN] :
       a.on \subseteq a.seen /\ (a.code => a.seen = {})}
NothingFetched == [seen |-> {}, on |-> {}, denied |-> FALSE, code |-> FALSE]
CatalogOk(a)   == a.seen # {}

(* group_shop_ids_by_provider over tracked_shops *)
Tracked(on) == [p \in Providers |-> {s \in on : ProviderOf[s] = p}]

(* shop_ids.chunks(batch_size): consecutive runs of the ids in order *)
NumBatchesTruncated(p, S) == Cardinality(S) \div BatchSize[p]  \* mutant of NumBatches
Rank(s, S)        == Cardinality({t \in S : t < s})
NumBatches(p, S)  == (Cardinality(S) + BatchSize[p] - 1) \div BatchSize[p]
Batch(p, S, i)    == {s \in S : Rank(s, S) \div BatchSize[p] = i}

(* Schedules start staggered over one spacing, in provider order. *)
Groups(sched)     == {p \in Providers : sched[p] # {}}
Stagger(p, sched) == (Spacing * Rank(p, Groups(sched))) \div Cardinality(Groups(sched))

DecUnderflowing(n) == n - 1  \* mutant of Dec
Dec(n) == IF n = 0 THEN 0 ELSE n - 1

-----------------------------------------------------------------------------
Phases == {"top", "catalogCheck", "catalogFetch", "catalogRecord", "catalogPersist",
           "catalogRefresh", "load", "waitRead", "waitFetch", "waitRecord",
           "waitPersist", "notice", "noticeFetch", "noticeRecord", "noticePersist",
           "publish", "sleep"}

(* A fresh process: nothing attempted, nothing loaded. *)
Init ==
    /\ pc = "top"
    /\ catalogDueIn = 0 /\ catalogRetryIn = 0 /\ noticeDueIn = 0
    /\ loaded = FALSE /\ pollNotices = FALSE
    /\ schedule = [p \in Providers |-> {}]
    /\ nextBatch = [p \in Providers |-> 0]
    /\ dueIn = [p \in Providers |-> 0]
    /\ catalog = NothingFetched
    /\ waiting = {} /\ inflight = {} /\ results = {} /\ kept = {}
    /\ observed = FALSE
    /\ enabled = {} /\ managed = {}
    /\ cooldownLeft = [t \in Targets |-> 0]
    /\ faults = 0 /\ upstreamFaults = 0 /\ spent = 0
    /\ unannounced = {}
    /\ sinceRequest = [p \in Providers |-> Spacing]
    /\ sinceEarlier = [p \in Providers |-> Spacing]
    /\ backoff = [t \in Targets |-> 0]
    /\ lostDenials = {}

(* A database call failed. *)
DbFault == /\ faults < MaxFaults
           /\ faults' = faults + 1
           /\ UNCHANGED <<upstreamFaults, spent>>
NoFault == UNCHANGED budgetVars

(* An upstream answer other than the good one is charged to the budget. *)
Charge(good) == /\ good \/ upstreamFaults < MaxUpstreamFaults
                /\ upstreamFaults' = IF good THEN upstreamFaults ELSE upstreamFaults + 1
                /\ UNCHANGED <<faults, spent>>

(* trip_provider_cooldown: never shortens a running cooldown. *)
Longer(a, b) == IF a >= b THEN a ELSE b
TripForSpacing(t) ==         \* mutant of Trip
    cooldownLeft' = [cooldownLeft EXCEPT ![t] = Longer(@, Spacing)]
Trip(t) == cooldownLeft' = [cooldownLeft EXCEPT ![t] = Longer(@, Cooldown)]
Deny(t) == backoff' = [backoff EXCEPT ![t] = Longer(@, Cooldown)]

Grown(n) == IF n < Spacing THEN n + 1 ELSE Spacing

PassTime ==
    /\ catalogDueIn' = Dec(catalogDueIn)
    /\ catalogRetryIn' = Dec(catalogRetryIn)
    /\ noticeDueIn' = Dec(noticeDueIn)
    /\ dueIn' = [p \in Providers |-> Dec(dueIn[p])]
    /\ cooldownLeft' = [t \in Targets |-> Dec(cooldownLeft[t])]
    /\ backoff' = [t \in Targets |-> Dec(backoff[t])]
    /\ lostDenials' = {t \in lostDenials : backoff[t] > 1}
    /\ sinceRequest' = [p \in Providers |-> Grown(sinceRequest[p])]
    /\ sinceEarlier' = [p \in Providers |-> Grown(sinceEarlier[p])]
    /\ UNCHANGED <<loaded, pollNotices, schedule, nextBatch, catalog, fetchVars, observed,
                   enabled, managed, faults, upstreamFaults, unannounced>>

-----------------------------------------------------------------------------
(* The loop decides what is due.  Both attempts are stamped before they    *)
(* are made.                                                               *)
StartIteration ==
    /\ pc = "top"
    /\ LET catalogDue == catalogDueIn = 0 /\ catalogRetryIn = 0
           noticesDue == noticeDueIn = 0
       IN /\ catalogRetryIn' = IF catalogDue THEN CatalogRetryInterval ELSE catalogRetryIn
          /\ noticeDueIn' = IF noticesDue THEN NoticeInterval ELSE noticeDueIn
          /\ pollNotices' = noticesDue
          /\ pc' = IF catalogDue THEN "catalogCheck" ELSE "load"
    /\ spent' = 0
    /\ UNCHANGED <<catalogDueIn, loaded, schedVars, catalog, fetchVars, observed, dbVars,
                   faults, upstreamFaults, unannounced, paceVars, denialVars>>

(* poll_catalog_once *)
CheckCatalogCooldown ==
    /\ pc = "catalogCheck"
    /\ \/ NoFault /\ pc' = IF cooldownLeft[CatalogTarget] > 0 THEN "load" ELSE "catalogFetch"
       \/ DbFault /\ pc' = "load"
    /\ UNCHANGED <<loopVars, schedVars, catalog, fetchVars, observed, dbVars, unannounced,
                   paceVars, denialVars>>

FetchCatalog ==
    /\ pc = "catalogFetch"
    /\ \E answer \in CatalogAnswers :
         /\ Charge(CatalogOk(answer) /\ ~answer.denied)
         /\ catalog' = answer
         /\ IF answer.denied THEN Deny(CatalogTarget) ELSE UNCHANGED backoff
    /\ pc' = "catalogRecord"
    /\ UNCHANGED <<loopVars, schedVars, fetchVars, observed, dbVars, unannounced, paceVars,
                   lostDenials>>

RecordCatalog ==
    /\ pc = "catalogRecord"
    /\ \/ /\ ~catalog.code
          /\ NoFault
          /\ pc' = "catalogPersist"
          /\ UNCHANGED <<cooldownLeft, catalog, lostDenials>>
       \/ /\ catalog.code
          /\ NoFault
          /\ Trip(CatalogTarget)
          /\ pc' = "catalogPersist"
          /\ UNCHANGED <<catalog, lostDenials>>
       \/ /\ catalog.code
          /\ DbFault
          /\ lostDenials' = lostDenials \cup {CatalogTarget}
          /\ catalog' = NothingFetched
          /\ pc' = "load"
          /\ UNCHANGED cooldownLeft
    /\ UNCHANGED <<loopVars, schedVars, fetchVars, observed, enabled, managed, unannounced,
                   paceVars, backoff>>

(* persist_catalog: one transaction upserts every shop seen, with its open *)
(* state.  A failed commit may or may not have taken effect.               *)
UpsertLocations ==
    /\ enabled' = (enabled \ catalog.seen) \cup catalog.on
    /\ unannounced' = IF CatalogOk(catalog) THEN unannounced \cup {"catalog"} ELSE unannounced

PersistCatalog ==
    /\ pc = "catalogPersist"
    /\ \/ NoFault /\ UpsertLocations /\ pc' = "catalogRefresh" /\ UNCHANGED catalog
       \/ DbFault /\ UpsertLocations /\ pc' = "load" /\ catalog' = NothingFetched
       \/ DbFault /\ UNCHANGED <<enabled, unannounced>> /\ pc' = "load"
                  /\ catalog' = NothingFetched
    /\ UNCHANGED <<loopVars, schedVars, fetchVars, observed, managed, cooldownLeft,
                   paceVars, denialVars>>

(* refresh_managed_locations, and what the loop does with the result.      *)
CatalogSucceededQuietly ==   \* mutant of CatalogSucceeded
    catalogDueIn' = CatalogInterval /\ UNCHANGED loaded
CatalogSucceeded == catalogDueIn' = CatalogInterval /\ loaded' = FALSE

RefreshManaged ==
    /\ pc = "catalogRefresh"
    /\ \/ /\ NoFault
          /\ managed' = enabled \cap RegionShops
          /\ IF CatalogOk(catalog)
               THEN CatalogSucceeded
               ELSE UNCHANGED <<catalogDueIn, loaded>>
       \/ DbFault /\ UNCHANGED <<managed, catalogDueIn, loaded>>
    /\ catalog' = NothingFetched
    /\ pc' = "load"
    /\ UNCHANGED <<catalogRetryIn, noticeDueIn, pollNotices, schedVars, fetchVars, observed,
                   enabled, cooldownLeft, unannounced, paceVars, denialVars>>

-----------------------------------------------------------------------------
(* load_wait_schedules, when nothing is scheduled or a reload is pending.  *)
LoadNeeded == Groups(schedule) = {} \/ ~loaded

LoadSchedules ==
    /\ pc = "load"
    /\ pc' = "waitRead"
    /\ \/ /\ LoadNeeded
          /\ NoFault
          /\ LET fresh == Tracked(enabled)
             IN /\ schedule' = fresh
                /\ dueIn' = [p \in Providers |->
                               IF fresh[p] = {} THEN 0 ELSE Stagger(p, fresh)]
          /\ nextBatch' = [p \in Providers |-> 0]
          /\ loaded' = TRUE
          /\ sinceRequest' = [p \in Providers |-> Spacing]
          /\ sinceEarlier' = [p \in Providers |-> Spacing]
       \/ /\ ~LoadNeeded
          /\ NoFault
          /\ UNCHANGED <<schedVars, loaded, paceVars>>
       \/ /\ LoadNeeded
          /\ DbFault
          /\ UNCHANGED <<schedVars, loaded, paceVars>>
    /\ UNCHANGED <<catalogDueIn, catalogRetryIn, noticeDueIn, pollNotices, catalog, fetchVars,
                   observed, dbVars, unannounced, denialVars>>

(* buffer_unordered: as many jobs as fit are sent at once. *)
SendFirst(jobs, first) ==
    /\ first \subseteq jobs
    /\ Cardinality(first) <= Concurrency
    /\ first = jobs \/ Cardinality(first) = Concurrency
    /\ inflight' = first
    /\ waiting' = jobs \ first

WaitProvidersOf(jobs) == {j.provider : j \in {k \in jobs : k.endpoint = "wait_time"}}
NoteSent(jobs) ==
    /\ sinceRequest' = [p \in Providers |->
                          IF p \in WaitProvidersOf(jobs) THEN 0 ELSE sinceRequest[p]]
    /\ sinceEarlier' = [p \in Providers |->
                          IF p \in WaitProvidersOf(jobs) THEN sinceRequest[p]
                                                         ELSE sinceEarlier[p]]

(* The first half of poll_due_wait_batches: the next batch of every due    *)
(* schedule whose provider is not cooling down.  next_due and next_batch   *)
(* advance before the request is made.                                     *)
DueProviders == {p \in Groups(schedule) : dueIn[p] = 0}
AskedProviders == {p \in DueProviders : cooldownLeft[WaitTarget(p)] = 0}
DueAfterSkipOnly(p) ==       \* mutant of DueAfter
    IF p \in DueProviders \ AskedProviders THEN Spacing ELSE dueIn[p]
DueAfter(p) == IF p \in DueProviders THEN Spacing ELSE dueIn[p]
FollowingUnwrapped(p) == nextBatch[p] + 1    \* mutants of FollowingBatch
FollowingSame(p)  == nextBatch[p]
FollowingBatch(p) == (nextBatch[p] + 1) % NumBatches(p, schedule[p])
WaitJob(p) == [endpoint |-> "wait_time", provider |-> p,
               shops |-> Batch(p, schedule[p], nextBatch[p])]

SelectWaitBatches ==
    /\ pc = "waitRead"
    /\ \/ /\ NoFault
          /\ dueIn' = [p \in Providers |-> DueAfter(p)]
          /\ nextBatch' = [p \in Providers |->
                             IF p \in AskedProviders
                               THEN FollowingBatch(p)
                               ELSE nextBatch[p]]
          /\ \E first \in SUBSET {WaitJob(p) : p \in AskedProviders} :
               /\ SendFirst({WaitJob(p) : p \in AskedProviders}, first)
               /\ NoteSent(first)
          /\ pc' = IF AskedProviders = {} THEN "notice" ELSE "waitFetch"
       \/ /\ DbFault
          /\ pc' = "notice"
          /\ UNCHANGED <<nextBatch, dueIn, waiting, inflight, paceVars>>
    /\ UNCHANGED <<loopVars, schedule, catalog, results, kept, observed, dbVars, unannounced,
                   denialVars>>

(* One request is answered (the HTTP client gives up after 20 s) and a     *)
(* queued one takes its place.                                             *)
Answer(job, denied, outcome) ==
    /\ job \in inflight
    /\ Charge(outcome = "rows" /\ ~denied)
    /\ results' = results \cup {[job |-> job, denied |-> denied, outcome |-> outcome]}
    /\ IF denied THEN Deny(TargetOf(job)) ELSE UNCHANGED backoff
    /\ \E next \in SUBSET waiting :
         /\ waiting # {} <=> next # {}
         /\ \A j, k \in next : j = k
         /\ inflight' = (inflight \ {job}) \cup next
         /\ waiting' = waiting \ next
         /\ NoteSent(next)

ReceiveWait ==
    /\ pc = "waitFetch"
    /\ \E job \in inflight, denied \in BOOLEAN, outcome \in Outcomes :
         Answer(job, denied, outcome)
    /\ pc' = IF inflight' = {} THEN "waitRecord" ELSE pc
    /\ UNCHANGED <<loopVars, schedVars, catalog, kept, observed, dbVars, unannounced,
                   lostDenials>>

(* record_result_cooldown on one result, when nothing fails.               *)
Record(r) ==
    IF r.denied
      THEN /\ Trip(TargetOf(r.job))
           /\ lostDenials' = lostDenials \ {TargetOf(r.job)}
      ELSE UNCHANGED <<cooldownLeft, lostDenials>>

(* The wait results in turn.  An error drops all of them, those already    *)
(* recorded included.                                                      *)
RecordWait ==
    /\ pc = "waitRecord"
    /\ \E r \in results :
         \/ /\ NoFault
            /\ Record(r)
            /\ results' = results \ {r}
            /\ kept' = kept \cup {r.outcome}
            /\ pc' = IF results' = {} THEN "waitPersist" ELSE pc
         \/ /\ r.denied
            /\ DbFault
            /\ lostDenials' = lostDenials \cup DeniedTargets(results)
            /\ results' = {} /\ kept' = {}
            /\ pc' = "notice"
            /\ UNCHANGED cooldownLeft
    /\ UNCHANGED <<loopVars, schedVars, catalog, waiting, inflight, observed, enabled,
                   managed, unannounced, paceVars, backoff>>

(* The newest observed_at of the rows stored, if any. *)
ObservedIfAll(outcomes) == outcomes = {"rows"}   \* mutant of Observed
Observed(outcomes)      == "rows" \in outcomes

(* persist_wait_times: all batches in one transaction, which a repeated or *)
(* unknown shop id aborts.                                                 *)
PersistWaits ==
    /\ pc = "waitPersist"
    /\ \/ /\ "bad" \notin kept
          /\ NoFault
          /\ observed' = Observed(kept)
          /\ unannounced' = IF "rows" \in kept THEN unannounced \cup {"wait"} ELSE unannounced
       \/ /\ "bad" \in kept
          /\ NoFault
          /\ UNCHANGED <<observed, unannounced>>
       \/ /\ "bad" \notin kept
          /\ DbFault
          /\ \/ UNCHANGED unannounced
             \/ "rows" \in kept /\ unannounced' = unannounced \cup {"wait"}
          /\ UNCHANGED observed
    /\ kept' = {}
    /\ pc' = "notice"
    /\ UNCHANGED <<loopVars, schedVars, catalog, waiting, inflight, results, dbVars, paceVars,
                   denialVars>>

-----------------------------------------------------------------------------
(* poll_managed_notices_once: a notice and a closing-notice request for    *)
(* every managed shop, less those cooling down when the batch is built.    *)
NoticeShops == {s \in managed \cap enabled : ProviderOf[s] \in NoticeProviders}
NoticeJob(e, s) == [endpoint |-> e, provider |-> ProviderOf[s], shops |-> {s}]
NoticeJobsUnchecked ==       \* mutants of NoticeJobs
    {NoticeJob(e, s) : e \in {"notice", "closing_notice"}, s \in NoticeShops}
NoticeJobsWithoutClosing ==
    {j \in {NoticeJob("notice", s) : s \in NoticeShops} : cooldownLeft[TargetOf(j)] = 0}
NoticeJobs ==
    {j \in {NoticeJob(e, s) : e \in {"notice", "closing_notice"}, s \in NoticeShops} :
       cooldownLeft[TargetOf(j)] = 0}

StartNotices ==
    /\ pc = "notice"
    /\ \/ /\ pollNotices
          /\ NoFault
          /\ \E first \in SUBSET NoticeJobs : SendFirst(NoticeJobs, first)
          /\ pc' = IF NoticeJobs = {} THEN "publish" ELSE "noticeFetch"
       \/ /\ ~pollNotices
          /\ NoFault
          /\ pc' = "publish"
          /\ UNCHANGED <<waiting, inflight>>
       \/ /\ pollNotices
          /\ DbFault
          /\ pc' = "publish"
          /\ UNCHANGED <<waiting, inflight>>
    /\ UNCHANGED <<loopVars, schedVars, catalog, results, kept, observed, dbVars, unannounced,
                   paceVars, denialVars>>

ReceiveNotice ==
    /\ pc = "noticeFetch"
    /\ \E job \in inflight, denied \in BOOLEAN, outcome \in Outcomes \ {"bad"} :
         Answer(job, denied, outcome)
    /\ pc' = IF inflight' = {} THEN "noticeRecord" ELSE pc
    /\ UNCHANGED <<loopVars, schedVars, catalog, kept, observed, dbVars, unannounced,
                   lostDenials>>

(* Here a cooldown that cannot be recorded is only a warning. *)
RecordNotice ==
    /\ pc = "noticeRecord"
    /\ \E r \in results :
         /\ \/ NoFault /\ Record(r)
            \/ /\ r.denied
               /\ DbFault
               /\ lostDenials' = lostDenials \cup {TargetOf(r.job)}
               /\ UNCHANGED cooldownLeft
         /\ results' = results \ {r}
         /\ kept' = kept \cup {r.outcome}
         /\ pc' = IF results' = {} THEN "noticePersist" ELSE pc
    /\ UNCHANGED <<loopVars, schedVars, catalog, waiting, inflight, observed, enabled,
                   managed, unannounced, paceVars, backoff>>

PersistNotices ==
    /\ pc = "noticePersist"
    /\ \/ /\ NoFault
          /\ observed' = (observed \/ Observed(kept))
          /\ unannounced' = IF "rows" \in kept THEN unannounced \cup {"notice"}
                                               ELSE unannounced
       \/ /\ DbFault
          /\ \/ UNCHANGED unannounced
             \/ "rows" \in kept /\ unannounced' = unannounced \cup {"notice"}
          /\ UNCHANGED observed
    /\ kept' = {}
    /\ pc' = "publish"
    /\ UNCHANGED <<loopVars, schedVars, catalog, waiting, inflight, results, dbVars, paceVars,
                   denialVars>>

-----------------------------------------------------------------------------
(* publish_status_updated: one pg_notify for whatever this iteration       *)
(* observed.  Listeners re-read everything, so it announces every earlier  *)
(* commit too.                                                             *)
AnnouncesNotices == observed /\ pollNotices  \* mutant of Announces
Announces == observed

Publish ==
    /\ pc = "publish"
    /\ \/ Announces /\ NoFault /\ unannounced' = {}
       \/ Announces /\ DbFault /\ UNCHANGED unannounced
       \/ ~Announces /\ NoFault /\ UNCHANGED unannounced
    /\ observed' = FALSE
    /\ pc' = "sleep"
    /\ UNCHANGED <<loopVars, schedVars, catalog, fetchVars, dbVars, paceVars, denialVars>>

Sleep ==
    /\ pc = "sleep"
    /\ PassTime
    /\ pc' = "top"
    /\ UNCHANGED spent

(* Time passes while the task waits for upstream or for Postgres. *)
Elapse ==
    /\ pc \notin {"top", "sleep"}
    /\ spent < MaxDelay
    /\ spent' = spent + 1
    /\ PassTime
    /\ UNCHANGED pc

(* The process dies and systemd starts it again: memory is lost, the       *)
(* tables and upstream's view are not.                                     *)
Crash ==
    /\ faults < MaxFaults
    /\ faults' = faults + 1
    /\ pc' = "top"
    /\ catalogDueIn' = 0 /\ catalogRetryIn' = 0 /\ noticeDueIn' = 0
    /\ loaded' = FALSE /\ pollNotices' = FALSE
    /\ schedule' = [p \in Providers |-> {}]
    /\ nextBatch' = [p \in Providers |-> 0]
    /\ dueIn' = [p \in Providers |-> 0]
    /\ catalog' = NothingFetched
    /\ waiting' = {} /\ inflight' = {} /\ results' = {} /\ kept' = {}
    /\ observed' = FALSE
    /\ lostDenials' = lostDenials \cup DeniedTargets(results)
                        \cup (IF pc = "catalogRecord" /\ catalog.code
                              THEN {CatalogTarget} ELSE {})
    /\ UNCHANGED <<dbVars, upstreamFaults, spent, unannounced, paceVars, backoff>>

PollerStep ==
    \/ StartIteration
    \/ CheckCatalogCooldown \/ FetchCatalog \/ RecordCatalog \/ PersistCatalog \/ RefreshManaged
    \/ LoadSchedules
    \/ SelectWaitBatches \/ ReceiveWait \/ RecordWait \/ PersistWaits
    \/ StartNotices \/ ReceiveNotice \/ RecordNotice \/ PersistNotices
    \/ Publish \/ Sleep

Next == PollerStep \/ Elapse \/ Crash

(* The runtime keeps polling the only task, every request ends by its      *)
(* timeout and sleep(1s) returns: the loop itself always goes on.          *)
Fairness == WF_vars(PollerStep)

Spec     == Init /\ [][Next]_vars
FairSpec == Spec /\ Fairness

-----------------------------------------------------------------------------
(* Typing of every variable; timers never exceed what they are set to.     *)
TypeOK ==
    /\ pc \in Phases
    /\ catalogDueIn \in 0..CatalogInterval
    /\ catalogRetryIn \in 0..CatalogRetryInterval
    /\ noticeDueIn \in 0..NoticeInterval
    /\ loaded \in BOOLEAN /\ pollNotices \in BOOLEAN /\ observed \in BOOLEAN
    /\ schedule \in [Providers -> SUBSET Shops]
    /\ nextBatch \in [Providers -> Nat]
    /\ dueIn \in [Providers -> Nat]
    /\ catalog \in CatalogAnswers
    /\ waiting \subseteq Jobs /\ inflight \subseteq Jobs
    /\ results \subseteq Results
    /\ kept \subseteq Outcomes
    /\ enabled \subseteq Shops /\ managed \subseteq Shops
    /\ cooldownLeft \in [Targets -> 0..Cooldown]
    /\ backoff \in [Targets -> 0..Cooldown]
    /\ faults \in Nat /\ upstreamFaults \in Nat /\ spent \in Nat
    /\ unannounced \subseteq {"catalog", "wait", "notice"}
    /\ sinceRequest \in [Providers -> 0..Spacing]
    /\ sinceEarlier \in [Providers -> 0..Spacing]
    /\ lostDenials \subseteq Targets

(* schedule.batches[schedule.next_batch] never panics, whatever sequence   *)
(* of reloads, skips and crashes came before.                              *)
BatchIndexInRange ==
    \A p \in Groups(schedule) : nextBatch[p] < NumBatches(p, schedule[p])

(* The batches of a schedule miss no shop, ask for none twice, are never   *)
(* empty and never exceed what upstream accepts in one request.            *)
BatchesPartitionSchedule ==
    \A p \in Groups(schedule) :
        LET S == schedule[p]
            I == 0 .. NumBatches(p, S) - 1
        IN /\ UNION {Batch(p, S, i) : i \in I} = S
           /\ \A i \in I : Cardinality(Batch(p, S, i)) \in 1..BatchSize[p]
           /\ \A i, j \in I : i # j => Batch(p, S, i) \cap Batch(p, S, j) = {}

Sent == inflight' \ inflight
WaitsSent(p) == \E j \in Sent : j.endpoint = "wait_time" /\ j.provider = p

(* No request of any kind, queued ones included, leaves while the cooldown *)
(* table says that its endpoint and provider are cooling down.             *)
CooldownHonoured ==
    [][/\ \A j \in Sent : cooldownLeft[TargetOf(j)] = 0
       /\ pc' = "catalogFetch" /\ pc # "catalogFetch" => cooldownLeft[CatalogTarget] = 0]_vars

(* A wait provider that denied a request is left alone for the whole       *)
(* cooldown, across restarts of the poller too, unless the denial was lost *)
(* before it could be recorded (a database error or a crash in between).   *)
WaitBackOff ==
    [][\A p \in Providers : WaitsSent(p) =>
         backoff[WaitTarget(p)] = 0 \/ WaitTarget(p) \in lostDenials]_vars

(* Of three wait requests of one schedule the first and the third are at   *)
(* least a spacing apart, however long each of them waited for a place     *)
(* among the concurrent ones (poll_due_wait_batches stamps next_due before *)
(* the requests are queued).  Two need not be: the second may leave at     *)
(* once when the first had to wait, so that a region exceeds its           *)
(* configured rate (docs/operations.md) by that one request.               *)
PacedBetweenLoads ==
    [][\A p \in Providers : WaitsSent(p) => sinceEarlier[p] >= Spacing]_vars

(* When the schedules differ from the locations table (a catalog commit    *)
(* whose refresh failed, a failed load, a restart) the poller still knows  *)
(* that it has to reload: a load is pending or the catalog is due again.   *)
StaleScheduleIsKnown ==
    schedule # Tracked(enabled) => ~loaded \/ catalogDueIn = 0

(* An iteration ends with every wait or notice commit announced, unless a  *)
(* database error or a crash came in between.                              *)
AnnouncedAtRest ==
    pc = "sleep" /\ faults = 0 => unannounced \subseteq {"catalog"}

(* Every shop that stays tracked is asked about again and again, whatever  *)
(* reloads, failed batches and cooldowns come in between.                  *)
PolledNow(e, s) == \E j \in inflight \cup waiting : j.endpoint = e /\ s \in j.shops
TrackedShopsArePolled ==
    \A s \in {x \in Shops : ProviderOf[x] \in Providers} :
        <>[](s \in enabled) => []<>PolledNow("wait_time", s)

(* Every shop that stays managed has its notices asked for again and again.*)
ManagedShopsGetNotices ==
    \A s \in {x \in RegionShops : ProviderOf[x] \in NoticeProviders} :
        <>[](s \in managed \cap enabled) =>
            []<>PolledNow("notice", s) /\ []<>PolledNow("closing_notice", s)

(* What a commit changed is announced in the end, even after a lost        *)
(* notification, as long as some shop is still tracked.                    *)
CommitsAreAnnounced ==
    (\E s \in {x \in Shops : ProviderOf[x] \in Providers} : <>[](s \in enabled)) =>
        []<>(unannounced = {})
=============================================================================
