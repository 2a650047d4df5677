# A verification project for heytea.dev

heytea.dev polls the HeyTea upstream services for wait times and notices, keeps
them in Postgres and shows them on a site, over an API and over SSH. These
modules model the parts of it in which steps interleave, calls fail, state gets
old or arithmetic has edges. TLC checks them on small instances; TLAPS proves
the main safety properties for every value of the constants. Source paths below
are relative to the repository; `PROJECT.json` ties every definition to its
lines and lists each hazard at its line with the properties that cover it.

## Inventory

| Component | State | Operations | Hard because |
|---|---|---|---|
| Poller loop, `crates/poller/src/main.rs` | attempt and success times, one schedule per provider (`batches`, `next_batch`, `next_due`) | catalog refresh, schedule load, wait polling, notices, publication, one-second sleep | every await may fail or be the last one; requests end in any order; a restart forgets everything |
| Upstream client, `crates/poller/src/upstream.rs` | none | catalog of all regions, wait batches, notices | partial catalogs; denials that only show in an error text; 20 s timeout |
| Persistence, `crates/poller/src/persistence.rs` | tables `locations`, `location_current_status`, `managed_locations`, `upstream_provider_cooldowns` | one transaction per result set, cooldown upsert, slugs | a transaction may fail as a whole, or fail after it committed; rows come in a HashMap's order |
| Managed locations, `migrations/0002_managed_tracking.sql`, `heytea-admin` in `flake.nix` | regions, overrides, `managed_locations` | `refresh_managed_locations()` by the poller and by administrators | two statements, two snapshots, row locks in two orders |
| Live feed, `crates/api/src/live.rs`, `stream_for_slug` in `crates/api/src/routes.rs` | listener connection, broadcast channel of 128, one receiver per stream | listen, check, broadcast, initial read, re-read on event or lag | lost notifications, lag, reconnection, read before subscribe |
| API queries, `crates/api/src/db.rs` | none | status, freshness, history with interpolation and comparison | edges of the interpolation gap, days, midnights; the clock runs while an answer is made |
| Site, `crates/site/src/` | location cache with a 15 s lifetime | finder page in two parts, location page | concurrent misses, two readings of one list |
| Browser scripts, `crates/site/templates/*.js` | rows, points, event source | merge rows, events, searches, positions and answers | they come in any order |
| SSH interface, `crates/ssh-tui/src/main.rs` | sessions, 8 permits, one mailbox per connection | open, input, render, refresh loop, close | sessions are kept by connection, channels are not; slow clients |
| MCP, SDK, CLI, GeoIP, markup | none | stateless calls and rendering | - |

How they interact: the poller is the only caller of upstream and the only
writer of statuses; it announces them with one `pg_notify` per iteration. The
API listens, broadcasts to its streams, and every stream reads Postgres again.
Site, SSH, MCP, SDK and CLI read the API. Administrators change overrides in
Postgres. The services are restarted by systemd (`nix/modules/heytea.nix`).

What makes each of them right: the poller keeps its pace, honours cooldowns,
asks for every tracked shop again and again and announces what it commits; a
public slug never changes; the managed set follows regions and overrides; a
stream never loses the news and never goes back; a history invents nothing, and
its ranges differ only where one of them begins; a header promises no more
freshness than there is; a list in a page is what was asked for; permits return
exactly once and clean-up takes nobody else's session.

## Modules

| Module | What it is | Proofs |
|---|---|---|
| `Poller` | the poller process with the tables it writes | `Poller_proofs` |
| `CatalogSlugs` | the catalog row by row: how locations get their slugs | `CatalogSlugs_proofs` |
| `ManagedLocations` | `refresh_managed_locations()` with its callers and row locks | `ManagedLocations_proofs` |
| `LiveStatus` | abstract: what a viewer of a location is promised | |
| `StatusFeed` | commit, notification, listener, broadcast and streams; implements `LiveStatus` | `StatusFeed_proofs` |
| `WaitHistory` | the history API: ranges, interpolation, comparison | in `Dashboard_proofs` |
| `ApiFreshness` | stale flags and cache headers of the API's endpoints | `ApiFreshness_proofs` |
| `LocationsCache` | the site's cache of the list of locations | `FinderPage_proofs` |
| `FinderReorder` | how the finder's list is brought into another order | `FinderPage_proofs` |
| `FinderPage` | the finder page over `LocationsCache`, its script over `FinderReorder` | `FinderPage_proofs` |
| `Dashboard` | the location page over `WaitHistory`; implements `LiveStatus` | `Dashboard_proofs` |
| `SshSessions` | connections, sessions, permits and the refresh loop | `SshSessions_proofs` |

`MCPoller`, `MCCatalogSlugs`, `MCWaitHistory`, `MCFinderPage` and `MCDashboard`
give the constants that a configuration cannot write down their values. Each
module carries, next to the definition they change, the mutants that show that
its properties can fail; no specification uses them.

### Poller

`pc` names the await the single task is at; an action is the code from one
await to the next, so whatever may happen at an await (a failure, time, a
crash) happens between two actions.

- `StartIteration` is the top of the loop: it decides what is due and stamps the
  attempts. `CheckCatalogCooldown`, `FetchCatalog`, `RecordCatalog`,
  `PersistCatalog`, `RefreshManaged` are `poll_catalog_once`; `LoadSchedules`
  is `load_wait_schedules`; `SelectWaitBatches`, `ReceiveWait`, `RecordWait`,
  `PersistWaits` are `poll_due_wait_batches`; `StartNotices`, `ReceiveNotice`,
  `RecordNotice`, `PersistNotices` are `poll_managed_notices_once`; `Publish`
  is the call of `publish_status_updated`; `Sleep` the second between two
  iterations.
- `waiting` and `inflight` are the two halves of `buffer_unordered`: at most
  `Concurrency` requests are in flight, answers come in any order, each frees
  a place. An answer has rows, bad rows (a repeated or unknown shop id, which
  aborts the transaction) or none, and may be a denial.
- An upstream denial starts `backoff`, the time upstream wants to be left
  alone; the table's `cooldownLeft` starts when the denial is recorded. The
  two are separate so that what happens in between can be asked about.
- Instants are kept as the time left until the comparison in the code turns
  true, one unit being the one-second sleep. `Elapse` lets time pass at every
  await, `Sleep` at the end of an iteration.
- A failed database call takes the code's error path; a failed commit may have
  taken effect. `Crash` loses the memory and keeps the tables.
- `unannounced`, `sinceRequest`, `sinceEarlier` (the times since a provider's
  last wait request and the one before it), `backoff` and `lostDenials` are
  histories or upstream's own state: no guard of the poller reads them. A lost
  denial is forgotten when its backoff ends or a later one is recorded.

### CatalogSlugs

`Fetch` is `fetch_shop_catalog`: whatever regions answer, merged. `Write` is
one turn of `persist_catalog`'s loop with `stable_slug`, in any order of the
shops, since the merged catalog is a HashMap; `Abort` is the violated `unique`,
`Commit` and `Crash` end the transaction. A slug is a word with numbers, which
is all that decides whether two slugs are the same.

### ManagedLocations

A caller's refresh is one READ COMMITTED transaction: `BeginUpsert` takes the
first statement's snapshot, `Upsert` writes row by row in the order of the ids,
`BeginDeactivate` takes the second snapshot, `Deactivate` writes its rows in
any order. A row is written by the transaction that holds its lock, others
wait, and Postgres ends one of those that wait for each other (`Abort`).
`alone` records whether anything ran or was committed beside a refresh. The
table begins empty; a catalog (`Catalogs`) adds locations, moves them in and out
of the regions, enables and disables them, and takes none away.

### StatusFeed and LiveStatus

`sent` is the broadcast channel with the version that was current when each
event was sent; a receiver that is more than `Capacity` behind lags. Events
carry no data, as in the code: a stream that receives one reads the status
again (`Reread`) and yields it (`Yield`), and a failed read yields nothing. A
stream is opened, reads the initial status (`ReadInitial`) and then subscribes
(`Subscribe`), in this order. `Close` is a viewer that goes and may come back,
`RestartApi` the process that starts again without channel and streams,
`LoseConnection` the listener's reconnection. `LiveStatus` has a version and
what each viewer sees of it; the refinement is the identity on both.

### WaitHistory

`Points` is `history_for_slug` and `interpolate_value`, `DaysWithValue` the
comparison, as functions of the samples, the range and the moment; the state is
the samples and the clock, so that every history of observations is reached and
every query asked at every moment. Observations fall on whole minutes and
between them; `Mean` and `AggregateSamples` are the continuous aggregate of
`migrations/0001_initial.sql`. Values are multiples of every gap: rounding is
not part of the properties.

### ApiFreshness

A handler reads the database (`Read`), looks at the clock to mark the answer
stale or not (`Mark`; a history is not marked, its handler reads the status a
second time in `ReadStatus`), and computes the header in `Respond`; the clock
and the poller go on between them. `/locations` has its header before it reads
(`ListHeader`). A cache in front reuses the answer for its max-age. A second has
several units, because headers count whole seconds.

### LocationsCache, FinderReorder, FinderPage

`LocationsCache` is `cached_locations`: `Ask` looks at the cache once, `ApiReads`
is the moment the API reads its database, `Store` overwrites the cache in
whatever order answers arrive, `Fail` falls back on it. `FinderReorder` is
`lisPositions` and `reorderRows`: patience sorting (`PlaceIndex` is one turn of
its loop), then `insertBefore` from the end (`MoveRow` is one turn). Both loops
are recursive functions, so that they can be proved about.

`FinderPage` composes both: the page and the stream are two requests of the
cache, cut at `InitialLimit` from whatever list each gets; `StreamLine`
and `StreamEnds` append in batches, `ApplyFilter` and `UseBrowserLocation`
render anew. Both sides order by `SortByKey`, the domain of a function in the
order of its keys: the server's comparison is a key of distance, standing and
name (`SortLocations`), the script's the same with the row's index
(`CompareKey`), over the rows that a search finds (`Found`, `Filtered`). No two
keys are equal, so a stable sort has one result. `aliased` stands for the array identity in the script:
`visibleRows` is `rows` itself until the first append, filter or position. A
row carries the place its distance was measured from, not the distance.

### Dashboard

The page served by `location_dashboard` and the script that keeps it up to
date. `wire` holds the events under way, `answer` the history answer; `Deliver`
is `update`, `LoadHistory` the assignment after the fetch. The statuses come
from `WaitHistory`'s samples and from the catalog, which alone opens and closes
a location. A live point belongs to the minute its observation falls in
(`PutPoint`). Every point carries the day it is of and whether a live event drew
it, the history answer the moment it was made; none is read by a guard.

### SshSessions

`conn` is the task of a connection, `handler` the russh handler it is inside,
`mailbox` its bounded `Handle`. A handler composes its page from the session
when it is called and sends it later (`HandlerSend`); the refresh loop does the
same (`RefreshRender`, `RefreshSend`) for one session after the other.
Requests come on any channel that the client has not closed, and are about the
session of the connection: keys and renders go to its channel, while `Exec` and
`Quit` close the channel they came on (`on`), the session's or another. Exec
without a session closes its channel, every other request without one does
nothing. A channel the server closed is "closing" until the client's own close,
which removes the connection's session like any close (`CloseChannel`).
Replacing or removing an entry of the map drops its permit (`Remove`);
`DropTask` is the task `HandlerState::drop` spawns. A client may stop reading
(`Stall`), which holds its task in a write.

### How the parts are composed

`FinderPage` EXTENDS `LocationsCache` and `FinderReorder`, and `Dashboard`
EXTENDS `WaitHistory`: the script runs against the very operators and actions
that model the server. `StatusFeed` and `Dashboard` each implement
`LiveStatus`, the first for the API's streams, the second for the page behind
one of them. `Poller` and `ManagedLocations` meet in one action: `Poller`'s
`RefreshManaged` is the whole call that `ManagedLocations` takes apart.

## Runs

| Run | Instance | Shows |
|---|---|---|
| `poller_waits` | three shops, two providers with one place, two batches for the first; two faults anywhere, one bad upstream answer | indices, batches, schedules, pace and denials over queues, reloads and crashes |
| `poller_liveness` | two shops in two batches of one, a third in a country nobody serves, one managed; one fault, one bad answer, one place | cooldowns, announcements; every shop is asked for, every commit announced in the end |
| `feed` | one viewer, three commits, channel of one event, two faults | refinement of `LiveStatus`; events are honoured; what is announced is shown in the end |
| `slug_safety` | three shops in two regions, names with and without numbers, five listings, a crash | slugs never change hands |
| `managed_refresh` | two shops that come, move and go, two administrators and the poller, three changes | what a refresh leaves behind, alone and in a race; the table follows in the end |
| `ssh` | two connections with two channels each, two permits, mailboxes of two pages, three requests, one fault | permits, clean-up; screens and quitting clients in the end |
| `history_points` | three observations with and without values, at and between whole minutes, over two days and a bit, four ranges | interpolation, comparison and the first minutes of ranges at every edge |
| `fresh_headers` | every endpoint, two polls, thirds of a second | a reused answer tells the truth |
| `finder_page` | page of one row, stream of three in batches of two, two positions, one search, two lists, another visitor | the list is always the one asked for |
| `dashboard_graph` | a local midnight, three observations, a closing, breaks and polls | refinement of `LiveStatus`; the graph keeps to its day, and live points stay on it |

Two runs end in a counterexample. They state what the documentation says and
the code does not do:

- `feed_subscribe_gap`: `docs/public-api.md` says a stream receives the events
  after commits; one that is sent between a stream's first read and its
  subscription is missed, and the screen stays old until the next one.
- `slug_rediscovery`: `migrations/0001_initial.sql` says that the app can
  rediscover the full catalog; when the slug that `stable_slug` falls back to
  is another shop's, every later catalog fails as a whole.

### Properties

- `Poller`: `BatchIndexInRange` (no panic on `batches[next_batch]`),
  `BatchesPartitionSchedule`, `CooldownHonoured`, `WaitBackOff` (a denial is
  respected for the whole cooldown, over restarts, unless the denial itself was
  lost before it was recorded), `PacedBetweenLoads`, `StaleScheduleIsKnown`,
  `AnnouncedAtRest`; liveness `TrackedShopsArePolled`,
  `ManagedShopsGetNotices`, `CommitsAreAnnounced`.
- `CatalogSlugs`: `SlugsStayPut`; proved besides: `RefreshIsWhole`.
- `ManagedLocations`: `AloneIsExact`, `ManagesOnlyWhatIsWanted`, liveness
  `TableFollows`.
- `StatusFeed`: `EventsAreHonoured`, `ShowsOnlyNewer` (the refinement),
  liveness `AnnouncedIsShown`.
- `WaitHistory`: `NothingInvented`, `RawRangesAgree`, `PointsSettle`,
  `ComparesWeekAndEve`.
- `ApiFreshness`: `ReusedAnswersTellTheTruth`.
- `LocationsCache`, `FinderPage`: `ServedListsAreRecent`,
  `ListIsWhatWasAskedFor`, `OneListIsComplete`, `FewestRowsMove`; proved
  besides: `NeverEmptyAgain`.
- `Dashboard`: `FollowsTheFeed` (the refinement), `OneDayOnTheGraph`,
  `KeepsWhatItDrew`.
- `SshSessions`: `PermitsAccounted`, `NothingOutlivesTheDrop`,
  `OpenChannelsKeepTheirSession`, liveness `ScreensCatchUp`, `QuitEnds`.

The comment at each says which behaviour it is about.

### Where the code needs an exception

The properties hold as they are stated; these are the places where a stronger
statement does not, and why the statement stops there.

- Two wait requests to a provider may be less than a spacing apart. `next_due`
  counts from the moment a batch is selected, so a request that waited for a
  place leaves late and the provider's next one follows too soon. It takes no
  fault, only fewer places than due providers, and production has 2 places and
  9 providers (`nix/modules/heytea.nix`). `docs/operations.md:28` says that each
  region stays within its configured rate: it does not, by one request.
  `PacedBetweenLoads` is what does hold, with any number of places: a request
  leaves at least a spacing after the one before the last. A reload starts the
  schedules anew, so that a provider may be asked again at once; the property
  counts from there.
- A denied catalog request trips no cooldown when another region answered, or
  when the error text lacks the status. The queued notice requests of a
  provider that just denied one are still sent: `WaitBackOff` is about waits.
- A catalog commit is not announced by itself, the next wait or notice commit
  announces it: `AnnouncedAtRest` and `CommitsAreAnnounced` say so. The shops of
  a failed batch wait for the next round, nobody retries them one by one.
- A reload starts every schedule at batch 0 again: with a catalog interval
  shorter than a round of all batches the last batches starve. The defaults
  leave a wide margin (a day against minutes), nothing in the code enforces it.
- Two refreshes of the managed locations that race may both leave something the
  overrides no longer want, until the next catalog: `AloneIsExact` is about a
  refresh alone, `TableFollows` about the end.
- A sample up to 20 minutes old (`MAX_INTERPOLATION_GAP_SECONDS`) counts in the
  first minutes of `today`: last night's wait is a point of today.
- Two raw ranges may show different values for one minute. A range reads its
  samples from 20 minutes before its start, but shows its points from the start
  rounded down to the minute, so that its first point may miss a sample that a
  longer range interpolates from. `RawRangesAgree` says that this is the only
  place and the only reason; a minute may besides be empty in one range and
  filled in another, and the aggregated week shows means.
- The "seven-day comparison" of `dashboard.html:37` ("the previous seven-day
  minute average", line 41) is one of eight days for the minutes within two gaps
  (40 minutes) of midnight at the end of a day: the 20 minutes read before the
  first day count as a day of their own. `ComparesWeekAndEve` names the days, for
  days of one length. In the week after the clocks go forward the window begins
  an hour earlier in the eighth day: `ComparisonIsOfTheWeek` is what holds then.
- The history's cache header comes from a second read of the status, and the
  list of locations is cacheable for 30 s whatever it holds: both are left out
  of `ReusedAnswersTellTheTruth`.
- The finder page and its stream may be cut from two lists, so that a row comes
  twice or never: `OneListIsComplete` is about equal lists. Rows that wait in a
  batch when the browser names its position keep the server's distance.
- A `null` in the history answer is drawn as zero (`Number(null)`). The history
  answer replaces all points: one that was made before an event's minute wipes
  out the event that overtook it, and one that a midnight overtakes leaves
  yesterday's line. `KeepsWhatItDrew` says that this is the only way to lose a
  live point, and which answers do it; `OneDayOnTheGraph` leaves out the time
  after a midnight overtook the answer.
- A session is kept by connection: a second channel on a connection replaces
  the first one's session, and closing either, `q` or exec on either takes it;
  so does the client's answer to an earlier close. A handler that sends to
  its own full mailbox waits for itself: `ScreensCatchUp` and `QuitEnds` exclude
  connections that are `Stuck`. The arrow keys move a cursor past the last row
  and have to come back the same way; no property is about the cursor.

### Bounds

Times are scaled so that the order of the code's constants stays. Every bound
is a CONSTANT in a guard, and each is the least with which the case it is for
happens:

- Poller: batches need two shops of one provider, and a second provider for the
  queue: `PollerWaits` has one place for two providers, so that requests are
  held back as production's 2 places hold back 9 providers. Two faults are a
  fault in one phase and a crash while its consequence is pending. `Spacing` 3
  (2 in `PollerLiveness`, which has one provider) leaves time for a request held
  back to leave late, and is shorter than the `Cooldown`, as by default.
  `Cooldown` 4 (2 in `PollerLiveness`) and `CatalogInterval` 4 make every pair
  of timers end in both orders; `MaxDelay` bounds the time one iteration spends
  on I/O at one unit, enough for a timer to run out during any await.
  `PollerLiveness` has a catalog interval of 8, longer than a round, see above.
- Feed: three commits are the least with which a channel of one event lags and
  still has a newer event. Viewers share nothing but the channel, which they
  only read; the proofs are for any number.
- Slugs: a collision of a derived slug takes three shops and a name with a
  number; five listings let two shops trade names.
- Managed locations: two administrators and the poller make deadlocks of two
  and of three; two shops are enough for both lock orders. Three changes are a
  catalog, a command and a catalog whose refresh they cross.
- SSH: two connections with two channels race for permits, replace sessions and
  end each other's; a mailbox of two is filled by a handler and the refresh loop.
- History: a minute of three units puts observations at minutes and between
  them, so that rounding down matters; the gap is a minute, a day is longer than
  two gaps, one day of comparison stands for seven. Three samples put one on each
  side of every point and one across a midnight.
- Freshness: a second of three units and nearly twice the lifetime of an answer.
- Finder: four shops, one without coordinates, make the page, one full batch
  and one that is not full; two lists that differ in members and in order. The
  other visitors' part (`Site`) stops once this page's last answer is there,
  after which it can learn nothing from them. Two moves of the browser meet
  every stage of the stream.
- Dashboard: two days of two minutes with one midnight between them, a minute
  of two units, so that status and history are read in the middle of a minute
  too.

### Fairness

- `Poller`: weak fairness of the poller's step: the task is the only one of its
  runtime, every request ends by the client's 20 s timeout, database calls
  return or fail and `sleep` ends. Upstream and the database are free, up to
  their fault budgets.
- `StatusFeed`: weak fairness of the notification that follows a commit, of the
  listener task and of each stream's next step; none of commits, faults, lost
  connections or viewers leaving.
- `SshSessions`: weak fairness of the server's tasks (handlers, deliveries,
  drop tasks, the refresh loop); nothing is assumed of the clients. `Brisk`
  says that the refresh interval outlasts what is still to be sent, without
  which a refresh could compose pages for ever from the moment before a key.
- `ManagedLocations`: strong fairness of each caller's next statement or row,
  since Postgres queues those that wait for a row in turn; weak fairness of the
  catalog, which the poller repeats.
- `CatalogSlugs` (only for the counterexample): the poller goes on, every
  region answers now and then, and each shop is now and then the first to be
  written. The catalog is wedged even then.
- `WaitHistory`, `ApiFreshness`, `FinderPage` and `Dashboard` make no liveness
  claims and assume none.

Deadlock is checked in the poller's runs: the loop never ends. It is not in the
others, where everything may be quiet when clients are gone or a bound is
reached.

## Proofs

The proofs assume only the named assumptions on the constants; the bounds on
faults, requests and time are arbitrary. Each follows the same line: an
inductive invariant with one step per action, then the property.

`Poller_proofs`:

- `TypeCorrect`: needs that ranks, batch counts and staggers are natural
  numbers, from the finiteness of the sets.
- `BatchesArePartitions`: ranks are a bijection from a finite set of shops to
  an initial segment of the naturals, a batch is the preimage of an interval as
  long as the batch size, and the last interval is not empty.
- `BatchIndexAlwaysInRange`: inductive on its own, since `next_batch` is reset
  with the batches and advanced modulo their number.
- `StaleSchedulesAreKnown`: strengthened with what holds inside a catalog
  refresh, where the tables are ahead of the schedules and the refresh is still
  due.
- `CooldownsAreHonoured`: the queue invariant says that no request in the queue
  or in flight has a running cooldown, because cooldowns start only after the
  last answer.
- `CommitsAnnouncedAtRest`: the announcement invariant ties `observed` to the
  unannounced commits of the phases before `Publish`.
- `ThirdRequestIsPaced`: for any number of places. A provider has at most one
  wait request queued or in flight and `next_due` counts from its selection; the
  invariant relates `dueIn`, the time since the last request and the one before
  it, with a case for the request that is selected and has not left.
- `DeniedProvidersLeftAlone`: a running `backoff` is covered by the table, by
  an answer that is still to be recorded, or by `lostDenials`.

`CatalogSlugs_proofs`: the open transaction keeps every committed slug and has
given one to every shop already written; hence `SlugsNeverChange` and
`CatalogsAreWhole`. That slugs are unique is the database's constraint, which
`Write` has as its guard.

`ManagedLocations_proofs`: the invariant says which locks a transaction holds,
what its two statements still have to write, and that a refresh nothing ran
beside still sees the regions and overrides it began with; hence
`AloneCommitsDesired` and `OnlyWantedIsManaged`.

`StatusFeed_proofs`: `NoEventIsLost` from an invariant on where versions come
from (an event is at most the current version, what a stream fetched is at
least every event it consumed, a screen shows something fetched earlier);
`FeedKeepsPromise`, the refinement: `Commit` maps to `Commit`, `Yield` to
`Show`, everything else to a stutter.

`FinderPage_proofs`, from the parts to the page:

- The cache: what is in it was read at most a timeout before it was stored, and
  a request's answer at most a timeout after it was asked; hence
  `ListsAreRecent` and `AlwaysAListAgain`, for any number of requests that
  overwrite each other. `PageKeepsTheCache` is the refinement: every step of
  the page is a step of the cache or leaves it alone, so both hold behind the
  page (`ThePagesListsAreRecent`, `ThePageIsNeverEmptyAgain`).
- Sorting: keys of one length without duplicates are totally ordered, and the
  number of smaller keys is a bijection to the positions. That needs no
  induction: a set is compared with the interval of its size.
- `LongestRunIsKept`: `lisPositions` returns a longest increasing run of any
  sequence of indexes. The loop's invariant (`Placed`) gives each index a rank
  along `before`; the ranks show at once that the walk is increasing and that
  no increasing set is longer than there are tails. The recursive functions of
  the model are shown to exist by the least natural number that violates a
  claim, which is an instance of well-founded minimality and needs no operator
  parameter.
- `RowsAreMoved`: the loop of `reorderRows`, from the last row to the first,
  keeps in order the rows that are kept and those already treated; at the end
  that is every row, and a list that has the same rows in the same order is the
  same.
- The page: `PageInv` says that `visibleRows` is the page's list, or is `rows`
  itself, or has rows twice and is then longer than `rows`, which is why
  neither shortcut of `render` and `appendRows` is ever taken wrongly
  (`TheListIsWhatWasAskedFor`, `ReorderingMovesFewest`); and that rows, batch
  and lines are numbered through and each is where its list has it, which gives
  `APageIsCompleted`.

They assume finitely many shops, distances and standings that are natural
numbers (only their order matters) and limits that are not zero
(`FinderAssumption`).

`SshSessions_proofs`: the safety properties together with what a handler knows
of the channel its request came on are inductive; the permits are a count of the
sessions that exist, changed by one wherever a session comes, goes or is
replaced.

`ApiFreshness_proofs`: an answer in a cache that can be reused at all was fresh
when it was read, and its last moment of reuse is no later than the moment it
gets stale, since whole seconds are rounded down; hence `HeadersTellTheTruth`.

`Dashboard_proofs`: the feed invariant says that events wait in the order they
were sent and none is older than the sentence; hence `PageFollowsTheFeed`, the
refinement: the server's steps map to `Commit`, serving and delivering to
`Show`. The graph invariant says that what is drawn is of the script's day and
that an answer under way is of one day; hence `GraphIsOfOneDay` and
`DashTyped`. `LivePointsStay` is about the answer too: it has every minute of its
day up to the moment it was made, so what it takes away came after that moment or
is of a day it is not of.

The same module proves the history, since the page's steps are the history's or
leave it alone (`PageKeepsTheHistory`). The samples are a finite set with one
sample for a moment, so the last one before and the first one after a minute
exist and are unique; a mean lies between the least and the greatest sample of
its minute, shown for sums over sets by removing one element at a time, and an
interpolated value between its ends. Hence `HistoryInventsNothing`.
`RangesDifferInTheirFirstMinute`: a range reads one gap more than it shows, so
the samples next to a minute are the same ones in both ranges or too far away;
except for the minute that contains the range's start, whose gap is cut short by
the rounding. `HistorySettles`: a new sample is the last of all, so it changes
neither neighbour of a minute that another sample had passed.
`HistoryAssumption` adds to the types of the constants that midnights are whole
minutes and that `NoSample` is no sample.

`ComparisonIsOfTheWeek` holds for midnights at any distance: no minute counts
that is further before today than seven times 24 hours and two gaps. That these
are at most seven local days, and an eighth only at its end
(`ComparisonIsOfWeekAndEve`), is proved from `RegularDays`: midnights one day
apart and a gap no longer than a day. In the week after the clocks go forward
the midnights are not, and the window of `TimeDelta::days(7)` begins an hour
earlier in the eighth day.

Checked by TLC only: the liveness properties `TrackedShopsArePolled`,
`ManagedShopsGetNotices`, `CommitsAreAnnounced`, `AnnouncedIsShown`,
`TableFollows`, `ScreensCatchUp` and `QuitEnds`, which need fairness and so
ENABLED. Every invariant and action property of a passing run is proved.

## Not modelled

- `Poller`: the fetch of a catalog is one step whose result is any partial
  catalog; rows carry no values, no decision of the poller reads them; health
  rows, texts of notices and logging are left out.
- Database: what TimescaleDB drops by the retention policies (raw samples after
  24 hours, the minute's means after 7 days) and how late it refreshes the means
  (`migrations/0001_initial.sql:103-112`). Samples of the model stay and means
  are up to date, so the properties are about what a range does with the samples
  that it finds.
- API: the OpenAPI document, error bodies and plain reads of columns. The
  instances have days of one length: daylight saving is not among them, only in
  what is proved without `RegularDays`.
- Site: content negotiation, text for terminals, assets, error pages, markup.
  GeoIP is a pure lookup; `FinderPage` takes any guess and none.
- Scripts: the gray comparison line, scales, wording, prefetching.
- SSH: the layout of a page; what it shows is the cursor and the matches.
- MCP, SDK and CLI keep no state between calls; build, deployment and CI files
  beyond the restart policy and `heytea-admin` decide nothing at run time.

## What is left

In this order: a composition of `Poller`'s publication with `StatusFeed` and
`Dashboard`, so that the liveness of the chain becomes one property from commit
to screen; the comparison line in `Dashboard`; an instance of `WaitHistory`
with a day that is an hour shorter; the implications between the liveness
properties and the safety ones they rest on, as far as they can be stated
without ENABLED.
