------------------------------ MODULE FinderPage ------------------------------
(***************************************************************************)
(* The store finder: the site sorts the cached list and puts its first     *)
(* rows in the page (crates/site/src/routes.rs, templates.rs); the page's  *)
(* script (templates/finder.js) fetches the rows after them as a stream,   *)
(* from the cache as it is by then, while the visitor types a search and   *)
(* the browser finds out where it is.  A row is known by its position in   *)
(* the script's `rows`, which only grows.                                  *)
(***************************************************************************)
EXTENDS LocationsCache, FinderReorder

CONSTANTS
    Shops,           \* a shop is a number: the rank of its name
    DistanceFrom,    \* [place -> [shop -> Nat]], FarAway for a shop without coordinates
    FarAway,
    Guesses,         \* what the lookup of the client's address may return
    NoPlace,
    Positions,       \* where the browser may say it is
    Terms, NoTerm, Matches,   \* searches and the shops each finds
    InitialLimit,    \* FINDER_INITIAL_LIMIT
    BatchSize,       \* the 100 rows that are appended at once
    MaxMoves, MaxSearches     \* bounds

(* A list gives each shop its standing, open_sort then wait_sort, or Gone. *)
Gone == -1

ASSUME FinderAssumption ==
    /\ Shops \subseteq Nat /\ IsFiniteSet(Shops) /\ FarAway \in Nat
    /\ \A place \in DOMAIN DistanceFrom, s \in Shops : DistanceFrom[place][s] \in Nat
    /\ Guesses \subseteq DOMAIN DistanceFrom \cup {NoPlace}
    /\ Positions \subseteq DOMAIN DistanceFrom
    /\ NoPlace \notin DOMAIN DistanceFrom /\ NoTerm \notin Terms
    /\ \A l \in Lists, s \in Shops : l[s] \in Nat \cup {Gone}
    /\ {"page", "stream"} \subseteq Requests
    /\ InitialLimit \in Nat \ {0} /\ BatchSize \in Nat \ {0}

VARIABLES
    guess,      \* GeoIp::lookup_request of this client
    page,       \* "loading", "shown"
    rest,       \* what became of the stream of remaining rows
    pending,    \* rows of the stream that were not read yet
    batch,      \* rows read and not appended yet
    rows, here, \* the script's rows and browserLocation
    visible, aliased,    \* visibleRows; aliased: it is the array `rows` itself
    list,       \* the page's <ol>
    term,       \* lastTerm, which is the search box's text after each event
    moves, searches

pageVars == <<guess, page, rest, pending, batch, rows, here, visible, aliased, list,
              term, moves, searches>>
vars == <<cacheVars, pageVars>>

Init ==
    /\ CacheInit
    /\ guess \in Guesses
    /\ page = "loading" /\ rest = "none"
    /\ pending = <<>> /\ batch = <<>> /\ rows = <<>>
    /\ here = NoPlace /\ term = NoTerm
    /\ visible = <<>> /\ aliased = TRUE /\ list = <<>>
    /\ moves = 0 /\ searches = 0

-----------------------------------------------------------------------------
(* The server's rows.                                                      *)

Distance(place, s) == IF place = NoPlace THEN FarAway ELSE DistanceFrom[place][s]

KeyLess(a, b) == \E k \in DOMAIN a : a[k] < b[k] /\ \A j \in 1 .. k - 1 : a[j] = b[j]

Listed(l) == IF l = NoList THEN {} ELSE {s \in Shops : l[s] # Gone}

(* The domain of key in the order of the keys, no two of which are equal.  *)
SortByKey(key) ==
    LET before == [x \in DOMAIN key |->
                      Cardinality({y \in DOMAIN key : KeyLess(key[y], key[x])})]
    IN  [i \in 1 .. Cardinality(DOMAIN before) |->
            CHOOSE x \in DOMAIN before : before[x] = i - 1]

SortLocations(l, place) ==
    SortByKey([s \in Listed(l) |-> <<Distance(place, s), l[s], s>>])

LocationRows(l) ==
    LET sorted == SortLocations(l, guess)
    IN  [i \in DOMAIN sorted |->
            [shop |-> sorted[i], standing |-> l[sorted[i]], index |-> i - 1,
             origin |-> guess]]

-----------------------------------------------------------------------------
(* The script's orders: positions in rows.                                 *)

CompareKey(row) ==
    <<Distance(row.origin, row.shop), row.standing, row.shop, row.index>>

(* `ordered`, the rows as they came or a copy sorted by compareDistance,   *)
(* is filtered by the search: the order of the rows that are found.        *)
Found(rs, t) == {i \in DOMAIN rs : t = NoTerm \/ rs[i].shop \in Matches[t]}

Filtered(rs, place, t) ==
    SortByKey([i \in Found(rs, t) |-> IF place = NoPlace THEN <<i>> ELSE CompareKey(rs[i])])

VisibleRows(rs) == IF aliased THEN [i \in DOMAIN rs |-> i] ELSE visible

Render(rs, place, t, minimal) ==
    LET next == Filtered(rs, place, t)
        previous == VisibleRows(rs)
    IN  /\ list' = IF minimal /\ Len(next) = Len(previous) /\ Len(next) = Len(rs)
                   THEN ReorderRows(list, previous, next) ELSE next
        /\ aliased' = (t = NoTerm /\ place = NoPlace)
        /\ visible' = IF aliased' THEN <<>> ELSE next

(* mutant of AppendRows *)
AppendRowsAtTheEnd(new) ==
    LET rs == rows \o new
        added == [i \in DOMAIN new |-> Len(rows) + i]
    IN  /\ rows' = rs
        /\ list' = list \o added
        /\ visible' = VisibleRows(rs) \o added /\ aliased' = FALSE

AppendRows(new) ==
    LET rs == rows \o new
        added == [i \in DOMAIN new |-> Len(rows) + i]
    IN  /\ rows' = rs
        /\ IF here = NoPlace /\ term = NoTerm
           THEN /\ list' = list \o added
                /\ visible' = VisibleRows(rs) \o added /\ aliased' = FALSE
           ELSE Render(rs, here, term, here # NoPlace)

-----------------------------------------------------------------------------
(* Loading the page and the rest of the rows.                              *)

RequestPage == page = "loading" /\ request["page"].pc = "idle"
               /\ Ask("page") /\ UNCHANGED pageVars

LoadPage ==
    /\ page = "loading" /\ request["page"].pc = "served"
    /\ LET all == LocationRows(request["page"].list)
       IN  /\ rows' = SubSeq(all, 1, Min({Len(all), InitialLimit}))
           /\ rest' = IF Len(all) > InitialLimit THEN "due" ELSE "none"
           /\ list' = [i \in DOMAIN rows' |-> i]
    /\ page' = "shown"
    /\ UNCHANGED <<cacheVars, guess, pending, batch, here, visible, aliased, term, moves,
                   searches>>

LoadRemaining ==
    /\ rest = "due" /\ rest' = "asked"
    /\ Ask("stream")
    /\ UNCHANGED <<guess, page, pending, batch, rows, here, visible, aliased, list, term,
                   moves, searches>>

(* mutant of Remaining *)
RemainingAfterOneMore(l) ==
    LET all == LocationRows(l) IN SubSeq(all, InitialLimit + 2, Len(all))

Remaining(l) ==
    LET all == LocationRows(l) IN SubSeq(all, InitialLimit + 1, Len(all))

StreamStarts ==
    /\ rest = "asked" /\ request["stream"].pc = "served"
    /\ rest' = "streaming"
    /\ pending' = Remaining(request["stream"].list)
    /\ UNCHANGED <<cacheVars, guess, page, batch, rows, here, visible, aliased, list, term,
                   moves, searches>>

(* pushLine and rowFromStream: the row is measured as it is read.          *)
StreamLine ==
    /\ rest = "streaming" /\ pending # <<>>
    /\ pending' = Tail(pending)
    /\ LET row == IF here = NoPlace THEN Head(pending)
                  ELSE [Head(pending) EXCEPT !.origin = here]
           read == Append(batch, row)
       IN  IF Len(read) >= BatchSize
           THEN batch' = <<>> /\ AppendRows(read)
           ELSE batch' = read /\ UNCHANGED <<rows, visible, aliased, list>>
    /\ UNCHANGED <<cacheVars, guess, page, rest, here, term, moves, searches>>

StreamEnds ==
    /\ rest = "streaming" /\ pending = <<>>
    /\ rest' = "done" /\ batch' = <<>>
    /\ IF batch = <<>> THEN UNCHANGED <<rows, visible, aliased, list>>
       ELSE AppendRows(batch)
    /\ UNCHANGED <<cacheVars, guess, page, pending, here, term, moves, searches>>

(* The fetch or a read fails: what was read and not appended is dropped.   *)
StreamBreaks ==
    /\ rest \in {"asked", "streaming"}
    /\ rest' = "broken" /\ pending' = <<>> /\ batch' = <<>>
    /\ UNCHANGED <<cacheVars, guess, page, rows, here, visible, aliased, list, term, moves,
                   searches>>

-----------------------------------------------------------------------------
(* The visitor.                                                            *)

ApplyFilter(t) ==
    /\ page = "shown" /\ t # term
    /\ searches < MaxSearches /\ searches' = searches + 1
    /\ term' = t
    /\ Render(rows, here, t, FALSE)
    /\ UNCHANGED <<cacheVars, guess, page, rest, pending, batch, rows, here, moves>>

UseBrowserLocation(p) ==
    /\ page = "shown" /\ moves < MaxMoves /\ moves' = moves + 1
    /\ here' = p
    /\ rows' = [i \in DOMAIN rows |-> [rows[i] EXCEPT !.origin = p]]
    /\ Render(rows', p, term, TRUE)
    /\ UNCHANGED <<cacheVars, guess, page, rest, pending, batch, term, searches>>

(* The site, the API and the pages of other visitors go on, as long as     *)
(* this page can still learn of it.                                        *)
Others == Requests \ {"page", "stream"}
Site == /\ rest \in {"none", "due", "asked"} /\ request["stream"].pc # "served"
        /\ \/ Change \/ Tick \/ \E r \in Requests : Answering(r)
           \/ \E r \in Others : request[r].pc = "idle" /\ Ask(r)
        /\ UNCHANGED pageVars

Next == \/ Site \/ RequestPage \/ LoadPage \/ LoadRemaining
        \/ StreamStarts \/ StreamLine \/ StreamEnds \/ StreamBreaks
        \/ \E t \in Terms \cup {NoTerm} : ApplyFilter(t)
        \/ \E p \in Positions : UseBrowserLocation(p)

Spec == Init /\ [][Next]_vars

-----------------------------------------------------------------------------
(* Properties.                                                             *)

(* However rows, searches and positions interleave, the page shows each    *)
(* row it has that the search finds, once, in the current order: the       *)
(* shortcuts of appendRows and of render never leave another list.         *)
ListIsWhatWasAskedFor == list = Filtered(rows, here, term)

Increasing(values, S) == \A i, j \in S : i < j => values[i] < values[j]

(* Whatever position the browser names next, the rows that keep their      *)
(* place do so in the new order and no larger choice of rows would, and    *)
(* moving the others one by one from the end gives that order.             *)
FewestRowsMove ==
    \A p \in Positions :
        LET next == Filtered(rows, p, term)
            previous == VisibleRows(rows)
            values == PreviousIndexes(previous, next)
            keep == LisPositions(values)
        IN  Len(next) = Len(previous) =>
              /\ MoveRows(previous, previous, next) = next
              /\ Increasing(values, keep)
              /\ \A S \in SUBSET DOMAIN next :
                    Cardinality(S) <= Cardinality(keep) \/ ~Increasing(values, S)

ShopsOf(rs) == [i \in DOMAIN rs |-> rs[i].shop]

(* A page and a stream cut from the same list make the whole list, in the  *)
(* server's order, whatever the visitor did meanwhile.                     *)
OneListIsComplete ==
    rest = "done" /\ request["page"].list = request["stream"].list
        => ShopsOf(rows) = SortLocations(request["page"].list, guess)
=============================================================================
