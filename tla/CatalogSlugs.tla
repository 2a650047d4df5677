----------------------------- MODULE CatalogSlugs -----------------------------
(***************************************************************************)
(* The public names of the locations: a catalog refresh                    *)
(* (crates/poller/src/upstream.rs, fetch_shop_catalog) merges what the     *)
(* regions answer, and persist_catalog (persistence.rs) writes the shops   *)
(* one by one, in the arbitrary order of a HashMap, in one transaction     *)
(* that gives each new shop a slug.                                        *)
(*                                                                         *)
(* A slug is a word and the numbers after it: "tea-5" is the slug of a     *)
(* shop named "Tea 5", and the one shop 5, named "Tea", falls back to.     *)
(***************************************************************************)
EXTENDS Naturals, Sequences

CONSTANTS
    Shops,        \* shop ids
    Regions, RegionOf,
    Names,        \* the slugs of the names shops may have
    NoName,       \* a name without one ASCII letter or digit
    ShopWord,     \* the word "shop"
    Unlisted, NoSlug, Nothing,
    MaxListings, MaxCrashes      \* bounds

Slugs == [word : {n.word : n \in Names} \cup {ShopWord}, numbers : Seq(Nat)]

ASSUME SlugAssumption ==
    /\ Shops \subseteq Nat /\ RegionOf \in [Shops -> Regions]
    /\ NoName \notin Names /\ Unlisted \notin Names \cup {NoName}
    /\ Names \subseteq Slugs /\ NoSlug \notin Slugs
    /\ \A S \in SUBSET Shops : Nothing \notin [S -> Names \cup {NoName}]
    /\ MaxListings \in Nat /\ MaxCrashes \in Nat

VARIABLES
    upstream,     \* the name each shop has in the upstream catalog
    slug,         \* the committed slugs (table locations)
    catalog,      \* the shops of the refresh that is being written, with names
    todo,         \* those not written yet
    tx,           \* the slugs as the open transaction sees them
    listings, crashes

vars == <<upstream, slug, catalog, todo, tx, listings, crashes>>

Init ==
    /\ upstream = [s \in Shops |-> Unlisted]
    /\ slug = [s \in Shops |-> NoSlug]
    /\ catalog = Nothing /\ todo = {} /\ tx = slug
    /\ listings = 0 /\ crashes = 0

Listed == {s \in Shops : upstream[s] # Unlisted}

(* slugify, of the name store_name gives.                                  *)
Suggested(s, name) == IF name = NoName THEN [word |-> ShopWord, numbers |-> <<s>>] ELSE name

Derived(s, suggested) == [suggested EXCEPT !.numbers = Append(@, s)]

Taken(slugs, s, wanted) == \E t \in Shops \ {s} : slugs[t] = wanted

StableSlug(s) ==
    LET suggested == Suggested(s, catalog[s])
    IN  IF tx[s] # NoSlug THEN tx[s]
        ELSE IF Taken(tx, s, suggested) THEN Derived(s, suggested) ELSE suggested

-----------------------------------------------------------------------------
(* The upstream services list, rename and delist shops.                    *)

List(s, name) ==
    /\ listings < MaxListings /\ listings' = listings + 1
    /\ upstream[s] # name
    /\ upstream' = [upstream EXCEPT ![s] = name]
    /\ UNCHANGED <<slug, catalog, todo, tx, crashes>>

(* fetch_shop_catalog: a region that fails contributes nothing; no shop at *)
(* all is an error.                                                        *)
Fetch(failed) ==
    LET found == {s \in Listed : RegionOf[s] \notin failed}
    IN  /\ catalog = Nothing /\ found # {}
        /\ catalog' = [s \in found |-> upstream[s]]
        /\ todo' = found
        /\ tx' = slug
        /\ UNCHANGED <<upstream, slug, listings, crashes>>

-----------------------------------------------------------------------------
(* persist_catalog.                                                        *)

Written(s) == tx[s] = NoSlug => ~Taken(tx, s, StableSlug(s))

WriteRenaming(s) ==                                      \* mutant of Write
    /\ s \in todo /\ ~Taken(tx, s, Suggested(s, catalog[s]))
    /\ tx' = [tx EXCEPT ![s] = Suggested(s, catalog[s])]
    /\ todo' = todo \ {s}
    /\ UNCHANGED <<upstream, slug, catalog, listings, crashes>>

(* The upsert leaves the slug of a row that is there alone.                *)
Write(s) ==
    /\ s \in todo /\ Written(s)
    /\ tx' = [tx EXCEPT ![s] = StableSlug(s)]
    /\ todo' = todo \ {s}
    /\ UNCHANGED <<upstream, slug, catalog, listings, crashes>>

AbortWithoutRollback(s) ==                               \* mutant of Abort
    /\ s \in todo /\ ~Written(s)
    /\ catalog' = Nothing /\ todo' = {}
    /\ UNCHANGED <<upstream, slug, tx, listings, crashes>>

(* locations.slug is unique: the insert fails, and with it the catalog.    *)
Abort(s) ==
    /\ s \in todo /\ ~Written(s)
    /\ catalog' = Nothing /\ todo' = {} /\ tx' = slug
    /\ UNCHANGED <<upstream, slug, listings, crashes>>

Commit ==
    /\ catalog # Nothing /\ todo = {}
    /\ slug' = tx /\ catalog' = Nothing
    /\ UNCHANGED <<upstream, todo, tx, listings, crashes>>

Crash ==
    /\ crashes < MaxCrashes /\ crashes' = crashes + 1
    /\ catalog # Nothing
    /\ catalog' = Nothing /\ todo' = {} /\ tx' = slug
    /\ UNCHANGED <<upstream, slug, listings>>

Writing == Commit \/ \E s \in Shops : Write(s) \/ Abort(s)

Next == \/ \E s \in Shops, name \in Names \cup {NoName, Unlisted} : List(s, name)
        \/ \E failed \in SUBSET Regions : Fetch(failed)
        \/ Writing \/ Crash

(* The poller refreshes for ever and does not stop in a transaction; now   *)
(* and then every region answers; and as each HashMap has an order of its  *)
(* own, each shop is now and then the first one written.                   *)
WriteFirst(s) == catalog # Nothing /\ todo = DOMAIN catalog /\ Write(s)

Fairness == /\ WF_vars(Writing) /\ SF_vars(Fetch({}))
            /\ \A s \in Shops : SF_vars(WriteFirst(s))

Spec == Init /\ [][Next]_vars
FairSpec == Spec /\ Fairness

-----------------------------------------------------------------------------
(* Properties.                                                             *)

TypeOK ==
    /\ upstream \in [Shops -> Names \cup {NoName, Unlisted}]
    /\ slug \in [Shops -> Slugs \cup {NoSlug}]
    /\ tx \in [Shops -> Slugs \cup {NoSlug}]
    /\ catalog # Nothing => DOMAIN catalog \subseteq Shops /\ todo \subseteq DOMAIN catalog
    /\ catalog = Nothing => todo = {} /\ tx = slug
    /\ listings \in 0 .. MaxListings /\ crashes \in 0 .. MaxCrashes

(* A public link never leads to another shop: once a location has a slug   *)
(* it keeps it, whatever names shops get upstream, whichever order they    *)
(* are written in and wherever a refresh stops (stable_slug, and the       *)
(* upsert that leaves the slug alone).                                     *)
SlugsStayPut == [][\A s \in Shops : slug[s] # NoSlug => slug'[s] = slug[s]]_vars

(* A refresh is there as a whole or not at all.                            *)
RefreshIsWhole ==
    [][slug' # slug => \A s \in DOMAIN catalog : slug'[s] # NoSlug]_vars

(* migrations/0001_initial.sql: "the app can rediscover the full catalog":    *)
(* every shop that stays listed gets its location.                         *)
CatalogIsRediscovered == \A s \in Shops : <>[](s \in Listed) => <>[](slug[s] # NoSlug)
=============================================================================
