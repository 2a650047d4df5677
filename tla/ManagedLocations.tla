--------------------------- MODULE ManagedLocations ---------------------------
(***************************************************************************)
(* Which locations are managed: refresh_managed_locations                  *)
(* (migrations/0002_managed_tracking.sql) brings the table in line with    *)
(* the regions and the administrators' overrides.  The poller calls it     *)
(* after each catalog, heytea-admin (flake.nix) after each command.  It is *)
(* one READ COMMITTED transaction of two statements: each sees what was    *)
(* committed when it began, but changes the newest version of a row, and   *)
(* waits for the transaction that holds it.                                *)
(***************************************************************************)
EXTENDS Naturals, FiniteSets

CONSTANTS
    Shops,         \* numbers: the upsert takes its rows in this order
    Admins, Poller,
    Free,
    MaxChanges     \* bound: administrators' commands and catalog changes

ASSUME ManagedAssumption ==
    /\ Shops \subseteq Nat /\ IsFiniteSet(Shops)
    /\ Poller \notin Admins /\ MaxChanges \in Nat
    /\ Free \notin Admins \cup {Poller}

VARIABLES
    override,      \* managed_location_overrides
    location,      \* locations, which the catalog writes: "none", "disabled",
                   \* or enabled "inside" or "outside" the managed regions
    row,           \* managed_locations, as committed
    lock,          \* the transaction that holds each row
    tx,            \* what each caller's refresh is doing
    changes

vars == <<override, location, row, lock, tx, changes>>

Locations == [Shops -> {"none", "disabled", "outside", "inside"}]

Callers == Admins \cup {Poller}

NoTx == [pc |-> "idle", desired |-> {}, todo |-> {},
         wrote |-> [s \in Shops |-> "nothing"], alone |-> TRUE]

Init ==
    /\ override = [s \in Shops |-> "none"]
    /\ location = [s \in Shops |-> "none"]
    /\ row = [s \in Shops |-> "absent"]
    /\ lock = [s \in Shops |-> Free]
    /\ tx = [c \in Callers |-> NoTx]
    /\ changes = 0

(* region_matches and manual_matches.                                      *)
Desired ==
    {s \in Shops : \/ location[s] \in {"inside", "outside"} /\ override[s] = "add"
                   \/ location[s] = "inside" /\ override[s] # "remove"}

Running(c) == tx[c].pc \in {"upsert", "deactivate"}

Disturbed(t) == [c \in Callers |-> [t[c] EXCEPT !.alone = FALSE]]

-----------------------------------------------------------------------------
(* The callers.                                                            *)

RefreshOnlyAfterChange(on) ==                            \* mutant of CatalogCommits
    /\ tx[Poller].pc = "idle" /\ on # location
    /\ changes < MaxChanges /\ changes' = changes + 1
    /\ location' = on
    /\ tx' = [Disturbed(tx) EXCEPT ![Poller].pc = "called"]
    /\ UNCHANGED <<override, row, lock>>

(* A catalog adds locations, moves them, enables and disables them, and    *)
(* takes none away.                                                        *)
Catalogs == {on \in Locations : \A s \in Shops : on[s] = "none" => location[s] = "none"}

(* poll_catalog_once: persist_catalog, whatever it changed, then a refresh.*)
CatalogCommits(on) ==
    /\ tx[Poller].pc = "idle"
    /\ on # location => changes < MaxChanges
    /\ changes' = IF on # location THEN changes + 1 ELSE changes
    /\ location' = on
    /\ tx' = [(IF on # location THEN Disturbed(tx) ELSE tx) EXCEPT ![Poller].pc = "called"]
    /\ UNCHANGED <<override, row, lock>>

(* managed add and managed remove: the override is committed by itself; of *)
(* a location that does not exist there is none to set (AdminCalls).       *)
AdminSets(a, s, command) ==
    /\ tx[a].pc = "idle" /\ location[s] # "none"
    /\ changes < MaxChanges /\ changes' = changes + 1
    /\ override' = [override EXCEPT ![s] = command]
    /\ tx' = [Disturbed(tx) EXCEPT ![a].pc = "called"]
    /\ UNCHANGED <<location, row, lock>>

(* managed list, list-all and recompute.                                   *)
AdminCalls(a) ==
    /\ tx[a].pc = "idle"
    /\ changes < MaxChanges /\ changes' = changes + 1
    /\ tx' = [tx EXCEPT ![a].pc = "called"]
    /\ UNCHANGED <<override, location, row, lock>>

-----------------------------------------------------------------------------
(* refresh_managed_locations.                                              *)

BeginUpsert(c) ==
    /\ tx[c].pc = "called"
    /\ LET others == \E d \in Callers \ {c} : Running(d)
           now == IF others THEN Disturbed(tx) ELSE tx
       IN  tx' = [now EXCEPT ![c] = [NoTx EXCEPT !.pc = "upsert", !.desired = Desired,
                                                 !.todo = Desired, !.alone = ~others]]
    /\ UNCHANGED <<override, location, row, lock, changes>>

FirstTodo(c) == CHOOSE s \in tx[c].todo : \A t \in tx[c].todo : s <= t

Writing(c, s, value) == [tx[c] EXCEPT !.todo = @ \ {s}, !.wrote[s] = value]

UpsertDoingNothing(c) ==                                 \* mutant of Upsert
    /\ tx[c].pc = "upsert" /\ tx[c].todo # {}
    /\ LET s == FirstTodo(c)
       IN  /\ lock[s] \in {Free, c}
           /\ lock' = [lock EXCEPT ![s] = c]
           /\ tx' = [tx EXCEPT ![c] =
                  Writing(c, s, IF row[s] = "absent" THEN "active" ELSE tx[c].wrote[s])]
    /\ UNCHANGED <<override, location, row, changes>>

(* insert .. on conflict do update: the row is locked even when the update *)
(* would change nothing.                                                   *)
Upsert(c) ==
    /\ tx[c].pc = "upsert" /\ tx[c].todo # {}
    /\ LET s == FirstTodo(c)
       IN  /\ lock[s] \in {Free, c}
           /\ lock' = [lock EXCEPT ![s] = c]
           /\ tx' = [tx EXCEPT ![c] = Writing(c, s, "active")]
    /\ UNCHANGED <<override, location, row, changes>>

(* What the transaction sees of a row now.                                 *)
Seen(c, s) == IF tx[c].wrote[s] = "nothing" THEN row[s] ELSE tx[c].wrote[s]

BeginDeactivateOneSnapshot(c) ==                         \* mutant of BeginDeactivate
    /\ tx[c].pc = "upsert" /\ tx[c].todo = {}
    /\ tx' = [tx EXCEPT ![c] =
           [@ EXCEPT !.pc = "deactivate", !.desired = Desired,
                     !.todo = {s \in Shops : row[s] = "active"} \ Desired]]
    /\ UNCHANGED <<override, location, row, lock, changes>>

BeginDeactivate(c) ==
    /\ tx[c].pc = "upsert" /\ tx[c].todo = {}
    /\ tx' = [tx EXCEPT ![c] =
           [@ EXCEPT !.pc = "deactivate", !.desired = Desired,
                     !.todo = {s \in Shops : Seen(c, s) = "active"} \ Desired]]
    /\ UNCHANGED <<override, location, row, lock, changes>>

(* update .. where is_active: a row that was changed meanwhile is looked   *)
(* at again, the overrides are not.                                        *)
Deactivate(c, s) ==
    /\ tx[c].pc = "deactivate" /\ s \in tx[c].todo
    /\ lock[s] \in {Free, c}
    /\ lock' = [lock EXCEPT ![s] = c]
    /\ tx' = [tx EXCEPT ![c] =
           Writing(c, s, IF Seen(c, s) = "active" THEN "inactive" ELSE tx[c].wrote[s])]
    /\ UNCHANGED <<override, location, row, changes>>

Released(c) == [s \in Shops |-> IF lock[s] = c THEN Free ELSE lock[s]]

Commit(c) ==
    /\ tx[c].pc = "deactivate" /\ tx[c].todo = {}
    /\ row' = [s \in Shops |-> Seen(c, s)]
    /\ lock' = Released(c)
    /\ tx' = [tx EXCEPT ![c] = NoTx]
    /\ UNCHANGED <<override, location, changes>>

WaitsFor(c, d) ==
    /\ tx[c].todo # {} /\ c # d
    /\ \/ tx[c].pc = "upsert" /\ lock[FirstTodo(c)] = d
       \/ /\ tx[c].pc = "deactivate"
          /\ \A s \in tx[c].todo : lock[s] \notin {Free, c}
          /\ \E s \in tx[c].todo : lock[s] = d

Deadlocked(c) == \E D \in SUBSET Callers :
    c \in D /\ \A d \in D : \E e \in D : WaitsFor(d, e)

AbortKeepingLocks(c) ==                                  \* mutant of Abort
    /\ Deadlocked(c)
    /\ tx' = [tx EXCEPT ![c] = NoTx]
    /\ UNCHANGED <<override, location, row, lock, changes>>

(* Postgres ends one of the transactions that wait for each other.         *)
Abort(c) ==
    /\ Deadlocked(c)
    /\ lock' = Released(c)
    /\ tx' = [tx EXCEPT ![c] = NoTx]
    /\ UNCHANGED <<override, location, row, changes>>

Refreshing(c) == \/ BeginUpsert(c) \/ Upsert(c) \/ BeginDeactivate(c)
                 \/ \E s \in Shops : Deactivate(c, s)
                 \/ Commit(c) \/ Abort(c)

Next == \/ \E on \in Catalogs : CatalogCommits(on)
        \/ \E a \in Admins, s \in Shops, command \in {"add", "remove"} : AdminSets(a, s, command)
        \/ \E a \in Admins : AdminCalls(a)
        \/ \E c \in Callers : Refreshing(c)

(* Postgres goes on with every transaction and gives a row to those that   *)
(* wait for it in turn; the poller refreshes the catalog again and again.  *)
Fairness == /\ \A c \in Callers : SF_vars(Refreshing(c))
            /\ WF_vars(\E on \in Catalogs : CatalogCommits(on))

Spec == Init /\ [][Next]_vars /\ Fairness

-----------------------------------------------------------------------------
(* Properties.                                                             *)

TypeOK ==
    /\ override \in [Shops -> {"none", "add", "remove"}]
    /\ location \in Locations
    /\ row \in [Shops -> {"absent", "active", "inactive"}]
    /\ lock \in [Shops -> Callers \cup {Free}]
    /\ \A s \in Shops, c \in Callers : lock[s] = c => Running(c)
    /\ tx \in [Callers -> [pc : {"idle", "called", "upsert", "deactivate"},
                           desired : SUBSET Shops, todo : SUBSET Shops,
                           wrote : [Shops -> {"nothing", "active", "inactive"}],
                           alone : BOOLEAN]]
    /\ changes \in 0 .. MaxChanges

Active == {s \in Shops : row[s] = "active"}

Commits(c) == tx[c].pc = "deactivate" /\ tx'[c].pc = "idle" /\ tx[c].todo = {}

(* A refresh during which no one else changed anything leaves exactly the  *)
(* locations managed that the regions and overrides want.                  *)
AloneIsExact ==
    [][\A c \in Callers : Commits(c) /\ tx[c].alone => Active' = Desired]_vars

(* Whatever runs beside it, a refresh manages no location anew that was    *)
(* not wanted when its second statement began: that statement takes back   *)
(* what the first, with its older view, did too much.                      *)
ManagesOnlyWhatIsWanted ==
    [][\A c \in Callers : Commits(c) => Active' \ Active \subseteq tx[c].desired]_vars

(* When the overrides and the catalog come to rest the table follows, for  *)
(* good, although commands and catalogs raced and some were aborted.       *)
TableFollows == <>[](Active = Desired)
=============================================================================
