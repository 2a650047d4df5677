------------------------ MODULE CatalogSlugs_proofs ------------------------
(***************************************************************************)
(* What TLAPS proves about CatalogSlugs, for any shops, regions and names: *)
(* that no location's slug ever changes, and that a committed catalog has  *)
(* given a slug to every shop it lists.                                    *)
(***************************************************************************)
EXTENDS CatalogSlugs, TLAPS

(* What the open transaction has done so far: it works on the shops of a   *)
(* catalog, has left every committed slug alone, and has written every     *)
(* shop it no longer has to do.                                            *)
Wanted == Names \cup {NoName}

CatalogOK == catalog # Nothing =>
    /\ DOMAIN catalog \subseteq Shops
    /\ catalog \in [DOMAIN catalog -> Wanted]

KeepsCommitted == catalog # Nothing =>
    \A s \in Shops : slug[s] # NoSlug => tx[s] = slug[s]

WrittenHaveSlugs == catalog # Nothing =>
    \A s \in DOMAIN catalog \ todo : tx[s] # NoSlug

IInv == TypeOK /\ CatalogOK /\ KeepsCommitted /\ WrittenHaveSlugs

-----------------------------------------------------------------------------
(* The suggested and the derived slug of a shop are slugs.                 *)
LEMMA SuggestedIsSlug ==
  ASSUME NEW s \in Shops, NEW name \in Wanted
  PROVE  Suggested(s, name) \in Slugs
<1>1. CASE name = NoName
  <2>1. <<s>> \in Seq(Nat) BY SlugAssumption
  <2>. QED BY <1>1, <2>1 DEF Suggested, Slugs
<1>2. CASE name # NoName
  BY <1>2, SlugAssumption DEF Suggested, Wanted
<1>. QED BY <1>1, <1>2

LEMMA DerivedIsSlug ==
  ASSUME NEW s \in Shops, NEW n \in Slugs
  PROVE  Derived(s, n) \in Slugs
<1>1. n.numbers \in Seq(Nat) /\ s \in Nat BY SlugAssumption DEF Slugs
<1>2. Append(n.numbers, s) \in Seq(Nat) BY <1>1
<1>. QED BY <1>2 DEF Derived, Slugs

(* stable_slug gives a shop of the catalog a slug, and keeps the one it    *)
(* has.                                                                    *)
LEMMA StableSlugIsSlug ==
  ASSUME TypeOK, CatalogOK, catalog # Nothing, NEW s \in DOMAIN catalog
  PROVE  /\ StableSlug(s) \in Slugs
         /\ tx[s] # NoSlug => StableSlug(s) = tx[s]
<1>1. s \in Shops /\ catalog[s] \in Wanted BY DEF CatalogOK
<1>2. Suggested(s, catalog[s]) \in Slugs BY <1>1, SuggestedIsSlug
<1>3. Derived(s, Suggested(s, catalog[s])) \in Slugs BY <1>1, <1>2, DerivedIsSlug
<1>4. tx[s] # NoSlug => tx[s] \in Slugs BY <1>1 DEF TypeOK
<1>. QED BY <1>2, <1>3, <1>4 DEF StableSlug

-----------------------------------------------------------------------------
LEMMA InitInv == Init => IInv
<1>. SUFFICES ASSUME Init PROVE IInv
  OBVIOUS
<1>1. TypeOK BY SlugAssumption DEF Init, TypeOK
<1>. QED BY <1>1 DEF Init, IInv, CatalogOK, KeepsCommitted, WrittenHaveSlugs

(* A refresh starts from the committed slugs, with everything to do.       *)
LEMMA FetchInv ==
  ASSUME IInv, NEW failed \in SUBSET Regions, Fetch(failed) PROVE IInv'
<1>. DEFINE found == {s \in Listed : RegionOf[s] \notin failed}
<1>1. /\ found \subseteq Shops /\ found # {}
      /\ \A s \in found : upstream[s] \in Wanted
  BY DEF Fetch, Listed, IInv, TypeOK, Wanted
<1>2. /\ catalog' = [s \in found |-> upstream[s]]
      /\ DOMAIN catalog' = found /\ todo' = found /\ tx' = slug /\ slug' = slug
  BY DEF Fetch
<1>3. catalog' \in [found -> Wanted] BY <1>1, <1>2
<1>4. catalog' # Nothing BY <1>1, <1>3, SlugAssumption DEF Wanted
<1>5. TypeOK'
  BY <1>1, <1>2, <1>4 DEF Fetch, IInv, TypeOK
<1>6. CatalogOK' BY <1>1, <1>2, <1>3 DEF CatalogOK
<1>. QED BY <1>2, <1>5, <1>6 DEF IInv, KeepsCommitted, WrittenHaveSlugs

(* Writing a shop gives it a slug; a shop that had one keeps it.           *)
LEMMA WriteInv ==
  ASSUME IInv, NEW s \in Shops, Write(s) PROVE IInv'
<1>1. /\ catalog # Nothing /\ s \in DOMAIN catalog
      /\ todo \subseteq DOMAIN catalog /\ DOMAIN catalog \subseteq Shops
  BY DEF Write, IInv, TypeOK
<1>2. /\ StableSlug(s) \in Slugs
      /\ tx[s] # NoSlug => StableSlug(s) = tx[s]
  BY <1>1, StableSlugIsSlug DEF IInv
<1>3. /\ tx' = [tx EXCEPT ![s] = StableSlug(s)] /\ todo' = todo \ {s}
      /\ UNCHANGED <<upstream, slug, catalog, listings, crashes>>
  BY DEF Write
<1>4. tx' \in [Shops -> Slugs \cup {NoSlug}]
  BY <1>2, <1>3 DEF IInv, TypeOK
<1>5. TypeOK' BY <1>1, <1>3, <1>4 DEF IInv, TypeOK
<1>6. CatalogOK' BY <1>3 DEF IInv, CatalogOK
<1>7. \A t \in Shops : tx'[t] = IF t = s THEN StableSlug(s) ELSE tx[t]
  BY <1>3 DEF IInv, TypeOK
<1>8. KeepsCommitted'
  <2>. SUFFICES ASSUME NEW t \in Shops, slug[t] # NoSlug PROVE tx'[t] = slug[t]
    BY <1>3 DEF KeepsCommitted
  <2>1. tx[t] = slug[t] BY <1>1 DEF IInv, KeepsCommitted
  <2>. QED BY <1>2, <1>7, <2>1
<1>9. WrittenHaveSlugs'
  <2>. SUFFICES ASSUME NEW t \in DOMAIN catalog \ (todo \ {s}) PROVE tx'[t] # NoSlug
    BY <1>3 DEF WrittenHaveSlugs
  <2>1. CASE t = s BY <1>2, <1>7, <2>1, SlugAssumption
  <2>2. CASE t # s
    <3>1. tx[t] # NoSlug BY <1>1, <2>2 DEF IInv, WrittenHaveSlugs
    <3>. QED BY <1>1, <1>7, <2>2, <3>1
  <2>. QED BY <2>1, <2>2
<1>. QED BY <1>5, <1>6, <1>8, <1>9 DEF IInv

(* An end of the transaction, whichever, leaves nothing of it behind.      *)
LEMMA EndInv ==
  ASSUME IInv, \/ Commit \/ Crash \/ \E s \in Shops : Abort(s) PROVE IInv'
<1>1. /\ catalog' = Nothing /\ todo' = {} /\ tx' = slug'
      /\ slug' = slug \/ slug' = tx
      /\ UNCHANGED <<upstream, listings>>
      /\ crashes' \in 0 .. MaxCrashes
  BY SlugAssumption DEF Commit, Crash, Abort, IInv, TypeOK
<1>2. TypeOK' BY <1>1 DEF IInv, TypeOK
<1>. QED BY <1>1, <1>2 DEF IInv, CatalogOK, KeepsCommitted, WrittenHaveSlugs

LEMMA NextInv == IInv /\ [Next]_vars => IInv'
<1>. SUFFICES ASSUME IInv, [Next]_vars PROVE IInv'
  OBVIOUS
<1>1. ASSUME NEW s \in Shops, NEW name \in Names \cup {NoName, Unlisted}, List(s, name)
      PROVE  IInv'
  <2>1. TypeOK' BY <1>1, SlugAssumption DEF List, IInv, TypeOK
  <2>. QED BY <1>1, <2>1 DEF List, IInv, CatalogOK, KeepsCommitted, WrittenHaveSlugs
<1>2. ASSUME NEW failed \in SUBSET Regions, Fetch(failed) PROVE IInv'
  BY <1>2, FetchInv
<1>3. ASSUME NEW s \in Shops, Write(s) PROVE IInv'
  BY <1>3, WriteInv
<1>4. CASE Commit \/ Crash \/ \E s \in Shops : Abort(s)
  BY <1>4, EndInv
<1>5. CASE UNCHANGED vars
  BY <1>5 DEF vars, IInv, TypeOK, CatalogOK, KeepsCommitted, WrittenHaveSlugs
<1>. QED BY <1>1, <1>2, <1>3, <1>4, <1>5 DEF Next, Writing

(* The transaction's bookkeeping is an invariant.                          *)
THEOREM Invariance == Spec => []IInv
BY InitInv, NextInv, PTL DEF Spec

(* Every reachable state is type correct: slugs are slugs, and a           *)
(* transaction that ended has left none of its own.                        *)
THEOREM TypeCorrect == Spec => []TypeOK
<1>1. IInv => TypeOK BY DEF IInv
<1>. QED BY <1>1, Invariance, PTL

-----------------------------------------------------------------------------
(* A step changes the committed slugs only by a commit.                    *)
LEMMA OnlyCommits ==
  ASSUME [Next]_vars, slug' # slug PROVE Commit
BY DEF Next, Writing, List, Fetch, Write, Abort, Crash, vars

(* The public link of a location is never given to another one or taken    *)
(* back (stable_slug and the upsert of persist_catalog).                   *)
THEOREM SlugsNeverChange == Spec => SlugsStayPut
<1>1. IInv /\ [Next]_vars =>
        [\A s \in Shops : slug[s] # NoSlug => slug'[s] = slug[s]]_vars
  <2>. SUFFICES ASSUME IInv, [Next]_vars, NEW s \in Shops, slug[s] # NoSlug
                PROVE  slug'[s] = slug[s]
    OBVIOUS
  <2>1. CASE slug' = slug BY <2>1
  <2>2. CASE slug' # slug
    <3>1. slug' = tx /\ catalog # Nothing BY <2>2, OnlyCommits DEF Commit
    <3>. QED BY <3>1 DEF IInv, KeepsCommitted
  <2>. QED BY <2>1, <2>2
<1>. QED BY <1>1, Invariance, PTL DEF Spec, SlugsStayPut

(* A refresh is committed as a whole (the transaction of persist_catalog). *)
THEOREM CatalogsAreWhole == Spec => RefreshIsWhole
<1>1. IInv /\ [Next]_vars =>
        [slug' # slug => \A s \in DOMAIN catalog : slug'[s] # NoSlug]_vars
  <2>. SUFFICES ASSUME IInv, [Next]_vars, slug' # slug, NEW s \in DOMAIN catalog
                PROVE  slug'[s] # NoSlug
    OBVIOUS
  <2>1. slug' = tx /\ catalog # Nothing /\ todo = {} BY OnlyCommits DEF Commit
  <2>. QED BY <2>1 DEF IInv, WrittenHaveSlugs
<1>. QED BY <1>1, Invariance, PTL DEF Spec, RefreshIsWhole
=============================================================================
