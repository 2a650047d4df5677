----------------------- MODULE ManagedLocations_proofs -----------------------
(***************************************************************************)
(* What TLAPS proves about ManagedLocations, for any locations, regions    *)
(* and administrators: what a refresh of the managed locations commits,    *)
(* alone and beside others.                                                *)
(***************************************************************************)
EXTENDS ManagedLocations, WellFoundedInduction, TLAPS

USE ManagedAssumption

TxType == [pc : {"idle", "called", "upsert", "deactivate"},
           desired : SUBSET Shops, todo : SUBSET Shops,
           wrote : [Shops -> {"nothing", "active", "inactive"}],
           alone : BOOLEAN]


(* In its second statement a refresh has only written rows it wants, or    *)
(* that it is still going to take back.                                    *)
WritesWanted == \A c \in Callers : tx[c].pc = "deactivate" =>
    \A s \in Shops : tx[c].wrote[s] = "active" => s \in tx[c].desired \cup tx[c].todo

(* A refresh nobody disturbed: nobody else runs, and it has done what its  *)
(* statements do to the rows of Desired, which is still what it was.       *)
Undisturbed(c) ==
    /\ \A d \in Callers \ {c} : ~Running(d)
    /\ tx[c].pc = "upsert" =>
         \A s \in Shops :
           /\ s \in tx[c].todo => s \in Desired
           /\ tx[c].wrote[s] = IF s \in Desired \ tx[c].todo THEN "active" ELSE "nothing"
    /\ tx[c].pc = "deactivate" =>
         \A s \in Shops :
           /\ s \in Desired => s \notin tx[c].todo /\ tx[c].wrote[s] = "active"
           /\ s \notin Desired \cup tx[c].todo => Seen(c, s) # "active"

AloneDoesIt == \A c \in Callers : Running(c) /\ tx[c].alone => Undisturbed(c)

IInv == TypeOK /\ WritesWanted /\ AloneDoesIt

-----------------------------------------------------------------------------
(* The upsert takes a row that is left to do.                              *)
LEMMA FirstIsTodo ==
  ASSUME TypeOK, NEW c \in Callers, tx[c].todo # {}
  PROVE  FirstTodo(c) \in tx[c].todo
<1>. DEFINE T == tx[c].todo
<1>1. T \subseteq Nat /\ T # {} BY DEF TypeOK
<1>. HIDE DEF T
<1>2. PICK s \in T : \A t \in T : ~ (<<t, s>> \in OpToRel(<, Nat))
  BY <1>1, NatLessThanWellFounded, WFMin
<1>3. ASSUME NEW t \in T PROVE s <= t
  <2>1. s \in Nat /\ t \in Nat BY <1>1
  <2>2. ~ (t < s) BY <1>2, <2>1 DEF OpToRel
  <2>. QED BY <2>1, <2>2
<1>4. \E x \in T : \A t \in T : x <= t BY <1>3
<1>. QED BY <1>4 DEF FirstTodo, T

LEMMA CallersType ==
  /\ Poller \in Callers /\ \A a \in Admins : a \in Callers /\ a # Poller
  /\ Free \notin Callers
  /\ NoTx \in TxType /\ NoTx.pc = "idle"
BY DEF Callers, NoTx, TxType

(* The change of one caller's refresh.                                     *)
LEMMA TxChange ==
  ASSUME TypeOK, NEW c \in Callers, NEW t \in TxType,
         tx' = [tx EXCEPT ![c] = t]
  PROVE  /\ tx' \in [Callers -> TxType]
         /\ tx'[c] = t
         /\ \A d \in Callers \ {c} : tx'[d] = tx[d]
BY DEF TypeOK, TxType

(* Someone's command or catalog: a caller that ran nothing now waits for   *)
(* its refresh, and the running ones are either all disturbed, or what     *)
(* they want has not changed.                                              *)
LEMMA Called ==
  ASSUME IInv, NEW c \in Callers, tx[c].pc = "idle",
         \/ /\ tx' = [tx EXCEPT ![c].pc = "called"]
            /\ UNCHANGED <<override, location>>
         \/ tx' = [Disturbed(tx) EXCEPT ![c].pc = "called"],
         UNCHANGED <<row, lock>>,
         override' \in [Shops -> {"none", "add", "remove"}],
         location' \in Locations,
         changes' \in 0 .. MaxChanges
  PROVE  IInv'
<1>1. tx \in [Callers -> TxType] BY DEF IInv, TypeOK, TxType
<1>2. /\ tx' \in [Callers -> TxType]
      /\ tx'[c].pc = "called"
      /\ \A d \in Callers \ {c} : tx'[d].pc = tx[d].pc
      /\ \A d \in Callers : /\ tx'[d].desired = tx[d].desired
                            /\ tx'[d].todo = tx[d].todo
                            /\ tx'[d].wrote = tx[d].wrote
                            /\ tx'[d].alone => tx[d].alone /\ UNCHANGED <<override, location>>
  <2>1. CASE tx' = [tx EXCEPT ![c].pc = "called"] /\ UNCHANGED <<override, location>>
    <3>. DEFINE t == [tx[c] EXCEPT !.pc = "called"]
    <3>1. t \in TxType /\ t.pc = "called" /\ t.desired = tx[c].desired /\ t.todo = tx[c].todo
          /\ t.wrote = tx[c].wrote /\ t.alone = tx[c].alone
      BY <1>1 DEF TxType
    <3>2. tx' = [tx EXCEPT ![c] = t] BY <2>1
    <3>. HIDE DEF t
    <3>3. /\ tx' \in [Callers -> TxType] /\ tx'[c] = t
          /\ \A d \in Callers \ {c} : tx'[d] = tx[d]
      BY <3>1, <3>2, TxChange DEF IInv
    <3>. QED BY <2>1, <3>1, <3>3
  <2>2. CASE tx' = [Disturbed(tx) EXCEPT ![c].pc = "called"]
    <3>. DEFINE t(d) == [tx[d] EXCEPT !.alone = FALSE]
                u    == [t(c) EXCEPT !.pc = "called"]
    <3>1. \A d \in Callers :
             /\ t(d) \in TxType /\ t(d).pc = tx[d].pc /\ t(d).desired = tx[d].desired
             /\ t(d).todo = tx[d].todo /\ t(d).wrote = tx[d].wrote /\ t(d).alone = FALSE
      BY <1>1 DEF TxType
    <3>2. u \in TxType /\ u.pc = "called" /\ u.desired = tx[c].desired /\ u.todo = tx[c].todo
          /\ u.wrote = tx[c].wrote /\ u.alone = FALSE
      BY <1>1 DEF TxType
    <3>3. tx' = [d \in Callers |-> IF d = c THEN u ELSE t(d)]
      BY <2>2 DEF Disturbed
    <3>. HIDE DEF t, u
    <3>. QED BY <3>1, <3>2, <3>3
  <2>. QED BY <2>1, <2>2
<1>3. /\ ~Running(c) /\ ~Running(c)'
      /\ \A d \in Callers \ {c} : Running(d)' = Running(d)
  BY <1>2 DEF Running
<1>4. TypeOK'
  <2>1. \A s \in Shops, d \in Callers : lock'[s] = d => Running(d)'
    BY <1>3, CallersType DEF IInv, TypeOK
  <2>. QED BY <1>2, <2>1 DEF IInv, TypeOK, TxType
<1>5. WritesWanted' BY <1>2 DEF IInv, WritesWanted
<1>6. AloneDoesIt'
  <2>. SUFFICES ASSUME NEW d \in Callers, Running(d)', tx'[d].alone
                PROVE  Undisturbed(d)'
    BY DEF AloneDoesIt
  <2>1. d # c /\ Running(d) /\ tx[d].alone /\ UNCHANGED <<override, location>>
    BY <1>2, <1>3
  <2>2. Undisturbed(d) BY <2>1 DEF IInv, AloneDoesIt
  <2>3. Desired' = Desired BY <2>1 DEF Desired
  <2>4. \A s \in Shops : Seen(d, s)' = Seen(d, s) BY <1>2 DEF Seen
  <2>5. tx'[d].pc = tx[d].pc /\ tx'[d].todo = tx[d].todo /\ tx'[d].wrote = tx[d].wrote
    BY <1>2, <2>1
  <2>. QED BY <1>3, <2>1, <2>2, <2>3, <2>4, <2>5 DEF Undisturbed
<1>. QED BY <1>4, <1>5, <1>6 DEF IInv

LEMMA CatalogCommitsInv ==
  ASSUME IInv, NEW on \in Catalogs, CatalogCommits(on) PROVE IInv'
<1>1. Poller \in Callers /\ tx[Poller].pc = "idle" BY CallersType DEF CatalogCommits
<1>2. /\ UNCHANGED <<override, row, lock>> /\ location' = on
      /\ changes' \in 0 .. MaxChanges
  BY DEF CatalogCommits, IInv, TypeOK
<1>3. \/ tx' = [tx EXCEPT ![Poller].pc = "called"] /\ location' = location
      \/ tx' = [Disturbed(tx) EXCEPT ![Poller].pc = "called"]
  BY DEF CatalogCommits
<1>4. override' \in [Shops -> {"none", "add", "remove"}] /\ location' \in Locations
  BY <1>2 DEF IInv, TypeOK, Catalogs
<1>. QED BY <1>1, <1>2, <1>3, <1>4, Called

LEMMA AdminInv ==
  ASSUME IInv, NEW a \in Admins,
         \/ AdminCalls(a)
         \/ \E s \in Shops, command \in {"add", "remove"} : AdminSets(a, s, command)
  PROVE  IInv'
<1>1. a \in Callers /\ tx[a].pc = "idle" BY CallersType DEF AdminCalls, AdminSets
<1>2. /\ UNCHANGED <<location, row, lock>> /\ changes' \in 0 .. MaxChanges
      /\ location' \in Locations
      /\ override' \in [Shops -> {"none", "add", "remove"}]
  BY DEF AdminCalls, AdminSets, IInv, TypeOK
<1>3. \/ /\ tx' = [tx EXCEPT ![a].pc = "called"]
         /\ UNCHANGED <<override, location>>
      \/ tx' = [Disturbed(tx) EXCEPT ![a].pc = "called"]
  BY DEF AdminCalls, AdminSets
<1>. QED BY <1>1, <1>2, <1>3, Called

-----------------------------------------------------------------------------
(* The first statement begins; whoever runs is disturbed.                  *)
LEMMA BeginUpsertInv ==
  ASSUME IInv, NEW c \in Callers, BeginUpsert(c) PROVE IInv'
<1>. DEFINE others == \E d \in Callers \ {c} : Running(d)
            t == [NoTx EXCEPT !.pc = "upsert", !.desired = Desired, !.todo = Desired,
                              !.alone = ~others]
            u(d) == IF others THEN [tx[d] EXCEPT !.alone = FALSE] ELSE tx[d]
<1>1. tx \in [Callers -> TxType] BY DEF IInv, TypeOK, TxType
<1>2. Desired \subseteq Shops BY DEF Desired
<1>3. t \in TxType /\ t.pc = "upsert" /\ t.todo = Desired
      /\ t.wrote = [s \in Shops |-> "nothing"] /\ (t.alone => ~others)
  BY <1>2 DEF NoTx, TxType
<1>4. \A d \in Callers :
         /\ u(d) \in TxType /\ u(d).pc = tx[d].pc /\ u(d).desired = tx[d].desired
         /\ u(d).todo = tx[d].todo /\ u(d).wrote = tx[d].wrote
         /\ u(d).alone => tx[d].alone /\ ~others
  BY <1>1 DEF TxType
<1>5. tx' = [d \in Callers |-> IF d = c THEN t ELSE u(d)]
  BY <1>1 DEF BeginUpsert, Disturbed
<1>6. UNCHANGED <<override, location, row, lock, changes>> /\ tx[c].pc = "called"
  BY DEF BeginUpsert
<1>7. ~others => \A d \in Callers \ {c} : ~Running(d) OBVIOUS
<1>. HIDE DEF t, u, others
<1>8. \A d \in Callers \ {c} : Running(d)' = Running(d) BY <1>4, <1>5 DEF Running
<1>9. TypeOK'
  <2>1. \A s \in Shops, d \in Callers : lock'[s] = d => Running(d)'
    BY <1>3, <1>5, <1>6, <1>8 DEF IInv, TypeOK, Running
  <2>2. tx' \in [Callers -> TxType] BY <1>3, <1>4, <1>5
  <2>. QED BY <1>6, <2>1, <2>2 DEF IInv, TypeOK, TxType
<1>10. WritesWanted' BY <1>3, <1>4, <1>5 DEF IInv, WritesWanted
<1>11. AloneDoesIt'
  <2>. SUFFICES ASSUME NEW d \in Callers, Running(d)', tx'[d].alone
                PROVE  Undisturbed(d)'
    BY DEF AloneDoesIt
  <2>1. Desired' = Desired BY <1>6 DEF Desired
  <2>2. d = c
    <3>. SUFFICES ASSUME d # c PROVE FALSE OBVIOUS
    <3>1. Running(d) /\ ~others BY <1>4, <1>5, <1>8
    <3>. QED BY <1>7, <3>1
  <2>3. ~others BY <1>3, <1>5, <2>2
  <2>. QED BY <1>3, <1>5, <1>7, <1>8, <2>1, <2>2, <2>3 DEF Undisturbed
<1>. QED BY <1>9, <1>10, <1>11 DEF IInv

(* A step of a running refresh: it keeps running, takes only locks for     *)
(* itself, and if it was alone the others do not run.                      *)
LEMMA RunningStep ==
  ASSUME IInv, NEW c \in Callers, NEW t \in TxType,
         Running(c), t.pc \in {"upsert", "deactivate"},
         tx' = [tx EXCEPT ![c] = t],
         UNCHANGED <<override, location, row, changes>>,
         lock' = lock \/ \E s \in Shops : lock' = [lock EXCEPT ![s] = c],
         t.alone => tx[c].alone,
         t.pc = "deactivate" =>
           \A s \in Shops : t.wrote[s] = "active" => s \in t.desired \cup t.todo,
         t.alone /\ Undisturbed(c) => Undisturbed(c)'
  PROVE  IInv'
<1>1. /\ tx' \in [Callers -> TxType] /\ tx'[c] = t
      /\ \A d \in Callers \ {c} : tx'[d] = tx[d]
  BY TxChange DEF IInv
<1>2. \A d \in Callers : Running(d)' = Running(d) BY <1>1 DEF Running
<1>3. TypeOK'
  <2>1. lock' \in [Shops -> Callers \cup {Free}] BY DEF IInv, TypeOK
  <2>2. \A s \in Shops : lock'[s] = lock[s] \/ lock'[s] = c BY DEF IInv, TypeOK
  <2>3. \A s \in Shops, d \in Callers : lock'[s] = d => Running(d)'
    BY <1>2, <2>1, <2>2 DEF IInv, TypeOK
  <2>. QED BY <1>1, <2>1, <2>3 DEF IInv, TypeOK, TxType
<1>4. WritesWanted' BY <1>1 DEF IInv, WritesWanted
<1>5. AloneDoesIt'
  <2>. SUFFICES ASSUME NEW d \in Callers, Running(d)', tx'[d].alone
                PROVE  Undisturbed(d)'
    BY DEF AloneDoesIt
  <2>1. d = c
    <3>. SUFFICES ASSUME d # c PROVE FALSE OBVIOUS
    <3>1. Running(d) /\ tx[d].alone BY <1>1, <1>2
    <3>. QED BY <3>1 DEF IInv, AloneDoesIt, Undisturbed
  <2>2. Undisturbed(c) BY <1>1, <1>2, <2>1 DEF IInv, AloneDoesIt
  <2>. QED BY <1>1, <2>1, <2>2
<1>. QED BY <1>3, <1>4, <1>5 DEF IInv

LEMMA UpsertInv ==
  ASSUME IInv, NEW c \in Callers, Upsert(c) PROVE IInv'
<1>. DEFINE s == FirstTodo(c)
            t == Writing(c, s, "active")
<1>1. tx[c].pc = "upsert" /\ tx[c] \in TxType BY DEF Upsert, IInv, TypeOK, TxType
<1>2. s \in tx[c].todo /\ s \in Shops
  BY <1>1, FirstIsTodo DEF Upsert, IInv, TxType
<1>3. /\ tx' = [tx EXCEPT ![c] = t] /\ lock' = [lock EXCEPT ![s] = c]
      /\ UNCHANGED <<override, location, row, changes>>
  BY DEF Upsert
<1>. HIDE DEF s
<1>4. /\ t \in TxType /\ t.pc = "upsert" /\ t.alone = tx[c].alone
      /\ t.todo = tx[c].todo \ {s}
      /\ t.wrote = [tx[c].wrote EXCEPT ![s] = "active"]
  BY <1>1, <1>2 DEF TxType, Writing
<1>5. \A x \in Shops : t.wrote[x] = IF x = s THEN "active" ELSE tx[c].wrote[x]
  BY <1>1, <1>4 DEF TxType
<1>. HIDE DEF t
<1>6. ASSUME Undisturbed(c) PROVE Undisturbed(c)'
  <2>1. /\ tx'[c] = t /\ \A d \in Callers \ {c} : tx'[d] = tx[d]
    BY <1>3, <1>4, TxChange DEF IInv
  <2>2. Desired' = Desired BY <1>3 DEF Desired
  <2>3. s \in Desired BY <1>1, <1>2, <1>6 DEF Undisturbed
  <2>. QED BY <1>1, <1>4, <1>5, <1>6, <2>1, <2>2, <2>3 DEF Undisturbed, Running
<1>. QED BY <1>1, <1>2, <1>3, <1>4, <1>6, RunningStep DEF Running

LEMMA BeginDeactivateInv ==
  ASSUME IInv, NEW c \in Callers, BeginDeactivate(c) PROVE IInv'
<1>. DEFINE t == [tx[c] EXCEPT !.pc = "deactivate", !.desired = Desired,
                     !.todo = {s \in Shops : Seen(c, s) = "active"} \ Desired]
<1>1. tx[c].pc = "upsert" /\ tx[c].todo = {} /\ tx[c] \in TxType
  BY DEF BeginDeactivate, IInv, TypeOK, TxType
<1>2. tx' = [tx EXCEPT ![c] = t] /\ UNCHANGED <<override, location, row, lock, changes>>
  BY DEF BeginDeactivate
<1>3. /\ t \in TxType /\ t.pc = "deactivate" /\ t.alone = tx[c].alone
      /\ t.desired = Desired /\ t.wrote = tx[c].wrote
      /\ t.todo = {s \in Shops : Seen(c, s) = "active"} \ Desired
  BY <1>1 DEF TxType, Desired
<1>. HIDE DEF t
<1>4. \A s \in Shops : t.wrote[s] = "active" => s \in t.desired \cup t.todo
  BY <1>3 DEF Seen
<1>5. ASSUME Undisturbed(c) PROVE Undisturbed(c)'
  <2>1. /\ tx'[c] = t /\ \A d \in Callers \ {c} : tx'[d] = tx[d]
    BY <1>2, <1>3, TxChange DEF IInv
  <2>2. Desired' = Desired BY <1>2 DEF Desired
  <2>3. \A s \in Shops : Seen(c, s)' = Seen(c, s) BY <1>2, <1>3, <2>1 DEF Seen
  <2>. QED BY <1>1, <1>3, <1>5, <2>1, <2>2, <2>3 DEF Undisturbed, Running
<1>. QED BY <1>1, <1>2, <1>3, <1>4, <1>5, RunningStep DEF Running

LEMMA DeactivateInv ==
  ASSUME IInv, NEW c \in Callers, NEW s \in Shops, Deactivate(c, s) PROVE IInv'
<1>. DEFINE w == IF Seen(c, s) = "active" THEN "inactive" ELSE tx[c].wrote[s]
            t == Writing(c, s, w)
<1>1. tx[c].pc = "deactivate" /\ s \in tx[c].todo /\ tx[c] \in TxType
  BY DEF Deactivate, IInv, TypeOK, TxType
<1>2. /\ tx' = [tx EXCEPT ![c] = t] /\ lock' = [lock EXCEPT ![s] = c]
      /\ UNCHANGED <<override, location, row, changes>>
  BY DEF Deactivate
<1>3. w \in {"nothing", "inactive"} BY <1>1 DEF Seen, TxType
<1>4. w = "nothing" => row[s] # "active" BY <1>1 DEF Seen, TxType
<1>. HIDE DEF w
<1>5. /\ t \in TxType /\ t.pc = "deactivate" /\ t.alone = tx[c].alone
      /\ t.todo = tx[c].todo \ {s} /\ t.desired = tx[c].desired
      /\ t.wrote = [tx[c].wrote EXCEPT ![s] = w]
  BY <1>1, <1>3 DEF TxType, Writing, IInv, TypeOK
<1>6. \A x \in Shops : t.wrote[x] = IF x = s THEN w ELSE tx[c].wrote[x]
  BY <1>1, <1>5 DEF TxType
<1>. HIDE DEF t
<1>7. \A x \in Shops : t.wrote[x] = "active" => x \in t.desired \cup t.todo
  BY <1>1, <1>3, <1>5, <1>6 DEF IInv, WritesWanted
<1>8. ASSUME Undisturbed(c) PROVE Undisturbed(c)'
  <2>1. /\ tx'[c] = t /\ \A d \in Callers \ {c} : tx'[d] = tx[d]
    BY <1>2, <1>5, TxChange DEF IInv
  <2>2. Desired' = Desired BY <1>2 DEF Desired
  <2>3. s \notin Desired BY <1>1, <1>8 DEF Undisturbed
  <2>4. \A x \in Shops \ {s} : Seen(c, x)' = Seen(c, x) BY <1>2, <1>6, <2>1 DEF Seen
  <2>5. Seen(c, s)' # "active" BY <1>2, <1>3, <1>4, <1>6, <2>1 DEF Seen
  <2>. QED BY <1>1, <1>5, <1>6, <1>8, <2>1, <2>2, <2>3, <2>4, <2>5
           DEF Undisturbed, Running
<1>. QED BY <1>1, <1>2, <1>5, <1>7, <1>8, RunningStep DEF Running

(* A refresh ends, by a commit or as the victim of a deadlock.             *)
LEMMA EndInv ==
  ASSUME IInv, NEW c \in Callers, Commit(c) \/ Abort(c) PROVE IInv'
<1>1. Running(c)
  BY DEF Commit, Abort, Running, Deadlocked, WaitsFor
<1>2. /\ tx' = [tx EXCEPT ![c] = NoTx] /\ lock' = Released(c)
      /\ UNCHANGED <<override, location, changes>>
  BY DEF Commit, Abort
<1>3. row' \in [Shops -> {"absent", "active", "inactive"}]
  <2>1. tx[c] \in TxType BY DEF IInv, TypeOK, TxType
  <2>2. \A s \in Shops : Seen(c, s) \in {"absent", "active", "inactive"}
    BY <2>1 DEF Seen, TxType, IInv, TypeOK
  <2>. QED BY <2>2 DEF Commit, Abort, IInv, TypeOK
<1>4. /\ tx' \in [Callers -> TxType] /\ tx'[c] = NoTx
      /\ \A d \in Callers \ {c} : tx'[d] = tx[d]
  BY <1>2, CallersType, TxChange DEF IInv
<1>5. \A d \in Callers \ {c} : Running(d)' = Running(d) BY <1>4 DEF Running
<1>6. ~Running(c)' BY <1>4, CallersType DEF Running
<1>7. TypeOK'
  <2>1. lock' \in [Shops -> Callers \cup {Free}]
    BY <1>2 DEF Released, IInv, TypeOK
  <2>2. \A s \in Shops : lock'[s] # Free => lock'[s] = lock[s] /\ lock[s] # c
    BY <1>2 DEF Released, IInv, TypeOK
  <2>3. \A s \in Shops, d \in Callers : lock'[s] = d => Running(d)'
    BY <1>5, <2>2, CallersType DEF IInv, TypeOK
  <2>. QED BY <1>2, <1>3, <1>4, <2>1, <2>3 DEF IInv, TypeOK, TxType
<1>8. WritesWanted' BY <1>4, CallersType DEF IInv, WritesWanted
<1>9. AloneDoesIt'
  <2>. SUFFICES ASSUME NEW d \in Callers, Running(d)', tx'[d].alone PROVE FALSE
    BY DEF AloneDoesIt
  <2>1. d # c /\ Running(d) /\ tx[d].alone BY <1>4, <1>5, <1>6
  <2>. QED BY <1>1, <2>1 DEF IInv, AloneDoesIt, Undisturbed
<1>. QED BY <1>7, <1>8, <1>9 DEF IInv

-----------------------------------------------------------------------------
LEMMA InitInv == Init => IInv
<1>. SUFFICES ASSUME Init PROVE IInv
  OBVIOUS
<1>1. \A c \in Callers : tx[c] = NoTx BY DEF Init
<1>2. tx \in [Callers -> TxType] BY CallersType DEF Init
<1>3. TypeOK BY <1>2, CallersType DEF Init, Locations, TypeOK, TxType
<1>. QED BY <1>1, <1>3, CallersType DEF IInv, WritesWanted, AloneDoesIt, Running

LEMMA NextInv == IInv /\ [Next]_vars => IInv'
<1>. SUFFICES ASSUME IInv, [Next]_vars PROVE IInv'
  OBVIOUS
<1>1. ASSUME NEW on \in Catalogs, CatalogCommits(on) PROVE IInv'
  BY <1>1, CatalogCommitsInv
<1>2. CASE \/ \E a \in Admins, s \in Shops, command \in {"add", "remove"} :
                AdminSets(a, s, command)
           \/ \E a \in Admins : AdminCalls(a)
  BY <1>2, AdminInv
<1>3. ASSUME NEW c \in Callers, Refreshing(c) PROVE IInv'
  BY <1>3, BeginUpsertInv, UpsertInv, BeginDeactivateInv, DeactivateInv, EndInv
  DEF Refreshing
<1>4. CASE UNCHANGED vars
  <2>1. Desired' = Desired BY <1>4 DEF vars, Desired
  <2>2. TypeOK' BY <1>4 DEF vars, IInv, TypeOK, Running
  <2>3. WritesWanted' BY <1>4 DEF vars, IInv, WritesWanted
  <2>4. AloneDoesIt'
    BY <1>4, <2>1 DEF vars, IInv, AloneDoesIt, Undisturbed, Running, Seen
  <2>. QED BY <2>2, <2>3, <2>4 DEF IInv
<1>. QED BY <1>1, <1>2, <1>3, <1>4 DEF Next

THEOREM Invariance == Spec => []IInv
BY InitInv, NextInv, PTL DEF Spec

(* Every reachable state is type correct; in particular only a running     *)
(* refresh holds rows.                                                     *)
THEOREM TypeCorrect == Spec => []TypeOK
<1>1. IInv => TypeOK BY DEF IInv
<1>. QED BY <1>1, Invariance, PTL

-----------------------------------------------------------------------------
(* The end of a refresh that has nothing left to do is its commit.         *)
LEMMA CommitsCommit ==
  ASSUME IInv, [Next]_vars, NEW c \in Callers, Commits(c) PROVE Commit(c)
<1>1. tx[c].pc = "deactivate" /\ tx'[c].pc = "idle" /\ tx[c].todo = {} BY DEF Commits
<1>2. tx \in [Callers -> TxType] BY DEF IInv, TypeOK, TxType
<1>3. ASSUME NEW d \in Callers, tx[d].pc = "idle",
             \/ tx' = [tx EXCEPT ![d].pc = "called"]
             \/ tx' = [Disturbed(tx) EXCEPT ![d].pc = "called"]
      PROVE  FALSE
  BY <1>1, <1>2, <1>3 DEF Disturbed, TxType
<1>4. ASSUME NEW on \in Catalogs, CatalogCommits(on) PROVE FALSE
  BY <1>3, <1>4, CallersType DEF CatalogCommits
<1>5. ASSUME NEW a \in Admins,
             \/ AdminCalls(a)
             \/ \E s \in Shops, command \in {"add", "remove"} : AdminSets(a, s, command)
      PROVE  FALSE
  BY <1>3, <1>5, CallersType DEF AdminCalls, AdminSets
<1>6. ASSUME NEW d \in Callers, BeginUpsert(d) PROVE FALSE
  <2>1. d # c BY <1>1, <1>6 DEF BeginUpsert
  <2>2. tx'[c].pc = tx[c].pc BY <1>2, <1>6, <2>1 DEF BeginUpsert, Disturbed, TxType
  <2>. QED BY <1>1, <2>2
<1>7. ASSUME NEW d \in Callers,
             Upsert(d) \/ BeginDeactivate(d) \/ \E s \in Shops : Deactivate(d, s)
      PROVE  FALSE
  BY <1>1, <1>2, <1>7 DEF Upsert, BeginDeactivate, Deactivate, TxType
<1>8. ASSUME NEW d \in Callers, Commit(d) \/ Abort(d) PROVE d = c /\ Commit(d)
  <2>1. d = c BY <1>1, <1>2, <1>8 DEF Commit, Abort
  <2>2. ~Abort(c) BY <1>1 DEF Abort, Deadlocked, WaitsFor
  <2>. QED BY <1>8, <2>1, <2>2
<1>9. CASE UNCHANGED vars BY <1>1, <1>9 DEF vars
<1>. QED BY <1>4, <1>5, <1>6, <1>7, <1>8, <1>9 DEF Next, Refreshing

(* A refresh nobody disturbed manages exactly what is wanted (both         *)
(* statements of refresh_managed_locations together).                      *)
THEOREM AloneCommitsDesired == Spec => AloneIsExact
<1>1. IInv /\ [Next]_vars =>
        [\A c \in Callers : Commits(c) /\ tx[c].alone => Active' = Desired]_vars
  <2>. SUFFICES ASSUME IInv, [Next]_vars, NEW c \in Callers, Commits(c), tx[c].alone
                PROVE  Active' = Desired
    OBVIOUS
  <2>1. Commit(c) BY CommitsCommit
  <2>2. Undisturbed(c) BY <2>1 DEF IInv, AloneDoesIt, Running, Commit
  <2>3. \A s \in Shops : row'[s] = Seen(c, s) BY <2>1 DEF Commit
  <2>4. ASSUME NEW s \in Shops PROVE Seen(c, s) = "active" <=> s \in Desired
    BY <2>1, <2>2 DEF Undisturbed, Commit, Seen
  <2>. QED BY <2>3, <2>4 DEF Active, Desired
<1>. QED BY <1>1, Invariance, PTL DEF Spec, AloneIsExact

(* What a refresh manages anew was wanted when its second statement began, *)
(* whoever ran beside it.                                                  *)
THEOREM OnlyWantedIsManaged == Spec => ManagesOnlyWhatIsWanted
<1>1. IInv /\ [Next]_vars =>
        [\A c \in Callers : Commits(c) => Active' \ Active \subseteq tx[c].desired]_vars
  <2>. SUFFICES ASSUME IInv, [Next]_vars, NEW c \in Callers, Commits(c)
                PROVE  Active' \ Active \subseteq tx[c].desired
    OBVIOUS
  <2>1. Commit(c) BY CommitsCommit
  <2>2. \A s \in Shops : row'[s] = Seen(c, s) BY <2>1 DEF Commit
  <2>3. \A s \in Shops : tx[c].wrote[s] = "active" => s \in tx[c].desired
    BY <2>1 DEF IInv, WritesWanted, Commit
  <2>. QED BY <2>2, <2>3 DEF Active, Seen
<1>. QED BY <1>1, Invariance, PTL DEF Spec, ManagesOnlyWhatIsWanted
=============================================================================
