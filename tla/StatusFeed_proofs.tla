------------------------- MODULE StatusFeed_proofs -------------------------
(***************************************************************************)
(* What TLAPS proves about StatusFeed, for every set of viewers, channel   *)
(* capacity and bound: type correctness, that no event is lost on a stream *)
(* whose re-reads succeed, and that the feed implements LiveStatus.        *)
(***************************************************************************)
EXTENDS StatusFeed, TLAPS

(* Abbreviations of the actions, expanded everywhere.                      *)
USE DEF Screen, AfterReceive

ViewerStep(v) == StreamStep(v) \/ Close(v)
SharedStep    == \/ Commit \/ Notify \/ NotifyFails \/ ListenerStep
                 \/ LoseConnection \/ RestartApi

(* The next-state relation, split into what viewers do and the rest.       *)
LEMMA NextSplit == Next <=> SharedStep \/ \E v \in Viewers : ViewerStep(v)
  BY DEF Next, SharedStep, ViewerStep

-----------------------------------------------------------------------------
(* Every initial state is type correct.                                    *)
LEMMA InitType == Init => TypeOK
<1>1. Init => unannounced \in BOOLEAN BY Zenon DEF Init
<1>2. Init => sent \in Seq(Nat) BY DEF Init
<1>. QED BY <1>1, <1>2, FeedAssumption DEF Init, TypeOK, Phases

(* Every step of the poller, the listener or the process is type correct.  *)
LEMMA SharedType == TypeOK /\ SharedStep => TypeOK'
<1>. SUFFICES ASSUME TypeOK, SharedStep PROVE TypeOK'
  OBVIOUS
<1>. USE FeedAssumption DEF TypeOK, Phases, Fault, postgres, feed, streamVars
<1>1. CASE Commit         BY <1>1 DEF Commit
<1>0. unannounced' = FALSE => unannounced' \in BOOLEAN BY Zenon
<1>2. CASE Notify         BY <1>0, <1>2 DEF Notify
<1>3. CASE NotifyFails    BY <1>0, <1>3 DEF NotifyFails
<1>4. CASE Connect        BY <1>4 DEF Connect
<1>5. CASE TakeNotification BY <1>5 DEF TakeNotification
<1>6. CASE Broadcast
  <2>1. Append(sent, version) \in Seq(Nat) OBVIOUS
  <2>2. sent' = sent \/ sent' = Append(sent, version) BY <1>6 DEF Broadcast
  <2>3. sent' \in Seq(Nat) BY <2>1, <2>2
  <2>. QED BY <1>6, <2>3 DEF Broadcast
<1>7. CASE LoseConnection BY <1>7 DEF LoseConnection
<1>8. CASE RestartApi     BY <1>8 DEF RestartApi
<1>. QED BY <1>1, <1>2, <1>3, <1>4, <1>5, <1>6, <1>7, <1>8 DEF SharedStep, ListenerStep

(* A read of the status yields a version or nothing.                       *)
LEMMA ReadStatusType ==
  ASSUME TypeOK, NEW v \in Viewers, ReadStatus(v)
  PROVE  /\ fetched' \in [Viewers -> Nat \cup {NoStatus}]
         /\ faults' \in Nat
         /\ \A w \in Viewers \ {v} : fetched'[w] = fetched[w]
         /\ fetched'[v] \in {version, NoStatus}
  BY DEF TypeOK, ReadStatus, Fault

(* Every step of a stream is type correct.                                 *)
LEMMA ViewerType ==
  ASSUME TypeOK, NEW v \in Viewers, ViewerStep(v) PROVE TypeOK'
<1>. USE FeedAssumption DEF TypeOK, Phases, Fault, postgres, feed, streamVars
<1>1. CASE Open(v)        BY <1>1 DEF Open
<1>2. CASE ReadInitial(v) BY <1>2, ReadStatusType DEF ReadInitial
<1>3. CASE Subscribe(v)   BY <1>3 DEF Subscribe
<1>4. CASE Yield(v)       BY <1>4 DEF Yield
<1>5. CASE Receive(v)
  <2>1. (IF Lagged(v) THEN Len(sent) - Capacity ELSE position[v] + 1) \in Nat
    BY DEF Lagged
  <2>. QED BY <1>5, <2>1 DEF Receive
<1>6. CASE Reread(v)      BY <1>6, ReadStatusType DEF Reread
<1>7. CASE Close(v)       BY <1>7 DEF Close
<1>. QED BY <1>1, <1>2, <1>3, <1>4, <1>5, <1>6, <1>7 DEF ViewerStep, StreamStep

(* Every variable keeps its type.                                          *)
THEOREM TypeCorrect == Spec => []TypeOK
<1>1. TypeOK /\ [Next]_vars => TypeOK'
  <2>1. TypeOK /\ UNCHANGED vars => TypeOK'
    BY DEF TypeOK, vars, postgres, feed, streamVars
  <2>. QED BY <2>1, SharedType, ViewerType, NextSplit
<1>. QED BY InitType, <1>1, PTL DEF Spec

-----------------------------------------------------------------------------
(* The inductive invariant.  Versions only grow, so it is enough to know   *)
(* where a version came from: an event was sent at or before the current   *)
(* version, a status was fetched after the last event the stream consumed, *)
(* and a screen shows something fetched earlier.                           *)
EventsCommitted == \A i \in 1..Len(sent) : sent[i] <= version

PositionsInChannel == \A v \in Viewers : position[v] <= Len(sent)

FetchedIsNewer ==
    \A v \in Viewers :
        /\ shown[v] <= version
        /\ fetched[v] # NoStatus => /\ shown[v] <= fetched[v] /\ fetched[v] <= version
                                    /\ stream[v] \in {"subscribing", "yielding"}

FetchedHonours ==
    \A v \in Viewers :
        stream[v] = "yielding" /\ v \notin missed =>
            \A i \in from[v] + 1 .. position[v] :
                fetched[v] # NoStatus /\ fetched[v] >= sent[i]

FeedInv == /\ EventsCommitted /\ PositionsInChannel /\ FetchedIsNewer
           /\ FetchedHonours /\ EventsAreHonoured

(* The invariant holds initially.                                          *)
LEMMA FeedInvInit == Init => FeedInv
  BY DEF Init, FeedInv, EventsCommitted, PositionsInChannel, FetchedIsNewer,
         FetchedHonours, EventsAreHonoured

(* The poller, the listener and the process preserve the invariant: events *)
(* are only appended, with the version of that moment, and versions grow.  *)
LEMMA FeedInvShared == TypeOK /\ FeedInv /\ SharedStep => FeedInv'
<1>. SUFFICES ASSUME TypeOK, FeedInv, SharedStep PROVE FeedInv'
  OBVIOUS
<1>. USE FeedAssumption
         DEF TypeOK, FeedInv, EventsCommitted, PositionsInChannel, FetchedIsNewer,
             FetchedHonours, EventsAreHonoured, postgres, feed, streamVars
<1>1. CASE Commit           BY <1>1 DEF Commit
<1>2. CASE Notify           BY <1>2 DEF Notify
<1>3. CASE NotifyFails      BY <1>3 DEF NotifyFails
<1>4. CASE Connect          BY <1>4 DEF Connect
<1>5. CASE TakeNotification BY <1>5 DEF TakeNotification
<1>6. CASE Broadcast
  <2>1. CASE UNCHANGED sent BY <1>6, <2>1 DEF Broadcast
  <2>2. CASE sent' = Append(sent, version)
    <3>1. /\ Len(sent') = Len(sent) + 1
          /\ \A i \in 1..Len(sent) : sent'[i] = sent[i]
          /\ sent'[Len(sent) + 1] = version
      BY <2>2
    <3>2. UNCHANGED <<version, stream, fetched, from, position, shown, missed>>
      BY <1>6 DEF Broadcast
    <3>3. \A w \in Viewers : \A i \in from[w] + 1 .. position[w] : sent'[i] = sent[i]
      <4>1. \A w \in Viewers : from[w] + 1 .. position[w] \subseteq 1..Len(sent)
        OBVIOUS
      <4>. QED BY <3>1, <4>1
    <3>4. EventsCommitted'
      <4>1. ASSUME NEW i \in 1..Len(sent) + 1 PROVE sent'[i] <= version
        <5>1. CASE i \in 1..Len(sent) BY <3>1, <5>1
        <5>2. CASE i = Len(sent) + 1 BY <3>1, <5>2
        <5>. QED BY <5>1, <5>2
      <4>. QED BY <3>1, <3>2, <4>1
    <3>5. PositionsInChannel' /\ FetchedIsNewer'
      BY <3>1, <3>2
    <3>6. FetchedHonours' /\ EventsAreHonoured'
      BY <3>2, <3>3
    <3>. QED BY <3>4, <3>5, <3>6
  <2>. QED BY <1>6, <2>1, <2>2 DEF Broadcast
<1>7. CASE LoseConnection   BY <1>7 DEF LoseConnection
<1>8. CASE RestartApi       BY <1>8 DEF RestartApi
<1>. QED BY <1>1, <1>2, <1>3, <1>4, <1>5, <1>6, <1>7, <1>8 DEF SharedStep, ListenerStep

(* So does every step of a stream: what it re-reads after consuming events *)
(* is at least as new as all of them, the ones it lost by lagging too.     *)
LEMMA FeedInvViewer ==
  ASSUME TypeOK, FeedInv, NEW v \in Viewers, ViewerStep(v) PROVE FeedInv'
<1>. USE FeedAssumption
         DEF TypeOK, FeedInv, EventsCommitted, PositionsInChannel, FetchedIsNewer,
             FetchedHonours, EventsAreHonoured, postgres, feed, streamVars
<1>1. CASE Open(v)        BY <1>1 DEF Open
<1>2. CASE ReadInitial(v)
  <2>1. /\ UNCHANGED <<version, sent, from, position, shown, missed>>
        /\ stream' = [stream EXCEPT ![v] = "subscribing"]
        /\ ReadStatus(v)
    BY <1>2 DEF ReadInitial
  <2>2. EventsCommitted' /\ PositionsInChannel' /\ FetchedIsNewer'
    BY <2>1, ReadStatusType
  <2>3. FetchedHonours' /\ EventsAreHonoured'
    BY <2>1, ReadStatusType
  <2>. QED BY <2>2, <2>3
<1>3. CASE Subscribe(v)   BY <1>3 DEF Subscribe
<1>4. CASE Yield(v)       BY <1>4 DEF Yield
<1>5. CASE Receive(v)
  <2>1. (IF Lagged(v) THEN Len(sent) - Capacity ELSE position[v] + 1) \in 0..Len(sent)
    BY <1>5 DEF Lagged, Receive
  <2>2. fetched[v] = NoStatus BY <1>5 DEF Receive
  <2>. QED BY <1>5, <2>1, <2>2 DEF Receive
<1>6. CASE Reread(v)
  <2>1. /\ UNCHANGED <<version, sent, from, position, shown>>
        /\ stream' = [stream EXCEPT ![v] = "yielding"]
        /\ missed' = IF fetched'[v] = NoStatus THEN missed \cup {v} ELSE missed \ {v}
        /\ ReadStatus(v)
    BY <1>6 DEF Reread
  <2>2. EventsCommitted' /\ PositionsInChannel' /\ FetchedIsNewer'
    BY <2>1, ReadStatusType
  <2>3. FetchedHonours'
    <3>1. \A w \in Viewers \ {v} : stream'[w] = stream[w] /\ (w \in missed' <=> w \in missed)
      BY <2>1
    <3>2. v \notin missed' => fetched'[v] = version /\ version # NoStatus
      BY <2>1, ReadStatusType
    <3>3. ASSUME NEW w \in Viewers, stream'[w] = "yielding", w \notin missed',
                 NEW i \in from[w] + 1 .. position[w]
          PROVE  fetched'[w] # NoStatus /\ fetched'[w] >= sent[i]
      <4>1. CASE w = v
        <5>1. i \in 1..Len(sent) BY DEF TypeOK
        <5>. QED BY <3>2, <3>3, <4>1, <5>1
      <4>2. CASE w # v
        BY <3>1, <3>3, <4>2, ReadStatusType, <2>1
      <4>. QED BY <4>1, <4>2
    <3>. QED BY <2>1, <3>3
  <2>4. EventsAreHonoured'
    BY <2>1, ReadStatusType
  <2>. QED BY <2>2, <2>3, <2>4
<1>7. CASE Close(v)       BY <1>7 DEF Close
<1>. QED BY <1>1, <1>2, <1>3, <1>4, <1>5, <1>6, <1>7 DEF ViewerStep, StreamStep

(* The invariant holds throughout.                                         *)
LEMMA FeedInvHolds == Spec => []FeedInv
<1>1. TypeOK /\ FeedInv /\ [Next]_vars => FeedInv'
  <2>1. FeedInv /\ UNCHANGED vars => FeedInv'
    BY DEF FeedInv, EventsCommitted, PositionsInChannel, FetchedIsNewer, FetchedHonours,
           EventsAreHonoured, vars, postgres, feed, streamVars
  <2>. QED BY <2>1, FeedInvShared, FeedInvViewer, NextSplit
<1>. QED BY FeedInvInit, <1>1, TypeCorrect, PTL DEF Spec

(* No stream is left showing a status older than an event it consumed or   *)
(* lost by lagging, unless its last re-read failed.                        *)
THEOREM NoEventIsLost == Spec => []EventsAreHonoured
<1>1. FeedInv => EventsAreHonoured BY DEF FeedInv
<1>. QED BY <1>1, FeedInvHolds, PTL

-----------------------------------------------------------------------------
(* A step of the feed is a commit of the promise, a new screen of one      *)
(* viewer, or nothing a viewer can see.                                    *)
LEMMA StepRefines ==
  TypeOK /\ FeedInv /\ [Next]_vars => [Promise!Next]_<<version, shown>>
<1>. SUFFICES ASSUME TypeOK, FeedInv, [Next]_vars
              PROVE  [Promise!Next]_<<version, shown>>
  OBVIOUS
<1>. USE DEF postgres, feed, streamVars
<1>1. CASE Commit
  BY <1>1 DEF Commit, Promise!Next, Promise!Commit
<1>2. CASE SharedStep /\ ~Commit
  BY <1>2 DEF SharedStep, Notify, NotifyFails, ListenerStep, Connect, TakeNotification,
              Broadcast, LoseConnection, RestartApi
<1>3. ASSUME NEW v \in Viewers, Yield(v)
      PROVE  [Promise!Next]_<<version, shown>>
  <2>1. CASE fetched[v] = NoStatus
    BY <1>3, <2>1 DEF Yield, TypeOK
  <2>2. CASE fetched[v] # NoStatus
    <3>1. fetched[v] \in shown[v]..version
      BY <2>2 DEF TypeOK, FeedInv, FetchedIsNewer
    <3>2. Promise!Show(v)
      BY <1>3, <2>2, <3>1 DEF Yield, Promise!Show
    <3>. QED BY <3>2 DEF Promise!Next
  <2>. QED BY <2>1, <2>2
<1>4. ASSUME NEW v \in Viewers, ViewerStep(v), ~Yield(v)
      PROVE  [Promise!Next]_<<version, shown>>
  BY <1>4 DEF ViewerStep, StreamStep, Open, ReadInitial, Subscribe, Receive, Reread, Close
<1>5. CASE UNCHANGED vars
  BY <1>5 DEF vars
<1>. QED BY <1>1, <1>2, <1>3, <1>4, <1>5, NextSplit

(* The feed implements LiveStatus: screens show committed statuses only    *)
(* and never go back.                                                      *)
THEOREM FeedKeepsPromise == Spec => ShowsOnlyNewer
<1>1. Init => Promise!Init BY DEF Init, Promise!Init
<1>. QED
  BY <1>1, StepRefines, TypeCorrect, FeedInvHolds, PTL DEF Spec, ShowsOnlyNewer, Promise!Spec
=============================================================================
