----------------------------- MODULE StatusFeed -----------------------------
(***************************************************************************)
(* How a commit of the poller reaches the viewers of a location page:      *)
(*                                                                         *)
(*   commit -> pg_notify -> listener task -> schema check -> broadcast     *)
(*          -> SSE stream of each viewer -> re-read of the status -> event *)
(*                                                                         *)
(* crates/api/src/live.rs is the listener, stream_for_slug in              *)
(* crates/api/src/routes.rs the stream.  The events carry no data: a       *)
(* stream that receives one reads the current status again.                *)
(***************************************************************************)
EXTENDS Integers, Sequences

CONSTANTS
    Viewers,
    NoStatus,      \* status_for_slug failed, or nothing was read
    Capacity,      \* of the broadcast channel
    MaxVersion,    \* bound: commits
    MaxFaults      \* bound: lost notifications, failed reads, restarts

ASSUME FeedAssumption ==
    /\ Capacity \in Nat \ {0}
    /\ MaxVersion \in Nat /\ MaxFaults \in Nat
    /\ NoStatus \notin Nat

VARIABLES
    version,       \* commits to the location's current status so far
    unannounced,   \* the poller committed and has not notified yet
    inbox,         \* notifications pending on the listener's connection
    listener,      \* "down", "listening" or "checking"
    sent,          \* broadcast so far: the version when each event was sent
    stream,        \* what the stream of each viewer does next
    fetched,       \* status a stream has read and not yet yielded
    from,          \* where in sent the stream subscribed
    position,      \* events of sent the stream has consumed
    shown,         \* version on each viewer's screen, 0 for none
    missed,        \* viewers whose last re-read failed (history)
    faults

postgres   == <<version, unannounced>>
feed       == <<inbox, listener, sent>>
streamVars == <<stream, fetched, from, position, shown, missed>>
vars == <<postgres, feed, streamVars, faults>>

Phases == {"closed", "opening", "subscribing", "yielding", "waiting", "rereading"}

Init ==
    /\ version = 0 /\ unannounced = FALSE
    /\ inbox = 0 /\ listener = "down" /\ sent = <<>>
    /\ stream = [v \in Viewers |-> "closed"]
    /\ fetched = [v \in Viewers |-> NoStatus]
    /\ from = [v \in Viewers |-> 0]
    /\ position = [v \in Viewers |-> 0]
    /\ shown = [v \in Viewers |-> 0]
    /\ missed = {}
    /\ faults = 0

Fault == faults < MaxFaults /\ faults' = faults + 1

-----------------------------------------------------------------------------
(* The poller: a transaction that changes the current status, and later    *)
(* one pg_notify, which is lost for a listener that is not connected.      *)
Commit ==
    /\ version < MaxVersion
    /\ version' = version + 1
    /\ unannounced' = TRUE
    /\ UNCHANGED <<feed, streamVars, faults>>

Notify ==
    /\ unannounced
    /\ unannounced' = FALSE
    /\ inbox' = IF listener = "down" THEN inbox ELSE inbox + 1
    /\ UNCHANGED <<version, listener, sent, streamVars, faults>>

(* publish_status_updated failed, or the poller died before it. *)
NotifyFails ==
    /\ unannounced
    /\ unannounced' = FALSE
    /\ Fault
    /\ UNCHANGED <<version, feed, streamVars>>

-----------------------------------------------------------------------------
(* The listener task *)
Connect ==
    /\ listener = "down"
    /\ listener' = "listening"
    /\ UNCHANGED <<postgres, inbox, sent, streamVars, faults>>

TakeNotification ==
    /\ listener = "listening" /\ inbox > 0
    /\ inbox' = inbox - 1
    /\ listener' = "checking"
    /\ UNCHANGED <<postgres, sent, streamVars, faults>>

(* schema_ready, then the broadcast; a failed check drops the event. *)
Broadcast ==
    /\ listener = "checking"
    /\ listener' = "listening"
    /\ \/ sent' = Append(sent, version) /\ UNCHANGED faults
       \/ Fault /\ UNCHANGED sent
    /\ UNCHANGED <<postgres, inbox, streamVars>>

(* recv finds the connection broken; what was not read from it is gone.    *)
LoseConnection ==
    /\ listener = "listening"
    /\ listener' = "down"
    /\ \E kept \in 0..inbox : inbox' = kept
    /\ Fault
    /\ UNCHANGED <<postgres, sent, streamVars>>

-----------------------------------------------------------------------------
(* stream_for_slug: the status is read first, the subscription follows,    *)
(* and the status read, if any, is the first event.                        *)
Open(v) ==
    /\ stream[v] = "closed"
    /\ stream' = [stream EXCEPT ![v] = "opening"]
    /\ UNCHANGED <<postgres, feed, fetched, from, position, shown, missed, faults>>

(* status_for_slug, whose error is only the absence of an event.           *)
ReadStatus(v) ==
    \/ fetched' = [fetched EXCEPT ![v] = version] /\ UNCHANGED faults
    \/ fetched' = [fetched EXCEPT ![v] = NoStatus] /\ Fault

ReadInitial(v) ==
    /\ stream[v] = "opening"
    /\ ReadStatus(v)
    /\ stream' = [stream EXCEPT ![v] = "subscribing"]
    /\ UNCHANGED <<postgres, feed, from, position, shown, missed>>

Subscribe(v) ==
    /\ stream[v] = "subscribing"
    /\ from' = [from EXCEPT ![v] = Len(sent)]
    /\ position' = [position EXCEPT ![v] = Len(sent)]
    /\ stream' = [stream EXCEPT ![v] = "yielding"]
    /\ missed' = missed \ {v}
    /\ UNCHANGED <<postgres, feed, fetched, shown, faults>>

ScreenUnchecked(v)  == fetched[v]   \* mutants of Screen
ScreenDefaulted(v)  == IF fetched[v] = NoStatus THEN 0 ELSE fetched[v]
Screen(v)           == IF fetched[v] = NoStatus THEN shown[v] ELSE fetched[v]

Yield(v) ==
    /\ stream[v] = "yielding"
    /\ shown' = [shown EXCEPT ![v] = Screen(v)]
    /\ fetched' = [fetched EXCEPT ![v] = NoStatus]
    /\ stream' = [stream EXCEPT ![v] = "waiting"]
    /\ UNCHANGED <<postgres, feed, from, position, missed, faults>>

(* receiver.recv(): the next event, or, when the channel has overwritten   *)
(* it, Lagged, which moves the receiver to the oldest event still there.   *)
Lagged(v) == Len(sent) - position[v] > Capacity

(* Either way the status is read again. *)
LaggedIgnored(v)   == IF Lagged(v) THEN "waiting" ELSE "rereading"  \* mutants of AfterReceive
OnlyLaggedRead(v)  == IF Lagged(v) THEN "rereading" ELSE "waiting"
AfterReceive(v)    == "rereading"

Receive(v) ==
    /\ stream[v] = "waiting"
    /\ position[v] < Len(sent)
    /\ position' = [position EXCEPT ![v] =
                      IF Lagged(v) THEN Len(sent) - Capacity ELSE position[v] + 1]
    /\ stream' = [stream EXCEPT ![v] = AfterReceive(v)]
    /\ UNCHANGED <<postgres, feed, fetched, from, shown, missed, faults>>

Reread(v) ==
    /\ stream[v] = "rereading"
    /\ ReadStatus(v)
    /\ missed' = IF fetched'[v] = NoStatus THEN missed \cup {v} ELSE missed \ {v}
    /\ stream' = [stream EXCEPT ![v] = "yielding"]
    /\ UNCHANGED <<postgres, feed, from, position, shown>>

(* The viewer leaves, or its connection breaks; it may come back.          *)
Close(v) ==
    /\ stream[v] # "closed"
    /\ Fault
    /\ stream' = [stream EXCEPT ![v] = "closed"]
    /\ fetched' = [fetched EXCEPT ![v] = NoStatus]
    /\ UNCHANGED <<postgres, feed, from, position, shown, missed>>

(* The API process restarts: listener, channel and streams are gone.       *)
RestartApi ==
    /\ Fault
    /\ inbox' = 0 /\ listener' = "down" /\ sent' = <<>>
    /\ stream' = [v \in Viewers |-> "closed"]
    /\ fetched' = [v \in Viewers |-> NoStatus]
    /\ from' = [v \in Viewers |-> 0]
    /\ position' = [v \in Viewers |-> 0]
    /\ UNCHANGED <<postgres, shown, missed>>

ListenerStep == Connect \/ TakeNotification \/ Broadcast
StreamStep(v) == \/ Open(v) \/ ReadInitial(v) \/ Subscribe(v) \/ Yield(v)
                 \/ Receive(v) \/ Reread(v)

Next ==
    \/ Commit \/ Notify \/ NotifyFails
    \/ ListenerStep \/ LoseConnection \/ RestartApi
    \/ \E v \in Viewers : StreamStep(v) \/ Close(v)

(* The poller's loop goes on to publish, the runtime polls the listener    *)
(* task, and a stream is polled as long as its viewer takes data.          *)
Fairness ==
    /\ WF_vars(Notify)
    /\ WF_vars(ListenerStep)
    /\ \A v \in Viewers : WF_vars(StreamStep(v))

Spec     == Init /\ [][Next]_vars
FairSpec == Spec /\ Fairness

-----------------------------------------------------------------------------
(* Type invariant *)
TypeOK ==
    /\ version \in Nat /\ inbox \in Nat /\ faults \in Nat
    /\ unannounced \in BOOLEAN
    /\ listener \in {"down", "listening", "checking"}
    /\ sent \in Seq(Nat)
    /\ stream \in [Viewers -> Phases]
    /\ fetched \in [Viewers -> Nat \cup {NoStatus}]
    /\ from \in [Viewers -> Nat] /\ position \in [Viewers -> Nat]
    /\ shown \in [Viewers -> Nat]
    /\ missed \subseteq Viewers

(* A stream at rest shows a status at least as new as the last event it    *)
(* consumed, and as every event it lost by lagging before that one, unless *)
(* its re-read failed: skipping events never leaves an older status behind *)
(* (routes.rs, the Ok and Lagged branches of stream_for_slug).             *)
EventsAreHonoured ==
    \A v \in Viewers :
        stream[v] = "waiting" /\ v \notin missed =>
            \A i \in from[v] + 1 .. position[v] : shown[v] >= sent[i]

(* The feed implements the abstract promise: what is on a screen was       *)
(* committed, and no reconnection, lag or restart takes it back            *)
(* (stream_for_slug re-reads, it never replays).                           *)
Promise == INSTANCE LiveStatus WITH Viewers <- Viewers, version <- version, shown <- shown
ShowsOnlyNewer == Promise!Spec

(* A commit still to be announced while a stream waits and the listener is *)
(* connected ends up on that viewer's screen, even when the stream lags by *)
(* more than the channel holds, unless something fails on the way          *)
(* (routes.rs and live.rs).                                                *)
ToBeAnnounced(v, n) ==
    stream[v] = "waiting" /\ unannounced /\ version = n /\ listener # "down"

AnnouncedIsShown ==
    \A v \in Viewers, n \in 1..MaxVersion, k \in 0..MaxFaults :
        ToBeAnnounced(v, n) /\ faults = k ~> shown[v] >= n \/ faults > k

-----------------------------------------------------------------------------
(* docs/public-api.md says that SSE streams "receive `status.updated`      *)
(* events after successful poll commits".  Without any fault, an open      *)
(* stream that has taken every event should show at least what the last    *)
(* event announced.  An event broadcast between the first read and the     *)
(* subscription is in neither.                                             *)
StreamsFollowBroadcasts ==
    \A v \in Viewers :
        stream[v] = "waiting" /\ position[v] = Len(sent) /\ sent # <<>>
            => shown[v] >= sent[Len(sent)]
=============================================================================
