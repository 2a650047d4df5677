------------------------------ MODULE Dashboard ------------------------------
(***************************************************************************)
(* The page of one location: what the site renders (location_dashboard)    *)
(* and the script that keeps it up to date (dashboard.js), against the     *)
(* history API (WaitHistory) and the stream of live statuses.              *)
(*                                                                         *)
(* The answer of the history request, the live events and the local        *)
(* midnight come in any order.  The gray comparison line, which is         *)
(* replaced as a whole and read by nobody, is left out.                    *)
(***************************************************************************)
EXTENDS WaitHistory, Sequences

CONSTANTS
    MaxOpenings,   \* bounds: changes of the open state,
    MaxWire        \* events under way to the browser

ASSUME DashboardAssumption == MaxOpenings \in Nat /\ MaxWire \in Nat \ {0}

VARIABLES
    isOpen,        \* locations.is_open
    openings,
    statuses,      \* all the statuses there were, the current one last
    page,          \* "none", "served" or "running"
    source,        \* where updates come from: "none", "stream" or "poll"
    wire,          \* the statuses under way, by their place in statuses
    history,       \* the history request: "none", "asked", "answered", or how it
                   \* ended
    answer,        \* its answer while that is under way
    shown,         \* the status the sentence is about, 0 for none
    day,           \* the day the script takes its points for (its midnight)
    points,        \* minute of the day |-> value, of which day, live or not
    hidden         \* whether the graph is

server  == <<isOpen, openings, statuses>>
network == <<source, wire>>
request == <<history, answer>>
screen  == <<shown, day, points, hidden>>
dashVars == <<vars, server, network, screen, page, request>>

NoPoints == <<>>
NoAnswer == [at |-> 0, of |-> 0, points |-> NoPoints]

DashInit ==
    /\ Init
    /\ isOpen \in BOOLEAN /\ openings = 0 /\ statuses = <<>>
    /\ page = "none" /\ source = "none" /\ wire = <<>> /\ history = "none" /\ answer = NoAnswer
    /\ shown = 0 /\ day = 0 /\ points = NoPoints /\ hidden = TRUE

-----------------------------------------------------------------------------
(* The server.  It has a status from the first observation on; the open    *)
(* state comes with the catalog, not with the waits.                       *)

Current == Len(statuses)

Polled(value) ==
    /\ Observe(value)
    /\ statuses' = Append(statuses, [open |-> isOpen, wait |-> value, at |-> now])
    /\ UNCHANGED <<isOpen, openings, network, screen, page, request>>

Opening ==
    /\ openings < MaxOpenings /\ openings' = openings + 1
    /\ isOpen' = ~isOpen
    /\ statuses' = IF Current = 0 THEN statuses
                   ELSE Append(statuses, [statuses[Current] EXCEPT !.open = isOpen'])
    /\ UNCHANGED <<vars, network, screen, page, request>>

Clock == Tick /\ UNCHANGED <<server, network, screen, page, request>>

(* location_dashboard: the page holds the status, if it was there, and no  *)
(* history.                                                                *)
Serve(n) ==
    /\ page = "none" /\ page' = "served"
    /\ n \in {0, Current} /\ shown' = n
    /\ UNCHANGED <<vars, server, network, day, points, hidden, request>>

(* The script starts; both its requests leave.                             *)
Start ==
    /\ page = "served" /\ page' = "running"
    /\ day' = Midnight(IF shown = 0 THEN now ELSE statuses[shown].at)
    /\ history' = "asked"
    /\ UNCHANGED <<vars, server, network, answer, shown, points, hidden>>

-----------------------------------------------------------------------------
(* Live updates.                                                           *)

ConnectUnready ==                                       \* mutant of Connect
    /\ page = "running" /\ source = "none" /\ source' = "stream"
    /\ wire' = <<Current>>
    /\ UNCHANGED <<vars, server, screen, page, request>>

(* The browser connects, again after a break, and the stream begins with   *)
(* the current status.                                                     *)
Connect ==
    /\ page = "running" /\ source = "none" /\ source' = "stream"
    /\ wire' = IF Current = 0 THEN <<>> ELSE <<Current>>
    /\ UNCHANGED <<vars, server, screen, page, request>>

(* A browser without EventSource asks for the status now and then.         *)
StartPolling ==
    /\ page = "running" /\ source = "none" /\ source' = "poll"
    /\ UNCHANGED <<vars, server, wire, screen, page, request>>

BreakReplaying ==                                       \* mutant of Break
    /\ source = "stream" /\ source' = "none"
    /\ wire' = IF Current = 0 THEN <<>> ELSE <<1>>
    /\ UNCHANGED <<vars, server, screen, page, request>>

Break ==
    /\ source = "stream" /\ source' = "none" /\ wire' = <<>>
    /\ UNCHANGED <<vars, server, screen, page, request>>

(* An event of the stream, or the answer to a poll.                        *)
Send ==
    /\ Current # 0
    /\ \/ source = "stream" /\ Len(wire) < MaxWire
       \/ source = "poll" /\ wire = <<>>
    /\ wire' = Append(wire, Current)
    /\ UNCHANGED <<vars, server, source, screen, page, request>>

(* update.  A point belongs to the minute of the day it was observed in.   *)
Drawn(status) == status.open /\ status.wait # NoValue

LivePoint(status) ==
    [value |-> status.wait, of |-> Midnight(status.at), live |-> TRUE]

PutPoint(old, status) ==
    LET minute == FloorMinute(status.at) - Midnight(status.at)
    IN  [m \in DOMAIN old \cup {minute} |-> IF m = minute THEN LivePoint(status) ELSE old[m]]

PointsOfAnyDay(status) == PutPoint(points, status)      \* mutants of PointsWith
PointsAlone(status)    == PutPoint(NoPoints, status)

PointsWith(status) ==
    PutPoint(IF Midnight(status.at) = day THEN points ELSE NoPoints, status)

Deliver ==
    /\ wire # <<>> /\ wire' = Tail(wire)
    /\ shown' = Head(wire)
    /\ LET status == statuses[shown']
       IN  IF Drawn(status)
           THEN /\ day' = Midnight(status.at)
                /\ points' = PointsWith(status)
                /\ hidden' = FALSE
           ELSE /\ hidden' = (~status.open \/ points = NoPoints)
                /\ UNCHANGED <<day, points>>
    /\ UNCHANGED <<vars, server, source, page, request>>

-----------------------------------------------------------------------------
(* loadHistory.                                                            *)

(* historyPoints: Number(null) is 0, and 0 is finite.                      *)
AnswerPoints ==
    LET today  == Midnight(now)
        series == Points(samples, "today", now)
    IN  [m \in {t - today : t \in DOMAIN series} |->
            [value |-> IF series[today + m] = NoValue THEN 0 ELSE series[today + m],
             of |-> today, live |-> FALSE]]

Answer ==
    /\ history = "asked"
    /\ \/ /\ history' = "answered"
          /\ answer' = [at |-> now, of |-> Midnight(now), points |-> AnswerPoints]
       \/ history' = "failed" /\ UNCHANGED answer
    /\ UNCHANGED <<vars, server, network, screen, page>>

(* "overtaken": the answer is of another day than the points it replaces.  *)

LoadHistory ==
    /\ history = "answered" /\ answer' = NoAnswer
    /\ points' = answer.points
    /\ hidden' = (shown = 0 \/ ~statuses[shown].open \/ points' = NoPoints)
    /\ history' = IF answer.of = day THEN "loaded" ELSE "overtaken"
    /\ UNCHANGED <<vars, server, network, page, shown, day>>

DashNext ==
    \/ \E value \in Values \cup {NoValue} : Polled(value)
    \/ \E n \in 0 .. Current : Serve(n)
    \/ Opening \/ Clock \/ Start
    \/ Connect \/ StartPolling \/ Break \/ Send \/ Deliver
    \/ Answer \/ LoadHistory

DashSpec == DashInit /\ [][DashNext]_dashVars

-----------------------------------------------------------------------------
(* Properties.                                                             *)

DashTypeOK ==
    /\ TypeOK
    /\ isOpen \in BOOLEAN /\ openings \in 0 .. MaxOpenings
    /\ \A i \in 1 .. Current :
         statuses[i] \in [open : BOOLEAN, wait : Values \cup {NoValue}, at : 0 .. now]
    /\ page \in {"none", "served", "running"}
    /\ source \in {"none", "stream", "poll"}
    /\ history \in {"none", "asked", "answered", "failed", "loaded", "overtaken"}
    /\ history # "answered" => answer = NoAnswer
    /\ Len(wire) <= MaxWire /\ \A i \in 1 .. Len(wire) : wire[i] \in 1 .. Current
    /\ shown \in 0 .. Current /\ day \in Midnights /\ hidden \in BOOLEAN
    /\ \A m \in DOMAIN points :
         points[m] \in [value : Nat, of : Midnights, live : BOOLEAN]

(* The page is one of the viewers of the live status feed: from the served *)
(* page over the first event, breaks of the stream and polls, its sentence *)
(* never steps back to an older status (update, connect, pollOnce).        *)
Promise == INSTANCE LiveStatus
    WITH Viewers <- {"page"}, version <- Current, shown <- [v \in {"page"} |-> shown]

FollowsTheFeed == Promise!Spec

(* The graph is on the page only while the location is open and something  *)
(* is drawn on it, whichever answer came last, and its line is that of the *)
(* day the script goes by, unless the history answer was overtaken by a    *)
(* midnight (update, loadHistory).                                         *)
OneDayOnTheGraph ==
    /\ ~hidden => shown # 0 /\ statuses[shown].open /\ points # NoPoints
    /\ history # "overtaken" => \A m \in DOMAIN points : points[m].of = day

(* A point drawn from a live event leaves the line only with its day, or   *)
(* for a history answer that could not know of it: one made before the     *)
(* point's minute, or of a later day than the events showed so far.  That  *)
(* answer is the only way to lose a point (loadHistory replaces them all,  *)
(* while update adds to them), and it does lose the event that overtook it.*)
OutOfDate(m) == answer.at < day + m \/ answer.of > day
KeepsWhatItDrew ==
    [][\A m \in DOMAIN points : points[m].live /\ day' = day =>
          \/ m \in DOMAIN points'
          \/ history = "answered" /\ history' # "answered" /\ OutOfDate(m)]_dashVars
=============================================================================
