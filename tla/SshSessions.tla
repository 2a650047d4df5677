---------------------------- MODULE SshSessions ----------------------------
(***************************************************************************)
(* The anonymous SSH interface, crates/ssh-tui/src/main.rs: connections    *)
(* open a terminal session under a permit, their requests and the refresh  *)
(* loop render it.  A page is sent through the Handle of the connection,   *)
(* a bounded mailbox of russh which the task of the connection empties     *)
(* whenever it is not inside a handler; a handler that sends to a full     *)
(* mailbox therefore waits for itself.                                     *)
(***************************************************************************)
EXTENDS Naturals, Sequences, FiniteSets

CONSTANTS
    Conns,         \* connections, the ids of Shared::next_id
    Channels,      \* channels of a connection
    MaxSessions,   \* HEYTEA_SSH_TUI_MAX_SESSIONS
    Capacity,      \* of the mailbox, event_buffer_size of russh
    MatchCounts,   \* numbers of locations a query can match
    Brisk,         \* the refresh interval outlasts what is still to be sent
    NoSession, NoView,
    MaxRequests,   \* bound: requests of all clients
    MaxFaults      \* bound: API failures, clients that stop reading

ASSUME SshAssumption ==
    /\ IsFiniteSet(Conns)
    /\ MaxSessions \in Nat \ {0} /\ Capacity \in Nat \ {0}
    /\ MatchCounts \subseteq Nat /\ MatchCounts # {}
    /\ MaxRequests \in Nat /\ MaxFaults \in Nat
    /\ NoSession \notin [channel : Channels, selected : Nat, matches : MatchCounts]
    /\ Brisk \in BOOLEAN

VARIABLES
    conn,       \* "away", "up", "stalled", "gone" or "cleaned"
    chan,       \* chan[c][ch]: "new", "open", "closing" or "closed"
    sessions,   \* Shared::sessions
    available,  \* permits of the semaphore
    handler,    \* what the handler in progress on a connection waits to send
    mailbox,    \* pages in the Handle of a connection
    screen,     \* screen[c][ch]: what the client sees on a channel
    refresh,    \* the refresh loop: ids left, the page it waits to send
    requests, faults

vars == <<conn, chan, sessions, available, handler, mailbox, screen, refresh,
          requests, faults>>

Sessions == [channel : Channels, selected : Nat, matches : MatchCounts]
Views    == [cursor : Nat, matches : MatchCounts] \cup {NoView}
Pages    == [channel : Channels, view : Views]

Idle    == [after |-> "idle"]
Resting == [after |-> "sleep"]

(* render_body: the cursor is kept within the matches, the session's is not. *)
Cursor(s) == IF s.selected < s.matches THEN s.selected
             ELSE IF s.matches = 0 THEN 0 ELSE s.matches - 1

View(s) == [cursor |-> Cursor(s), matches |-> s.matches]

Fault   == faults < MaxFaults /\ faults' = faults + 1
Request == requests < MaxRequests /\ requests' = requests + 1

(* The page of render_body, or of render_error when the API failed. *)
Bodies(s) == {View(s), NoView}
Composed(view) == IF view = NoView THEN Fault ELSE UNCHANGED faults

PageOf(s, view) == [channel |-> s.channel, view |-> view]

Connected(c) == conn[c] \in {"up", "stalled"}

RemoveAlwaysReturning(c) ==   \* mutant of Remove
    /\ sessions' = [sessions EXCEPT ![c] = NoSession]
    /\ available' = available + 1

(* Removing an entry of the map drops it, and its permit with it. *)
Remove(c) ==
    /\ sessions' = [sessions EXCEPT ![c] = NoSession]
    /\ available' = IF sessions[c] = NoSession THEN available ELSE available + 1

(* session.close sends the close of the server; the client answers it.     *)
Close(c, ch) == chan' = [chan EXCEPT ![c][ch] = "closing"]

(* Requests come on any channel the client has not closed.                 *)
Asks(c, ch) == chan[c][ch] \in {"open", "closing"}

Init ==
    /\ conn = [c \in Conns |-> "away"]
    /\ chan = [c \in Conns |-> [ch \in Channels |-> "new"]]
    /\ sessions = [c \in Conns |-> NoSession]
    /\ available = MaxSessions
    /\ handler = [c \in Conns |-> Idle]
    /\ mailbox = [c \in Conns |-> <<>>]
    /\ screen = [c \in Conns |-> [ch \in Channels |-> NoView]]
    /\ refresh = [todo |-> {}, sending |-> Resting]
    /\ requests = 0 /\ faults = 0

-----------------------------------------------------------------------------
(* Connections and channels.                                               *)

ConnBecomes(c, state) ==
    /\ conn' = [conn EXCEPT ![c] = state]
    /\ UNCHANGED <<chan, sessions, available, handler, mailbox, screen, refresh,
                   requests>>

Connect(c) == conn[c] = "away" /\ ConnBecomes(c, "up") /\ UNCHANGED faults

Ready(c) == conn[c] = "up" /\ handler[c] = Idle

AfterOpenLeaking(c) == available - 1   \* mutant of AfterOpen

(* The permit is acquired before the replaced session gives its own back. *)
AfterOpen(c) == IF sessions[c] = NoSession THEN available - 1 ELSE available

(* Without a permit the channel is refused.  The session is stored under   *)
(* the id of the connection: it replaces the one of an earlier channel.    *)
OpenSession(c, ch) ==
    /\ Ready(c) /\ chan[c][ch] = "new" /\ available > 0 /\ Request
    /\ \E n \in MatchCounts :
          sessions' = [sessions EXCEPT
                         ![c] = [channel |-> ch, selected |-> 0, matches |-> n]]
    /\ available' = AfterOpen(c)
    /\ chan' = [chan EXCEPT ![c][ch] = "open"]
    /\ UNCHANGED <<conn, handler, mailbox, screen, refresh, faults>>

(* The close of the client, also the one that answers the server's own:    *)
(* channel_close removes whatever session the connection has by then.      *)
CloseChannel(c, ch) ==
    /\ Ready(c) /\ Asks(c, ch)
    /\ chan' = [chan EXCEPT ![c][ch] = "closed"] /\ Remove(c)
    /\ UNCHANGED <<conn, handler, mailbox, screen, refresh, requests, faults>>

(* The client stops reading: the task of the connection hangs in a write. *)
Stall(c)  == Ready(c) /\ Fault /\ ConnBecomes(c, "stalled")
Resume(c) == conn[c] = "stalled" /\ ConnBecomes(c, "up") /\ UNCHANGED faults

(* The task of the connection ends; dropping HandlerState spawns DropTask. *)
Disconnect(c) ==
    /\ Connected(c) /\ handler[c] = Idle
    /\ conn' = [conn EXCEPT ![c] = "gone"]
    /\ mailbox' = [mailbox EXCEPT ![c] = <<>>]
    /\ UNCHANGED <<chan, sessions, available, handler, screen, refresh, requests,
                   faults>>

DropTaskMissing(c) ==         \* mutant of DropTask
    conn[c] = "gone" /\ ConnBecomes(c, "cleaned") /\ UNCHANGED faults

DropTask(c) ==
    /\ conn[c] = "gone"
    /\ conn' = [conn EXCEPT ![c] = "cleaned"]
    /\ Remove(c)
    /\ UNCHANGED <<chan, handler, mailbox, screen, refresh, requests, faults>>

-----------------------------------------------------------------------------
(* Requests.  Whatever channel they come on, they are about the session of *)
(* the connection; shell, window_change and keys do nothing without one.   *)

Typed(s) ==
    { [s EXCEPT !.selected = 0, !.matches = n] : n \in MatchCounts }

Moved(s, key) ==
    CASE key = "up"   -> [s EXCEPT !.selected = IF @ = 0 THEN 0 ELSE @ - 1]
      [] key = "down" -> [s EXCEPT !.selected = @ + 1]

(* A handler that renders: the page is composed from the session as the    *)
(* handler left it, and sent to the session's channel when the mailbox has *)
(* room; a handler that leaves then closes the channel it was asked on.    *)
Renders(c, s, after, on) ==
    /\ Ready(c) /\ sessions[c] # NoSession /\ Request
    /\ sessions' = [sessions EXCEPT ![c] = s]
    /\ \E view \in Bodies(s) :
          /\ Composed(view)
          /\ handler' = [handler EXCEPT
                           ![c] = [after |-> after, on |-> on, page |-> PageOf(s, view)]]
    /\ UNCHANGED <<conn, chan, available, mailbox, screen, refresh>>

Answers(c, s) == Renders(c, s, "stay", s.channel)

Held == {c \in Conns : sessions[c] # NoSession}

Shell(c) == c \in Held /\ Answers(c, sessions[c])   \* and window_change_request
Type(c)  == c \in Held /\ \E s \in Typed(sessions[c]) : Answers(c, s)
Arrow(c, key) == c \in Held /\ Answers(c, Moved(sessions[c], key))

Exec(c, ch) ==
    /\ Asks(c, ch)
    /\ \/ Renders(c, sessions[c], "leave", ch)
       \/ /\ Ready(c) /\ c \notin Held /\ Request /\ Close(c, ch)
          /\ UNCHANGED <<conn, sessions, available, handler, mailbox, screen, refresh,
                         faults>>

(* Without a session q is no request to leave; the "bye" goes to the       *)
(* channel it was typed on.                                                *)
Quit(c, ch) ==
    /\ Ready(c) /\ Asks(c, ch) /\ c \in Held /\ Request
    /\ handler' = [handler EXCEPT
                     ![c] = [after |-> "bye", on |-> ch,
                             page |-> [channel |-> ch, view |-> NoView]]]
    /\ UNCHANGED <<conn, chan, sessions, available, mailbox, screen, refresh, faults>>

Post(c, page) ==
    /\ Len(mailbox[c]) < Capacity
    /\ mailbox' = [mailbox EXCEPT ![c] = Append(@, page)]

LeavesAfterExec(c) == handler[c].after = "leave"   \* mutant of Leaves

(* Once they sent, exec and quit remove the session and close the channel. *)
Leaves(c) == handler[c].after \in {"leave", "bye"}

HandlerSend(c) ==
    /\ conn[c] = "up" /\ handler[c] # Idle
    /\ Post(c, handler[c].page)
    /\ IF Leaves(c)
       THEN Remove(c) /\ Close(c, handler[c].on)
       ELSE UNCHANGED <<sessions, available, chan>>
    /\ handler' = [handler EXCEPT ![c] = Idle]
    /\ UNCHANGED <<conn, screen, refresh, requests, faults>>

(* russh: between two handlers the task takes a page out of the mailbox;   *)
(* nothing is written to a channel that has been closed.                   *)
Deliver(c) ==
    /\ Ready(c) /\ mailbox[c] # <<>>
    /\ mailbox' = [mailbox EXCEPT ![c] = Tail(@)]
    /\ screen' = IF chan[c][Head(mailbox[c]).channel] = "open"
                 THEN [screen EXCEPT
                         ![c][Head(mailbox[c]).channel] = Head(mailbox[c]).view]
                 ELSE screen
    /\ UNCHANGED <<conn, chan, sessions, available, handler, refresh, requests, faults>>

-----------------------------------------------------------------------------
(* spawn_refresh_loop: sleep, list the ids, render them one at a time.     *)

RefreshedUntouched ==         \* mutant of Refreshed
    {c \in Conns : sessions[c] # NoSession /\ requests = 0}

Refreshed == {c \in Conns : sessions[c] # NoSession}

RefreshWake ==
    /\ refresh = [todo |-> {}, sending |-> Resting]
    /\ Brisk => \A c \in Conns : handler[c] = Idle /\ mailbox[c] = <<>>
    /\ refresh' = [refresh EXCEPT !.todo = Refreshed]
    /\ UNCHANGED <<conn, chan, sessions, available, handler, mailbox, screen,
                   requests, faults>>

RefreshRender(c) ==
    /\ c \in refresh.todo /\ refresh.sending = Resting
    /\ \/ /\ sessions[c] = NoSession
          /\ refresh' = [refresh EXCEPT !.todo = @ \ {c}]
          /\ UNCHANGED faults
       \/ /\ sessions[c] # NoSession
          /\ \E view \in Bodies(sessions[c]) :
                /\ Composed(view)
                /\ refresh' = [todo |-> refresh.todo \ {c},
                               sending |-> [after |-> "next", to |-> c,
                                            page |-> PageOf(sessions[c], view)]]
    /\ UNCHANGED <<conn, chan, sessions, available, handler, mailbox, screen, requests>>

WritableNow(c) == Connected(c) /\ Len(mailbox[c]) < Capacity   \* mutant of Writable

(* The write fails only when the task that owns the mailbox has ended. *)
Writable(c) == Connected(c)

RefreshSend ==
    /\ refresh.sending # Resting
    /\ LET c == refresh.sending.to
       IN  IF Writable(c)
           THEN Post(c, refresh.sending.page) /\ UNCHANGED <<sessions, available>>
           ELSE Remove(c) /\ UNCHANGED mailbox
    /\ refresh' = [refresh EXCEPT !.sending = Resting]
    /\ UNCHANGED <<conn, chan, handler, screen, requests, faults>>

-----------------------------------------------------------------------------

ClientStep(c) ==
    \/ Connect(c) \/ Stall(c) \/ Resume(c) \/ Disconnect(c)
    \/ \E ch \in Channels : \/ OpenSession(c, ch) \/ CloseChannel(c, ch)
                           \/ Exec(c, ch) \/ Quit(c, ch)
    \/ Shell(c) \/ Type(c)
    \/ \E key \in {"up", "down"} : Arrow(c, key)

Next == \E c \in Conns : \/ ClientStep(c)
                         \/ DropTask(c) \/ HandlerSend(c) \/ Deliver(c)
                         \/ RefreshRender(c)
        \/ RefreshWake \/ RefreshSend

(* The server's tasks run on; nothing is assumed of the clients. *)
Fairness ==
    /\ \A c \in Conns : /\ WF_vars(DropTask(c)) /\ WF_vars(HandlerSend(c))
                        /\ WF_vars(Deliver(c)) /\ WF_vars(RefreshRender(c))
    /\ WF_vars(RefreshWake) /\ WF_vars(RefreshSend)

Spec == Init /\ [][Next]_vars /\ Fairness

-----------------------------------------------------------------------------
(* Properties.                                                             *)

TypeOK ==
    /\ conn \in [Conns -> {"away", "up", "stalled", "gone", "cleaned"}]
    /\ chan \in [Conns -> [Channels -> {"new", "open", "closing", "closed"}]]
    /\ sessions \in [Conns -> Sessions \cup {NoSession}]
    /\ available \in 0 .. MaxSessions
    /\ handler \in [Conns -> [after : {"stay", "leave", "bye"}, on : Channels,
                              page : Pages] \cup {Idle}]
    /\ mailbox \in [Conns -> Seq(Pages)] /\ \A c \in Conns : Len(mailbox[c]) <= Capacity
    /\ screen \in [Conns -> [Channels -> Views]]
    /\ refresh \in [todo : SUBSET Conns,
                    sending : [after : {"next"}, to : Conns, page : Pages]
                                \cup {Resting}]
    /\ requests \in 0 .. MaxRequests /\ faults \in 0 .. MaxFaults

(* However a session ends (quit, exec, close, a failed write of the        *)
(* refresh loop, the drop of its connection, or being replaced by another  *)
(* channel), its permit returns exactly once.                              *)
PermitsAccounted == available + Cardinality(Held) = MaxSessions

(* Once the drop of a connection has run, nothing puts its session back:   *)
(* neither a handler nor a refresh that was under way.                     *)
NothingOutlivesTheDrop ==
    \A c \in Conns : conn[c] \in {"away", "cleaned"} => sessions[c] = NoSession

(* Clean-up is by connection id.  On a connection that opened one channel  *)
(* it never takes the session while the channel is open: not a refresh     *)
(* whose write failed, nor the end of an earlier handler.                  *)
OpenChannelsKeepTheirSession ==
    \A c \in Conns, ch \in Channels :
        (/\ Connected(c) /\ chan[c][ch] = "open"
         /\ \A other \in Channels \ {ch} : chan[c][other] = "new")
        => sessions[c] # NoSession

(* The task of a connection waits for its client, or for room in the       *)
(* mailbox that nobody else empties.                                       *)
Stuck(c) == \/ conn[c] = "stalled"
            \/ handler[c] # Idle /\ Len(mailbox[c]) = Capacity

(* A page composed before a key was pressed may be sent after the page     *)
(* that answers the key, but no screen stays wrong: the refresh loop       *)
(* reaches every session again, whatever other sessions do, unless one of  *)
(* them is stuck and the loop with it (render_session, spawn_refresh_loop).*)
ScreensCatchUp ==
    <>[](\A c \in Conns : ~Stuck(c)) =>
        \A c \in Conns :
            <>[](sessions[c] # NoSession /\ conn[c] = "up"
                   => screen[c][sessions[c].channel] = View(sessions[c]))

(* "q quits" (the help line of render_body): a client that asked to leave  *)
(* leaves and its permit returns, unless its handler waits for itself.     *)
QuitEnds ==
    \A c \in Conns :
        handler[c].after = "bye" ~> sessions[c] = NoSession \/ Stuck(c)
=============================================================================
