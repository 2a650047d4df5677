------------------------- MODULE SshSessions_proofs -------------------------
(***************************************************************************)
(* What TLAPS proves about SshSessions, for any number of connections,     *)
(* channels, permits and pages in a mailbox: type correctness, that every  *)
(* permit is with a session or in the semaphore, and that clean-up takes   *)
(* only sessions whose connection or channel has ended.                    *)
(***************************************************************************)
EXTENDS SshSessions, FiniteSetTheorems, TLAPS

USE SshAssumption

(* The channels that sessions, handlers and clean-up refer to have been    *)
(* opened, and none is on a connection that has not begun.                 *)
ChannelsKnown == \A c \in Conns :
    /\ sessions[c] # NoSession => chan[c][sessions[c].channel] # "new"
    /\ handler[c] # Idle => chan[c][handler[c].on] # "new"
    /\ conn[c] = "away" => \A ch \in Channels : chan[c][ch] = "new"

IInv == /\ TypeOK /\ PermitsAccounted /\ ChannelsKnown
        /\ NothingOutlivesTheDrop /\ OpenChannelsKeepTheirSession


-----------------------------------------------------------------------------
(* The page of a session is a page, whether the API answered or not.       *)
LEMMA PageType ==
  ASSUME NEW s \in Sessions, NEW view \in Bodies(s)
  PROVE  PageOf(s, view) \in Pages /\ PageOf(s, view).channel = s.channel
<1>1. s.matches \in Nat /\ s.selected \in Nat /\ s.matches \in MatchCounts
  BY DEF Sessions
<1>2. Cursor(s) \in Nat BY <1>1 DEF Cursor
<1>3. View(s) \in Views BY <1>1, <1>2 DEF View, Views
<1>4. view \in Views BY <1>3 DEF Bodies, Views
<1>. QED BY <1>4 DEF PageOf, Pages, Sessions

(* Typing and the arrows leave a session on its channel.                   *)
LEMMA KeysType ==
  ASSUME NEW s \in Sessions
  PROVE  /\ \A t \in Typed(s) : t \in Sessions /\ t.channel = s.channel
         /\ \A key \in {"up", "down"} :
               Moved(s, key) \in Sessions /\ Moved(s, key).channel = s.channel
<1>1. /\ s.channel \in Channels /\ s.selected \in Nat /\ s.matches \in MatchCounts
      /\ s = [channel |-> s.channel, selected |-> s.selected, matches |-> s.matches]
  BY DEF Sessions
<1>2. ASSUME NEW t \in Typed(s) PROVE t \in Sessions /\ t.channel = s.channel
  <2>1. PICK n \in MatchCounts : t = [s EXCEPT !.selected = 0, !.matches = n]
    BY <1>2 DEF Typed
  <2>. QED BY <1>1, <2>1 DEF Sessions
<1>3. ASSUME NEW n \in Nat
      PROVE  /\ [s EXCEPT !.selected = n] \in Sessions
             /\ [s EXCEPT !.selected = n].channel = s.channel
  BY <1>1 DEF Sessions
<1>4. ASSUME NEW key \in {"up", "down"}
      PROVE  Moved(s, key) \in Sessions /\ Moved(s, key).channel = s.channel
  <2>1. CASE key = "down"
    <3>1. s.selected + 1 \in Nat BY <1>1
    <3>2. Moved(s, key) = [s EXCEPT !.selected = s.selected + 1] BY <2>1 DEF Moved
    <3>. QED BY <1>3, <3>1, <3>2
  <2>2. CASE key = "up"
    <3>. DEFINE n == IF s.selected = 0 THEN 0 ELSE s.selected - 1
    <3>1. n \in Nat BY <1>1
    <3>2. Moved(s, key) = [s EXCEPT !.selected = n] BY <2>2 DEF Moved
    <3>. HIDE DEF n
    <3>. QED BY <1>3, <3>1, <3>2
  <2>. QED BY <2>1, <2>2
<1>. QED BY <1>2, <1>4

(* What one session more or less means for the permits.                    *)
LEMMA HeldFinite ==
  ASSUME TypeOK PROVE IsFiniteSet(Held) /\ Cardinality(Held) \in Nat
<1>1. Held \subseteq Conns BY DEF Held
<1>. QED BY <1>1, FS_Subset, FS_CardinalityType

LEMMA OnePermit ==
  ASSUME TypeOK, PermitsAccounted, NEW c \in Conns,
         NEW s \in Sessions \cup {NoSession},
         sessions' = [sessions EXCEPT ![c] = s],
         available' = IF sessions[c] = NoSession
                      THEN IF s = NoSession THEN available ELSE available - 1
                      ELSE IF s = NoSession THEN available + 1 ELSE available,
         sessions[c] = NoSession /\ s # NoSession => available > 0
  PROVE  /\ PermitsAccounted'
         /\ available' \in 0 .. MaxSessions
         /\ sessions' \in [Conns -> Sessions \cup {NoSession}]
<1>1. /\ sessions' \in [Conns -> Sessions \cup {NoSession}]
      /\ \A d \in Conns : sessions'[d] = IF d = c THEN s ELSE sessions[d]
  BY DEF TypeOK
<1>2. available \in Nat BY DEF TypeOK
<1>3. IsFiniteSet(Held) /\ Cardinality(Held) \in Nat BY HeldFinite
<1>4. available + Cardinality(Held) = MaxSessions BY DEF PermitsAccounted
<1>5. CASE (sessions[c] = NoSession) <=> (s = NoSession)
  <2>1. Held' = Held BY <1>1, <1>5 DEF Held
  <2>. QED BY <1>1, <1>2, <1>3, <1>4, <1>5, <2>1 DEF PermitsAccounted
<1>6. CASE sessions[c] = NoSession /\ s # NoSession
  <2>1. Held' = Held \cup {c} /\ c \notin Held BY <1>1, <1>6 DEF Held
  <2>2. Cardinality(Held') = Cardinality(Held) + 1
    BY <1>3, <2>1, FS_AddElement
  <2>. QED BY <1>1, <1>2, <1>3, <1>4, <1>6, <2>2 DEF PermitsAccounted
<1>7. CASE sessions[c] # NoSession /\ s = NoSession
  <2>1. Held' = Held \ {c} /\ c \in Held BY <1>1, <1>7 DEF Held
  <2>2. Cardinality(Held') = Cardinality(Held) - 1
    BY <1>3, <2>1, FS_RemoveElement
  <2>3. IsFiniteSet(Held') BY <1>3, <2>1, FS_Subset
  <2>4. Cardinality(Held') \in Nat BY <2>3, FS_CardinalityType
  <2>. QED BY <1>1, <1>2, <1>3, <1>4, <1>7, <2>2, <2>4 DEF PermitsAccounted
<1>. QED BY <1>5, <1>6, <1>7

(* Removing a session, and leaving all of them alone.                      *)
LEMMA RemovePermits ==
  ASSUME TypeOK, PermitsAccounted, NEW c \in Conns, Remove(c)
  PROVE  /\ PermitsAccounted'
         /\ available' \in 0 .. MaxSessions
         /\ sessions' \in [Conns -> Sessions \cup {NoSession}]
BY OnePermit DEF Remove

LEMMA KeepPermits ==
  ASSUME TypeOK, PermitsAccounted, UNCHANGED <<sessions, available>>
  PROVE  /\ PermitsAccounted'
         /\ available' \in 0 .. MaxSessions
         /\ sessions' \in [Conns -> Sessions \cup {NoSession}]
BY DEF TypeOK, PermitsAccounted, Held

(* A handler that renders changes its session, but not whether it is one.  *)
LEMMA RendersInv ==
  ASSUME IInv, NEW c \in Conns, NEW s \in Sessions, NEW after \in {"stay", "leave"},
         NEW on \in Channels, chan[c][on] # "new", s.channel = sessions[c].channel,
         Renders(c, s, after, on)
  PROVE  IInv'
<1>1. sessions[c] # NoSession /\ sessions' = [sessions EXCEPT ![c] = s]
  BY DEF Renders
<1>2. PICK view \in Bodies(s) :
         /\ Composed(view)
         /\ handler' = [handler EXCEPT
                          ![c] = [after |-> after, on |-> on, page |-> PageOf(s, view)]]
  BY DEF Renders
<1>3. PageOf(s, view) \in Pages /\ PageOf(s, view).channel = s.channel BY PageType
<1>4. UNCHANGED <<conn, chan, available, mailbox, screen, refresh>> BY DEF Renders
<1>5. s # NoSession BY DEF Sessions
<1>6. /\ PermitsAccounted' /\ available' \in 0 .. MaxSessions
      /\ sessions' \in [Conns -> Sessions \cup {NoSession}]
  BY <1>1, <1>4, <1>5, OnePermit DEF IInv
<1>7. requests' \in 0 .. MaxRequests /\ faults' \in 0 .. MaxFaults
  BY <1>2 DEF Renders, Request, Composed, Fault, IInv, TypeOK
<1>8. [after |-> after, on |-> on, page |-> PageOf(s, view)]
         \in [after : {"stay", "leave", "bye"}, on : Channels, page : Pages]
  BY <1>3
<1>9. TypeOK' BY <1>2, <1>4, <1>6, <1>7, <1>8 DEF IInv, TypeOK
<1>10. \A d \in Conns : sessions'[d] = IF d = c THEN s ELSE sessions[d]
  BY <1>1 DEF IInv, TypeOK
<1>11. \A d \in Conns : handler'[d] = IF d = c
                          THEN [after |-> after, on |-> on, page |-> PageOf(s, view)]
                          ELSE handler[d]
  BY <1>2 DEF IInv, TypeOK
<1>12. chan[c][s.channel] # "new" BY <1>1 DEF IInv, ChannelsKnown
<1>13. ChannelsKnown' BY <1>3, <1>4, <1>10, <1>11, <1>12 DEF IInv, ChannelsKnown
<1>14. NothingOutlivesTheDrop'
  BY <1>1, <1>4, <1>10 DEF IInv, NothingOutlivesTheDrop
<1>15. OpenChannelsKeepTheirSession'
  BY <1>1, <1>4, <1>5, <1>10 DEF IInv, OpenChannelsKeepTheirSession, Connected
<1>. QED BY <1>6, <1>9, <1>13, <1>14, <1>15 DEF IInv

-----------------------------------------------------------------------------
LEMMA InitInv == Init => IInv
<1>. SUFFICES ASSUME Init PROVE IInv
  OBVIOUS
<1>1. TypeOK
  BY DEF Init, TypeOK, Views, Resting
<1>2. Held = {} BY DEF Init, Held
<1>3. PermitsAccounted BY <1>2, FS_EmptySet DEF Init, PermitsAccounted
<1>4. ChannelsKnown BY DEF Init, ChannelsKnown
<1>5. NothingOutlivesTheDrop BY DEF Init, NothingOutlivesTheDrop
<1>6. OpenChannelsKeepTheirSession
  BY DEF Init, OpenChannelsKeepTheirSession, Connected
<1>. QED BY <1>1, <1>3, <1>4, <1>5, <1>6 DEF IInv

(* The connection comes, stalls or goes on: its sessions are untouched.    *)
LEMMA ConnInv ==
  ASSUME IInv, NEW c \in Conns, Connect(c) \/ Stall(c) \/ Resume(c) \/ Disconnect(c)
  PROVE  IInv'
<1>. DEFINE states == {"away", "up", "stalled", "gone", "cleaned"}
<1>1. PICK state \in {"up", "stalled", "gone"} :
         /\ conn' = [conn EXCEPT ![c] = state]
         /\ state # "gone" => conn[c] = "away" \/ Connected(c)
         /\ state = "gone" => Connected(c)
  BY DEF Connect, Stall, Resume, Disconnect, ConnBecomes, Connected, Ready
<1>2. UNCHANGED <<chan, sessions, available, handler, screen, refresh, requests>>
  BY DEF Connect, Stall, Resume, Disconnect, ConnBecomes
<1>3. faults' \in 0 .. MaxFaults
  BY DEF Connect, Stall, Resume, Disconnect, Fault, IInv, TypeOK
<1>4. mailbox' \in [Conns -> Seq(Pages)] /\ \A d \in Conns : Len(mailbox'[d]) <= Capacity
  <2>1. CASE UNCHANGED mailbox BY <2>1 DEF IInv, TypeOK
  <2>2. CASE mailbox' = [mailbox EXCEPT ![c] = <<>>]
    <3>1. <<>> \in Seq(Pages) /\ Len(<<>>) = 0 OBVIOUS
    <3>. QED BY <2>2, <3>1 DEF IInv, TypeOK
  <2>. QED BY <2>1, <2>2 DEF Connect, Stall, Resume, Disconnect, ConnBecomes
<1>5. \A d \in Conns : conn'[d] = IF d = c THEN state ELSE conn[d]
  BY <1>1 DEF IInv, TypeOK
<1>6. TypeOK' BY <1>1, <1>2, <1>3, <1>4 DEF IInv, TypeOK
<1>7. PermitsAccounted' BY <1>2, KeepPermits DEF IInv
<1>8. ChannelsKnown' BY <1>2, <1>5 DEF IInv, ChannelsKnown
<1>9. NothingOutlivesTheDrop' BY <1>2, <1>5 DEF IInv, NothingOutlivesTheDrop
<1>10. OpenChannelsKeepTheirSession'
  BY <1>1, <1>2, <1>5
  DEF IInv, OpenChannelsKeepTheirSession, Connected, ChannelsKnown
<1>. QED BY <1>6, <1>7, <1>8, <1>9, <1>10 DEF IInv

LEMMA OpenInv ==
  ASSUME IInv, NEW c \in Conns, NEW ch \in Channels, OpenSession(c, ch) PROVE IInv'
<1>1. PICK n \in MatchCounts :
         sessions' = [sessions EXCEPT ![c] = [channel |-> ch, selected |-> 0, matches |-> n]]
  BY DEF OpenSession
<1>. DEFINE s == [channel |-> ch, selected |-> 0, matches |-> n]
<1>2. s \in Sessions /\ s # NoSession /\ s.channel = ch BY DEF Sessions
<1>3. /\ conn[c] = "up" /\ handler[c] = Idle /\ available > 0
      /\ chan' = [chan EXCEPT ![c][ch] = "open"]
      /\ UNCHANGED <<conn, handler, mailbox, screen, refresh, faults>>
  BY DEF OpenSession, Ready
<1>3a. requests' \in 0 .. MaxRequests BY DEF OpenSession, Request, IInv, TypeOK
<1>. HIDE DEF s
<1>4. /\ PermitsAccounted' /\ available' \in 0 .. MaxSessions
      /\ sessions' \in [Conns -> Sessions \cup {NoSession}]
  <2>1. available' = IF sessions[c] = NoSession THEN available - 1 ELSE available
    BY DEF OpenSession, AfterOpen
  <2>. QED BY <1>1, <1>2, <1>3, <2>1, OnePermit DEF IInv, s
<1>5. TypeOK' BY <1>3, <1>3a, <1>4 DEF IInv, TypeOK
<1>6. \A d \in Conns : sessions'[d] = IF d = c THEN s ELSE sessions[d]
  BY <1>1 DEF IInv, TypeOK, s
<1>7. \A d \in Conns, x \in Channels :
        chan'[d][x] = IF d = c /\ x = ch THEN "open" ELSE chan[d][x]
  BY <1>3 DEF IInv, TypeOK
<1>8. \A d \in Conns : /\ sessions[d] # NoSession => sessions[d].channel \in Channels
                       /\ handler[d] # Idle => handler[d].on \in Channels
  BY DEF IInv, TypeOK, Sessions
<1>9. ChannelsKnown' BY <1>2, <1>3, <1>6, <1>7, <1>8 DEF IInv, ChannelsKnown
<1>10. NothingOutlivesTheDrop' BY <1>3, <1>6 DEF IInv, NothingOutlivesTheDrop
<1>11. OpenChannelsKeepTheirSession'
  BY <1>2, <1>3, <1>6, <1>7 DEF IInv, OpenChannelsKeepTheirSession, Connected
<1>. QED BY <1>4, <1>5, <1>9, <1>10, <1>11 DEF IInv

(* A session is removed as a channel of its connection closes, by the close *)
(* of the client, the end of a handler, or an exec that found no session.  *)
LEMMA RemoveAndClose ==
  ASSUME IInv, NEW c \in Conns, NEW ch \in Channels, NEW state \in {"closing", "closed"},
         Remove(c), chan' = [chan EXCEPT ![c][ch] = state],
         chan[c][ch] # "new", conn[c] = "up",
         UNCHANGED <<conn, screen, refresh, faults>>, requests' \in 0 .. MaxRequests,
         handler' \in {handler, [handler EXCEPT ![c] = Idle]},
         mailbox' \in [Conns -> Seq(Pages)],
         \A d \in Conns : Len(mailbox'[d]) <= Capacity
  PROVE  IInv'
<1>1. /\ PermitsAccounted' /\ available' \in 0 .. MaxSessions
      /\ sessions' \in [Conns -> Sessions \cup {NoSession}]
  BY RemovePermits DEF IInv
<1>3. handler' \in [Conns -> [after : {"stay", "leave", "bye"}, on : Channels,
                               page : Pages] \cup {Idle}]
  BY DEF IInv, TypeOK
<1>4. TypeOK' BY <1>1, <1>3 DEF IInv, TypeOK
<1>5. \A d \in Conns : sessions'[d] = IF d = c THEN NoSession ELSE sessions[d]
  BY DEF Remove, IInv, TypeOK
<1>6. \A d \in Conns, x \in Channels :
        chan'[d][x] = IF d = c /\ x = ch THEN state ELSE chan[d][x]
  BY DEF IInv, TypeOK
<1>7. \A d \in Conns : handler'[d] = handler[d] \/ handler'[d] = Idle
  BY DEF IInv, TypeOK
<1>8. \A d \in Conns : /\ sessions[d] # NoSession => sessions[d].channel \in Channels
                       /\ handler[d] # Idle => handler[d].on \in Channels
  BY DEF IInv, TypeOK, Sessions
<1>9. ChannelsKnown' BY <1>5, <1>6, <1>7, <1>8 DEF IInv, ChannelsKnown
<1>10. NothingOutlivesTheDrop' BY <1>5 DEF IInv, NothingOutlivesTheDrop
<1>11. OpenChannelsKeepTheirSession'
  <2>. SUFFICES ASSUME NEW d \in Conns, NEW x \in Channels,
                       Connected(d)', chan'[d][x] = "open",
                       \A other \in Channels \ {x} : chan'[d][other] = "new"
                PROVE  sessions'[d] # NoSession
    BY DEF OpenChannelsKeepTheirSession
  <2>1. d # c BY <1>6
  <2>2. /\ Connected(d) /\ sessions'[d] = sessions[d]
        /\ \A y \in Channels : chan'[d][y] = chan[d][y]
    BY <1>5, <1>6, <2>1 DEF Connected
  <2>. QED BY <2>2 DEF IInv, OpenChannelsKeepTheirSession
<1>. QED BY <1>1, <1>4, <1>9, <1>10, <1>11 DEF IInv

LEMMA CloseChannelInv ==
  ASSUME IInv, NEW c \in Conns, NEW ch \in Channels, CloseChannel(c, ch) PROVE IInv'
<1>1. /\ Remove(c) /\ chan' = [chan EXCEPT ![c][ch] = "closed"]
      /\ chan[c][ch] # "new" /\ conn[c] = "up"
      /\ UNCHANGED <<conn, handler, mailbox, screen, refresh, requests, faults>>
  BY DEF CloseChannel, Asks, Ready
<1>2. mailbox' \in [Conns -> Seq(Pages)] /\ \A d \in Conns : Len(mailbox'[d]) <= Capacity
  BY <1>1 DEF IInv, TypeOK
<1>3. requests' \in 0 .. MaxRequests BY <1>1 DEF IInv, TypeOK
<1>. QED BY <1>1, <1>2, <1>3, RemoveAndClose

(* The end of a connection takes its session along.                        *)
LEMMA DropTaskInv ==
  ASSUME IInv, NEW c \in Conns, DropTask(c) PROVE IInv'
<1>1. /\ PermitsAccounted' /\ available' \in 0 .. MaxSessions
      /\ sessions' \in [Conns -> Sessions \cup {NoSession}]
  BY RemovePermits DEF IInv, DropTask
<1>2. /\ conn[c] = "gone" /\ conn' = [conn EXCEPT ![c] = "cleaned"] /\ Remove(c)
      /\ UNCHANGED <<chan, handler, mailbox, screen, refresh, requests, faults>>
  BY DEF DropTask
<1>3. TypeOK' BY <1>1, <1>2 DEF IInv, TypeOK
<1>4. \A d \in Conns : /\ sessions'[d] = IF d = c THEN NoSession ELSE sessions[d]
                       /\ conn'[d] = IF d = c THEN "cleaned" ELSE conn[d]
  BY <1>2 DEF Remove, IInv, TypeOK
<1>5. ChannelsKnown' BY <1>2, <1>4 DEF IInv, ChannelsKnown
<1>6. NothingOutlivesTheDrop' BY <1>4 DEF IInv, NothingOutlivesTheDrop
<1>7. OpenChannelsKeepTheirSession'
  BY <1>2, <1>4 DEF IInv, OpenChannelsKeepTheirSession, Connected
<1>. QED BY <1>1, <1>3, <1>5, <1>6, <1>7 DEF IInv

-----------------------------------------------------------------------------
(* A page more in a mailbox that has room is a mailbox.                    *)
LEMMA PostType ==
  ASSUME TypeOK, NEW c \in Conns, NEW page \in Pages, Post(c, page)
  PROVE  /\ mailbox' \in [Conns -> Seq(Pages)]
         /\ \A d \in Conns : Len(mailbox'[d]) <= Capacity
<1>1. /\ mailbox[c] \in Seq(Pages) /\ Len(mailbox[c]) < Capacity
      /\ mailbox' = [mailbox EXCEPT ![c] = Append(mailbox[c], page)]
  BY DEF Post, TypeOK
<1>2. /\ Append(mailbox[c], page) \in Seq(Pages)
      /\ Len(Append(mailbox[c], page)) = Len(mailbox[c]) + 1
      /\ Len(mailbox[c]) \in Nat
  BY <1>1
<1>. QED BY <1>1, <1>2 DEF TypeOK

(* A step that touches neither sessions nor channels nor connections.      *)
LEMMA SameSessions ==
  ASSUME IInv, TypeOK', UNCHANGED <<conn, chan, sessions, available>>,
         \A c \in Conns : handler'[c] # Idle =>
            chan[c][handler'[c].on] # "new"
  PROVE  IInv'
<1>1. PermitsAccounted' BY KeepPermits DEF IInv
<1>. QED BY <1>1 DEF IInv, ChannelsKnown, NothingOutlivesTheDrop,
                     OpenChannelsKeepTheirSession, Connected

LEMMA QuitInv ==
  ASSUME IInv, NEW c \in Conns, NEW ch \in Channels, Quit(c, ch) PROVE IInv'
<1>. DEFINE bye == [after |-> "bye", on |-> ch,
                    page |-> [channel |-> ch, view |-> NoView]]
<1>1. /\ handler' = [handler EXCEPT ![c] = bye]
      /\ UNCHANGED <<conn, chan, sessions, available, mailbox, screen, refresh, faults>>
      /\ chan[c][ch] # "new"
  BY DEF Quit, Asks
<1>2. /\ bye \in [after : {"stay", "leave", "bye"}, on : Channels, page : Pages]
      /\ bye.on = ch
  BY DEF Pages, Views
<1>3. requests' \in 0 .. MaxRequests BY DEF Quit, Request, IInv, TypeOK
<1>. HIDE DEF bye
<1>4. TypeOK' BY <1>1, <1>2, <1>3 DEF IInv, TypeOK
<1>5. \A d \in Conns : handler'[d] = IF d = c THEN bye ELSE handler[d]
  BY <1>1 DEF IInv, TypeOK
<1>. QED BY <1>1, <1>2, <1>4, <1>5, SameSessions DEF IInv, ChannelsKnown

LEMMA HandlerSendInv ==
  ASSUME IInv, NEW c \in Conns, HandlerSend(c) PROVE IInv'
<1>1. /\ conn[c] = "up" /\ handler[c] # Idle /\ Post(c, handler[c].page)
      /\ handler' = [handler EXCEPT ![c] = Idle]
      /\ UNCHANGED <<conn, screen, refresh, requests, faults>>
  BY DEF HandlerSend
<1>2. handler[c].page \in Pages /\ handler[c].on \in Channels
  BY <1>1 DEF IInv, TypeOK
<1>3. mailbox' \in [Conns -> Seq(Pages)] /\ \A d \in Conns : Len(mailbox'[d]) <= Capacity
  BY <1>1, <1>2, PostType DEF IInv
<1>4. CASE Leaves(c)
  <2>1. Remove(c) /\ chan' = [chan EXCEPT ![c][handler[c].on] = "closing"]
    BY <1>4 DEF HandlerSend, Close
  <2>2. chan[c][handler[c].on] # "new" BY <1>1 DEF IInv, ChannelsKnown
  <2>3. requests' \in 0 .. MaxRequests BY <1>1 DEF IInv, TypeOK
  <2>. QED BY <1>1, <1>2, <1>3, <2>1, <2>2, <2>3, RemoveAndClose
<1>5. CASE ~Leaves(c)
  <2>1. UNCHANGED <<sessions, available, chan>> BY <1>5 DEF HandlerSend
  <2>2. \A d \in Conns : handler'[d] = handler[d] \/ handler'[d] = Idle
    BY <1>1 DEF IInv, TypeOK
  <2>3. TypeOK' BY <1>1, <1>3, <2>1 DEF IInv, TypeOK
  <2>. QED BY <1>1, <2>1, <2>2, <2>3, SameSessions DEF IInv, ChannelsKnown
<1>. QED BY <1>4, <1>5

LEMMA DeliverInv ==
  ASSUME IInv, NEW c \in Conns, Deliver(c) PROVE IInv'
<1>1. /\ mailbox[c] \in Seq(Pages) /\ mailbox[c] # <<>> /\ Len(mailbox[c]) <= Capacity
      /\ mailbox' = [mailbox EXCEPT ![c] = Tail(mailbox[c])]
      /\ UNCHANGED <<conn, chan, sessions, available, handler, refresh, requests, faults>>
  BY DEF Deliver, IInv, TypeOK
<1>2. /\ Tail(mailbox[c]) \in Seq(Pages) /\ Len(Tail(mailbox[c])) = Len(mailbox[c]) - 1
      /\ Len(mailbox[c]) \in Nat
  BY <1>1
<1>3. mailbox' \in [Conns -> Seq(Pages)] /\ \A d \in Conns : Len(mailbox'[d]) <= Capacity
  BY <1>1, <1>2 DEF IInv, TypeOK
<1>4. screen' \in [Conns -> [Channels -> Views]]
  <2>1. Head(mailbox[c]) \in Pages BY <1>1
  <2>2. Head(mailbox[c]).view \in Views BY <2>1 DEF Pages
  <2>3. CASE UNCHANGED screen BY <2>3 DEF IInv, TypeOK
  <2>4. CASE screen' = [screen EXCEPT ![c][Head(mailbox[c]).channel] = Head(mailbox[c]).view]
    BY <2>2, <2>4 DEF IInv, TypeOK
  <2>. QED BY <2>3, <2>4 DEF Deliver
<1>5. TypeOK' BY <1>1, <1>3, <1>4 DEF IInv, TypeOK
<1>. QED BY <1>1, <1>5, SameSessions DEF IInv, ChannelsKnown

-----------------------------------------------------------------------------
(* The refresh loop.                                                       *)
LEMMA RefreshWakeInv ==
  ASSUME IInv, RefreshWake PROVE IInv'
<1>1. /\ refresh' = [refresh EXCEPT !.todo = Refreshed]
      /\ UNCHANGED <<conn, chan, sessions, available, handler, mailbox, screen,
                     requests, faults>>
  BY DEF RefreshWake
<1>2. Refreshed \subseteq Conns BY DEF Refreshed
<1>3. TypeOK' BY <1>1, <1>2 DEF IInv, TypeOK
<1>. QED BY <1>1, <1>3, SameSessions DEF IInv, ChannelsKnown

LEMMA RefreshRenderInv ==
  ASSUME IInv, NEW c \in Conns, RefreshRender(c) PROVE IInv'
<1>1. UNCHANGED <<conn, chan, sessions, available, handler, mailbox, screen, requests>>
  BY DEF RefreshRender
<1>2. CASE sessions[c] = NoSession
  <2>1. refresh' = [refresh EXCEPT !.todo = @ \ {c}] /\ UNCHANGED faults
    BY <1>2 DEF RefreshRender
  <2>2. TypeOK' BY <1>1, <2>1 DEF IInv, TypeOK
  <2>. QED BY <1>1, <2>2, SameSessions DEF IInv, ChannelsKnown
<1>3. CASE sessions[c] # NoSession
  <2>1. sessions[c] \in Sessions BY <1>3 DEF IInv, TypeOK
  <2>2. PICK view \in Bodies(sessions[c]) :
           /\ Composed(view)
           /\ refresh' = [todo |-> refresh.todo \ {c},
                          sending |-> [after |-> "next", to |-> c,
                                       page |-> PageOf(sessions[c], view)]]
    BY <1>3 DEF RefreshRender
  <2>3. PageOf(sessions[c], view) \in Pages BY <2>1, PageType
  <2>4. faults' \in 0 .. MaxFaults BY <2>2 DEF Composed, Fault, IInv, TypeOK
  <2>5. TypeOK' BY <1>1, <2>2, <2>3, <2>4 DEF IInv, TypeOK
  <2>. QED BY <1>1, <2>5, SameSessions DEF IInv, ChannelsKnown
<1>. QED BY <1>2, <1>3

(* A write that fails removes the session of a connection that has ended.  *)
LEMMA RefreshSendInv ==
  ASSUME IInv, RefreshSend PROVE IInv'
<1>. DEFINE c == refresh.sending.to
<1>1. /\ c \in Conns /\ refresh.sending.page \in Pages
      /\ refresh' = [refresh EXCEPT !.sending = Resting]
      /\ UNCHANGED <<conn, chan, handler, screen, requests, faults>>
  BY DEF RefreshSend, IInv, TypeOK
<1>2. refresh' \in [todo : SUBSET Conns,
                    sending : [after : {"next"}, to : Conns, page : Pages] \cup {Resting}]
  BY <1>1 DEF IInv, TypeOK
<1>3. CASE Writable(c)
  <2>1. Post(c, refresh.sending.page) /\ UNCHANGED <<sessions, available>>
    BY <1>3 DEF RefreshSend
  <2>2. mailbox' \in [Conns -> Seq(Pages)] /\ \A d \in Conns : Len(mailbox'[d]) <= Capacity
    BY <1>1, <2>1, PostType DEF IInv
  <2>3. TypeOK' BY <1>1, <1>2, <2>1, <2>2 DEF IInv, TypeOK
  <2>. QED BY <1>1, <2>1, <2>3, SameSessions DEF IInv, ChannelsKnown
<1>4. CASE ~Writable(c)
  <2>1. Remove(c) /\ UNCHANGED mailbox BY <1>4 DEF RefreshSend
  <2>2. ~Connected(c) BY <1>4 DEF Writable
  <2>. HIDE DEF c
  <2>3. /\ PermitsAccounted' /\ available' \in 0 .. MaxSessions
        /\ sessions' \in [Conns -> Sessions \cup {NoSession}]
    BY <1>1, <2>1, RemovePermits DEF IInv
  <2>4. TypeOK' BY <1>1, <1>2, <2>1, <2>3 DEF IInv, TypeOK
  <2>5. \A d \in Conns : sessions'[d] = IF d = c THEN NoSession ELSE sessions[d]
    BY <2>1 DEF Remove, IInv, TypeOK
  <2>6. ChannelsKnown' BY <1>1, <2>5 DEF IInv, ChannelsKnown
  <2>7. NothingOutlivesTheDrop' BY <1>1, <2>5 DEF IInv, NothingOutlivesTheDrop
  <2>8. OpenChannelsKeepTheirSession'
    BY <1>1, <2>2, <2>5 DEF IInv, OpenChannelsKeepTheirSession, Connected
  <2>. QED BY <2>3, <2>4, <2>6, <2>7, <2>8 DEF IInv
<1>. QED BY <1>3, <1>4

-----------------------------------------------------------------------------
LEMMA RequestInv ==
  ASSUME IInv, NEW c \in Conns,
         Shell(c) \/ Type(c) \/ \E key \in {"up", "down"} : Arrow(c, key)
  PROVE  IInv'
<1>1. sessions[c] # NoSession
  BY DEF Shell, Type, Arrow, Held
<1>2. /\ sessions[c] \in Sessions /\ sessions[c].channel \in Channels
      /\ chan[c][sessions[c].channel] # "new"
  BY <1>1 DEF IInv, TypeOK, Sessions, ChannelsKnown
<1>3. ASSUME NEW s \in Sessions, s.channel = sessions[c].channel, Answers(c, s)
      PROVE  IInv'
  BY <1>2, <1>3, RendersInv DEF Answers
<1>4. CASE Shell(c) BY <1>2, <1>3, <1>4 DEF Shell
<1>5. CASE Type(c)
  <2>1. PICK s \in Typed(sessions[c]) : Answers(c, s) BY <1>5 DEF Type
  <2>2. s \in Sessions /\ s.channel = sessions[c].channel BY <1>2, KeysType
  <2>. QED BY <1>3, <2>1, <2>2
<1>6. ASSUME NEW key \in {"up", "down"}, Arrow(c, key) PROVE IInv'
  <2>. DEFINE s == Moved(sessions[c], key)
  <2>1. s \in Sessions /\ s.channel = sessions[c].channel BY <1>2, KeysType
  <2>2. Answers(c, s) BY <1>6 DEF Arrow
  <2>. HIDE DEF s
  <2>. QED BY <1>3, <2>1, <2>2
<1>. QED BY <1>4, <1>5, <1>6

(* An exec that finds no session closes its channel and removes nothing.   *)
LEMMA ExecInv ==
  ASSUME IInv, NEW c \in Conns, NEW ch \in Channels, Exec(c, ch) PROVE IInv'
<1>1. chan[c][ch] # "new" BY DEF Exec, Asks
<1>2. CASE Renders(c, sessions[c], "leave", ch)
  <2>1. sessions[c] # NoSession BY <1>2 DEF Renders
  <2>2. sessions[c] \in Sessions BY <2>1 DEF IInv, TypeOK
  <2>. QED BY <1>1, <1>2, <2>2, RendersInv
<1>3. CASE ~Renders(c, sessions[c], "leave", ch)
  <2>1. /\ conn[c] = "up" /\ sessions[c] = NoSession /\ Request /\ Close(c, ch)
        /\ UNCHANGED <<conn, sessions, available, handler, mailbox, screen, refresh,
                       faults>>
    BY <1>3 DEF Exec, Ready, Held
  <2>2. requests' \in 0 .. MaxRequests BY <2>1 DEF Request, IInv, TypeOK
  <2>3. Remove(c)
    <3>1. sessions = [sessions EXCEPT ![c] = NoSession] BY <2>1 DEF IInv, TypeOK
    <3>. QED BY <2>1, <3>1 DEF Remove
  <2>4. mailbox' \in [Conns -> Seq(Pages)] /\ \A d \in Conns : Len(mailbox'[d]) <= Capacity
    BY <2>1 DEF IInv, TypeOK
  <2>. QED BY <1>1, <2>1, <2>2, <2>3, <2>4, RemoveAndClose DEF Close
<1>. QED BY <1>2, <1>3

LEMMA NextInv == IInv /\ [Next]_vars => IInv'
<1>. SUFFICES ASSUME IInv, [Next]_vars PROVE IInv'
  OBVIOUS
<1>1. ASSUME NEW c \in Conns, ClientStep(c) PROVE IInv'
  BY <1>1, ConnInv, OpenInv, CloseChannelInv, RequestInv, ExecInv, QuitInv
  DEF ClientStep
<1>2. ASSUME NEW c \in Conns,
             DropTask(c) \/ HandlerSend(c) \/ Deliver(c) \/ RefreshRender(c)
      PROVE  IInv'
  BY <1>2, DropTaskInv, HandlerSendInv, DeliverInv, RefreshRenderInv
<1>3. CASE RefreshWake BY <1>3, RefreshWakeInv
<1>4. CASE RefreshSend BY <1>4, RefreshSendInv
<1>5. CASE UNCHANGED vars
  <2>1. TypeOK' BY <1>5 DEF vars, IInv, TypeOK
  <2>. QED BY <1>5, <2>1, SameSessions DEF vars, IInv, ChannelsKnown
<1>. QED BY <1>1, <1>2, <1>3, <1>4, <1>5 DEF Next

THEOREM Invariance == Spec => []IInv
BY InitInv, NextInv, PTL DEF Spec

(* Every reachable state is type correct; in particular there are never    *)
(* more permits than at the start, and no mailbox overflows.               *)
THEOREM TypeCorrect == Spec => []TypeOK
<1>1. IInv => TypeOK BY DEF IInv
<1>. QED BY <1>1, Invariance, PTL

(* Permits come back exactly once, on every way a session can end.         *)
THEOREM PermitsAreAccounted == Spec => []PermitsAccounted
<1>1. IInv => PermitsAccounted BY DEF IInv
<1>. QED BY <1>1, Invariance, PTL

(* A connection whose drop has run leaves no session behind.               *)
THEOREM DropIsFinal == Spec => []NothingOutlivesTheDrop
<1>1. IInv => NothingOutlivesTheDrop BY DEF IInv
<1>. QED BY <1>1, Invariance, PTL

(* Clean-up by connection id takes no session whose only channel is open.  *)
THEOREM CleanUpTakesTheDead == Spec => []OpenChannelsKeepTheirSession
<1>1. IInv => OpenChannelsKeepTheirSession BY DEF IInv
<1>. QED BY <1>1, Invariance, PTL
=============================================================================
