----------------------------- MODULE LiveStatus -----------------------------
(***************************************************************************)
(* What the live status feed promises a viewer of one location, whatever   *)
(* carries the news: a view never shows a status that was not committed,   *)
(* and never steps back to an older one, reconnections included.           *)
(***************************************************************************)
EXTENDS Naturals

CONSTANT Viewers

VARIABLES
    version,   \* commits to the location's current status so far
    shown      \* the version each viewer has on the screen, 0 for none

Init == /\ version = 0
        /\ shown = [v \in Viewers |-> 0]

Commit == version' = version + 1 /\ UNCHANGED shown

Show(v) == /\ \E n \in shown[v] .. version : shown' = [shown EXCEPT ![v] = n]
           /\ UNCHANGED version

Next == Commit \/ \E v \in Viewers : Show(v)

Spec == Init /\ [][Next]_<<version, shown>>
=============================================================================
