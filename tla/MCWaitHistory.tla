--------------------------- MODULE MCWaitHistory ---------------------------
(***************************************************************************)
(* The ranges of the history for TLC: one shorter and one longer than what *)
(* is left of the day at most moments, as 1h and 24h are, and one over the *)
(* aggregates, as 7d is.                                                   *)
(***************************************************************************)
EXTENDS WaitHistory

MCLookback == [short |-> 5, long |-> 10, week |-> 12]
=============================================================================
