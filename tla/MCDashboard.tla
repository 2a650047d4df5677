---------------------------- MODULE MCDashboard ----------------------------
(***************************************************************************)
(* The page asks for "today" alone: no other range is needed.              *)
(***************************************************************************)
EXTENDS Dashboard

MCLookback == <<>>
=============================================================================
