----------------------------- MODULE MCSoftTimer -----------------------------
(***************************************************************************)
(* A wheel of two buckets whose tick counter wraps after six ticks, so     *)
(* that a timer may wait more than two turns of the wheel.                 *)
(***************************************************************************)
EXTENDS SoftTimer
=============================================================================
