--------------------------- MODULE MCRtcpInterval ---------------------------
(***************************************************************************)
(* Small instances of RtcpInterval: a minimum interval of a few ticks, and *)
(* shares large enough for the member count to lengthen it.                *)
(***************************************************************************)
EXTENDS RtcpInterval
=============================================================================
