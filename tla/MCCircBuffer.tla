---------------------------- MODULE MCCircBuffer ----------------------------
(***************************************************************************)
(* Three bytes of memory and calls of up to four: every position at which  *)
(* data can wrap, every amount that fits exactly or is one too many.       *)
(***************************************************************************)
EXTENDS CircBuffer
=============================================================================
