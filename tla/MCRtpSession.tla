---------------------------- MODULE MCRtpSession ----------------------------
(***************************************************************************)
(* Instances of RtpSession for TLC.                                        *)
(***************************************************************************)
EXTENDS RtpSession, TLC

\* Entries other than self, and peers' addresses, are interchangeable.
Symmetry == Permutations(Slot \ {Self}) \cup Permutations(Addr \ {OwnAddr})
              \cup Permutations(SSRC)
=============================================================================
