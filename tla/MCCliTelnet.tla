---------------------------- MODULE MCCliTelnet ----------------------------
(***************************************************************************)
(* Two runs of sizes: several connections that come and go and hardly      *)
(* write, and one connection that writes a lot.                            *)
(***************************************************************************)
EXTENDS CliTelnet, TLC

ConnSymmetry == Permutations(Conn)

=============================================================================
