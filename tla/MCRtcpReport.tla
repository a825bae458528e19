---------------------------- MODULE MCRtcpReport ----------------------------
EXTENDS RtcpReport, TLC

\* Room for everything, and every size at which one of the calls just fails.
BufLens == {27, 43, 46, 47, 71, 120}

PeerSymmetry == Permutations(Peer)
=============================================================================
