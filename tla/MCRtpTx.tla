------------------------------ MODULE MCRtpTx ------------------------------
EXTENDS RtpTx, TLC

Identifiers == Permutations(SSRC)

\* With twelve octets of header and four for each of at most two CSRCs: packets
\* with every remainder, of the largest size, and one octet larger.
Payloads == {0, 1, 2, 3, 5, 8, 9}
=============================================================================
