------------------------------- MODULE RtpTx -------------------------------
(***************************************************************************)
(* RTP packets from rtp_tx of one session to rtp_rx of another: sizes,     *)
(* padding, sequence numbers and the packet count of the sender's reports  *)
(* on one side, the header check and the reception counts on the other.    *)
(* The network between them is perfect, so that nothing is lost but what   *)
(* the sender does not send; RtpSource has the networks that lose packets. *)
(* Packets of other programs may be malformed in any way.                  *)
(*                                                                         *)
(* A packet is what its header says, its length and its last octet.  What  *)
(* rtp_tx does to members, senders and timers is in RtpSession.            *)
(***************************************************************************)
EXTENDS Integers, Sequences

CONSTANTS
    RTP_SEQ_MOD, MAX_DROPOUT, MAX_MISORDER, MIN_SEQUENTIAL, WORD, LOST_MOD,
                       \* as in RtpSource
    MAX_RTP_PKT_SIZE,  \* RTP_CONFIG_MAX_RTP_PKT_SIZE
    CC_MOD,            \* the field cc of a header is an integer modulo CC_MOD
    Payload, Octet,    \* lengths of payloads, which leave room for a header in
                       \* 32 bits; values of their last octets
    NCsrc,             \* numbers of CSRCs that rtp_tx is given
    SSRC, NoOne,       \* identifiers of the sending session; somebody else's
    PACKETS,           \* bound: packets given to rtp_tx under one identifier
    FLIGHT             \* bound: packets on their way

ASSUME TxAssumption ==
    /\ {RTP_SEQ_MOD, MAX_DROPOUT, MAX_MISORDER, WORD, LOST_MOD,
        CC_MOD, MAX_RTP_PKT_SIZE} \subseteq Nat \ {0}
    /\ MIN_SEQUENTIAL \in 2 .. RTP_SEQ_MOD
    /\ 1 < MAX_DROPOUT /\ MAX_DROPOUT + MAX_MISORDER <= RTP_SEQ_MOD
    /\ WORD % RTP_SEQ_MOD = 0 /\ RTP_SEQ_MOD + 1 < WORD /\ MAX_RTP_PKT_SIZE < WORD
    /\ Payload \cup NCsrc \subseteq Nat /\ Octet \subseteq 0 .. 255
    /\ NoOne \notin SSRC
    /\ {PACKETS, FLIGHT} \subseteq Nat

VARIABLES
    align_by_4,     \* config.align_by_4
    seq, ssrc,      \* sess->seq, sess->self->ssrc
    tx_pkt_count,   \* and tx_octet_count, which goes with it
    left,           \* packets that left under this identifier (not in the code)
    wire,           \* packets under way
    from, src       \* the receiver's member and its rtp_source_t

sender == <<align_by_4, seq, ssrc, tx_pkt_count, left>>
vars   == <<sender, wire, from, src>>

R == INSTANCE RtpSource WITH
        s <- src, LAST <- 0, ACCEPTED <- 1, sent <- 0, since <- 0, trail <- 0

RTP_HDR_SIZE(ncsrc) == 12 + 4 * ncsrc

RTP_PKT_SIZE(ncsrc, payload_len) == RTP_HDR_SIZE(ncsrc) + payload_len

Init ==
    /\ align_by_4 \in BOOLEAN
    /\ seq \in 0 .. RTP_SEQ_MOD - 1 /\ ssrc \in SSRC
    /\ tx_pkt_count = 0 /\ left = 0
    /\ wire = <<>> /\ from = NoOne
    /\ src = [base_seq |-> 0, max_seq |-> 0, bad_seq |-> 0, cycles |-> 0, received |-> 0,
              received_prior |-> 0, expected_prior |-> 0, probation |-> 0]

-----------------------------------------------------------------------------
(***************************************************************************)
(* rtp_tx.                                                                 *)
(***************************************************************************)
\* Mutant: as many octets as there are too many.
PadByRest(size) == IF align_by_4 THEN size % 4 ELSE 0

Padding(size) == IF align_by_4 /\ size % 4 # 0 THEN 4 - (size % 4) ELSE 0

\* The second check asks for four octets, however few are needed.
TooBig(size) ==
    \/ size > MAX_RTP_PKT_SIZE
    \/ Padding(size) > 0 /\ size + 4 > MAX_RTP_PKT_SIZE

\* put is what rtp_tx was given (not in the packet).  The header has no room for
\* a count of CC_MOD or more, the packet has all the CSRCs.
Packet(payload_len, ncsrc, octet) ==
    LET size == RTP_PKT_SIZE(ncsrc, payload_len)
        pad  == Padding(size)
    IN  [version |-> 2, p |-> pad > 0, x |-> FALSE, cc |-> ncsrc % CC_MOD, pt |-> "config",
         seq |-> seq, ssrc |-> ssrc, len |-> size + pad,
         last |-> IF pad > 0 THEN pad ELSE octet,
         put |-> [payload_len |-> payload_len, ncsrc |-> ncsrc]]

\* Mutant: a packet that is not sent takes a sequence number, too.
TxNumbersAll(payload_len, ncsrc, octet) ==
    /\ tx_pkt_count' = tx_pkt_count + 1
    /\ seq' = (seq + 1) % RTP_SEQ_MOD
    /\ IF TooBig(RTP_PKT_SIZE(ncsrc, payload_len)) THEN UNCHANGED <<left, wire>>
       ELSE wire' = Append(wire, Packet(payload_len, ncsrc, octet)) /\ left' = left + 1

\* The count goes up before the sizes are checked.
rtp_tx(payload_len, ncsrc, octet) ==
    /\ tx_pkt_count' = tx_pkt_count + 1
    /\ IF TooBig(RTP_PKT_SIZE(ncsrc, payload_len)) THEN UNCHANGED <<seq, left, wire>>
       ELSE /\ wire' = Append(wire, Packet(payload_len, ncsrc, octet))
            /\ seq' = (seq + 1) % RTP_SEQ_MOD
            /\ left' = left + 1

Tx ==
    /\ tx_pkt_count < PACKETS /\ Len(wire) < FLIGHT
    /\ \E payload_len \in Payload, ncsrc \in NCsrc, octet \in Octet :
          rtp_tx(payload_len, ncsrc, octet)
    /\ UNCHANGED <<align_by_4, ssrc, from, src>>

\* A collision: another identifier, drawn at random and taken not to be one the
\* receiver knows, and rtp_session_reset_tx_stats.  The sequence numbers go on.
Collision ==
    /\ ssrc' \in SSRC \ {ssrc, from}
    /\ tx_pkt_count' = 0 /\ left' = 0
    /\ UNCHANGED <<align_by_4, seq, wire, from, src>>

-----------------------------------------------------------------------------
(***************************************************************************)
(* rtp_rx.                                                                 *)
(***************************************************************************)
Rejected(error) == [error |-> error, payload_len |-> 0, padding |-> 0]

Accepted(m, padding) ==
    [error |-> "no_error", padding |-> padding,
     payload_len |-> (m.len - RTP_HDR_SIZE(m.cc) - padding) % WORD]

\* Mutant: the octet count is compared with the length of the whole packet.
CheckWholeLength(m) ==
    LET hdr_size == RTP_HDR_SIZE(m.cc) IN
    CASE m.len < RTP_HDR_SIZE(0)      -> Rejected("header_too_short")
      [] m.len \in RTP_HDR_SIZE(0) .. hdr_size - 1 -> Rejected("invalid_csrc_count")
      [] m.len >= hdr_size /\ m.version # 2 -> Rejected("invalid_rtp_version")
      [] m.len >= hdr_size /\ m.version = 2 /\ m.pt # "config" -> Rejected("invalid_payload_type")
      [] OTHER ->
            IF m.p /\ m.last >= m.len THEN Rejected("invalid_octet_count")
            ELSE IF m.x THEN Rejected("not_implemented")
            ELSE Accepted(m, IF m.p THEN m.last ELSE 0)

rtp_header_validity_check(m) ==
    LET hdr_size == RTP_HDR_SIZE(m.cc) IN
    CASE m.len < RTP_HDR_SIZE(0)      -> Rejected("header_too_short")
      [] m.len \in RTP_HDR_SIZE(0) .. hdr_size - 1 -> Rejected("invalid_csrc_count")
      [] m.len >= hdr_size /\ m.version # 2 -> Rejected("invalid_rtp_version")
      [] m.len >= hdr_size /\ m.version = 2 /\ m.pt # "config" -> Rejected("invalid_payload_type")
      [] OTHER ->
            IF m.p /\ m.last >= m.len - hdr_size THEN Rejected("invalid_octet_count")
            ELSE IF m.x THEN Rejected("not_implemented")
            ELSE Accepted(m, IF m.p THEN m.last ELSE 0)

\* Another program's packet.  Whatever member its SSRC belongs to is not the
\* one modelled here; as the check depends on nothing but the packet, only the
\* time before the session's first packet is given to these (bound).
Stray ==
    /\ from = NoOne /\ wire = <<>>
    /\ \E version \in {0, 2}, p, x \in BOOLEAN, cc \in 0 .. CC_MOD - 1,
          pt \in {"config", "other"}, len \in 0 .. MAX_RTP_PKT_SIZE, octet \in Octet :
          wire' = <<[version |-> version, p |-> p, x |-> x, cc |-> cc, pt |-> pt,
                     seq |-> 0, ssrc |-> NoOne, len |-> len, last |-> octet,
                     put |-> [payload_len |-> 0, ncsrc |-> 0]]>>
    /\ UNCHANGED <<sender, from, src>>

\* The packet at the front: a first one makes a member, which is not given the
\* packet; the others are counted.
rtp_rx ==
    LET m == Head(wire) IN
    /\ wire # <<>>
    /\ wire' = Tail(wire)
    /\ IF rtp_header_validity_check(m).error # "no_error" \/ m.ssrc = NoOne
       THEN UNCHANGED <<from, src>>
       ELSE /\ from' = m.ssrc
            /\ src' = IF m.ssrc # from THEN R!rtp_init_seq(src, m.seq, TRUE)
                      ELSE R!rtp_update_seq(src, m.seq)
    /\ UNCHANGED sender

Next == Tx \/ Collision \/ Stray \/ rtp_rx

Spec == Init /\ [][Next]_vars

-----------------------------------------------------------------------------
\* Whatever a header says of itself, the payload that the application is given
\* lies inside the packet: the length that is left when header and padding are
\* taken away, in unsigned arithmetic, is never a wrapped negative one.
PayloadInside ==
    \A n \in DOMAIN wire :
        LET c == rtp_header_validity_check(wire[n]) IN
        c.error = "no_error" =>
            RTP_HDR_SIZE(wire[n].cc) + c.payload_len + c.padding = wire[n].len

\* Whatever rtp_tx sends, padded or not, is accepted by the header check of a
\* session with the same payload type.  It fits the buffer of the sender, and
\* fills whole words if the configuration asks for that.  With fewer than CC_MOD
\* CSRCs the application gets as many octets and CSRCs as were put in; rtp_tx does
\* not refuse more, and then the CSRCs that the count has lost are taken for the
\* beginning of the payload.
AcceptedAsSent ==
    \A n \in DOMAIN wire :
        LET m == wire[n]
            c == rtp_header_validity_check(m)
        IN  m.ssrc # NoOne =>
                /\ c.error = "no_error"
                /\ m.put.ncsrc < CC_MOD => m.cc = m.put.ncsrc /\ c.payload_len = m.put.payload_len
                /\ c.payload_len = m.put.payload_len + 4 * (m.put.ncsrc - m.cc)
                /\ m.len <= MAX_RTP_PKT_SIZE
                /\ align_by_4 => m.len % 4 = 0

\* The receiver sees no loss where there is none: packets that rtp_tx refuses,
\* wraps of the sequence number and changes of the identifier leave no gap.
NoPhantomLoss == from # NoOne /\ src.probation = 0 => R!expected = src.received

\* rfc3550.h:150, "packets sent".  Not so: packets that rtp_tx refuses are
\* counted.
CountsSent == tx_pkt_count = left
=============================================================================
