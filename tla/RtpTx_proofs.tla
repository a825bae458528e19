---------------------------- MODULE RtpTx_proofs ----------------------------
(***************************************************************************)
(* Proofs about RtpTx for every size of packet, buffer, sequence number    *)
(* and word: what is sent is accepted as it was put in, what is accepted   *)
(* lies inside the packet, and no loss is seen where there is none.  The   *)
(* facts about rtp_update_seq are those of RtpSource_proofs.               *)
(***************************************************************************)
EXTENDS RtpTx, Basics

P == INSTANCE RtpSource_proofs WITH
        s <- src, LAST <- 0, ACCEPTED <- 1, sent <- 0, since <- 0, trail <- 0

Pkt == [version : Nat, p : BOOLEAN, x : BOOLEAN, cc : 0 .. CC_MOD - 1, pt : {"config", "other"},
        seq : 0 .. RTP_SEQ_MOD - 1, ssrc : SSRC \cup {NoOne}, len : 0 .. MAX_RTP_PKT_SIZE,
        last : Nat, put : [payload_len : Nat, ncsrc : Nat]]

\* A packet of rtp_tx: what it says of itself is what it was made of.
Sent(m) ==
    /\ m.version = 2 /\ ~m.x /\ m.pt = "config" /\ m.cc = m.put.ncsrc % CC_MOD
    /\ m.len = RTP_HDR_SIZE(m.put.ncsrc) + m.put.payload_len + (IF m.p THEN m.last ELSE 0)
    /\ m.p => m.put.payload_len > 0
    /\ align_by_4 => m.len % 4 = 0

OnWire ==
    /\ align_by_4 \in BOOLEAN /\ seq \in 0 .. RTP_SEQ_MOD - 1 /\ ssrc \in SSRC
    /\ wire \in Seq(Pkt)
    /\ \A n \in 1 .. Len(wire) : wire[n].ssrc # NoOne => Sent(wire[n])

\* The number of the next packet to arrive, not yet reduced to 16 bits.
Due == seq - Len(wire)

\* Only the first packet can be somebody else's, and only before the first of
\* the session's; the others are numbered without gaps.
InOrder ==
    \A n \in 1 .. Len(wire) :
        IF wire[n].ssrc = NoOne THEN n = 1 /\ from = NoOne
        ELSE wire[n].seq = (Due + n - 1) % RTP_SEQ_MOD

\* What a source whose next packet has number n knows: the last packet, if it
\* was not the first, and when it is valid that as many came as were expected.
UpTo(u, n) ==
    /\ u.probation = MIN_SEQUENTIAL => u.max_seq = (n - 2) % RTP_SEQ_MOD
    /\ u.probation < MIN_SEQUENTIAL => u.max_seq = (n - 1) % RTP_SEQ_MOD
    /\ u.probation = 0 => (u.cycles + u.max_seq - u.base_seq + 1) % WORD = u.received

Received ==
    /\ from \in SSRC \cup {NoOne} /\ src \in P!Source
    /\ from # NoOne => UpTo(src, Due)

IInv == OnWire /\ InOrder /\ Received

-----------------------------------------------------------------------------
LEMMA SourceConstants == P!SeqAssumption
BY TxAssumption DEF P!SeqAssumption

LEMMA Constants ==
    /\ RTP_SEQ_MOD \in Nat \ {0} /\ RTP_SEQ_MOD > 1 /\ WORD \in Nat \ {0} /\ RTP_SEQ_MOD + 1 < WORD
    /\ MAX_DROPOUT \in Nat /\ MAX_DROPOUT > 1 /\ MAX_MISORDER \in Nat \ {0}
    /\ MAX_DROPOUT + MAX_MISORDER <= RTP_SEQ_MOD /\ MIN_SEQUENTIAL \in 2 .. RTP_SEQ_MOD
    /\ CC_MOD \in Nat \ {0} /\ MAX_RTP_PKT_SIZE \in Nat \ {0} /\ MAX_RTP_PKT_SIZE < WORD
    /\ Payload \subseteq Nat /\ NCsrc \subseteq Nat /\ Octet \subseteq 0 .. 255 /\ NoOne \notin SSRC
BY TxAssumption

\* What the header check accepts, and what it then returns.
LEMMA Check ==
    ASSUME NEW m \in Pkt
    PROVE  LET c == rtp_header_validity_check(m)
               hdr == RTP_HDR_SIZE(m.cc)
               fine == /\ m.len >= hdr /\ m.version = 2 /\ m.pt = "config" /\ ~m.x
                       /\ m.p => m.last < m.len - hdr
           IN  IF fine THEN c = Accepted(m, IF m.p THEN m.last ELSE 0) ELSE c.error # "no_error"
<1> DEFINE hdr == RTP_HDR_SIZE(m.cc)
<1>1. hdr \in Nat /\ hdr >= 12 /\ RTP_HDR_SIZE(0) = 12 /\ m.len \in Nat /\ m.last \in Nat
    BY Constants DEF Pkt, RTP_HDR_SIZE
<1>2. rtp_header_validity_check(m) =
        CASE m.len < RTP_HDR_SIZE(0)      -> Rejected("header_too_short")
          [] m.len \in RTP_HDR_SIZE(0) .. hdr - 1 -> Rejected("invalid_csrc_count")
          [] m.len >= hdr /\ m.version # 2 -> Rejected("invalid_rtp_version")
          [] m.len >= hdr /\ m.version = 2 /\ m.pt # "config" -> Rejected("invalid_payload_type")
          [] OTHER ->
                IF m.p /\ m.last >= m.len - hdr THEN Rejected("invalid_octet_count")
                ELSE IF m.x THEN Rejected("not_implemented")
                ELSE Accepted(m, IF m.p THEN m.last ELSE 0)
    BY DEF rtp_header_validity_check
<1>3. \A e : Rejected(e).error = e
    BY DEF Rejected
<1>4. m.p \in BOOLEAN /\ m.x \in BOOLEAN
    BY DEF Pkt
<1> HIDE DEF hdr
<1>5. CASE m.len < 12
    BY <1>1, <1>2, <1>3, <1>5 DEF hdr
<1>6. CASE ~(m.len < 12) /\ m.len < hdr
    BY <1>1, <1>2, <1>3, <1>6 DEF hdr
<1>7. CASE m.len >= hdr /\ m.version # 2
    BY <1>1, <1>2, <1>3, <1>7 DEF hdr
<1>8. CASE m.len >= hdr /\ m.version = 2 /\ m.pt # "config"
    BY <1>1, <1>2, <1>3, <1>8 DEF hdr
<1>9. CASE m.len >= hdr /\ m.version = 2 /\ m.pt = "config"
    <2>1. rtp_header_validity_check(m) =
                IF m.p /\ m.last >= m.len - hdr THEN Rejected("invalid_octet_count")
                ELSE IF m.x THEN Rejected("not_implemented")
                ELSE Accepted(m, IF m.p THEN m.last ELSE 0)
        BY <1>1, <1>2, <1>9
    <2> QED BY <1>1, <1>3, <1>4, <1>9, <2>1 DEF hdr
<1> QED
    BY <1>1, <1>5, <1>6, <1>7, <1>8, <1>9

\* An accepted packet is as long as its header, payload and padding together.
LEMMA Inside ==
    ASSUME NEW m \in Pkt, rtp_header_validity_check(m).error = "no_error"
    PROVE  LET c == rtp_header_validity_check(m) IN
           RTP_HDR_SIZE(m.cc) + c.payload_len + c.padding = m.len
<1> DEFINE hdr == RTP_HDR_SIZE(m.cc)
           pad == IF m.p THEN m.last ELSE 0
           rest == m.len - hdr - pad
<1>1. hdr \in Nat /\ m.len \in 0 .. MAX_RTP_PKT_SIZE /\ m.last \in Nat /\ m.p \in BOOLEAN
    BY Constants DEF Pkt, RTP_HDR_SIZE
<1>2. rtp_header_validity_check(m) = Accepted(m, pad) /\ m.len >= hdr /\ (m.p => m.last < m.len - hdr)
    BY Check
<1> HIDE DEF hdr
<1>3. pad \in Nat /\ rest \in 0 .. WORD - 1
    <2>1. CASE m.p
        BY <1>1, <1>2, <2>1, Constants
    <2>2. CASE ~m.p
        BY <1>1, <1>2, <2>2, Constants
    <2> QED BY <1>1, <2>1, <2>2
<1> HIDE DEF pad
<1>4. hdr + rest + pad = m.len
    BY <1>1, <1>3
<1>5. rtp_header_validity_check(m).payload_len = rest % WORD /\ rtp_header_validity_check(m).padding = pad
    BY <1>2 DEF Accepted, hdr
<1> HIDE DEF rest
<1>6. rest % WORD = rest
    BY <1>3, Constants, ModSmall
<1> QED
    BY <1>4, <1>5, <1>6 DEF hdr

\* A packet of rtp_tx is accepted, and gives back what was put in, with the CSRCs
\* that the header does not count in front of the payload.
LEMMA Returned ==
    ASSUME NEW m \in Pkt, Sent(m)
    PROVE  /\ rtp_header_validity_check(m).error = "no_error"
           /\ rtp_header_validity_check(m).payload_len
                = m.put.payload_len + 4 * (m.put.ncsrc - m.cc)
<1> DEFINE hdr == RTP_HDR_SIZE(m.cc)  pad == IF m.p THEN m.last ELSE 0
           put == m.put.payload_len + 4 * (m.put.ncsrc - m.cc)
<1>1. /\ hdr \in Nat /\ m.len \in Nat /\ m.last \in Nat /\ m.p \in BOOLEAN
      /\ m.len <= MAX_RTP_PKT_SIZE /\ m.put.payload_len \in Nat /\ m.put.ncsrc \in Nat /\ m.cc \in Nat
    BY Constants DEF Pkt, RTP_HDR_SIZE
<1>2. m.cc <= m.put.ncsrc
    <2>1. m.cc = m.put.ncsrc % CC_MOD
        BY DEF Sent
    <2>2. CASE m.put.ncsrc < CC_MOD
        BY <1>1, <2>1, <2>2, Constants, ModSmall
    <2>3. CASE m.put.ncsrc >= CC_MOD
        <3>1. m.cc < CC_MOD
            BY Constants DEF Pkt
        <3> QED BY <1>1, <2>3, <3>1, Constants
    <2> QED BY <1>1, <2>2, <2>3, Constants
<1>3. /\ put \in Nat /\ hdr + put = RTP_HDR_SIZE(m.put.ncsrc) + m.put.payload_len
      /\ put >= m.put.payload_len
    BY <1>1, <1>2 DEF RTP_HDR_SIZE
<1>4. m.len = hdr + put + pad /\ (m.p => put > 0)
    BY <1>1, <1>3 DEF Sent
<1>5. m.version = 2 /\ ~m.x /\ m.pt = "config"
    BY DEF Sent
<1> HIDE DEF hdr, put
<1>6. pad \in Nat /\ m.len >= hdr /\ (m.p => m.last < m.len - hdr)
    <2>1. CASE m.p
        BY <1>1, <1>3, <1>4, <2>1
    <2>2. CASE ~m.p
        BY <1>1, <1>3, <1>4, <2>2
    <2> QED BY <1>1, <2>1, <2>2
<1>7. rtp_header_validity_check(m) = Accepted(m, pad)
    BY <1>5, <1>6, Check DEF hdr
<1> HIDE DEF pad
<1>8. m.len - hdr - pad = put /\ put \in 0 .. WORD - 1
    BY <1>1, <1>3, <1>4, <1>6, Constants
<1>9. (m.len - hdr - pad) % WORD = put
    BY <1>8, Constants, ModSmall
<1> QED
    BY <1>7, <1>9 DEF Accepted, hdr, put

\* The padding completes a word, and there is a payload whenever it is needed:
\* the header alone fills whole words.
LEMMA Padded ==
    ASSUME NEW payload_len \in Nat, NEW ncsrc \in Nat, align_by_4 \in BOOLEAN
    PROVE  LET size == RTP_PKT_SIZE(ncsrc, payload_len) IN
           /\ size \in Nat /\ Padding(size) \in 0 .. 3
           /\ Padding(size) > 0 => payload_len > 0
           /\ align_by_4 => (size + Padding(size)) % 4 = 0
<1> DEFINE size == RTP_PKT_SIZE(ncsrc, payload_len)
<1>1. size \in Nat /\ size = 12 + 4 * ncsrc + payload_len
    BY DEF RTP_PKT_SIZE, RTP_HDR_SIZE
<1>2. payload_len = 0 => size % 4 = 0
    BY <1>1
<1> HIDE DEF size
<1>3. size % 4 \in 0 .. 3
    BY <1>1
<1>4. CASE align_by_4 /\ size % 4 # 0
    <2>1. Padding(size) = 4 - (size % 4)
        BY <1>4 DEF Padding
    <2>2. (size + (4 - (size % 4))) % 4 = 0
        BY <1>1
    <2> QED BY <1>1, <1>2, <1>3, <1>4, <2>1, <2>2 DEF size
<1>5. CASE ~(align_by_4 /\ size % 4 # 0)
    <2>1. Padding(size) = 0
        BY <1>5 DEF Padding
    <2> QED BY <1>1, <1>5, <2>1 DEF size
<1> QED
    BY <1>4, <1>5

\* What rtp_tx builds, when it is not too big, is a packet it may have sent.
LEMMA Built ==
    ASSUME OnWire, NEW payload_len \in Payload, NEW ncsrc \in NCsrc, NEW octet \in Octet,
           ~TooBig(RTP_PKT_SIZE(ncsrc, payload_len))
    PROVE  LET m == Packet(payload_len, ncsrc, octet) IN
           m \in Pkt /\ Sent(m) /\ m.ssrc # NoOne /\ m.seq = seq
<1> DEFINE size == RTP_PKT_SIZE(ncsrc, payload_len)  pad == Padding(size)
           m == Packet(payload_len, ncsrc, octet)
           last == IF pad > 0 THEN pad ELSE octet
<1>1. payload_len \in Nat /\ ncsrc \in Nat /\ octet \in Nat /\ align_by_4 \in BOOLEAN
    BY Constants DEF OnWire
<1>2. /\ size \in Nat /\ pad \in 0 .. 3 /\ (pad > 0 => payload_len > 0)
      /\ (align_by_4 => (size + pad) % 4 = 0)
    BY <1>1, Padded
<1>3. size = RTP_HDR_SIZE(ncsrc) + payload_len
    BY DEF RTP_PKT_SIZE
<1> DEFINE cc == ncsrc % CC_MOD
<1>4. cc \in 0 .. CC_MOD - 1
    BY <1>1, Constants, DivMod
<1>5. m = [version |-> 2, p |-> pad > 0, x |-> FALSE, cc |-> cc, pt |-> "config",
           seq |-> seq, ssrc |-> ssrc, len |-> size + pad, last |-> last,
           put |-> [payload_len |-> payload_len, ncsrc |-> ncsrc]]
    BY DEF Packet
<1>6. ~(size > MAX_RTP_PKT_SIZE) /\ ~(pad > 0 /\ size + 4 > MAX_RTP_PKT_SIZE)
    BY DEF TooBig
<1> HIDE DEF size, pad, m, cc
<1>7. size + pad \in 0 .. MAX_RTP_PKT_SIZE
    BY <1>2, <1>6, Constants
<1>8. last \in Nat /\ (pad > 0 => last = pad) /\ (pad > 0) \in BOOLEAN
    BY <1>1, <1>2
<1> HIDE DEF last
<1>9. seq \in 0 .. RTP_SEQ_MOD - 1 /\ ssrc \in SSRC /\ ssrc # NoOne
    BY Constants DEF OnWire
<1>10. m \in Pkt
    BY <1>1, <1>4, <1>5, <1>7, <1>8, <1>9 DEF Pkt
<1>11. /\ m.version = 2 /\ m.x = FALSE /\ m.pt = "config" /\ m.cc = cc /\ m.put.ncsrc = ncsrc
       /\ m.len = size + pad /\ m.p = (pad > 0) /\ m.last = last /\ m.put.payload_len = payload_len
       /\ m.seq = seq /\ m.ssrc = ssrc
    BY <1>5
<1>12. m.len = RTP_HDR_SIZE(m.put.ncsrc) + m.put.payload_len + (IF m.p THEN m.last ELSE 0)
    <2>1. RTP_HDR_SIZE(ncsrc) \in Nat
        BY <1>1 DEF RTP_HDR_SIZE
    <2>2. CASE pad > 0
        BY <1>1, <1>2, <1>3, <1>8, <1>11, <2>1, <2>2
    <2>3. CASE ~(pad > 0)
        <3>1. pad = 0
            BY <1>2, <2>3
        <3> QED BY <1>1, <1>2, <1>3, <1>11, <2>1, <2>3, <3>1
    <2> QED BY <2>2, <2>3
<1>13. Sent(m)
    BY <1>2, <1>11, <1>12 DEF Sent, cc
<1> QED
    BY <1>9, <1>10, <1>11, <1>13 DEF m

-----------------------------------------------------------------------------
\* rtp_init_seq and rtp_update_seq are those RtpSource_proofs is about.
LEMMA SameSource ==
    ASSUME NEW n
    PROVE  /\ R!rtp_init_seq(src, n, TRUE) = P!rtp_init_seq(src, n, TRUE)
           /\ R!rtp_update_seq(src, n) = P!rtp_update_seq(src, n)
<1>1. \A u, k, b : R!rtp_init_seq(u, k, b) = P!rtp_init_seq(u, k, b)
    BY DEF R!rtp_init_seq, P!rtp_init_seq
<1>2. \A u : R!Count(u) = P!Count(u)
    BY DEF R!Count, P!Count
<1>3. R!Probate(src, n) = P!Probate(src, n)
    BY <1>1, <1>2 DEF R!Probate, P!Probate
<1>4. R!Advance(src, n) = P!Advance(src, n)
    BY DEF R!Advance, P!Advance
<1>5. R!Jump(src, n) = P!Jump(src, n)
    BY <1>1, <1>2 DEF R!Jump, P!Jump
<1>6. R!udelta(src, n) = P!udelta(src, n)
    BY DEF R!udelta, P!udelta
<1>7. R!rtp_update_seq(src, n) = P!rtp_update_seq(src, n)
    BY <1>2, <1>3, <1>4, <1>5, <1>6 DEF R!rtp_update_seq, P!rtp_update_seq
<1> QED
    BY <1>1, <1>7

\* One more packet, the one that was due.
LEMMA Hears ==
    ASSUME NEW u \in P!Source, NEW n \in Int, UpTo(u, n)
    PROVE  LET r == P!rtp_update_seq(u, n % RTP_SEQ_MOD) IN r \in P!Source /\ UpTo(r, n + 1)
<1> DEFINE e == n % RTP_SEQ_MOD  r == P!rtp_update_seq(u, e)  t == n - 1
<1>1. t \in Int /\ n + 1 - 1 = n /\ n - t = 1 /\ t + 1 = n
    OBVIOUS
<1>2. e \in 0 .. RTP_SEQ_MOD - 1 /\ e \in P!Seq16
    BY Constants, DivMod DEF P!Seq16
<1>3. /\ u.probation \in 0 .. MIN_SEQUENTIAL /\ u.max_seq \in 0 .. RTP_SEQ_MOD - 1
      /\ u.cycles \in 0 .. WORD - 1 /\ u.base_seq \in 0 .. RTP_SEQ_MOD - 1 /\ u.received \in 0 .. WORD - 1
    BY DEF P!Source, P!Seq16, P!Word
<1> HIDE DEF e, t, r
<1>4. CASE u.probation > 0
    <2>1. r = P!Probate(u, e)
        BY <1>2, <1>4, SourceConstants, P!UpdateSeq DEF r
    <2>2. /\ r \in P!Source /\ r.max_seq = e
          /\ (e # u.max_seq + 1 => r.probation = MIN_SEQUENTIAL - 1)
          /\ (e = u.max_seq + 1 => r.probation = u.probation - 1)
          /\ (r.probation = 0 => r.base_seq = e /\ r.cycles = 0 /\ r.received = 1)
        BY <1>2, <1>4, <2>1, SourceConstants, P!ProbateCases
    <2>3. r.probation < MIN_SEQUENTIAL /\ r.probation \in Int
        BY <1>3, <2>2, Constants
    <2>4. r.probation = 0 => (r.cycles + r.max_seq - r.base_seq + 1) % WORD = r.received
        <3> DEFINE o == 1
        <3>1. r.probation = 0 => r.cycles + r.max_seq - r.base_seq + 1 = o /\ r.received = o
            BY <1>2, <2>2, Constants
        <3>2. o \in 0 .. WORD - 1
            BY Constants
        <3> HIDE DEF o
        <3>3. o % WORD = o
            BY <3>2, Constants, ModSmall
        <3> QED BY <3>1, <3>3
    <2>5. UpTo(r, n + 1)
        BY <1>1, <2>2, <2>3, <2>4, Constants DEF UpTo, e
    <2> QED BY <2>2, <2>5 DEF r, e
<1>5. CASE u.probation = 0
    <2>1. u.max_seq = t % RTP_SEQ_MOD /\ (u.cycles + u.max_seq - u.base_seq + 1) % WORD = u.received
        BY <1>5, Constants DEF UpTo, t
    <2>2. P!udelta(u, e) = 1
        <3>1. P!udelta(u, e) = (n - t) % RTP_SEQ_MOD
            BY <1>1, <2>1, SourceConstants, P!TrueDistance DEF e
        <3>2. 1 % RTP_SEQ_MOD = 1
            <4> DEFINE o == 1
            <4>1. o \in 0 .. RTP_SEQ_MOD - 1
                BY Constants
            <4> HIDE DEF o
            <4>2. o % RTP_SEQ_MOD = o
                BY <4>1, Constants, ModSmall
            <4> QED BY <4>2 DEF o
        <3> QED BY <1>1, <3>1, <3>2
    <2>3. r = P!Count(P!Advance(u, e))
        BY <1>2, <1>5, <2>2, Constants, SourceConstants, P!UpdateSeq DEF r
    <2>4. /\ r \in P!Source /\ r.max_seq = e /\ r.received = (u.received + 1) % WORD
          /\ r.cycles = IF e < u.max_seq THEN (u.cycles + RTP_SEQ_MOD) % WORD ELSE u.cycles
          /\ r.base_seq = u.base_seq /\ r.probation = u.probation
        BY <1>2, <2>3, SourceConstants, P!AdvanceCounted
    <2>5. e = IF u.max_seq + 1 = RTP_SEQ_MOD THEN 0 ELSE u.max_seq + 1
        <3> DEFINE o == 1
        <3>1. o \in Int /\ t + o = n
            BY <1>1
        <3> HIDE DEF o
        <3>2. ((t % RTP_SEQ_MOD) + o) % RTP_SEQ_MOD = (t + o) % RTP_SEQ_MOD
            BY <1>1, <3>1, Constants, ModAdd
        <3>3. e = (u.max_seq + 1) % RTP_SEQ_MOD
            BY <2>1, <3>1, <3>2 DEF e, o
        <3> QED BY <1>3, <3>3, Constants, ModStep
    <2> DEFINE a == u.cycles + u.max_seq - u.base_seq + 1  o == 1
               c == u.cycles + RTP_SEQ_MOD  d == e - u.base_seq + 1
    <2>6. a \in Int /\ o \in Int /\ c \in Int /\ d \in Int /\ WORD \in Nat \ {0}
        BY <1>2, <1>3, Constants
    <2>7. r.cycles \in Int /\ r.cycles + r.max_seq - r.base_seq + 1 = r.cycles + d
        BY <1>2, <1>3, <2>4, Constants DEF P!Source, P!Word
    <2>8. (r.cycles + d) % WORD = (a + o) % WORD
        <3>1. CASE u.max_seq + 1 = RTP_SEQ_MOD
            <4>1. e = 0 /\ e < u.max_seq /\ c + d = a + o
                BY <1>3, <2>5, <3>1, Constants
            <4>2. r.cycles = c % WORD
                BY <2>4, <4>1
            <4> HIDE DEF a, o, c, d
            <4>3. ((c % WORD) + d) % WORD = (c + d) % WORD
                BY <2>6, ModAdd
            <4> QED BY <4>1, <4>2, <4>3
        <3>2. CASE u.max_seq + 1 # RTP_SEQ_MOD
            <4>1. e = u.max_seq + 1 /\ ~(e < u.max_seq)
                BY <1>3, <2>5, <3>2, Constants
            <4>2. r.cycles = u.cycles
                BY <2>4, <4>1
            <4>3. r.cycles + d = a + o
                BY <1>3, <4>1, <4>2
            <4> QED BY <4>3
        <3> QED BY <3>1, <3>2
    <2>9. ((a % WORD) + o) % WORD = (a + o) % WORD
        <3> HIDE DEF a, o
        <3> QED BY <2>6, ModAdd
    <2>10. (r.cycles + r.max_seq - r.base_seq + 1) % WORD = r.received
        <3>1. (a % WORD) = u.received
            BY <2>1
        <3> HIDE DEF a
        <3> QED BY <2>4, <2>7, <2>8, <2>9, <3>1
    <2>11. UpTo(r, n + 1)
        BY <1>1, <1>5, <2>4, <2>10, Constants DEF UpTo, e
    <2> QED BY <2>4, <2>11 DEF r, e
<1> QED
    BY <1>3, <1>4, <1>5, Constants

\* The first packet of a member, which is not counted.
LEMMA HearsFirst ==
    ASSUME NEW u \in P!Source, NEW n \in Int
    PROVE  LET r == P!rtp_init_seq(u, n % RTP_SEQ_MOD, TRUE) IN r \in P!Source /\ UpTo(r, n + 1)
<1> DEFINE e == n % RTP_SEQ_MOD  r == P!rtp_init_seq(u, e, TRUE)  o == 1
<1>1. e \in P!Seq16 /\ o \in Int
    BY Constants, DivMod DEF P!Seq16
<1> HIDE DEF e, r
<1>2. r \in P!Source /\ r.max_seq = (e - 1) % RTP_SEQ_MOD /\ r.probation = MIN_SEQUENTIAL
    <2>1. \A first \in BOOLEAN :
            LET q == P!rtp_init_seq(u, e, first) IN
            /\ q \in P!Source
            /\ q.max_seq = IF first THEN (e - 1) % RTP_SEQ_MOD ELSE e
            /\ q.probation = IF first THEN MIN_SEQUENTIAL ELSE u.probation
        BY <1>1, SourceConstants, P!InitSeq
    <2> QED BY <2>1 DEF r
<1> HIDE DEF o
<1>3. ((n % RTP_SEQ_MOD) - o) % RTP_SEQ_MOD = (n - o) % RTP_SEQ_MOD
    BY <1>1, Constants, ModAdd
<1>4. n + 1 - 2 = n - o
    BY DEF o
<1>5. r.max_seq = (n + 1 - 2) % RTP_SEQ_MOD
    BY <1>2, <1>3, <1>4 DEF e, o
<1>6. UpTo(r, n + 1)
    BY <1>2, <1>5, Constants DEF UpTo
<1> QED
    BY <1>2, <1>6 DEF r, e

\* Numbers that agree in 16 bits still do so further on.
LEMMA Onward ==
    ASSUME NEW a \in Int, NEW b \in Int, a % RTP_SEQ_MOD = b % RTP_SEQ_MOD, NEW c \in Int
    PROVE  (a + c) % RTP_SEQ_MOD = (b + c) % RTP_SEQ_MOD
<1>1. ((a % RTP_SEQ_MOD) + c) % RTP_SEQ_MOD = (a + c) % RTP_SEQ_MOD
    BY Constants, ModAdd
<1>2. ((b % RTP_SEQ_MOD) + c) % RTP_SEQ_MOD = (b + c) % RTP_SEQ_MOD
    BY Constants, ModAdd
<1> QED
    BY <1>1, <1>2

-----------------------------------------------------------------------------
LEMMA InitOK == Init => IInv
<1> SUFFICES ASSUME Init PROVE IInv
    OBVIOUS
<1>1. OnWire /\ InOrder
    BY Constants DEF Init, OnWire, InOrder
<1>2. src \in P!Source
    BY Constants DEF Init, P!Source, P!Seq16, P!Word
<1> QED
    BY <1>1, <1>2 DEF IInv, Received, Init

\* rtp_tx takes the next number and appends, or leaves wire and numbers alone.
LEMMA TxOK ==
    ASSUME IInv, Tx
    PROVE  IInv'
<1>1. PICK payload_len \in Payload, ncsrc \in NCsrc, octet \in Octet :
          rtp_tx(payload_len, ncsrc, octet)
    BY DEF Tx
<1>2. UNCHANGED <<align_by_4, ssrc, from, src>>
    BY DEF Tx
<1>3. CASE TooBig(RTP_PKT_SIZE(ncsrc, payload_len))
    <2>1. UNCHANGED <<seq, wire>>
        BY <1>1, <1>3 DEF rtp_tx
    <2> QED BY <1>2, <2>1 DEF IInv, OnWire, InOrder, Received, Due, Sent
<1>4. CASE ~TooBig(RTP_PKT_SIZE(ncsrc, payload_len))
    <2> DEFINE m == Packet(payload_len, ncsrc, octet)  l == Len(wire)
    <2>1. wire' = Append(wire, m) /\ seq' = (seq + 1) % RTP_SEQ_MOD
        BY <1>1, <1>4 DEF rtp_tx
    <2>2. m \in Pkt /\ Sent(m) /\ m.ssrc # NoOne /\ m.seq = seq
        BY <1>4, Built DEF IInv
    <2> HIDE DEF m
    <2>3. wire \in Seq(Pkt) /\ l \in Nat /\ seq \in Int /\ Due \in Int
        BY Constants DEF IInv, OnWire, Due
    <2>4. /\ wire' \in Seq(Pkt) /\ Len(wire') = l + 1 /\ wire'[l + 1] = m
          /\ \A n \in 1 .. l : wire'[n] = wire[n]
        BY <2>1, <2>2, <2>3
    <2>5. seq' \in 0 .. RTP_SEQ_MOD - 1
        BY <2>1, <2>3, Constants, DivMod
    <2> HIDE DEF l
    <2>6. OnWire'
        BY <1>2, <2>2, <2>4, <2>5 DEF IInv, OnWire, Sent, l
    <2>7. Due' \in Int /\ Due' % RTP_SEQ_MOD = Due % RTP_SEQ_MOD
        <3> DEFINE x == seq + 1  y == l + 1
        <3>1. x \in Int /\ y \in Int /\ x - y = Due
            BY <2>3 DEF Due, l
        <3>2. Due' = (x % RTP_SEQ_MOD) - y
            BY <2>1, <2>4 DEF Due
        <3> HIDE DEF x, y
        <3>3. ((x % RTP_SEQ_MOD) - y) % RTP_SEQ_MOD = (x - y) % RTP_SEQ_MOD
            BY <3>1, Constants, ModAdd
        <3>4. x % RTP_SEQ_MOD \in Int
            BY <3>1, Constants, DivMod
        <3> QED BY <3>1, <3>2, <3>3, <3>4
    <2>8. ASSUME NEW c \in Int PROVE (Due' + c) % RTP_SEQ_MOD = (Due + c) % RTP_SEQ_MOD
        <3> DEFINE x == Due'  y == Due
        <3>1. x \in Int /\ y \in Int /\ (x % RTP_SEQ_MOD) = (y % RTP_SEQ_MOD)
            BY <2>3, <2>7
        <3> HIDE DEF x, y
        <3>2. (x + c) % RTP_SEQ_MOD = (y + c) % RTP_SEQ_MOD
            BY <3>1, Onward
        <3> QED BY <3>2 DEF x, y
    <2>9. InOrder'
        <3> SUFFICES ASSUME NEW n \in 1 .. l + 1
                     PROVE  IF wire'[n].ssrc = NoOne THEN n = 1 /\ from = NoOne
                            ELSE wire'[n].seq = (Due' + n - 1) % RTP_SEQ_MOD
            BY <1>2, <2>4 DEF InOrder
        <3>1. n - 1 \in Int /\ Due + n - 1 = Due + (n - 1) /\ Due' + n - 1 = Due' + (n - 1)
            BY <2>3, <2>7
        <3>2. (Due' + (n - 1)) % RTP_SEQ_MOD = (Due + (n - 1)) % RTP_SEQ_MOD
            BY <2>8, <3>1
        <3>3. CASE n \in 1 .. l
            <4>1. wire'[n] = wire[n]
                BY <2>4, <3>3
            <4> QED BY <3>1, <3>2, <3>3, <4>1 DEF IInv, InOrder, l
        <3>4. CASE n = l + 1
            <4>1. Due + (n - 1) = seq
                BY <2>3, <3>4 DEF Due, l
            <4>2. seq % RTP_SEQ_MOD = seq
                BY Constants, ModSmall DEF IInv, OnWire
            <4> QED BY <2>2, <2>4, <3>1, <3>2, <3>4, <4>1, <4>2
        <3> QED BY <2>3, <3>3, <3>4
    <2>10. Received'
        <3>1. ASSUME UpTo(src, Due) PROVE UpTo(src, Due')
            <4> DEFINE o == -1  w == -2
            <4>1. o \in Int /\ w \in Int /\ Due + o = Due - 1 /\ Due' + o = Due' - 1
                  /\ Due + w = Due - 2 /\ Due' + w = Due' - 2
                BY <2>3, <2>7
            <4>2. (Due' - 1) % RTP_SEQ_MOD = (Due - 1) % RTP_SEQ_MOD
                BY <2>8, <4>1
            <4>3. (Due' - 2) % RTP_SEQ_MOD = (Due - 2) % RTP_SEQ_MOD
                BY <2>8, <4>1
            <4> QED BY <3>1, <4>2, <4>3 DEF UpTo
        <3>2. /\ from \in SSRC \cup {NoOne} /\ src \in P!Source
              /\ (from # NoOne => UpTo(src, Due))
            BY DEF IInv, Received
        <3>3. Received' = (/\ from' \in SSRC \cup {NoOne} /\ src' \in P!Source
                           /\ from' # NoOne => UpTo(src', Due'))
            BY DEF Received, UpTo
        <3> QED BY <1>2, <3>1, <3>2, <3>3
    <2> QED BY <2>6, <2>9, <2>10 DEF IInv
<1> QED
    BY <1>3, <1>4

LEMMA CollisionOK ==
    ASSUME IInv, Collision
    PROVE  IInv'
<1>1. ssrc' \in SSRC /\ UNCHANGED <<align_by_4, seq, wire, from, src>>
    BY DEF Collision
<1> QED
    BY <1>1 DEF IInv, OnWire, InOrder, Received, Due, Sent

\* Somebody else's packet comes alone, and before the session's first.
LEMMA StrayOK ==
    ASSUME IInv, Stray
    PROVE  IInv'
<1>1. PICK version \in {0, 2}, p \in BOOLEAN, x \in BOOLEAN, cc \in 0 .. CC_MOD - 1,
           pt \in {"config", "other"}, len \in 0 .. MAX_RTP_PKT_SIZE, octet \in Octet :
          wire' = <<[version |-> version, p |-> p, x |-> x, cc |-> cc, pt |-> pt,
                     seq |-> 0, ssrc |-> NoOne, len |-> len, last |-> octet,
                     put |-> [payload_len |-> 0, ncsrc |-> 0]]>>
    BY DEF Stray
<1>2. from = NoOne /\ UNCHANGED <<align_by_4, seq, ssrc, from, src>>
    BY DEF Stray, sender
<1> DEFINE m == [version |-> version, p |-> p, x |-> x, cc |-> cc, pt |-> pt,
                 seq |-> 0, ssrc |-> NoOne, len |-> len, last |-> octet,
                 put |-> [payload_len |-> 0, ncsrc |-> 0]]
<1>3. m.ssrc = NoOne /\ m \in Pkt
    BY Constants DEF Pkt
<1>4. wire' = <<m>>
    BY <1>1
<1> HIDE DEF m
<1>5. wire' \in Seq(Pkt) /\ Len(wire') = 1 /\ wire'[1] = m
    BY <1>3, <1>4
<1>6. OnWire'
    BY <1>2, <1>3, <1>5 DEF IInv, OnWire
<1>7. InOrder'
    BY <1>2, <1>3, <1>5 DEF InOrder
<1> QED
    BY <1>2, <1>6, <1>7 DEF IInv, Received

\* rtp_rx takes the packet that is due, or somebody else's.
LEMMA RxOK ==
    ASSUME IInv, rtp_rx
    PROVE  IInv'
<1> DEFINE m == wire[1]  l == Len(wire)
<1>1. wire \in Seq(Pkt) /\ wire # <<>> /\ wire' = Tail(wire) /\ m = Head(wire)
    BY DEF IInv, OnWire, rtp_rx
<1>2. UNCHANGED <<align_by_4, seq, ssrc>>
    BY DEF rtp_rx, sender
<1>3. l \in Nat /\ l >= 1 /\ m \in Pkt
    BY <1>1
<1>4. /\ wire' \in Seq(Pkt) /\ Len(wire') = l - 1
      /\ \A n \in 1 .. l - 1 : wire'[n] = wire[n + 1]
    BY <1>1
<1>5. /\ m.ssrc # NoOne => Sent(m)
      /\ IF m.ssrc = NoOne THEN from = NoOne ELSE m.seq = (Due + 1 - 1) % RTP_SEQ_MOD
    BY <1>3 DEF IInv, OnWire, InOrder
<1>6. seq \in Int /\ Due \in Int /\ Due + 1 - 1 = Due /\ Due' = Due + 1
    BY <1>2, <1>3, <1>4, Constants DEF IInv, OnWire, Due
<1>7. \A n \in 1 .. l - 1 : n + 1 \in 1 .. l /\ n + 1 # 1 /\ Due' + n - 1 = Due + (n + 1) - 1
    BY <1>3, <1>6
<1> HIDE DEF l
<1>8. OnWire'
    <2>1. ASSUME NEW n \in 1 .. l - 1, wire'[n].ssrc # NoOne
          PROVE  Sent(wire'[n])
        <3>1. wire'[n] = wire[n + 1] /\ n + 1 \in 1 .. Len(wire)
            BY <1>4, <1>7 DEF l
        <3> QED BY <2>1, <3>1 DEF IInv, OnWire
    <2> QED BY <1>2, <1>4, <2>1 DEF IInv, OnWire, Sent
<1>9. InOrder'
    <2> SUFFICES ASSUME NEW n \in 1 .. l - 1
                 PROVE  wire'[n].ssrc # NoOne /\ wire'[n].seq = (Due' + n - 1) % RTP_SEQ_MOD
        BY <1>4 DEF InOrder
    <2>1. wire'[n] = wire[n + 1] /\ n + 1 \in 1 .. Len(wire) /\ n + 1 # 1
        BY <1>4, <1>7 DEF l
    <2>2. wire[n + 1].ssrc # NoOne /\ wire[n + 1].seq = (Due + (n + 1) - 1) % RTP_SEQ_MOD
        BY <2>1 DEF IInv, InOrder
    <2> QED BY <1>7, <2>1, <2>2
<1>10. /\ from \in SSRC \cup {NoOne} /\ src \in P!Source
       /\ (from # NoOne => UpTo(src, Due))
    BY DEF IInv, Received
<1>11. Received' = (/\ from' \in SSRC \cup {NoOne} /\ src' \in P!Source
                    /\ from' # NoOne => UpTo(src', Due'))
    BY DEF Received, UpTo
<1>12. CASE m.ssrc = NoOne
    <2>1. UNCHANGED <<from, src>> /\ from = NoOne
        BY <1>1, <1>5, <1>12 DEF rtp_rx
    <2> QED BY <1>8, <1>9, <1>10, <1>11, <2>1 DEF IInv
<1>13. CASE m.ssrc # NoOne
    <2>1. rtp_header_validity_check(m).error = "no_error"
        BY <1>3, <1>5, <1>13, Returned
    <2>2. /\ from' = m.ssrc /\ m.ssrc \in SSRC
          /\ src' = IF m.ssrc # from THEN R!rtp_init_seq(src, m.seq, TRUE) ELSE R!rtp_update_seq(src, m.seq)
        BY <1>1, <1>3, <1>13, <2>1 DEF rtp_rx, Pkt
    <2>3. m.seq = Due % RTP_SEQ_MOD
        BY <1>5, <1>6, <1>13
    <2>4. src' \in P!Source /\ UpTo(src', Due + 1)
        <3>1. CASE m.ssrc # from
            <4>1. src' = P!rtp_init_seq(src, Due % RTP_SEQ_MOD, TRUE)
                BY <2>2, <2>3, <3>1, SameSource
            <4> QED BY <1>6, <1>10, <4>1, HearsFirst
        <3>2. CASE m.ssrc = from
            <4>1. src' = P!rtp_update_seq(src, Due % RTP_SEQ_MOD)
                BY <2>2, <2>3, <3>2, SameSource
            <4>2. UpTo(src, Due)
                BY <1>10, <1>13, <3>2
            <4> QED BY <1>6, <1>10, <4>1, <4>2, Hears
        <3> QED BY <3>1, <3>2
    <2> QED BY <1>6, <1>8, <1>9, <1>11, <2>2, <2>4 DEF IInv
<1> QED
    BY <1>12, <1>13

LEMMA Inductive == IInv /\ [Next]_vars => IInv'
<1> SUFFICES ASSUME IInv, [Next]_vars
             PROVE  IInv'
    OBVIOUS
<1>1. CASE UNCHANGED vars
    BY <1>1 DEF vars, sender, IInv, OnWire, InOrder, Received, Due, Sent
<1> QED
    BY <1>1, TxOK, CollisionOK, StrayOK, RxOK DEF Next

LEMMA Invariance == Spec => []IInv
BY InitOK, Inductive, PTL DEF Spec

-----------------------------------------------------------------------------
\* Whatever a header says, the payload that rtp_rx hands over lies inside the
\* packet, for every size of packet below the range of a length.
THEOREM PayloadStaysInside == Spec => []PayloadInside
<1>1. IInv => PayloadInside
    <2> SUFFICES ASSUME IInv, NEW n \in DOMAIN wire,
                        rtp_header_validity_check(wire[n]).error = "no_error"
                 PROVE  LET c == rtp_header_validity_check(wire[n]) IN
                        RTP_HDR_SIZE(wire[n].cc) + c.payload_len + c.padding = wire[n].len
        BY DEF PayloadInside
    <2>1. wire[n] \in Pkt
        BY DEF IInv, OnWire
    <2> QED BY <2>1, Inside
<1> QED
    BY <1>1, Invariance, PTL

\* Whatever rtp_tx sends is accepted by rtp_rx, fits the buffer and is aligned if
\* that was asked for.  It gives back the payload and the CSRCs that were put in,
\* with fewer than CC_MOD of them, and else the payload behind the lost ones.
THEOREM SentIsAccepted == Spec => []AcceptedAsSent
<1>1. IInv => AcceptedAsSent
    <2> SUFFICES ASSUME IInv, NEW n \in DOMAIN wire, wire[n].ssrc # NoOne
                 PROVE  LET m == wire[n]  c == rtp_header_validity_check(m) IN
                        /\ c.error = "no_error"
                        /\ m.put.ncsrc < CC_MOD => m.cc = m.put.ncsrc /\ c.payload_len = m.put.payload_len
                        /\ c.payload_len = m.put.payload_len + 4 * (m.put.ncsrc - m.cc)
                        /\ m.len <= MAX_RTP_PKT_SIZE
                        /\ align_by_4 => m.len % 4 = 0
        BY DEF AcceptedAsSent
    <2>1. wire[n] \in Pkt /\ Sent(wire[n])
        BY DEF IInv, OnWire
    <2> DEFINE m == wire[n]
    <2> HIDE DEF m
    <2>2. m \in Pkt /\ Sent(m)
        BY <2>1 DEF m
    <2>3. /\ m.len <= MAX_RTP_PKT_SIZE /\ (align_by_4 => m.len % 4 = 0)
          /\ m.put.payload_len \in Nat /\ m.put.ncsrc \in Nat
        BY <2>2, Constants DEF Pkt, Sent
    <2>4. m.put.ncsrc < CC_MOD => m.cc = m.put.ncsrc
        BY <2>2, <2>3, Constants, ModSmall DEF Sent
    <2>5. m.put.ncsrc < CC_MOD => m.put.payload_len + 4 * (m.put.ncsrc - m.cc) = m.put.payload_len
        BY <2>3, <2>4
    <2> QED BY <2>2, <2>3, <2>4, <2>5, Returned DEF m
<1> QED
    BY <1>1, Invariance, PTL

\* A receiver expects exactly as many packets as it got, through refused
\* packets, wraps of the sequence number and of the extended one, collisions
\* and new members: a network without loss shows none.
THEOREM NoLossSeen == Spec => []NoPhantomLoss
<1>1. IInv => NoPhantomLoss
    <2> SUFFICES ASSUME IInv, from # NoOne, src.probation = 0
                 PROVE  R!expected = src.received
        BY DEF NoPhantomLoss
    <2> DEFINE a == src.cycles + src.max_seq  b == 1 - src.base_seq
    <2>1. src \in P!Source /\ UpTo(src, Due)
        BY DEF IInv, Received
    <2>2. a \in Int /\ b \in Int /\ src.base_seq \in Int
        BY <2>1, Constants DEF P!Source, P!Seq16, P!Word
    <2>3. a % WORD \in Int
        <3> HIDE DEF a
        <3> QED BY <2>2, Constants, DivMod
    <2>4. (a + b) % WORD = src.received
        <3>1. a + b = src.cycles + src.max_seq - src.base_seq + 1
            BY <2>1, Constants DEF P!Source, P!Seq16, P!Word
        <3> QED BY <2>1, <3>1 DEF UpTo
    <2>5. R!expected = ((a % WORD) - src.base_seq + 1) % WORD
        BY DEF R!expected, R!extended_max
    <2> HIDE DEF a
    <2>6. (a % WORD) - src.base_seq + 1 = (a % WORD) + b
        BY <2>2, <2>3
    <2> HIDE DEF b
    <2>7. ((a % WORD) + b) % WORD = (a + b) % WORD
        <3>1. WORD \in Nat \ {0}
            BY Constants
        <3> QED BY <2>2, <3>1, ModAdd
    <2> QED BY <2>4, <2>5, <2>6, <2>7
<1> QED
    BY <1>1, Invariance, PTL
=============================================================================
