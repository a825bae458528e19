---------------------------- MODULE RtcpEncoder ----------------------------
(***************************************************************************)
(* The encoder of compound RTCP packets, rtcp_encoder_t: a buffer, the     *)
(* position write_ndx, the packet being written and the chunk being        *)
(* written.  Every function of the encoder is an operator on it; the field *)
(* ret is what the function returned, or "crash" after RTPCRASH.           *)
(*                                                                         *)
(* A cell of buf is the field that begins at that octet.  Octets in which  *)
(* no field begins, and octets never written, are Stale: a reader that     *)
(* comes upon one has lost its way.                                        *)
(***************************************************************************)
EXTENDS Integers, RtpConfig

CONSTANT COUNT_MOD     \* the field count of a packet is an integer modulo COUNT_MOD

ASSUME EncoderAssumption == BUFFER_LEN \in Nat /\ BUFFER_LEN >= 4 /\ COUNT_MOD \in Nat \ {0, 1}

Stale          == [kind |-> "stale"]
Zero           == [kind |-> "zero"]
Header(pt)     == [kind |-> "header", pt |-> pt, count |-> 0, length |-> 0]
Word(ssrc)     == [kind |-> "word", ssrc |-> ssrc]
Block(b)       == [kind |-> "block", block |-> b]
Cname(len)     == [kind |-> "cname", length |-> len]
Reason(len)    == [kind |-> "reason", length |-> len]

\* Octets of a sender report and of a receiver report without blocks, of a
\* block, and of the header that all packets begin with.
SR_SIZE == 28
RR_SIZE == 8
BLOCK_SIZE == 24
HEADER_SIZE == 4

-----------------------------------------------------------------------------
space_left(re) == re.buf_len - re.write_ndx

\* Octets missing to a multiple of four.
Pad(n) == (4 - (n % 4)) % 4

Full(re) == [re EXCEPT !.ret = "full"]

\* set_current_pkt, and the packet's first size octets.
Begin(re, pt, size) ==
    [re EXCEPT !.rtcp = re.write_ndx, !.buf[re.write_ndx] = Header(pt),
               !.write_ndx = @ + size, !.ret = "ok"]

rtcp_encoder_init(buf_len) ==
    [buf |-> [o \in 0 .. BUFFER_LEN - 1 |-> IF o = 0 THEN Header("none") ELSE Stale],
     buf_len |-> buf_len, rtcp |-> 0, write_ndx |-> 0, chunk_begin |-> 0, ret |-> "ok"]

rtcp_encoder_report_begin(re, pt, size, ssrc) ==
    IF space_left(re) < size THEN Full(re)
    ELSE [Begin(re, pt, size) EXCEPT !.buf[re.write_ndx + HEADER_SIZE] = Word(ssrc)]

rtcp_encoder_sr_begin(re, ssrc) == rtcp_encoder_report_begin(re, "SR", SR_SIZE, ssrc)

rtcp_encoder_rr_begin(re, ssrc) == rtcp_encoder_report_begin(re, "RR", RR_SIZE, ssrc)

ndx(re) == re.buf[re.rtcp].count

\* Element ndx of the array that begins base octets into the packet: its place
\* follows from count and not from write_ndx.
AddElement(re, base, size, cell) ==
    IF space_left(re) < size THEN Full(re)
    ELSE [re EXCEPT !.buf[re.rtcp + base + size * ndx(re)] = cell,
                    !.buf[re.rtcp].count = (@ + 1) % COUNT_MOD,
                    !.write_ndx = @ + size, !.ret = "ok"]

rtcp_encoder_sr_add_rr(re, b) == AddElement(re, SR_SIZE, BLOCK_SIZE, Block(b))

rtcp_encoder_rr_add_rr(re, b) == AddElement(re, RR_SIZE, BLOCK_SIZE, Block(b))

rtcp_encoder_sdes_begin(re) ==
    IF space_left(re) < HEADER_SIZE THEN Full(re) ELSE Begin(re, "SDES", HEADER_SIZE)

rtcp_encoder_sdes_chunk_begin(re, ssrc) ==
    IF space_left(re) < 4 THEN Full(re)
    ELSE [re EXCEPT !.buf[re.rtcp].count = (@ + 1) % COUNT_MOD,
                    !.buf[re.write_ndx] = Word(ssrc),
                    !.chunk_begin = re.write_ndx, !.write_ndx = @ + 4, !.ret = "ok"]

\* Mutant: the two octets before the text are not counted.
CnameTextOnly(re, len) ==
    IF space_left(re) < len THEN Full(re)
    ELSE [re EXCEPT !.buf[re.write_ndx] = Cname(len), !.write_ndx = @ + 2 + len, !.ret = "ok"]

rtcp_encoder_sdes_chunk_add_cname(re, len) ==
    IF space_left(re) < len + 2 THEN Full(re)
    ELSE [re EXCEPT !.buf[re.write_ndx] = Cname(len), !.write_ndx = @ + 2 + len, !.ret = "ok"]

\* The null octet that ends the chunk is written before the room for the
\* padding is known.  An octet of padding is a null octet again.
rtcp_encoder_sdes_chunk_end(re) ==
    LET size   == re.write_ndx + 1 - re.chunk_begin
        pad    == Pad(size)
        zeroed == [re EXCEPT !.buf[re.write_ndx] = Zero, !.write_ndx = @ + 1]
    IN  IF space_left(re) < 1 THEN Full(re)
        ELSE IF space_left(zeroed) < pad THEN Full(zeroed)
        ELSE [zeroed EXCEPT
                 !.buf = [o \in DOMAIN @ |->
                             IF o \in zeroed.write_ndx .. zeroed.write_ndx + pad - 1
                             THEN Zero ELSE @[o]],
                 !.write_ndx = @ + pad, !.ret = "ok"]

rtcp_encoder_bye_begin(re) ==
    IF space_left(re) < HEADER_SIZE THEN Full(re) ELSE Begin(re, "BYE", HEADER_SIZE)

rtcp_encoder_bye_add_ssrc(re, ssrc) == AddElement(re, HEADER_SIZE, 4, Word(ssrc))

rtcp_encoder_bye_add_reason(re, len) ==
    LET total == 1 + len + Pad(1 + len) IN
    IF space_left(re) < total THEN Full(re)
    ELSE [re EXCEPT !.buf[re.write_ndx] = Reason(len), !.write_ndx = @ + total, !.ret = "ok"]

\* Mutant: the packet's own first word is counted.
EndCountsHeader(re) ==
    LET len == re.write_ndx - re.rtcp IN
    IF len % 4 # 0 THEN [re EXCEPT !.ret = "crash"]
    ELSE [re EXCEPT !.buf[re.rtcp].length = len \div 4, !.ret = "ok"]

rtcp_encoder_end_packet(re) ==
    LET len == re.write_ndx - re.rtcp IN
    IF len % 4 # 0 THEN [re EXCEPT !.ret = "crash"]
    ELSE [re EXCEPT !.buf[re.rtcp].length = len \div 4 - 1, !.ret = "ok"]

rtcp_encoder_msg_len(re) == re.write_ndx
=============================================================================
