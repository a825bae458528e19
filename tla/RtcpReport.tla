----------------------------- MODULE RtcpReport -----------------------------
(***************************************************************************)
(* A session writes its RTCP reports (rtcp_send_report) and a peer reads   *)
(* them (rtcp_rx).  The session reports on the members of its table; their *)
(* entries are reused, and an entry keeps the rtp_source_t of the member   *)
(* that had it before until packets of the new member arrive.              *)
(*                                                                         *)
(* The program's own packets are a report and one chunk.  The encoder can  *)
(* also write further chunks and BYE, which rtcp_rx reads but this program *)
(* does not send; more stands for a program that does, and that has no     *)
(* members to report on.                                                   *)
(*                                                                         *)
(* Everything is called from one thread, so the table does not change      *)
(* while a report is written.                                              *)
(***************************************************************************)
EXTENDS RtcpEncoder, Sequences, SequencesExt

CONSTANTS
    Self, Peer,      \* SSRCs of the session and of its peers
    BufLen,          \* values of buf_len, the argument of rtcp_encoder_init
    Text,            \* lengths of a CNAME and of a reason
    LOSSES           \* bound: packets of one source that are lost

\* A packet of more than 1024 octets would have a length that rtcp_handle_sdes,
\* which reads it in the other order of bytes, could take for a shorter one.
ASSUME ReportAssumption ==
    /\ Self \notin Peer
    /\ MAX_MEMBERS \in 1 .. COUNT_MOD
    /\ BufLen \subseteq 0 .. BUFFER_LEN /\ BUFFER_LEN <= 1024
    /\ Text \subseteq 0 .. 255 /\ LOSSES \in Nat

VARIABLES
    used, free,   \* member_table.used_list; the free entries' rtp_source_t
    sender,       \* rtp_member_is_sender(sess->self)
    cname,        \* length of self's cname
    enc,          \* the encoder
    pc,           \* where the writer or the reader is
    at,           \* the writer's member, as an index of used
    more,         \* the encoder is used by another program
    rx,           \* the reader's pointers, as offsets
    meant, got,   \* what was written; what the reader's callbacks were given
    gaveUp        \* some report was given up

table == <<used, free, sender, cname>>
reportVars == <<table, enc, pc, at, more, rx, meant, got, gaveUp>>

NoOne == "none"

\* of: the source whose packets the entry counts; lost: its packets lost;
\* prior: those already reported; told: those some report has told (not in
\* the code).
Fresh(ssrc) == [of |-> ssrc, lost |-> 0, prior |-> 0, told |-> 0]

Member(ssrc, heard, src) ==
    [ssrc |-> ssrc, heard |-> heard, bye |-> FALSE, src |-> src]

AtStart == [r |-> 0, sd |-> 0, rsp |-> 0, count |-> 0]

ReportInit ==
    /\ used = <<Member(Self, FALSE, Fresh(NoOne))>>
    /\ free = [n \in 1 .. MAX_MEMBERS - 1 |-> Fresh(NoOne)]
    /\ sender = FALSE
    /\ cname \in Text
    /\ enc \in {rtcp_encoder_init(n) : n \in BufLen}
    /\ pc = "idle" /\ at = 1 /\ more \in BOOLEAN
    /\ rx = AtStart
    /\ meant = <<>> /\ got = <<>>
    /\ gaveUp = FALSE

-----------------------------------------------------------------------------
(***************************************************************************)
(* The member table, between two reports.                                  *)
(***************************************************************************)
Idle == pc = "idle" /\ UNCHANGED <<enc, pc, at, more, rx, meant, got, gaveUp>>

Unknown(ssrc) == \A k \in DOMAIN used : used[k].ssrc # ssrc

\* rtp_handle_ssrc of a new member: rtp_init_seq clears the counts.
RtpJoins(ssrc) ==
    /\ Idle /\ ~more /\ Unknown(ssrc) /\ free # <<>>
    /\ used' = Append(used, Member(ssrc, TRUE, Fresh(ssrc)))
    /\ free' = Tail(free)
    /\ UNCHANGED <<sender, cname>>

\* rtcp_handle_ssrc of a new member: the entry's rtp_src stays as it was.
RtcpJoins(ssrc) ==
    /\ Idle /\ ~more /\ Unknown(ssrc) /\ free # <<>>
    /\ used' = Append(used, Member(ssrc, FALSE, Head(free)))
    /\ free' = Tail(free)
    /\ UNCHANGED <<sender, cname>>

\* Mutant: only a new entry is cleared.
HeardKeepsSource(m) == [m EXCEPT !.heard = TRUE]

FirstHeard(m) == [m EXCEPT !.heard = TRUE, !.src = Fresh(m.ssrc)]

\* A member's first packet, the end of its sender timer, a loss, its BYE.
MemberChanges(k) ==
    LET m == used[k] IN
    /\ Idle /\ ~m.bye
    /\ \/ ~m.heard /\ used' = [used EXCEPT ![k] = FirstHeard(m)]
       \/ m.heard /\ used' = [used EXCEPT ![k].heard = FALSE]
       \/ m.heard /\ m.src.lost < LOSSES /\ used' = [used EXCEPT ![k].src.lost = @ + 1]
       \/ used' = [used EXCEPT ![k].bye = TRUE]
    /\ UNCHANGED <<free, sender, cname>>

\* Its member timer or its leave timer ends.
MemberLeaves(k) ==
    /\ Idle
    /\ used' = RemoveAt(used, k)
    /\ free' = Append(free, used[k].src)
    /\ UNCHANGED <<sender, cname>>

SelfChanges == Idle /\ sender' = ~sender /\ UNCHANGED <<used, free, cname>>

-----------------------------------------------------------------------------
(***************************************************************************)
(* rtcp_send_report: one step per call of the encoder.  A call that finds  *)
(* no room ends the report, and nothing is sent.                           *)
(***************************************************************************)
Call(re, said, next) ==
    /\ enc' = re
    /\ CASE re.ret = "ok" -> pc' = next /\ meant' = meant \o said /\ UNCHANGED gaveUp
         [] re.ret = "full" -> pc' = "over" /\ gaveUp' = TRUE /\ UNCHANGED meant
         [] OTHER -> pc' = "crashed" /\ UNCHANGED <<meant, gaveUp>>
    /\ UNCHANGED <<free, sender, cname, more, rx, got>>

Writes(from) == pc = from /\ UNCHANGED <<used, at>>

ReportBegins ==
    /\ pc = "idle" /\ at' = 1 /\ UNCHANGED used
    /\ IF sender THEN Call(rtcp_encoder_sr_begin(enc, Self), <<<<"SR", Self>>>>, "blocks")
       ELSE Call(rtcp_encoder_rr_begin(enc, Self), <<<<"RR", Self>>>>, "blocks")

block(m) == [ssrc |-> m.ssrc, of |-> m.src.of, loss |-> m.src.lost - m.src.prior]

Skipped(m) == m.ssrc = Self \/ m.bye

\* Mutant: the interval of every member is closed, also of those left out.
ReportedAll(m) == [m EXCEPT !.src.prior = m.src.lost]

\* expected_prior and received_prior are set before the encoder is called.
Reported(m) == IF Skipped(m) THEN m ELSE [m EXCEPT !.src.prior = m.src.lost]

rtcp_send_report_gen_rr ==
    LET m == used[at] IN
    /\ pc = "blocks" /\ at <= Len(used)
    /\ used' = [used EXCEPT ![at] = Reported(m)]
    /\ at' = at + 1
    /\ IF Skipped(m) THEN UNCHANGED <<enc, pc, meant, gaveUp, free, sender, cname, more, rx, got>>
       ELSE Call(IF sender THEN rtcp_encoder_sr_add_rr(enc, block(m))
                 ELSE rtcp_encoder_rr_add_rr(enc, block(m)),
                 <<<<"block", block(m)>>>>, "blocks")

ReportEnds ==
    /\ Writes("blocks") /\ at > Len(used)
    /\ Call(rtcp_encoder_end_packet(enc), <<>>, "sdes")

SdesBegins ==
    /\ Writes("sdes")
    /\ Call(rtcp_encoder_sdes_begin(enc), <<>>, "chunk")

\* The first chunk is self's.
ChunkBegins ==
    /\ Writes("chunk")
    /\ \E ssrc \in IF ndx(enc) = 0 THEN {Self} ELSE Peer :
          Call(rtcp_encoder_sdes_chunk_begin(enc, ssrc), <<<<"chunk", ssrc>>>>, "cname")

ChunkAddsCname ==
    /\ Writes("cname")
    /\ \E len \in IF ndx(enc) = 1 THEN {cname} ELSE Text :
          Call(rtcp_encoder_sdes_chunk_add_cname(enc, len), <<<<"cname", len>>>>, "chunk_end")

ChunkEnds ==
    /\ \/ Writes("chunk_end")
       \/ Writes("cname") /\ ndx(enc) > 1
    /\ Call(rtcp_encoder_sdes_chunk_end(enc), <<>>, "chunk_ended")

NextChunk ==
    /\ Writes("chunk_ended") /\ more /\ ndx(enc) < COUNT_MOD - 1
    /\ pc' = "chunk"
    /\ UNCHANGED <<table, enc, more, rx, meant, got, gaveUp>>

SdesEnds ==
    /\ Writes("chunk_ended")
    /\ Call(rtcp_encoder_end_packet(enc), <<>>, IF more THEN "bye" ELSE "send")

ByeBegins ==
    /\ Writes("bye")
    /\ Call(rtcp_encoder_bye_begin(enc), <<>>, "bye_ssrc")

ByeAddsSsrc ==
    /\ Writes("bye_ssrc") /\ ndx(enc) < COUNT_MOD - 1
    /\ \E ssrc \in Peer :
          Call(rtcp_encoder_bye_add_ssrc(enc, ssrc), <<<<"BYE", ssrc>>>>, "bye_ssrc")

ByeAddsReason ==
    /\ Writes("bye_ssrc")
    /\ \E len \in Text : Call(rtcp_encoder_bye_add_reason(enc, len), <<>>, "bye_end")

ByeEnds ==
    /\ Writes("bye_ssrc") \/ Writes("bye_end")
    /\ Call(rtcp_encoder_end_packet(enc), <<>>, "send")

\* The next report uses an encoder of its own.
ReportOver ==
    /\ pc = "over" /\ pc' = "idle"
    /\ enc' = rtcp_encoder_init(enc.buf_len)
    /\ at' = 1 /\ rx' = AtStart
    /\ meant' = <<>> /\ got' = <<>>
    /\ UNCHANGED <<table, more, gaveUp>>

-----------------------------------------------------------------------------
(***************************************************************************)
(* rtcp_rx of the peer, on the octets that tx_rtcp was given.              *)
(***************************************************************************)
len == rtcp_encoder_msg_len(enc)

Reads(from) == pc = from /\ UNCHANGED <<table, enc, at, more, meant, gaveUp>>

Cell(o) == IF o \in DOMAIN enc.buf /\ o < len THEN enc.buf[o] ELSE Stale

IsHeader(o) == Cell(o).kind = "header"

\* length of the packet at o, and the offset behind it.
Behind(o) == o + 4 * (enc.buf[o].length + 1)

ReaderLost == pc' = "lost" /\ UNCHANGED <<rx, got>>

\* rtcp_check_pkt: the first packet is an SR or an RR.
CheckFirst ==
    /\ Reads("send")
    /\ IF len >= HEADER_SIZE /\ len % 4 = 0 /\ IsHeader(0) /\ Cell(0).pt \in {"SR", "RR"}
       THEN pc' = "check" /\ rx' = [rx EXCEPT !.r = 0] /\ UNCHANGED got
       ELSE ReaderLost

\* Then the lengths lead to the end.
CheckNext ==
    /\ Reads("check")
    /\ LET r == Behind(rx.r) IN
       IF r < len /\ IsHeader(r) THEN rx' = [rx EXCEPT !.r = r] /\ UNCHANGED <<pc, got>>
       ELSE IF r = len THEN rx' = [rx EXCEPT !.r = 0] /\ pc' = "packet" /\ UNCHANGED got
       ELSE ReaderLost

\* What the callbacks are given of the array that begins base octets into
\* the packet.
Elements(base, size) ==
    [n \in 1 .. Cell(rx.r).count |-> Cell(rx.r + base + size * (n - 1))]

NextPacket == rx' = [rx EXCEPT !.r = Behind(rx.r)] /\ pc' = "packet"

rtcp_handle_report(base) ==
    LET from == Cell(rx.r + HEADER_SIZE)
        rr   == Elements(base, BLOCK_SIZE)
    IN  IF from.kind = "word" /\ \A n \in DOMAIN rr : rr[n].kind = "block"
        THEN got' = got \o <<<<Cell(rx.r).pt, from.ssrc>>>>
                        \o [n \in DOMAIN rr |-> <<"block", rr[n].block>>] /\ NextPacket
        ELSE ReaderLost

rtcp_handle_sr ==
    Reads("packet") /\ rx.r < len /\ Cell(rx.r).pt = "SR" /\ rtcp_handle_report(SR_SIZE)

rtcp_handle_rr ==
    Reads("packet") /\ rx.r < len /\ Cell(rx.r).pt = "RR" /\ rtcp_handle_report(RR_SIZE)

rtcp_handle_bye ==
    /\ Reads("packet") /\ rx.r < len /\ Cell(rx.r).pt = "BYE"
    /\ LET src == Elements(HEADER_SIZE, 4) IN
       IF \A n \in DOMAIN src : src[n].kind = "word"
       THEN got' = got \o [n \in DOMAIN src |-> <<"BYE", src[n].ssrc>>] /\ NextPacket
       ELSE ReaderLost

rtcp_handle_sdes ==
    /\ Reads("packet") /\ rx.r < len /\ Cell(rx.r).pt = "SDES"
    /\ rx' = [rx EXCEPT !.sd = rx.r + HEADER_SIZE, !.count = Cell(rx.r).count]
    /\ pc' = "read_chunk" /\ UNCHANGED got

\* A 16-bit integer in the other order of its octets.
Swapped(n) == (n % 256) * 256 + n \div 256

\* The end of the SDES packet as rtcp_handle_sdes sees it: its length is read
\* in network order.
end == rx.r + 4 * (Swapped(Cell(rx.r).length) + 1)

ReadChunk ==
    /\ Reads("read_chunk")
    /\ IF rx.count = 0 \/ rx.sd + 4 >= end
       THEN NextPacket /\ UNCHANGED got
       ELSE IF Cell(rx.sd).kind # "word" THEN ReaderLost
       ELSE /\ rx' = [rx EXCEPT !.rsp = rx.sd + 4, !.count = @ - 1]
            /\ pc' = "read_item"
            /\ got' = Append(got, <<"chunk", Cell(rx.sd).ssrc>>)

\* The chunk ends at rsp; the next one begins at the next word.
ChunkRead(rsp) ==
    /\ rx' = [rx EXCEPT !.rsp = rsp, !.sd = @ + 4 * ((rsp - @) \div 4 + 1)]
    /\ pc' = "read_chunk"

ReadItem ==
    /\ Reads("read_item")
    /\ LET item == Cell(rx.rsp)
           rspn == rx.rsp + 2 + item.length
       IN  CASE item.kind = "zero" -> ChunkRead(rx.rsp) /\ UNCHANGED got
             [] item.kind = "cname" ->
                   IF rspn >= end THEN ChunkRead(rspn) /\ UNCHANGED got
                   ELSE /\ rx' = [rx EXCEPT !.rsp = rspn]
                        /\ got' = Append(got, <<"cname", item.length>>)
                        /\ UNCHANGED pc
             [] OTHER -> ReaderLost

Told(m) ==
    LET mine == {n \in DOMAIN got : got[n][1] = "block" /\ got[n][2].ssrc = m.ssrc} IN
    IF mine = {} THEN m
    ELSE [m EXCEPT !.src.told = @ + got[CHOOSE n \in mine : TRUE][2].loss]

RxEnds ==
    /\ pc = "packet" /\ rx.r >= len
    /\ pc' = "over"
    /\ used' = [k \in DOMAIN used |-> Told(used[k])]
    /\ UNCHANGED <<free, sender, cname, enc, at, more, rx, meant, got, gaveUp>>

-----------------------------------------------------------------------------
TableStep ==
    \/ \E ssrc \in Peer : RtpJoins(ssrc) \/ RtcpJoins(ssrc)
    \/ \E k \in 2 .. Len(used) : MemberChanges(k) \/ MemberLeaves(k)
    \/ SelfChanges

WriterStep ==
    \/ ReportBegins \/ rtcp_send_report_gen_rr \/ ReportEnds
    \/ SdesBegins \/ ChunkBegins \/ ChunkAddsCname \/ ChunkEnds \/ NextChunk \/ SdesEnds
    \/ ByeBegins \/ ByeAddsSsrc \/ ByeAddsReason \/ ByeEnds
    \/ ReportOver

ReaderStep ==
    \/ CheckFirst \/ CheckNext
    \/ rtcp_handle_sr \/ rtcp_handle_rr \/ rtcp_handle_sdes \/ rtcp_handle_bye
    \/ ReadChunk \/ ReadItem \/ RxEnds

ReportNext == TableStep \/ WriterStep \/ ReaderStep

ReportSpec == ReportInit /\ [][ReportNext]_reportVars

-----------------------------------------------------------------------------
Source == [of : Peer \cup {NoOne}, lost : 0 .. LOSSES, prior : 0 .. LOSSES, told : 0 .. LOSSES]

\* Beside the types: the writer stays inside its buffer, whatever it is in the
\* middle of when the room runs out, and the table inside its array.
ReportTypeOK ==
    /\ used \in Seq([ssrc : Peer \cup {Self}, heard : BOOLEAN, bye : BOOLEAN, src : Source])
    /\ free \in Seq(Source)
    /\ Len(used) + Len(free) = MAX_MEMBERS
    /\ sender \in BOOLEAN /\ more \in BOOLEAN /\ gaveUp \in BOOLEAN
    /\ cname \in Text
    /\ DOMAIN enc.buf = 0 .. BUFFER_LEN - 1
    /\ enc.buf_len \in BufLen
    /\ enc.write_ndx \in 0 .. enc.buf_len
    /\ {enc.rtcp, enc.chunk_begin} \subseteq 0 .. enc.write_ndx
    /\ at \in 1 .. Len(used) + 1

\* Whatever is written is read: a packet that leaves the encoder passes
\* rtcp_check_pkt, and the handlers give the application exactly the SSRCs,
\* report blocks and names that were put in, in that order.  For every length
\* of the texts, every number of blocks, chunks and sources and every size of
\* the buffer the encoder's "BUG RTCP Packet is not 4 byte aligned" is not
\* reached and the reader finds every field where it looks for it.
RoundTrip ==
    /\ pc \notin {"crashed", "lost"}
    /\ IsPrefix(got, meant)
    /\ pc = "packet" /\ rx.r >= len => got = meant

\* rfc3550.h:117, "fraction lost since last SR/RR": as long as no report was
\* given up for want of room, the peers have been told of every packet that
\* the counts consider reported, once.
LossesTold ==
    pc = "idle" /\ ~gaveUp =>
        \A k \in DOMAIN used : used[k].src.told = used[k].src.prior

\* A block about a member whose packets are being received is about its
\* packets, whoever had its entry before and however it became a member.
BlocksAboutSource ==
    \A n \in DOMAIN meant : \A k \in DOMAIN used :
        /\ meant[n][1] = "block" /\ meant[n][2].ssrc = used[k].ssrc
        /\ used[k].heard
        => meant[n][2].of = used[k].ssrc

\* The same without their conditions, which the code does not provide: a
\* report that is given up has closed its members' intervals, and a member
\* known from RTCP alone is reported on with the counts of whoever had its
\* entry before ("data source being reported", rfc3550.h:115).
LossesAlwaysTold ==
    pc = "idle" => \A k \in DOMAIN used : used[k].src.told = used[k].src.prior

NoForeignBlock ==
    \A n \in DOMAIN meant :
        meant[n][1] = "block" => meant[n][2].of \in {meant[n][2].ssrc, NoOne}
=============================================================================
