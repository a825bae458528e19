----------------------------- MODULE RtpSource -----------------------------
(***************************************************************************)
(* What a session keeps about the packets of one source (rtp_source_t):    *)
(* probation, the extension of 16-bit sequence numbers, and the counts     *)
(* from which a reception report is made.                                  *)
(*                                                                         *)
(* The source numbers its packets 0, 1, 2, ... without wrapping; a packet  *)
(* carries its number modulo RTP_SEQ_MOD.  The network loses, duplicates   *)
(* and reorders packets, and the source may start over anywhere.  The      *)
(* variable sent remembers what the session cannot see.                    *)
(***************************************************************************)
EXTENDS Integers

CONSTANTS
    RTP_SEQ_MOD,
    MAX_DROPOUT,      \* RTP_CONFIG_MAX_DROPOUT
    MAX_MISORDER,     \* RTP_CONFIG_MAX_MISORDER
    MIN_SEQUENTIAL,   \* RTP_CONFIG_MIN_SEQUENTIAL
    WORD,             \* uint32_t arithmetic is modulo WORD
    LOST_MOD,         \* the field lost of a report is a signed integer mod LOST_MOD
    LAST,             \* bound: the numbers of the packets go up to LAST
    ACCEPTED          \* bound: packets accepted between two starts of the source

ASSUME SeqAssumption ==
    /\ {RTP_SEQ_MOD, MAX_DROPOUT, MAX_MISORDER, WORD, LOST_MOD, ACCEPTED} \subseteq Nat \ {0}
    /\ LAST \in Nat
    /\ MIN_SEQUENTIAL \in 2 .. RTP_SEQ_MOD
    /\ MAX_DROPOUT > 1 /\ MAX_DROPOUT + MAX_MISORDER <= RTP_SEQ_MOD
    /\ WORD % RTP_SEQ_MOD = 0 /\ RTP_SEQ_MOD + 1 < WORD

VARIABLES
    s,       \* rtp_source_t, without transit and jitter
    sent,    \* base, top: true numbers of the first and the highest packet since
             \* base_seq was set; seen: packets accepted since then
    since,   \* top and seen when the last report was made, if after base_seq was set
    trail    \* the last sequence number, and how many came one after the other

vars == <<s, sent, since, trail>>

Seq16 == 0 .. RTP_SEQ_MOD - 1

Word == 0 .. WORD - 1

-----------------------------------------------------------------------------
\* Mutant: the counts of the last report survive a new start.
InitKeepsPrior(src, seq, first) ==
    [src EXCEPT
        !.base_seq = seq, !.bad_seq = RTP_SEQ_MOD + 1, !.cycles = 0, !.received = 0,
        !.max_seq = IF first THEN (seq - 1) % RTP_SEQ_MOD ELSE seq,
        !.probation = IF first THEN MIN_SEQUENTIAL ELSE @]

rtp_init_seq(src, seq, first) ==
    [src EXCEPT
        !.base_seq = seq, !.bad_seq = RTP_SEQ_MOD + 1, !.cycles = 0,
        !.received = 0, !.received_prior = 0, !.expected_prior = 0,
        !.max_seq = IF first THEN (seq - 1) % RTP_SEQ_MOD ELSE seq,
        !.probation = IF first THEN MIN_SEQUENTIAL ELSE @]

udelta(src, seq) == (seq - src.max_seq) % RTP_SEQ_MOD

Count(src) == [src EXCEPT !.received = (@ + 1) % WORD]

\* A source on probation: MIN_SEQUENTIAL packets must follow each other.  The
\* comparison is between ints, so number 0 does not follow RTP_SEQ_MOD - 1.
\* Mutants: a gap does not start probation afresh; it leaves max_seq behind.
ProbateAny(src, seq) ==
    LET left == src.probation - 1 IN
    IF left = 0 THEN Count(rtp_init_seq([src EXCEPT !.probation = 0], seq, FALSE))
    ELSE [src EXCEPT !.probation = left, !.max_seq = seq]

ProbateStuck(src, seq) ==
    IF seq # src.max_seq + 1 THEN [src EXCEPT !.probation = MIN_SEQUENTIAL - 1]
    ELSE IF src.probation = 1
    THEN Count(rtp_init_seq([src EXCEPT !.probation = 0], seq, FALSE))
    ELSE [src EXCEPT !.probation = @ - 1, !.max_seq = seq]

Probate(src, seq) ==
    IF seq # src.max_seq + 1
    THEN [src EXCEPT !.probation = MIN_SEQUENTIAL - 1, !.max_seq = seq]
    ELSE IF src.probation = 1
    THEN Count(rtp_init_seq([src EXCEPT !.probation = 0], seq, FALSE))
    ELSE [src EXCEPT !.probation = @ - 1, !.max_seq = seq]

\* Mutant: a wrap is seen only if number 0 itself arrives.
AdvanceAtZero(src, seq) ==
    [src EXCEPT !.cycles = IF seq = 0 /\ src.max_seq # 0 THEN (@ + RTP_SEQ_MOD) % WORD ELSE @,
                !.max_seq = seq]

\* In order, with a permissible gap.
Advance(src, seq) ==
    [src EXCEPT !.cycles = IF seq < src.max_seq THEN (@ + RTP_SEQ_MOD) % WORD ELSE @,
                !.max_seq = seq]

\* Mutant: the number that would confirm a jump is not reduced to 16 bits.
JumpUnmasked(src, seq) ==
    IF seq = src.bad_seq THEN Count(rtp_init_seq(src, seq, TRUE))
    ELSE [src EXCEPT !.bad_seq = seq + 1]

\* A very large jump: the second in sequence is taken for a new start.
Jump(src, seq) ==
    IF seq = src.bad_seq THEN Count(rtp_init_seq(src, seq, TRUE))
    ELSE [src EXCEPT !.bad_seq = (seq + 1) % RTP_SEQ_MOD]

rtp_update_seq(src, seq) ==
    CASE src.probation > 0 -> Probate(src, seq)
      [] src.probation = 0 /\ udelta(src, seq) < MAX_DROPOUT -> Count(Advance(src, seq))
      [] src.probation = 0 /\ udelta(src, seq) \in MAX_DROPOUT .. RTP_SEQ_MOD - MAX_MISORDER ->
            Jump(src, seq)
      [] OTHER -> Count(src)

-----------------------------------------------------------------------------
(***************************************************************************)
(* rtcp_send_report_gen_rr for this source.                                *)
(***************************************************************************)
extended_max == (s.cycles + s.max_seq) % WORD

expected == (extended_max - s.base_seq + 1) % WORD

\* As an int32_t; the field then keeps the sign of a negative count, and
\* nothing else of it.
lost ==
    LET l == (expected - s.received) % WORD
        n == IF l < WORD \div 2 THEN l ELSE l - WORD
    IN  IF n >= 0 THEN n % (LOST_MOD \div 2) ELSE LOST_MOD \div 2

expected_interval == (expected - s.expected_prior) % WORD

received_interval == (s.received - s.received_prior) % WORD

lost_interval == (expected_interval - received_interval) % WORD

\* lost_interval is unsigned, so that "<= 0" is "= 0"; the quotient of its
\* upper 24 bits shifted by 8 is cut to a uint8_t.
fraction ==
    IF expected_interval = 0 \/ lost_interval = 0 THEN 0
    ELSE (((lost_interval * 256) % WORD) \div expected_interval) % 256

-----------------------------------------------------------------------------
\* rtp_handle_ssrc starts a source at its first packet, or at the first since
\* its sender timer expired.  That packet is not counted.
Started(seq) == [base |-> seq, top |-> seq, seen |-> 0]

Nothing(seq) == [top |-> seq - 1, seen |-> 0]

Init ==
    \E seq \in Seq16 :
        /\ s = rtp_init_seq([base_seq |-> 0, max_seq |-> 0, bad_seq |-> 0, cycles |-> 0,
                             received |-> 0, received_prior |-> 0, expected_prior |-> 0,
                             probation |-> 0], seq, TRUE)
        /\ sent = Started(seq)
        /\ since = Nothing(seq)
        /\ trail = [last |-> seq, run |-> 1]

\* The longest run that matters: see ValidAgain.
RUN == 2 * MIN_SEQUENTIAL + 1

Follow(seq) ==
    [last |-> seq,
     run  |-> IF seq # (trail.last + 1) % RTP_SEQ_MOD THEN 1
              ELSE IF trail.run < RUN THEN trail.run + 1 ELSE RUN]

FirstHeard(seq) ==
    /\ s' = rtp_init_seq(s, seq, TRUE)
    /\ sent' = Started(seq)
    /\ since' = Nothing(seq)
    /\ trail' = [last |-> seq, run |-> 1]

\* A packet of a source on probation, with any number.
RxOnProbation(seq) ==
    /\ s.probation > 0
    /\ s' = rtp_update_seq(s, seq)
    /\ sent' = [base |-> seq, top |-> seq, seen |-> IF s'.probation = 0 THEN 1 ELSE 0]
    /\ since' = Nothing(seq)
    /\ trail' = Follow(seq)

\* A packet that is less than MAX_MISORDER late, or less than MAX_DROPOUT ahead.
RxNear(n) ==
    /\ s.probation = 0 /\ n <= LAST /\ sent.seen < ACCEPTED
    /\ s' = rtp_update_seq(s, n % RTP_SEQ_MOD)
    /\ sent' = [sent EXCEPT !.top = IF n > @ THEN n ELSE @, !.seen = @ + 1]
    /\ trail' = Follow(n % RTP_SEQ_MOD)
    /\ UNCHANGED since

\* A packet from far away: a stray one, or the source started over.
RxFar(n) ==
    /\ s.probation = 0
    /\ s' = rtp_update_seq(s, n % RTP_SEQ_MOD)
    /\ IF s'.probation > 0
       THEN sent' = Started(n % RTP_SEQ_MOD) /\ since' = Nothing(n % RTP_SEQ_MOD)
       ELSE UNCHANGED <<sent, since>>
    /\ trail' = Follow(n % RTP_SEQ_MOD)

Report ==
    /\ s' = [s EXCEPT !.expected_prior = expected, !.received_prior = s.received]
    /\ since' = [top |-> sent.top, seen |-> sent.seen]
    /\ UNCHANGED <<sent, trail>>

Next ==
    \/ \E seq \in Seq16 : FirstHeard(seq) \/ RxOnProbation(seq)
    \/ \E n \in sent.top - MAX_MISORDER + 1 .. sent.top + MAX_DROPOUT - 1 : RxNear(n)
    \/ \E n \in sent.top + MAX_DROPOUT .. sent.top + RTP_SEQ_MOD - MAX_MISORDER : RxFar(n)
    \/ Report

Spec == Init /\ [][Next]_vars

-----------------------------------------------------------------------------
TypeOK ==
    /\ s \in [base_seq : Seq16, max_seq : Seq16, bad_seq : Seq16 \cup {RTP_SEQ_MOD + 1},
              cycles : Word, received : Word, received_prior : Word,
              expected_prior : Word, probation : 0 .. MIN_SEQUENTIAL]
    /\ sent \in [base : Seq16, top : Nat, seen : 0 .. ACCEPTED]
    /\ since \in [top : Int, seen : 0 .. ACCEPTED]
    /\ trail \in [last : Seq16, run : 1 .. RUN]

\* From 16 bits the session recovers how far the source has come: as long as
\* packets are less than MAX_MISORDER late and gaps shorter than MAX_DROPOUT,
\* the extended number in a report is the true one, over any number of wraps,
\* after strays, restarts and reports made at any moment.
Unwrapped ==
    s.probation = 0 =>
        /\ s.max_seq = sent.top % RTP_SEQ_MOD
        /\ (extended_max - s.base_seq) % WORD = (sent.top - sent.base) % WORD

\* The next report covers exactly what came since the last one, or since the
\* source started: neither the probation nor a restart in between leaves an
\* interval that mixes counts of two starts.
IntervalExact ==
    s.probation = 0 =>
        /\ expected_interval = (sent.top - since.top) % WORD
        /\ received_interval = (sent.seen - since.seen) % WORD

\* rtp.c:37-40: "Source is not valid until RTP_CONFIG_MIN_SEQUENTIAL packets
\* with sequential sequence numbers have been received."
ValidAfterRun ==
    [][s.probation > 0 /\ s'.probation = 0 => trail'.run >= MIN_SEQUENTIAL]_vars

\* A source whose packets arrive in order does not stay on probation: not being
\* known, a re-sync and a wrap cost it at most MIN_SEQUENTIAL + 1 packets more
\* than MIN_SEQUENTIAL, together.
ValidAgain == trail.run = RUN => s.probation = 0

\* rfc3550.h:117, "fraction lost since last SR/RR": a report that covers no
\* fewer packets than were expected reports no loss.
NoLossNoFraction ==
    s.probation = 0 /\ sent.seen - since.seen >= sent.top - since.top => fraction = 0

\* rfc3550.h:118, "cumul. no. pkts lost (signed!)": read as a signed number, the
\* field is the number of packets expected less those received.
LostIsSigned ==
    s.probation = 0 =>
        LET missing == sent.top - sent.base + 1 - sent.seen
            field   == IF lost < LOST_MOD \div 2 THEN lost ELSE lost - LOST_MOD
        IN  field = missing
=============================================================================
