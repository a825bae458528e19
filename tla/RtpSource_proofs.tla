-------------------------- MODULE RtpSource_proofs --------------------------
(***************************************************************************)
(* Proofs about RtpSource for any modulus, any word of whole cycles, any   *)
(* permissible gap and lateness that a cycle has room for, and probation   *)
(* of at least two packets.                                                *)
(***************************************************************************)
EXTENDS RtpSource, Basics

\* What the session keeps about a source that has left probation, in terms of
\* the packets that were sent: Unwrapped and IntervalExact follow from it.
Tracks ==
    s.probation = 0 =>
        /\ s.base_seq = sent.base
        /\ s.max_seq = sent.top % RTP_SEQ_MOD
        /\ (s.cycles + s.max_seq) % WORD = sent.top % WORD
        /\ s.received = sent.seen % WORD
        /\ s.expected_prior = (since.top - sent.base + 1) % WORD
        /\ s.received_prior = since.seen % WORD

\* A source on probation: max_seq is the last number, and as many packets as
\* probation has counted came one after the other.
RunCounted ==
    s.probation \in 1 .. MIN_SEQUENTIAL - 1 =>
        trail.last = s.max_seq /\ trail.run >= MIN_SEQUENTIAL - s.probation

\* How long a run can be before it ends probation.  It is two packets old when
\* probation starts, one more is needed because max_seq is left one behind, and
\* it may meet one wrap, after which the last number says how far it came.
RunShort ==
    /\ s.probation = MIN_SEQUENTIAL =>
          trail.run <= 2 /\ s.max_seq = (trail.last - 1) % RTP_SEQ_MOD
    /\ s.probation \in 1 .. MIN_SEQUENTIAL - 1 =>
          \/ trail.run <= MIN_SEQUENTIAL + 2 - s.probation
          \/ /\ trail.last = MIN_SEQUENTIAL - 1 - s.probation
             /\ trail.run <= 2 * MIN_SEQUENTIAL + 1 - s.probation

\* Out of probation, the last packet was near, or it is a run of its own that
\* the next number in sequence turns into a new start.
LastPlaced ==
    s.probation = 0 =>
        \/ udelta(s, trail.last) = 0
        \/ udelta(s, trail.last) > RTP_SEQ_MOD - MAX_MISORDER
        \/ trail.run = 1 /\ s.bad_seq = (trail.last + 1) % RTP_SEQ_MOD

IInv == TypeOK /\ Tracks /\ RunCounted /\ RunShort /\ LastPlaced

-----------------------------------------------------------------------------
Source ==
    [base_seq : Seq16, max_seq : Seq16, bad_seq : Seq16 \cup {RTP_SEQ_MOD + 1},
     cycles : Word, received : Word, received_prior : Word,
     expected_prior : Word, probation : 0 .. MIN_SEQUENTIAL]

LEMMA Constants ==
    /\ RTP_SEQ_MOD \in Nat \ {0} /\ RTP_SEQ_MOD > 1 /\ WORD \in Nat \ {0} /\ RTP_SEQ_MOD + 1 < WORD
    /\ MAX_DROPOUT \in Nat /\ MAX_DROPOUT > 1 /\ MAX_MISORDER \in Nat \ {0}
    /\ MAX_DROPOUT + MAX_MISORDER <= RTP_SEQ_MOD
    /\ MIN_SEQUENTIAL \in 2 .. RTP_SEQ_MOD /\ ACCEPTED \in Nat \ {0} /\ RUN \in Nat
    /\ RUN = 2 * MIN_SEQUENTIAL + 1
BY SeqAssumption DEF RUN

\* Reduced numbers are numbers of a packet, or words.
LEMMA Reduced ==
    ASSUME NEW a \in Int
    PROVE  a % RTP_SEQ_MOD \in Seq16 /\ a % WORD \in Word
BY Constants, DivMod DEF Seq16, Word

\* rtp_init_seq, field by field.
LEMMA InitSeq ==
    ASSUME NEW src \in Source, NEW seq \in Seq16, NEW first \in BOOLEAN
    PROVE  LET r == rtp_init_seq(src, seq, first) IN
           /\ r \in Source
           /\ r.base_seq = seq /\ r.cycles = 0 /\ r.received = 0
           /\ r.received_prior = 0 /\ r.expected_prior = 0
           /\ r.max_seq = IF first THEN (seq - 1) % RTP_SEQ_MOD ELSE seq
           /\ r.probation = IF first THEN MIN_SEQUENTIAL ELSE src.probation
           /\ r.bad_seq = RTP_SEQ_MOD + 1
<1>1. (seq - 1) % RTP_SEQ_MOD \in Seq16
    BY Reduced, Constants DEF Seq16
<1> DEFINE m == IF first THEN (seq - 1) % RTP_SEQ_MOD ELSE seq
           p == IF first THEN MIN_SEQUENTIAL ELSE src.probation
<1>2. m \in Seq16 /\ p \in 0 .. MIN_SEQUENTIAL /\ 0 \in Word
    BY <1>1, Constants DEF Source, Word
<1>3. rtp_init_seq(src, seq, first) =
        [src EXCEPT !.base_seq = seq, !.bad_seq = RTP_SEQ_MOD + 1, !.cycles = 0,
                    !.received = 0, !.received_prior = 0, !.expected_prior = 0,
                    !.max_seq = m, !.probation = p]
    BY DEF rtp_init_seq, Source
<1> HIDE DEF m, p
<1>4. LET r == rtp_init_seq(src, seq, first) IN
      /\ r \in Source
      /\ r.base_seq = seq /\ r.cycles = 0 /\ r.received = 0
      /\ r.received_prior = 0 /\ r.expected_prior = 0
      /\ r.max_seq = m /\ r.probation = p /\ r.bad_seq = RTP_SEQ_MOD + 1
    BY <1>2, <1>3 DEF Source
<1> QED
    BY <1>4 DEF m, p

\* Count changes only received.
LEMMA Counted ==
    ASSUME NEW src \in Source
    PROVE  /\ Count(src) \in Source
           /\ Count(src) = [src EXCEPT !.received = (src.received + 1) % WORD]
<1>1. (src.received + 1) % WORD \in Word
    <2>1. src.received + 1 \in Int
        BY Constants DEF Source, Word
    <2> QED BY <2>1, Reduced
<1> QED
    BY <1>1 DEF Count, Source

\* A packet on probation: the source starts over, is valid, or is one nearer.
LEMMA ProbateCases ==
    ASSUME NEW src \in Source, NEW seq \in Seq16, src.probation > 0
    PROVE  LET r == Probate(src, seq) IN
           /\ r \in Source
           /\ seq # src.max_seq + 1 => r.probation = MIN_SEQUENTIAL - 1
           /\ seq = src.max_seq + 1 => r.probation = src.probation - 1
           /\ r.max_seq = seq
           /\ r.probation = 0 =>
                 /\ r.base_seq = seq /\ r.cycles = 0 /\ r.received = 1
                 /\ r.received_prior = 0 /\ r.expected_prior = 0
<1> DEFINE fresh == [src EXCEPT !.probation = 0]
           start == rtp_init_seq(fresh, seq, FALSE)
<1>1. fresh \in Source /\ fresh.probation = 0
    BY Constants DEF Source
<1>2. /\ start \in Source
      /\ start.base_seq = seq /\ start.cycles = 0 /\ start.received = 0
      /\ start.received_prior = 0 /\ start.expected_prior = 0
      /\ start.max_seq = seq /\ start.probation = 0
    <2> HIDE DEF fresh
    <2> QED BY <1>1, InitSeq
<1>3. Probate(src, seq) =
        IF seq # src.max_seq + 1
        THEN [src EXCEPT !.probation = MIN_SEQUENTIAL - 1, !.max_seq = seq]
        ELSE IF src.probation = 1 THEN Count(start)
        ELSE [src EXCEPT !.probation = @ - 1, !.max_seq = seq]
    BY DEF Probate
<1> HIDE DEF start
<1>4. /\ Count(start) \in Source
      /\ Count(start) = [start EXCEPT !.received = (start.received + 1) % WORD]
    BY <1>2, Counted
<1>5. (start.received + 1) % WORD = 1
    BY <1>2, Constants, ModSmall
<1>6. CASE seq # src.max_seq + 1
    <2> DEFINE p == MIN_SEQUENTIAL - 1
    <2>1. p \in 0 .. MIN_SEQUENTIAL /\ p # 0
        BY Constants
    <2>2. Probate(src, seq) = [src EXCEPT !.probation = p, !.max_seq = seq]
        BY <1>3, <1>6
    <2> HIDE DEF p
    <2>3. LET r == Probate(src, seq) IN r \in Source /\ r.probation = p /\ r.max_seq = seq
        BY <2>1, <2>2 DEF Source
    <2> QED BY <1>6, <2>1, <2>3 DEF p
<1>7. CASE seq = src.max_seq + 1 /\ src.probation = 1
    BY <1>2, <1>3, <1>4, <1>5, <1>7 DEF Source
<1>8. CASE seq = src.max_seq + 1 /\ src.probation # 1
    <2> DEFINE p == src.probation - 1
    <2>1. p \in 0 .. MIN_SEQUENTIAL /\ p # 0
        BY <1>8, Constants DEF Source
    <2>2. Probate(src, seq) = [src EXCEPT !.probation = p, !.max_seq = seq]
        BY <1>3, <1>8 DEF Source
    <2> HIDE DEF p
    <2>3. LET r == Probate(src, seq) IN r \in Source /\ r.probation = p /\ r.max_seq = seq
        BY <2>1, <2>2 DEF Source
    <2> QED BY <1>8, <2>1, <2>3 DEF p
<1> QED
    BY <1>6, <1>7, <1>8

\* A packet ahead of the others.
LEMMA AdvanceCounted ==
    ASSUME NEW src \in Source, NEW seq \in Seq16
    PROVE  LET r == Count(Advance(src, seq)) IN
           /\ r \in Source
           /\ r.cycles = IF seq < src.max_seq THEN (src.cycles + RTP_SEQ_MOD) % WORD ELSE src.cycles
           /\ r.max_seq = seq /\ r.received = (src.received + 1) % WORD
           /\ \A f \in {"base_seq", "bad_seq", "received_prior", "expected_prior", "probation"} :
                 r[f] = src[f]
<1> DEFINE c == IF seq < src.max_seq THEN (src.cycles + RTP_SEQ_MOD) % WORD ELSE src.cycles
           a == Advance(src, seq)
<1>1. c \in Word
    <2>1. src.cycles \in Word /\ src.cycles + RTP_SEQ_MOD \in Int
        BY Constants DEF Source, Word
    <2> QED BY <2>1, Reduced
<1>2. a = [src EXCEPT !.cycles = c, !.max_seq = seq]
    BY DEF Advance, Source
<1> HIDE DEF c
<1>3. /\ a \in Source /\ a.cycles = c /\ a.max_seq = seq /\ a.received = src.received
      /\ a.base_seq = src.base_seq /\ a.bad_seq = src.bad_seq /\ a.probation = src.probation
      /\ a.received_prior = src.received_prior /\ a.expected_prior = src.expected_prior
    BY <1>1, <1>2 DEF Source
<1> HIDE DEF a
<1>4. Count(a) \in Source /\ Count(a) = [a EXCEPT !.received = (a.received + 1) % WORD]
    BY <1>3, Counted
<1>5. /\ Count(a).cycles = c /\ Count(a).max_seq = seq
      /\ Count(a).received = (src.received + 1) % WORD
      /\ Count(a).base_seq = src.base_seq /\ Count(a).bad_seq = src.bad_seq
      /\ Count(a).probation = src.probation
      /\ Count(a).received_prior = src.received_prior
      /\ Count(a).expected_prior = src.expected_prior
    BY <1>3, <1>4 DEF Source
<1> QED
    BY <1>4, <1>5 DEF a, c

\* A packet from far away: a new start, or the number that would confirm one.
LEMMA JumpCases ==
    ASSUME NEW src \in Source, NEW seq \in Seq16
    PROVE  LET r == Jump(src, seq) IN
           /\ r \in Source
           /\ seq = src.bad_seq => r.probation = MIN_SEQUENTIAL /\ r.max_seq = (seq - 1) % RTP_SEQ_MOD
           /\ seq # src.bad_seq => r = [src EXCEPT !.bad_seq = (seq + 1) % RTP_SEQ_MOD]
<1> DEFINE start == rtp_init_seq(src, seq, TRUE)
<1>1. start \in Source /\ start.probation = MIN_SEQUENTIAL /\ start.max_seq = (seq - 1) % RTP_SEQ_MOD
    BY InitSeq
<1>2. Jump(src, seq) = IF seq = src.bad_seq THEN Count(start)
                       ELSE [src EXCEPT !.bad_seq = (seq + 1) % RTP_SEQ_MOD]
    BY DEF Jump
<1> HIDE DEF start
<1>3. Count(start) \in Source /\ Count(start) = [start EXCEPT !.received = (start.received + 1) % WORD]
    BY <1>1, Counted
<1>4. Count(start).probation = MIN_SEQUENTIAL /\ Count(start).max_seq = (seq - 1) % RTP_SEQ_MOD
    BY <1>1, <1>3 DEF Source
<1>5. (seq + 1) % RTP_SEQ_MOD \in Seq16
    BY Reduced, Constants DEF Seq16
<1>6. [src EXCEPT !.bad_seq = (seq + 1) % RTP_SEQ_MOD] \in Source
    BY <1>5 DEF Source
<1> QED
    BY <1>2, <1>3, <1>4, <1>6

\* The distance the session sees is the true one, reduced to 16 bits.
LEMMA TrueDistance ==
    ASSUME NEW src, NEW n \in Int, NEW top \in Int, src.max_seq = top % RTP_SEQ_MOD
    PROVE  udelta(src, n % RTP_SEQ_MOD) = (n - top) % RTP_SEQ_MOD
<1> DEFINE r == n % RTP_SEQ_MOD
<1>1. r \in Int
    BY Reduced, Constants DEF Seq16
<1> HIDE DEF r
<1>2. (r - (top % RTP_SEQ_MOD)) % RTP_SEQ_MOD = (r - top) % RTP_SEQ_MOD
    BY <1>1, Constants, ModAdd
<1>3. (r - top) % RTP_SEQ_MOD = (n - top) % RTP_SEQ_MOD
    BY Constants, ModAdd DEF r
<1>4. udelta(src, r) = (r - (top % RTP_SEQ_MOD)) % RTP_SEQ_MOD
    BY DEF udelta
<1> QED
    BY <1>2, <1>3, <1>4 DEF r

\* Which numbers are taken to be ahead, late or far away.
LEMMA Distances ==
    ASSUME NEW top \in Int, NEW n \in Int
    PROVE  LET d == (n - top) % RTP_SEQ_MOD IN
           /\ n \in top .. top + MAX_DROPOUT - 1 => d = n - top /\ d < MAX_DROPOUT
           /\ n \in top - MAX_MISORDER + 1 .. top - 1 =>
                 d = n - top + RTP_SEQ_MOD /\ d > RTP_SEQ_MOD - MAX_MISORDER /\ d >= MAX_DROPOUT
           /\ n \in top + MAX_DROPOUT .. top + RTP_SEQ_MOD - MAX_MISORDER =>
                 d = n - top /\ d \in MAX_DROPOUT .. RTP_SEQ_MOD - MAX_MISORDER
<1> DEFINE e == n - top  u == n - top + RTP_SEQ_MOD
<1>1. e \in Int /\ u \in Int /\ u = e + RTP_SEQ_MOD
    BY Constants
<1>2. n \in top .. top + MAX_DROPOUT - 1 => e \in 0 .. RTP_SEQ_MOD - 1
    BY Constants
<1>3. n \in top + MAX_DROPOUT .. top + RTP_SEQ_MOD - MAX_MISORDER => e \in 0 .. RTP_SEQ_MOD - 1
    BY Constants
<1>4. n \in top - MAX_MISORDER + 1 .. top - 1 => u \in 0 .. RTP_SEQ_MOD - 1
    BY Constants
<1> HIDE DEF e, u
<1>5. u % RTP_SEQ_MOD = e % RTP_SEQ_MOD
    BY <1>1, Constants, ModTurn
<1>6. e \in 0 .. RTP_SEQ_MOD - 1 => e % RTP_SEQ_MOD = e
    BY Constants, ModSmall
<1>7. u \in 0 .. RTP_SEQ_MOD - 1 => e % RTP_SEQ_MOD = u
    BY <1>5, Constants, ModSmall
<1>8. /\ n \in top .. top + MAX_DROPOUT - 1 => e % RTP_SEQ_MOD = e
      /\ n \in top - MAX_MISORDER + 1 .. top - 1 => e % RTP_SEQ_MOD = u
      /\ n \in top + MAX_DROPOUT .. top + RTP_SEQ_MOD - MAX_MISORDER => e % RTP_SEQ_MOD = e
    BY <1>2, <1>3, <1>4, <1>6, <1>7
<1> DEFINE d == e % RTP_SEQ_MOD
<1> HIDE DEF d
<1>9. /\ n \in top .. top + MAX_DROPOUT - 1 => d = n - top /\ d < MAX_DROPOUT
      /\ n \in top - MAX_MISORDER + 1 .. top - 1 =>
            d = n - top + RTP_SEQ_MOD /\ d > RTP_SEQ_MOD - MAX_MISORDER /\ d >= MAX_DROPOUT
      /\ n \in top + MAX_DROPOUT .. top + RTP_SEQ_MOD - MAX_MISORDER =>
            d = n - top /\ d \in MAX_DROPOUT .. RTP_SEQ_MOD - MAX_MISORDER
    <2>1. /\ n \in top .. top + MAX_DROPOUT - 1 => d = e
          /\ n \in top - MAX_MISORDER + 1 .. top - 1 => d = u
          /\ n \in top + MAX_DROPOUT .. top + RTP_SEQ_MOD - MAX_MISORDER => d = e
        BY <1>8 DEF d
    <2> QED BY <2>1, Constants DEF e, u
<1> QED
    BY <1>9 DEF d, e

\* Whatever the gap, counting a cycle when the number gets smaller keeps the
\* extended number equal to the true one.
LEMMA Extended ==
    ASSUME NEW c \in Int, NEW top \in Int, NEW d \in 0 .. RTP_SEQ_MOD - 1, NEW m,
           m = top % RTP_SEQ_MOD, (c + m) % WORD = top % WORD, NEW seq, seq = (top + d) % RTP_SEQ_MOD
    PROVE  ((IF seq < m THEN (c + RTP_SEQ_MOD) % WORD ELSE c) + seq) % WORD = (top + d) % WORD
<1>1. m \in 0 .. RTP_SEQ_MOD - 1
    BY Reduced DEF Seq16
<1>2. seq = IF m + d < RTP_SEQ_MOD THEN m + d ELSE m + d - RTP_SEQ_MOD
    BY Constants, ModShift
<1> DEFINE x == c + m  y == c + RTP_SEQ_MOD  z == c + m + d
<1>3. x \in Int /\ y \in Int /\ d \in Int /\ seq \in Int /\ z = x + d
    BY <1>1, <1>2, Constants
<1>4. z % WORD = (top + d) % WORD
    <2>1. x % WORD = top % WORD
        OBVIOUS
    <2> HIDE DEF x, z
    <2>2. ((x % WORD) + d) % WORD = (x + d) % WORD /\ ((top % WORD) + d) % WORD = (top + d) % WORD
        BY <1>3, Constants, ModAdd
    <2> QED BY <1>3, <2>1, <2>2
<1>5. CASE seq < m
    <2>1. y + seq = z
        BY <1>1, <1>2, <1>5, Constants
    <2> HIDE DEF y, z
    <2>2. ((y % WORD) + seq) % WORD = (y + seq) % WORD
        BY <1>3, Constants, ModAdd
    <2>3. ((y % WORD) + seq) % WORD = (top + d) % WORD
        BY <1>4, <2>1, <2>2
    <2> QED BY <1>5, <2>3 DEF y
<1>6. CASE ~(seq < m)
    <2>1. c + seq = z
        BY <1>1, <1>2, <1>6, Constants
    <2> HIDE DEF z
    <2> QED BY <1>4, <1>6, <2>1
<1> QED
    BY <1>5, <1>6

\* One packet more.
LEMMA CountedWord ==
    ASSUME NEW a \in Int
    PROVE  ((a % WORD) + 1) % WORD = (a + 1) % WORD
<1> DEFINE o == 1
<1>1. o \in Int
    OBVIOUS
<1>2. ((a % WORD) + o) % WORD = (a + o) % WORD
    <2> HIDE DEF o
    <2> QED BY <1>1, Constants, ModAdd
<1> QED
    BY <1>2

\* The packets a report says were expected are those up to the highest.
LEMMA ExpectedExact ==
    ASSUME TypeOK, Tracks, s.probation = 0
    PROVE  /\ extended_max = sent.top % WORD
           /\ expected = (sent.top - sent.base + 1) % WORD
           /\ (extended_max - s.base_seq) % WORD = (sent.top - sent.base) % WORD
<1>1. sent.top \in Int /\ sent.base \in Int
    BY Constants DEF TypeOK, Seq16
<1>2. extended_max = sent.top % WORD /\ s.base_seq = sent.base
    BY DEF extended_max, Tracks
<1> DEFINE t == sent.top  b == sent.base  x == sent.top % WORD  b1 == b - 1
<1>3. x \in Int
    BY <1>1, Reduced, Constants DEF Word
<1>4. b1 \in Int /\ x - b1 = x - b + 1 /\ t - b1 = t - b + 1
    BY <1>1, <1>3
<1>5. (x - b1) % WORD = (t - b1) % WORD
    <2> HIDE DEF b1, t
    <2> QED BY <1>1, <1>4, Constants, ModAdd DEF t
<1>6. (x - b) % WORD = (t - b) % WORD
    BY <1>1, Constants, ModAdd
<1>7. expected = (x - b + 1) % WORD
    BY <1>2 DEF expected
<1>8. expected = (t - b + 1) % WORD
    <2> HIDE DEF x, t, b, b1
    <2> QED BY <1>4, <1>5, <1>7
<1> QED
    BY <1>2, <1>6, <1>8

\* The last number, and the length of the run it continues or starts.
LEMMA Followed ==
    ASSUME TypeOK, NEW seq \in Seq16
    PROVE  /\ Follow(seq) \in [last : Seq16, run : 1 .. RUN]
           /\ Follow(seq).last = seq
           /\ seq # (trail.last + 1) % RTP_SEQ_MOD => Follow(seq).run = 1
           /\ seq = (trail.last + 1) % RTP_SEQ_MOD =>
                 /\ Follow(seq).run <= trail.run + 1
                 /\ trail.run < RUN => Follow(seq).run = trail.run + 1
                 /\ trail.run = RUN => Follow(seq).run = RUN
<1> DEFINE r == IF seq # (trail.last + 1) % RTP_SEQ_MOD THEN 1
                ELSE IF trail.run < RUN THEN trail.run + 1 ELSE RUN
<1>1. trail.run \in 1 .. RUN
    BY DEF TypeOK
<1>2. r \in 1 .. RUN
    BY <1>1, Constants
<1>3. Follow(seq) = [last |-> seq, run |-> r]
    BY DEF Follow
<1> HIDE DEF r
<1>4. Follow(seq) \in [last : Seq16, run : 1 .. RUN] /\ Follow(seq).last = seq /\ Follow(seq).run = r
    BY <1>2, <1>3
<1> QED
    BY <1>1, <1>4, Constants DEF r

\* Which branch of rtp_update_seq a packet takes.
LEMMA UpdateSeq ==
    ASSUME NEW src \in Source, NEW seq \in Seq16
    PROVE  LET d == udelta(src, seq)  r == rtp_update_seq(src, seq) IN
           /\ src.probation > 0 => r = Probate(src, seq)
           /\ src.probation = 0 /\ d < MAX_DROPOUT => r = Count(Advance(src, seq))
           /\ src.probation = 0 /\ d \in MAX_DROPOUT .. RTP_SEQ_MOD - MAX_MISORDER => r = Jump(src, seq)
           /\ src.probation = 0 /\ d > RTP_SEQ_MOD - MAX_MISORDER => r = Count(src)
<1> DEFINE d == udelta(src, seq)
<1>1. d \in Int
    <2>1. seq - src.max_seq \in Int
        BY Constants DEF Source, Seq16
    <2> QED BY <2>1, Reduced, Constants DEF udelta, Seq16
<1>2. src.probation \in Nat
    BY Constants DEF Source
<1>3. rtp_update_seq(src, seq) =
        CASE src.probation > 0 -> Probate(src, seq)
          [] src.probation = 0 /\ d < MAX_DROPOUT -> Count(Advance(src, seq))
          [] src.probation = 0 /\ d \in MAX_DROPOUT .. RTP_SEQ_MOD - MAX_MISORDER -> Jump(src, seq)
          [] OTHER -> Count(src)
    BY DEF rtp_update_seq
<1> HIDE DEF d
<1>4. /\ src.probation > 0 => rtp_update_seq(src, seq) = Probate(src, seq)
      /\ src.probation = 0 /\ d < MAX_DROPOUT => rtp_update_seq(src, seq) = Count(Advance(src, seq))
      /\ src.probation = 0 /\ d \in MAX_DROPOUT .. RTP_SEQ_MOD - MAX_MISORDER =>
            rtp_update_seq(src, seq) = Jump(src, seq)
      /\ src.probation = 0 /\ d > RTP_SEQ_MOD - MAX_MISORDER => rtp_update_seq(src, seq) = Count(src)
    BY <1>1, <1>2, <1>3, Constants
<1> QED
    BY <1>4 DEF d

LEMMA SourceType == TypeOK => s \in Source
BY DEF TypeOK, Source

-----------------------------------------------------------------------------
\* A source that was just started satisfies the invariant.
LEMMA StartOK ==
    ASSUME NEW seq \in Seq16, s \in Source, s.probation = MIN_SEQUENTIAL,
           s.max_seq = (seq - 1) % RTP_SEQ_MOD,
           sent = Started(seq), since = Nothing(seq), trail = [last |-> seq, run |-> 1]
    PROVE  IInv
<1>1. sent \in [base : Seq16, top : Nat, seen : 0 .. ACCEPTED]
    BY Constants DEF Started, Seq16
<1>2. since \in [top : Int, seen : 0 .. ACCEPTED]
    BY Constants DEF Nothing, Seq16
<1>3. trail \in [last : Seq16, run : 1 .. RUN] /\ trail.last = seq /\ trail.run = 1
    BY Constants
<1>4. s.probation # 0 /\ s.probation \notin 1 .. MIN_SEQUENTIAL - 1
    BY Constants
<1> QED
    BY <1>1, <1>2, <1>3, <1>4 DEF IInv, TypeOK, Source, Tracks, RunCounted, RunShort, LastPlaced

\* Each action keeps the invariant.
LEMMA InitOK == Init => IInv
<1> SUFFICES ASSUME NEW seq \in Seq16,
                    s = rtp_init_seq([base_seq |-> 0, max_seq |-> 0, bad_seq |-> 0, cycles |-> 0,
                             received |-> 0, received_prior |-> 0, expected_prior |-> 0,
                             probation |-> 0], seq, TRUE),
                    sent = Started(seq), since = Nothing(seq), trail = [last |-> seq, run |-> 1]
             PROVE  IInv
    BY DEF Init
<1> DEFINE zero == [base_seq |-> 0, max_seq |-> 0, bad_seq |-> 0, cycles |-> 0,
                    received |-> 0, received_prior |-> 0, expected_prior |-> 0, probation |-> 0]
<1>1. zero \in Source
    BY Constants DEF Source, Seq16, Word
<1>2. s \in Source /\ s.probation = MIN_SEQUENTIAL /\ s.max_seq = (seq - 1) % RTP_SEQ_MOD
    <2> HIDE DEF zero
    <2>1. s = rtp_init_seq(zero, seq, TRUE)
        BY DEF zero
    <2>2. LET r == rtp_init_seq(zero, seq, TRUE) IN
          r \in Source /\ r.probation = MIN_SEQUENTIAL /\ r.max_seq = (seq - 1) % RTP_SEQ_MOD
        BY <1>1, InitSeq
    <2> QED BY <2>1, <2>2
<1> QED
    BY <1>2, StartOK

LEMMA FirstHeardOK ==
    ASSUME IInv, NEW seq \in Seq16, FirstHeard(seq)
    PROVE  IInv'
<1>1. s' \in Source /\ s'.probation = MIN_SEQUENTIAL /\ s'.max_seq = (seq - 1) % RTP_SEQ_MOD
    BY SourceType, InitSeq DEF IInv, FirstHeard
<1>2. sent' = Started(seq) /\ since' = Nothing(seq) /\ trail' = [last |-> seq, run |-> 1]
    BY DEF FirstHeard
<1>3. sent' \in [base : Seq16, top : Nat, seen : 0 .. ACCEPTED]
    BY <1>2, Constants DEF Started, Seq16
<1>4. since' \in [top : Int, seen : 0 .. ACCEPTED]
    BY <1>2, Constants DEF Nothing, Seq16
<1>5. trail' \in [last : Seq16, run : 1 .. RUN] /\ trail'.last = seq /\ trail'.run = 1
    BY <1>2, Constants
<1>6. s'.probation # 0 /\ s'.probation \notin 1 .. MIN_SEQUENTIAL - 1
    BY <1>1, Constants
<1> QED
    BY <1>1, <1>3, <1>4, <1>5, <1>6 DEF IInv, TypeOK, Source, Tracks, RunCounted, RunShort, LastPlaced

LEMMA RxOnProbationOK ==
    ASSUME IInv, NEW seq \in Seq16, RxOnProbation(seq)
    PROVE  IInv'
<1> DEFINE p == s.probation  q == s'.probation
<1>1. s \in Source /\ p \in 1 .. MIN_SEQUENTIAL /\ s.max_seq \in Seq16
    BY SourceType DEF IInv, RxOnProbation, Source
<1>2. s' = Probate(s, seq)
    BY <1>1, UpdateSeq DEF RxOnProbation
<1>3. /\ s' \in Source
      /\ seq # s.max_seq + 1 => q = MIN_SEQUENTIAL - 1
      /\ seq = s.max_seq + 1 => q = p - 1
      /\ s'.max_seq = seq
      /\ q = 0 =>
            /\ s'.base_seq = seq /\ s'.cycles = 0 /\ s'.received = 1
            /\ s'.received_prior = 0 /\ s'.expected_prior = 0
    BY <1>1, <1>2, ProbateCases
<1>4. /\ trail' \in [last : Seq16, run : 1 .. RUN]
      /\ trail'.last = seq
      /\ seq # (trail.last + 1) % RTP_SEQ_MOD => trail'.run = 1
      /\ seq = (trail.last + 1) % RTP_SEQ_MOD =>
            /\ trail'.run <= trail.run + 1
            /\ trail.run < RUN => trail'.run = trail.run + 1
            /\ trail.run = RUN => trail'.run = RUN
    BY Followed DEF IInv, RxOnProbation
<1>5. trail.last \in Seq16 /\ trail.run \in 1 .. RUN /\ q \in 0 .. MIN_SEQUENTIAL
    BY <1>3 DEF IInv, TypeOK, Source
<1>6. /\ sent' = [base |-> seq, top |-> seq, seen |-> IF q = 0 THEN 1 ELSE 0]
      /\ since' = [top |-> seq - 1, seen |-> 0]
    BY DEF RxOnProbation, Nothing
<1>7. TypeOK'
    <2>1. sent' \in [base : Seq16, top : Nat, seen : 0 .. ACCEPTED]
        BY <1>6, Constants DEF Seq16
    <2>2. since' \in [top : Int, seen : 0 .. ACCEPTED]
        BY <1>6, Constants DEF Seq16
    <2> QED BY <1>3, <1>4, <2>1, <2>2 DEF TypeOK, Source
<1>8. Tracks'
    <2>1. seq \in 0 .. RTP_SEQ_MOD - 1 /\ seq \in 0 .. WORD - 1
        BY Constants DEF Seq16
    <2>2. seq % RTP_SEQ_MOD = seq /\ seq % WORD = seq /\ 1 % WORD = 1 /\ 0 % WORD = 0
        BY <2>1, Constants, ModSmall
    <2>3. seq - 1 - seq + 1 = 0 /\ 0 + seq = seq
        BY <2>1
    <2> QED BY <1>3, <1>6, <2>2, <2>3 DEF Tracks
<1>9. seq = s.max_seq + 1 => s.max_seq + 1 < RTP_SEQ_MOD
    BY Constants DEF Seq16
<1>10. (trail.last + 1) % RTP_SEQ_MOD = IF trail.last + 1 = RTP_SEQ_MOD THEN 0 ELSE trail.last + 1
    BY <1>5, Constants, ModStep DEF Seq16
<1>11. p < MIN_SEQUENTIAL => trail.last = s.max_seq /\ trail.run >= MIN_SEQUENTIAL - p
    BY <1>1, Constants DEF IInv, RunCounted
<1>12. RunCounted'
    <2>1. q \in 1 .. MIN_SEQUENTIAL - 1 => trail'.run >= MIN_SEQUENTIAL - q
        <3>1. CASE q = MIN_SEQUENTIAL - 1
            BY <1>4, <3>1, Constants
        <3>2. CASE q # MIN_SEQUENTIAL - 1
            <4>1. seq = s.max_seq + 1 /\ q = p - 1 /\ p < MIN_SEQUENTIAL
                BY <1>1, <1>3, <3>2, Constants
            <4>2. seq = (trail.last + 1) % RTP_SEQ_MOD
                BY <1>1, <1>9, <1>10, <1>11, <4>1 DEF Seq16
            <4> QED BY <1>1, <1>4, <1>5, <1>11, <4>1, <4>2, Constants
        <3> QED BY <3>1, <3>2
    <2> QED BY <1>3, <1>4, <2>1 DEF RunCounted
<1>13. p = MIN_SEQUENTIAL => trail.run <= 2 /\ s.max_seq = IF trail.last = 0 THEN RTP_SEQ_MOD - 1 ELSE trail.last - 1
    <2>1. (trail.last - 1) % RTP_SEQ_MOD = IF trail.last = 0 THEN RTP_SEQ_MOD - 1 ELSE trail.last - 1
        BY <1>5, Constants, ModStep DEF Seq16
    <2> QED BY <2>1 DEF IInv, RunShort
<1>14. p \in 1 .. MIN_SEQUENTIAL - 1 =>
          \/ trail.run <= MIN_SEQUENTIAL + 2 - p
          \/ trail.last = MIN_SEQUENTIAL - 1 - p /\ trail.run <= 2 * MIN_SEQUENTIAL + 1 - p
    BY DEF IInv, RunShort
<1>15. q # MIN_SEQUENTIAL
    BY <1>1, <1>3, Constants
<1>16. q \in 1 .. MIN_SEQUENTIAL - 1 =>
          \/ trail'.run <= MIN_SEQUENTIAL + 2 - q
          \/ trail'.last = MIN_SEQUENTIAL - 1 - q /\ trail'.run <= 2 * MIN_SEQUENTIAL + 1 - q
    BY <1>1, <1>3, <1>4, <1>5, <1>9, <1>10, <1>11, <1>13, <1>14, Constants DEF Seq16
<1>17. RunShort'
    BY <1>15, <1>16 DEF RunShort
<1>18. LastPlaced'
    <2>1. (seq - seq) % RTP_SEQ_MOD = 0
        <3>1. seq - seq = 0 /\ 0 \in 0 .. RTP_SEQ_MOD - 1
            BY Constants DEF Seq16
        <3> QED BY <3>1, Constants, ModSmall
    <2>2. udelta(s', trail'.last) = 0
        BY <1>3, <1>4, <2>1 DEF udelta
    <2> QED BY <2>2 DEF LastPlaced
<1> QED
    BY <1>7, <1>8, <1>12, <1>17, <1>18 DEF IInv

LEMMA RxNearOK ==
    ASSUME IInv, NEW n \in sent.top - MAX_MISORDER + 1 .. sent.top + MAX_DROPOUT - 1, RxNear(n)
    PROVE  IInv'
<1> DEFINE seq == n % RTP_SEQ_MOD  top == sent.top  d == (n - top) % RTP_SEQ_MOD
<1>1. s \in Source /\ s.probation = 0 /\ TypeOK /\ Tracks
    BY SourceType DEF IInv, RxNear
<1>2. top \in Nat /\ n \in Int /\ sent.seen \in 0 .. ACCEPTED - 1
    BY <1>1, Constants DEF TypeOK, RxNear
<1>3. seq \in Seq16 /\ d \in Seq16
    BY <1>2, Reduced
<1>4. udelta(s, seq) = d
    BY <1>1, <1>2, TrueDistance DEF Tracks
<1>5. s' = rtp_update_seq(s, seq)
    BY DEF RxNear
<1>6. /\ trail' \in [last : Seq16, run : 1 .. RUN]
      /\ trail'.last = seq
    BY <1>1, <1>3, Followed DEF RxNear
<1>7. /\ sent'.base = sent.base /\ sent'.top = (IF n > top THEN n ELSE top)
      /\ sent'.seen = sent.seen + 1
      /\ sent' \in [base : Seq16, top : Nat, seen : 0 .. ACCEPTED]
    <2> DEFINE u == IF n > top THEN n ELSE top  v == sent.seen + 1
    <2>1. u \in Nat /\ v \in 0 .. ACCEPTED
        BY <1>2, Constants
    <2>2. sent \in [base : Seq16, top : Nat, seen : 0 .. ACCEPTED]
        BY <1>1 DEF TypeOK
    <2>3. sent' = [sent EXCEPT !.top = u, !.seen = v]
        BY <2>2 DEF RxNear
    <2> HIDE DEF u, v
    <2>4. sent' \in [base : Seq16, top : Nat, seen : 0 .. ACCEPTED]
          /\ sent'.base = sent.base /\ sent'.top = u /\ sent'.seen = v
        BY <2>1, <2>2, <2>3
    <2> QED BY <2>4 DEF u, v
<1>8. since' = since
    BY DEF RxNear
<1> HIDE DEF seq, d
<1>9. (s.received + 1) % WORD = sent'.seen % WORD
    BY <1>1, <1>2, <1>7, Constants, CountedWord DEF Tracks
<1>10. /\ s' \in Source /\ s'.base_seq = s.base_seq /\ s'.probation = 0
       /\ s'.received = (s.received + 1) % WORD
       /\ s'.received_prior = s.received_prior /\ s'.expected_prior = s.expected_prior
       /\ s'.max_seq = sent'.top % RTP_SEQ_MOD
       /\ (s'.cycles + s'.max_seq) % WORD = sent'.top % WORD
       /\ udelta(s', seq) = 0 \/ udelta(s', seq) > RTP_SEQ_MOD - MAX_MISORDER
    <2>1. CASE n \in top .. top + MAX_DROPOUT - 1
        <3>1. d = n - top /\ d < MAX_DROPOUT
            BY <1>2, <2>1, Distances DEF d
        <3>2. s' = Count(Advance(s, seq))
            BY <1>1, <1>3, <1>4, <1>5, <3>1, UpdateSeq
        <3>3. /\ s' \in Source
              /\ s'.cycles = IF seq < s.max_seq THEN (s.cycles + RTP_SEQ_MOD) % WORD ELSE s.cycles
              /\ s'.max_seq = seq /\ s'.received = (s.received + 1) % WORD
              /\ s'.base_seq = s.base_seq /\ s'.probation = 0
              /\ s'.received_prior = s.received_prior /\ s'.expected_prior = s.expected_prior
            BY <1>1, <1>3, <3>2, AdvanceCounted
        <3>4. sent'.top = n /\ n = top + d /\ d \in 0 .. RTP_SEQ_MOD - 1
            BY <1>2, <1>3, <1>7, <2>1, <3>1 DEF Seq16
        <3>5. s.cycles \in Int /\ s.max_seq = top % RTP_SEQ_MOD /\ (s.cycles + s.max_seq) % WORD = top % WORD
            BY <1>1, Constants DEF Source, Word, Tracks
        <3>6. seq = (top + d) % RTP_SEQ_MOD
            BY <3>4 DEF seq
        <3>7. ((IF seq < s.max_seq THEN (s.cycles + RTP_SEQ_MOD) % WORD ELSE s.cycles) + seq) % WORD
                = (top + d) % WORD
            BY <1>2, <3>4, <3>5, <3>6, Extended
        <3>8. (s'.cycles + s'.max_seq) % WORD = sent'.top % WORD
            BY <3>3, <3>4, <3>7
        <3>9. udelta(s', seq) = 0
            <4>1. seq - seq = 0 /\ 0 \in 0 .. RTP_SEQ_MOD - 1
                BY <1>3, Constants DEF Seq16
            <4>2. 0 % RTP_SEQ_MOD = 0
                BY <4>1, Constants, ModSmall
            <4> QED BY <3>3, <4>1, <4>2 DEF udelta
        <3> QED BY <3>3, <3>4, <3>6, <3>8, <3>9
    <2>2. CASE n \in top - MAX_MISORDER + 1 .. top - 1
        <3>1. d > RTP_SEQ_MOD - MAX_MISORDER
            BY <1>2, <2>2, Distances DEF d
        <3>2. s' = Count(s)
            BY <1>1, <1>3, <1>4, <1>5, <3>1, UpdateSeq
        <3>3. s' \in Source /\ s' = [s EXCEPT !.received = (s.received + 1) % WORD]
            BY <1>1, <3>2, Counted
        <3>4. /\ s'.base_seq = s.base_seq /\ s'.probation = 0 /\ s'.cycles = s.cycles
              /\ s'.max_seq = s.max_seq /\ s'.received = (s.received + 1) % WORD
              /\ s'.received_prior = s.received_prior /\ s'.expected_prior = s.expected_prior
            BY <1>1, <3>3 DEF Source
        <3>5. sent'.top = top
            BY <1>2, <1>7, <2>2, Constants
        <3>6. udelta(s', seq) = udelta(s, seq)
            BY <3>4 DEF udelta
        <3> QED BY <1>1, <1>4, <3>1, <3>3, <3>4, <3>5, <3>6 DEF Tracks
    <2> QED BY <1>2, <2>1, <2>2, Constants
<1>11. TypeOK'
    BY <1>1, <1>6, <1>7, <1>8, <1>10 DEF TypeOK, Source
<1>12. Tracks'
    BY <1>1, <1>7, <1>8, <1>9, <1>10 DEF Tracks
<1>13. RunCounted' /\ RunShort'
    BY <1>10, Constants DEF RunCounted, RunShort
<1>14. LastPlaced'
    BY <1>6, <1>10 DEF LastPlaced
<1> QED
    BY <1>11, <1>12, <1>13, <1>14 DEF IInv

\* The distance of the number after the last one.
LEMMA NextDistance ==
    ASSUME NEW src, src.max_seq \in Seq16, NEW l \in Seq16
    PROVE  /\ udelta(src, l) \in Seq16
           /\ udelta(src, (l + 1) % RTP_SEQ_MOD) =
                 IF udelta(src, l) + 1 = RTP_SEQ_MOD THEN 0 ELSE udelta(src, l) + 1
<1> DEFINE x == l - src.max_seq  l1 == l + 1  x1 == x + 1  d == x % RTP_SEQ_MOD  o == 1  m == src.max_seq
<1>1. x \in Int /\ l1 \in Int /\ x1 \in Int /\ m \in Int /\ l1 - m = x1
    BY Constants DEF Seq16
<1>2. d \in 0 .. RTP_SEQ_MOD - 1
    BY <1>1, Reduced DEF Seq16
<1>3. udelta(src, l) = d
    BY DEF udelta
<1>4. udelta(src, l1 % RTP_SEQ_MOD) = x1 % RTP_SEQ_MOD
    <2>1. udelta(src, l1 % RTP_SEQ_MOD) = ((l1 % RTP_SEQ_MOD) - m) % RTP_SEQ_MOD
        BY DEF udelta
    <2> HIDE DEF l1, x1, m, x
    <2>2. ((l1 % RTP_SEQ_MOD) - m) % RTP_SEQ_MOD = (l1 - m) % RTP_SEQ_MOD
        BY <1>1, Constants, ModAdd
    <2> QED BY <1>1, <2>1, <2>2
<1>5. x1 % RTP_SEQ_MOD = (d + 1) % RTP_SEQ_MOD
    <2>1. o \in Int
        OBVIOUS
    <2>2. (x + o) % RTP_SEQ_MOD = ((x % RTP_SEQ_MOD) + o) % RTP_SEQ_MOD
        <3> HIDE DEF o, x
        <3> QED BY <1>1, <2>1, Constants, ModAdd
    <2> QED BY <2>2
<1> HIDE DEF d
<1>6. (d + 1) % RTP_SEQ_MOD = IF d + 1 = RTP_SEQ_MOD THEN 0 ELSE d + 1
    BY <1>2, Constants, ModStep
<1> QED
    BY <1>2, <1>3, <1>4, <1>5, <1>6 DEF Seq16

LEMMA RxFarOK ==
    ASSUME IInv, NEW n \in sent.top + MAX_DROPOUT .. sent.top + RTP_SEQ_MOD - MAX_MISORDER, RxFar(n)
    PROVE  IInv'
<1> DEFINE seq == n % RTP_SEQ_MOD  top == sent.top  d == (n - top) % RTP_SEQ_MOD
<1>1. s \in Source /\ s.probation = 0 /\ TypeOK /\ Tracks /\ LastPlaced
    BY SourceType DEF IInv, RxFar
<1>2. top \in Nat /\ n \in Int
    BY <1>1, Constants DEF TypeOK
<1>3. seq \in Seq16 /\ d \in Seq16
    BY <1>2, Reduced
<1>4. udelta(s, seq) = d /\ d \in MAX_DROPOUT .. RTP_SEQ_MOD - MAX_MISORDER
    BY <1>1, <1>2, TrueDistance, Distances DEF Tracks
<1>5. s' = rtp_update_seq(s, seq)
    BY DEF RxFar
<1>6. IF s'.probation > 0 THEN sent' = Started(seq) /\ since' = Nothing(seq)
      ELSE sent' = sent /\ since' = since
    BY DEF RxFar
<1>7. /\ trail' \in [last : Seq16, run : 1 .. RUN]
      /\ trail'.last = seq
      /\ seq # (trail.last + 1) % RTP_SEQ_MOD => trail'.run = 1
      /\ seq = (trail.last + 1) % RTP_SEQ_MOD => trail'.run <= trail.run + 1
    BY <1>1, <1>3, Followed DEF RxFar
<1> HIDE DEF seq, d
<1>8. s' = Jump(s, seq)
    BY <1>1, <1>3, <1>4, <1>5, UpdateSeq
<1>9. /\ s' \in Source
      /\ seq = s.bad_seq => s'.probation = MIN_SEQUENTIAL /\ s'.max_seq = (seq - 1) % RTP_SEQ_MOD
      /\ seq # s.bad_seq => s' = [s EXCEPT !.bad_seq = (seq + 1) % RTP_SEQ_MOD]
    BY <1>1, <1>3, <1>8, JumpCases
<1>10. seq = (trail.last + 1) % RTP_SEQ_MOD =>
          trail.run = 1 /\ s.bad_seq = (trail.last + 1) % RTP_SEQ_MOD
    <2>1. trail.last \in Seq16 /\ s.max_seq \in Seq16
        BY <1>1 DEF TypeOK, Source
    <2> DEFINE e == udelta(s, trail.last)
    <2>2. /\ e \in Seq16
          /\ udelta(s, (trail.last + 1) % RTP_SEQ_MOD) = IF e + 1 = RTP_SEQ_MOD THEN 0 ELSE e + 1
        BY <2>1, NextDistance
    <2>3. \/ e = 0
          \/ e > RTP_SEQ_MOD - MAX_MISORDER
          \/ trail.run = 1 /\ s.bad_seq = (trail.last + 1) % RTP_SEQ_MOD
        BY <1>1 DEF LastPlaced
    <2> HIDE DEF e
    <2>4. SUFFICES ASSUME seq = (trail.last + 1) % RTP_SEQ_MOD
                   PROVE  e # 0 /\ ~(e > RTP_SEQ_MOD - MAX_MISORDER)
        BY <2>3
    <2>5. d = IF e + 1 = RTP_SEQ_MOD THEN 0 ELSE e + 1
        BY <1>4, <2>2, <2>4
    <2> QED BY <1>4, <2>2, <2>5, Constants DEF Seq16
<1>11. CASE seq = s.bad_seq
    <2>1. sent' = Started(seq) /\ since' = Nothing(seq) /\ s'.probation # 0
          /\ s'.probation \notin 1 .. MIN_SEQUENTIAL - 1
        BY <1>6, <1>9, <1>11, Constants
    <2>2. sent' \in [base : Seq16, top : Nat, seen : 0 .. ACCEPTED]
        BY <1>3, <2>1, Constants DEF Started, Seq16
    <2>3. since' \in [top : Int, seen : 0 .. ACCEPTED]
        BY <1>3, <2>1, Constants DEF Nothing, Seq16
    <2>4. TypeOK'
        BY <1>7, <1>9, <2>2, <2>3 DEF TypeOK, Source
    <2>5. trail'.run <= 2
        BY <1>7, <1>10
    <2>6. Tracks' /\ RunCounted' /\ RunShort' /\ LastPlaced'
        BY <1>7, <1>9, <1>11, <2>1, <2>5 DEF Tracks, RunCounted, RunShort, LastPlaced
    <2> QED BY <2>4, <2>6 DEF IInv
<1>12. CASE seq # s.bad_seq
    <2>1. s'.bad_seq = (seq + 1) % RTP_SEQ_MOD
          /\ \A f \in {"base_seq", "max_seq", "cycles", "received", "received_prior",
                       "expected_prior", "probation"} : s'[f] = s[f]
        BY <1>1, <1>9, <1>12 DEF Source
    <2>2. sent' = sent /\ since' = since /\ s'.probation = 0
        BY <1>1, <1>6, <2>1
    <2>3. TypeOK'
        BY <1>1, <1>7, <1>9, <2>2 DEF TypeOK, Source
    <2>4. Tracks'
        BY <1>1, <2>1, <2>2 DEF Tracks
    <2>5. RunCounted' /\ RunShort'
        BY <2>2, Constants DEF RunCounted, RunShort
    <2>6. trail'.run = 1
        BY <1>7, <1>10, <1>12
    <2>7. LastPlaced'
        BY <1>7, <2>1, <2>6 DEF LastPlaced
    <2> QED BY <2>3, <2>4, <2>5, <2>7 DEF IInv
<1> QED
    BY <1>11, <1>12

LEMMA ReportOK ==
    ASSUME IInv, Report
    PROVE  IInv'
<1>1. s \in Source /\ TypeOK /\ Tracks
    BY SourceType DEF IInv
<1>2. expected \in Word
    <2>1. s.cycles + s.max_seq \in Int /\ s.base_seq \in Int
        BY <1>1, Constants DEF Source, Seq16, Word
    <2>2. extended_max \in Int
        BY <2>1, Reduced, Constants DEF extended_max, Word
    <2>3. extended_max - s.base_seq + 1 \in Int
        BY <2>1, <2>2
    <2> QED BY <2>3, Reduced DEF expected
<1>3. s' = [s EXCEPT !.expected_prior = expected, !.received_prior = s.received]
    BY DEF Report
<1>4. /\ s' \in Source
      /\ s'.expected_prior = expected /\ s'.received_prior = s.received
      /\ \A f \in {"base_seq", "max_seq", "bad_seq", "cycles", "received", "probation"} : s'[f] = s[f]
    BY <1>1, <1>2, <1>3 DEF Source
<1>5. /\ since' = [top |-> sent.top, seen |-> sent.seen] /\ sent' = sent /\ trail' = trail
      /\ since'.top = sent.top /\ since'.seen = sent.seen
    BY DEF Report
<1>6. since' \in [top : Int, seen : 0 .. ACCEPTED]
    BY <1>1, <1>5, Constants DEF TypeOK
<1>7. TypeOK'
    BY <1>1, <1>4, <1>5, <1>6 DEF TypeOK, Source
<1>8. Tracks'
    <2>1. s.probation = 0 => expected = (sent.top - sent.base + 1) % WORD
        BY <1>1, ExpectedExact
    <2> QED BY <1>1, <1>4, <1>5, <2>1 DEF Tracks
<1>9. RunCounted' /\ RunShort' /\ LastPlaced'
    BY <1>4, <1>5 DEF IInv, RunCounted, RunShort, LastPlaced, udelta
<1> QED
    BY <1>7, <1>8, <1>9 DEF IInv

LEMMA Inductive == IInv /\ [Next]_vars => IInv'
<1> SUFFICES ASSUME IInv, [Next]_vars
             PROVE  IInv'
    OBVIOUS
<1>1. ASSUME NEW seq \in Seq16, FirstHeard(seq)
      PROVE  IInv'
    BY <1>1, FirstHeardOK
<1>2. ASSUME NEW seq \in Seq16, RxOnProbation(seq)
      PROVE  IInv'
    BY <1>2, RxOnProbationOK
<1>3. ASSUME NEW n \in sent.top - MAX_MISORDER + 1 .. sent.top + MAX_DROPOUT - 1, RxNear(n)
      PROVE  IInv'
    BY <1>3, RxNearOK
<1>4. ASSUME NEW n \in sent.top + MAX_DROPOUT .. sent.top + RTP_SEQ_MOD - MAX_MISORDER, RxFar(n)
      PROVE  IInv'
    BY <1>4, RxFarOK
<1>5. CASE Report
    BY <1>5, ReportOK
<1>6. CASE UNCHANGED vars
    BY <1>6 DEF vars, IInv, TypeOK, Tracks, RunCounted, RunShort, LastPlaced, udelta
<1> QED
    BY <1>1, <1>2, <1>3, <1>4, <1>5, <1>6 DEF Next

LEMMA Invariance == Spec => []IInv
BY InitOK, Inductive, PTL DEF Spec

-----------------------------------------------------------------------------
\* Sequence numbers, counts and the run stay in their ranges: the fields of
\* rtp_source_t never leave 16 bits and a word.
THEOREM TypeCorrect == Spec => []TypeOK
<1>1. IInv => TypeOK
    BY DEF IInv
<1> QED
    BY <1>1, Invariance, PTL

\* From 16 bits the session recovers how far a source has come, over any number
\* of wraps of the sequence number and of the word (rtp_update_seq).
THEOREM UnwrapsRight == Spec => []Unwrapped
<1>1. IInv => Unwrapped
    BY ExpectedExact DEF IInv, Unwrapped, Tracks
<1> QED
    BY <1>1, Invariance, PTL

\* The interval a report covers is exactly what was sent and what came since the
\* last one (rtcp_send_report_gen_rr after any mixture of restarts and reports).
THEOREM IntervalsExact == Spec => []IntervalExact
<1>1. ASSUME IInv, s.probation = 0
      PROVE  /\ expected_interval = (sent.top - since.top) % WORD
             /\ received_interval = (sent.seen - since.seen) % WORD
    <2>1. TypeOK /\ Tracks
        BY <1>1 DEF IInv
    <2> DEFINE a == sent.top - sent.base + 1  b == since.top - sent.base + 1
               x == a % WORD  y == b % WORD  i == sent.seen  j == since.seen
    <2>2. a \in Int /\ b \in Int /\ i \in Int /\ j \in Int /\ a - b = sent.top - since.top
        BY <2>1, Constants DEF TypeOK, Seq16
    <2>3. expected = x /\ s.expected_prior = y /\ s.received = i % WORD /\ s.received_prior = j % WORD
        BY <1>1, <2>1, ExpectedExact DEF Tracks
    <2> HIDE DEF a, b, i, j
    <2>4. x \in Int /\ (i % WORD) \in Int
        <3>1. a % WORD \in Word /\ i % WORD \in Word
            BY <2>2, Reduced
        <3> QED BY <3>1, Constants DEF Word
    <2>5. (x - y) % WORD = (a - b) % WORD
        <3>1. (x - (b % WORD)) % WORD = (x - b) % WORD
            <4> HIDE DEF x
            <4> QED BY <2>2, <2>4, Constants, ModAdd
        <3>2. ((a % WORD) - b) % WORD = (a - b) % WORD
            BY <2>2, Constants, ModAdd
        <3> QED BY <3>1, <3>2
    <2>6. ((i % WORD) - (j % WORD)) % WORD = (i - j) % WORD
        <3> DEFINE u == i % WORD
        <3>1. (u - (j % WORD)) % WORD = (u - j) % WORD
            <4>1. u \in Int
                BY <2>4
            <4> HIDE DEF u
            <4> QED BY <2>2, <4>1, Constants, ModAdd
        <3>2. ((i % WORD) - j) % WORD = (i - j) % WORD
            BY <2>2, Constants, ModAdd
        <3> QED BY <3>1, <3>2
    <2>7. expected_interval = (a - b) % WORD /\ received_interval = (i - j) % WORD
        BY <2>3, <2>5, <2>6 DEF expected_interval, received_interval
    <2> QED BY <2>2, <2>7 DEF i, j
<1>2. IInv => IntervalExact
    BY <1>1 DEF IntervalExact
<1> QED
    BY <1>2, Invariance, PTL

\* A source whose packets come in order leaves probation, at the latest with the
\* run's packet number 2 * MIN_SEQUENTIAL + 1, whatever happened before.
THEOREM ValidInTime == Spec => []ValidAgain
<1>1. IInv => ValidAgain
    <2> SUFFICES ASSUME IInv, trail.run = RUN, s.probation # 0
                 PROVE  FALSE
        BY DEF ValidAgain
    <2>1. s.probation \in 1 .. MIN_SEQUENTIAL
        BY SourceType, Constants DEF IInv, Source
    <2>2. CASE s.probation = MIN_SEQUENTIAL
        BY <2>2, Constants DEF IInv, RunShort
    <2>3. CASE s.probation \in 1 .. MIN_SEQUENTIAL - 1
        BY <2>3, Constants DEF IInv, RunShort
    <2> QED BY <2>1, <2>2, <2>3, Constants
<1> QED
    BY <1>1, Invariance, PTL

\* rtp.c:37-40: no step makes a source valid before MIN_SEQUENTIAL packets came
\* one after the other.
THEOREM ValidOnlyAfterRun == Spec => ValidAfterRun
<1>1. ASSUME IInv, [Next]_vars, s.probation > 0, s'.probation = 0
      PROVE  trail'.run >= MIN_SEQUENTIAL
    <2>1. ASSUME NEW seq \in Seq16, FirstHeard(seq)
          PROVE  FALSE
        <3>1. s'.probation = MIN_SEQUENTIAL
            BY <1>1, <2>1, SourceType, InitSeq DEF IInv, FirstHeard
        <3> QED BY <1>1, <3>1, Constants
    <2>2. ASSUME NEW seq \in Seq16, RxOnProbation(seq)
          PROVE  trail'.run >= MIN_SEQUENTIAL
        <3> DEFINE p == s.probation
        <3>1. s \in Source /\ p \in 1 .. MIN_SEQUENTIAL /\ s.max_seq \in Seq16
            BY <1>1, SourceType DEF IInv, Source
        <3>2. s' = Probate(s, seq)
            BY <1>1, <2>2, <3>1, UpdateSeq DEF RxOnProbation
        <3>3. seq = s.max_seq + 1 /\ p = 1
            <4>1. /\ seq # s.max_seq + 1 => s'.probation = MIN_SEQUENTIAL - 1
                  /\ seq = s.max_seq + 1 => s'.probation = p - 1
                BY <1>1, <3>1, <3>2, ProbateCases
            <4> QED BY <1>1, <3>1, <4>1, Constants
        <3>4. trail.last = s.max_seq /\ trail.run >= MIN_SEQUENTIAL - 1
              /\ trail.last \in Seq16 /\ trail.run \in 1 .. RUN
            BY <1>1, <3>3, Constants DEF IInv, RunCounted, TypeOK
        <3>5. (trail.last + 1) % RTP_SEQ_MOD = seq
            <4>1. (trail.last + 1) % RTP_SEQ_MOD = IF trail.last + 1 = RTP_SEQ_MOD THEN 0 ELSE trail.last + 1
                BY <3>4, Constants, ModStep DEF Seq16
            <4> QED BY <3>3, <3>4, <4>1, Constants DEF Seq16
        <3>6. /\ trail.run < RUN => trail'.run = trail.run + 1
              /\ trail.run = RUN => trail'.run = RUN
            BY <1>1, <2>2, <3>5, Followed DEF IInv, RxOnProbation
        <3> QED BY <3>4, <3>6, Constants
    <2>3. ASSUME \E n \in Int : RxNear(n) \/ RxFar(n)
          PROVE  FALSE
        BY <1>1, <2>3 DEF RxNear, RxFar
    <2>4. CASE Report
        <3>1. s'.probation = s.probation
            BY <1>1, <2>4, SourceType DEF IInv, Report, Source
        <3> QED BY <1>1, <3>1
    <2>5. CASE UNCHANGED vars
        BY <1>1, <2>5 DEF vars
    <2>6. sent.top \in Int
        BY <1>1 DEF IInv, TypeOK
    <2> QED BY <1>1, <2>1, <2>2, <2>3, <2>4, <2>5, <2>6, Constants DEF Next
<1>2. IInv /\ [Next]_vars =>
        [s.probation > 0 /\ s'.probation = 0 => trail'.run >= MIN_SEQUENTIAL]_vars
    BY <1>1
<1> QED
    BY <1>2, Invariance, PTL DEF Spec, ValidAfterRun
=============================================================================
