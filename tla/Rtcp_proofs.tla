---------------------------- MODULE Rtcp_proofs ----------------------------
(***************************************************************************)
(* Proofs about the two parts of rtcp.c that deal with reports.            *)
(*                                                                         *)
(* RtcpInterval: for any number of members, any minimum interval, any      *)
(* bandwidth and any tick, how far apart and how close reports can be.     *)
(*                                                                         *)
(* RtcpReport: for any table of members, any lengths of the names and any  *)
(* buffer, that what rtcp_send_report writes is what rtcp_rx reads, that   *)
(* the blocks add up to the losses, and what a report is given up for.     *)
(***************************************************************************)
EXTENDS RtcpInterval, RtcpReport, Basics

-----------------------------------------------------------------------------
(* When reports are sent *)


\* The counters, with those sending among the peers.  pmembers never rises, so
\* that no report is ever moved nearer.
Counters ==
    /\ members \in 1 .. MAX_MEMBERS /\ senders \in Nat /\ we_sent \in BOOLEAN
    /\ PeersSending \in 0 .. members - 1
    /\ pmembers = 1

Clock ==
    /\ tick \in 0 .. HORIZON /\ silence \in 0 .. tick
    /\ te \in Nat /\ tp \in Int /\ tn \in Int /\ initial \in BOOLEAN

\* tp was read from the clock no earlier than the last report that went out.
LastRead ==
    \E then \in 0 .. tick :
        tp = (then * TICK_RATE) % TIME_MOD /\ tick - then <= silence

IInv == Counters /\ Clock /\ LastRead

Waits == waiting \in 0 .. silence

\* The clock does not wrap within the time considered.
ClockLasts == HORIZON * TICK_RATE < TIME_MOD

\* tp is the time of the last attempt, whether the report fitted the buffer or
\* was given up; the waiting began no earlier, and the timer is set to end
\* before the longest draw since that attempt is over.
Scheduled ==
    \E then \in 0 .. tick :
        /\ tp = then * TICK_RATE
        /\ waiting <= tick - then
        /\ (tick - then) + te <= LongestDraw

SInv == IInv /\ Waits /\ Scheduled

-----------------------------------------------------------------------------
LEMMA Constants ==
    /\ MAX_MEMBERS \in Nat \ {0} /\ TICK_RATE \in Nat \ {0} /\ TIME_MOD \in Nat \ {0}
    /\ HORIZON \in Nat \ {0} /\ MIN_TIME \in Nat \ {0}
    /\ SDES_SIZE \in Nat /\ BUFFER_LEN \in Nat
    /\ Share \subseteq Nat \ {0}
BY IntervalAssumption

LEMMA MaxOfTwo ==
    ASSUME NEW a \in Int, NEW b \in Int
    PROVE  Max({a, b}) = IF a >= b THEN a ELSE b
BY DEF Max

LEMMA TopShare == Max(Share) \in Share /\ \A share \in Share : share <= Max(Share)
<1>1. \E top \in Share : \A share \in Share : top >= share
    BY IntervalAssumption
<1>2. Max(Share) \in Share /\ \A share \in Share : Max(Share) >= share
    BY <1>1, Zenon DEF Max
<1> QED
    BY <1>2, IntervalAssumption

Longest == Max({MIN_TIME, (4 * Max(Share) * MAX_MEMBERS) \div 3})

Least == IF initial THEN MIN_TIME \div 2 ELSE MIN_TIME

\* The interval lies between the minimum and what all members together need.
LEMMA TdBounds ==
    ASSUME Counters, initial \in BOOLEAN, NEW share \in Share
    PROVE  Td(share) \in Nat /\ Td(share) >= Least /\ Td(share) <= Longest
           /\ Longest \in Nat /\ Longest >= 1 /\ Least \in Nat
<1> DEFINE top == Max(Share)
           t == IF 4 * senders <= members
                THEN IF we_sent THEN 4 * share * senders
                     ELSE (4 * share * (members - senders)) \div 3
                ELSE share * members
           u == (4 * top * MAX_MEMBERS) \div 3
<1>1. share \in Nat /\ top \in Nat /\ share <= top /\ MAX_MEMBERS \in Nat /\ MIN_TIME \in Nat \ {0}
    BY TopShare, Constants
<1>2. members \in 1 .. MAX_MEMBERS /\ senders \in Nat /\ senders <= members
    BY Constants DEF Counters, PeersSending
<1> HIDE DEF top
<1> DEFINE a == share * members  b == share * senders  c == top * MAX_MEMBERS
<1>3. a \in Nat /\ b \in Nat /\ c \in Nat
    BY <1>1, <1>2
<1>4. a <= c
    <2>1. share * members <= top * members
        BY <1>1, <1>2
    <2>2. top * members <= top * MAX_MEMBERS
        BY <1>1, <1>2
    <2> QED BY <1>1, <1>2, <2>1, <2>2
<1>5. b <= a /\ (4 * senders <= members => 4 * b <= a)
    <2>1. b <= a
        BY <1>1, <1>2
    <2>2. ASSUME 4 * senders <= members PROVE 4 * b <= a
        <3>1. share * (4 * senders) <= share * members
            BY <1>1, <1>2, <2>2
        <3> QED BY <1>1, <1>2, <3>1
    <2> QED BY <2>1, <2>2
<1>6. /\ 4 * share * senders = 4 * b
      /\ 4 * share * (members - senders) = 4 * (a - b)
      /\ 4 * top * MAX_MEMBERS = 4 * c
    BY <1>1, <1>2
<1>7. /\ t = IF 4 * senders <= members THEN IF we_sent THEN 4 * b ELSE (4 * (a - b)) \div 3
              ELSE a
      /\ u = (4 * c) \div 3
    BY <1>6
<1> HIDE DEF a, b, c
<1>8. t \in Nat /\ u \in Nat /\ t <= u
    <2> HIDE DEF t, u
    <2> QED BY <1>3, <1>4, <1>5, <1>7
<1>9. Td(share) = Max({t, Least})
    BY DEF Td, Least
<1>10. Longest = Max({MIN_TIME, u})
    BY DEF Longest, u, top
<1>11. Least \in Nat /\ Least <= MIN_TIME
    BY <1>1 DEF Least
<1> HIDE DEF t, u
<1>12. Td(share) = IF t >= Least THEN t ELSE Least
    BY <1>8, <1>9, <1>11, MaxOfTwo
<1>13. Longest = IF MIN_TIME >= u THEN MIN_TIME ELSE u
    BY <1>1, <1>8, <1>10, MaxOfTwo
<1> QED
    BY <1>1, <1>8, <1>11, <1>12, <1>13

\* So does every draw, after randomisation and compensation.
LEMMA DrawBounds ==
    ASSUME Counters, initial \in BOOLEAN, NEW t \in rtcp_interval_calc
    PROVE  t \in Nat /\ t >= (41 * Least) \div 100 /\ t <= (123 * Longest) \div 100
           /\ Longest \in Nat /\ Longest >= 1
<1>1. PICK share \in Share : t \in Draws(Td(share))
    BY DEF rtcp_interval_calc
<1> DEFINE d == Td(share)
<1>2. d \in Nat /\ d >= Least /\ d <= Longest /\ Longest \in Nat /\ Longest >= 1 /\ Least \in Nat
    BY TdBounds
<1>3. t \in (41 * d) \div 100 .. (123 * d) \div 100
    BY <1>1 DEF Draws
<1> HIDE DEF d
<1> QED
    BY <1>2, <1>3

\* The ticks that last ms milliseconds.
LEMMA Ticks ==
    ASSUME NEW ms \in Nat
    PROVE  /\ get_soft_tick_from_milsec(ms) \in Nat
           /\ ms > 0 => get_soft_tick_from_milsec(ms) > 0
           /\ ms <= get_soft_tick_from_milsec(ms) * TICK_RATE
           /\ get_soft_tick_from_milsec(ms) * TICK_RATE <= ms + TICK_RATE - 1
<1> DEFINE x == ms + TICK_RATE - 1  q == x \div TICK_RATE  r == x % TICK_RATE
<1>1. x \in Int /\ TICK_RATE \in Nat \ {0}
    BY Constants
<1>2. q \in Int /\ r \in 0 .. TICK_RATE - 1 /\ x = TICK_RATE * q + r
    <2> HIDE DEF x
    <2> QED BY <1>1, DivMod
<1>3. get_soft_tick_from_milsec(ms) = q
    BY DEF get_soft_tick_from_milsec
<1> HIDE DEF q, r
<1>4. TICK_RATE * q = q * TICK_RATE
    BY <1>1, <1>2
<1>5. ms <= TICK_RATE * q /\ TICK_RATE * q <= ms + TICK_RATE - 1
    BY <1>1, <1>2
<1>6. q >= 0 /\ (ms > 0 => q > 0)
    BY <1>1, <1>2, <1>5
<1> QED
    BY <1>2, <1>3, <1>4, <1>5, <1>6

\* A delay that ends k ticks before L milliseconds is over takes at least k
\* ticks less than L does.
LEMMA TicksLeft ==
    ASSUME NEW ms \in Nat, NEW L \in Nat, NEW k \in Nat, ms + k * TICK_RATE <= L
    PROVE  get_soft_tick_from_milsec(ms) + k <= get_soft_tick_from_milsec(L)
<1> DEFINE c == get_soft_tick_from_milsec(ms)  g == get_soft_tick_from_milsec(L)  j == c + k - g
<1>1. /\ c \in Nat /\ c * TICK_RATE <= ms + TICK_RATE - 1
      /\ g \in Nat /\ L <= g * TICK_RATE
      /\ TICK_RATE \in Nat \ {0}
    BY Ticks, Constants
<1> HIDE DEF c, g
<1>2. j \in Int /\ j * TICK_RATE = c * TICK_RATE + k * TICK_RATE - g * TICK_RATE
    BY <1>1
<1>3. j * TICK_RATE < TICK_RATE
    BY <1>1, <1>2
<1> HIDE DEF j
<1>4. j <= 0
    BY <1>1, <1>2, <1>3
<1> QED
    BY <1>1, <1>4 DEF c, g, j

\* cal_delta_in_ms gives a positive delay, not longer than what was asked for
\* unless that was nothing.
LEMMA Delays ==
    ASSUME NEW tc \in Int, NEW next \in Int, NEW ms \in cal_delta_in_ms(tc, next)
    PROVE  ms \in Nat /\ ms >= 1 /\ (next - tc >= 1 => ms <= next - tc) /\ (next - tc = 0 => ms = 1)
<1> DEFINE d == next - tc  r == d % TIME_MOD
           AsInt(v) == IF v \in 1 .. TIME_MOD \div 2 - 1 THEN v ELSE 1
<1>1. d \in Int /\ TIME_MOD \in Nat \ {0}
    BY Constants
<1>2. r \in 0 .. TIME_MOD - 1
    <2> HIDE DEF d
    <2> QED BY <1>1, DivMod
<1>3. IF d \in 0 .. TIME_MOD - 1 THEN ms = AsInt(d) ELSE ms \in {AsInt(r), 1}
    BY DEF cal_delta_in_ms
<1> HIDE DEF r
<1> QED
    BY <1>1, <1>2, <1>3

LEMMA ClockType == tick \in Nat => rtcp_current_time \in 0 .. TIME_MOD - 1
<1> SUFFICES ASSUME tick \in Nat
             PROVE  rtcp_current_time \in 0 .. TIME_MOD - 1
    OBVIOUS
<1> DEFINE x == tick * TICK_RATE
<1>1. x \in Int /\ TIME_MOD \in Nat \ {0}
    BY Constants
<1>2. rtcp_current_time = x % TIME_MOD
    BY DEF rtcp_current_time
<1> HIDE DEF x
<1> QED
    BY <1>1, <1>2, DivMod

\* schedule sets the timer, whatever the delay.
LEMMA ScheduleType ==
    ASSUME NEW tc \in Int, NEW next \in Int, schedule(tc, next)
    PROVE  tn' = next /\ te' \in Nat /\ te' > 0
<1>1. PICK ms \in cal_delta_in_ms(tc, next) : te' = get_soft_tick_from_milsec(ms)
    BY DEF schedule
<1>2. ms \in Nat /\ ms >= 1
    BY Delays
<1> QED
    BY <1>1, <1>2, Ticks DEF schedule

\* As pmembers is 1, members that leave do not touch the schedule.
LEMMA LeftKeeps ==
    ASSUME IInv, NEW dm \in {0, 1}, NEW ds \in {0, 1}, Left(dm, ds), dm = 1 => members > 1
    PROVE  /\ members' = members - dm /\ senders' = senders - ds
           /\ te' = te /\ tn' = tn /\ tp' = tp /\ pmembers' = pmembers
<1>1. members \in Nat /\ members >= 1 /\ pmembers = 1
    BY Constants DEF IInv, Counters
<1>2. members' = members - dm /\ senders' = senders - ds
    BY DEF Left
<1>3. ~(members' < pmembers)
    BY <1>1, <1>2
<1> QED
    BY <1>2, <1>3 DEF Left

LEMMA InitOK == Init => IInv
<1> SUFFICES ASSUME Init PROVE IInv
    OBVIOUS
<1>1. Counters
    <2>1. ~we_sent /\ we_sent \in BOOLEAN /\ senders = 0 /\ members = 1 /\ pmembers = 1
        BY DEF Init
    <2>2. PeersSending = senders - 0
        BY <2>1 DEF PeersSending
    <2> QED BY <2>1, <2>2, Constants DEF Counters
<1>2. PICK t \in rtcp_interval_calc :
        tn = t /\ \E ms \in cal_delta_in_ms(0, t) : te = get_soft_tick_from_milsec(ms)
    BY DEF Init
<1>3. t \in Nat
    BY <1>1, DrawBounds DEF Init
<1>4. PICK ms \in cal_delta_in_ms(0, t) : te = get_soft_tick_from_milsec(ms)
    BY <1>2
<1>5. ms \in Nat
    BY <1>3, Delays
<1>6. te \in Nat
    BY <1>4, <1>5, Ticks
<1>7. Clock
    BY <1>2, <1>3, <1>6, Constants DEF Init, Clock
<1>8. LastRead
    <2>1. 0 * TICK_RATE = 0 /\ 0 \in 0 .. TIME_MOD - 1
        BY Constants
    <2>2. 0 % TIME_MOD = 0
        BY <2>1, Constants, ModSmall
    <2>3. 0 \in 0 .. tick /\ tp = (0 * TICK_RATE) % TIME_MOD /\ tick - 0 <= silence
        BY <2>1, <2>2 DEF Init
    <2> QED BY <2>3 DEF LastRead
<1> QED
    BY <1>1, <1>7, <1>8 DEF IInv

\* What members do changes the counters and nothing else.
LEMMA PeersOK ==
    ASSUME IInv,
           \/ \E ds \in {0, 1} : Join(ds) \/ Leave(ds)
           \/ StartSending \/ StopSending \/ RtpTx \/ SelfStopsSending
    PROVE  IInv' /\ UNCHANGED <<tick, te, tp, tn, initial, silence>>
<1>1. /\ members \in 1 .. MAX_MEMBERS /\ senders \in Nat /\ we_sent \in BOOLEAN
      /\ senders - (IF we_sent THEN 1 ELSE 0) \in 0 .. members - 1
      /\ pmembers = 1 /\ MAX_MEMBERS \in Nat
    BY Constants DEF IInv, Counters, PeersSending
<1>2. Counters' /\ UNCHANGED <<tick, te, tp, tn, initial, silence>>
    <2>1. ASSUME NEW ds \in {0, 1}, Join(ds)
          PROVE  Counters' /\ UNCHANGED <<tick, te, tp, tn, initial, silence>>
        BY <1>1, <2>1 DEF Join, Counters, PeersSending
    <2>2. ASSUME NEW ds \in {0, 1}, Leave(ds)
          PROVE  Counters' /\ UNCHANGED <<tick, te, tp, tn, initial, silence>>
        <3>1. /\ members' = members - 1 /\ senders' = senders - ds
              /\ te' = te /\ tn' = tn /\ tp' = tp /\ pmembers' = pmembers
            BY <2>2, LeftKeeps DEF Leave
        <3> QED BY <1>1, <2>2, <3>1 DEF Leave, Counters, PeersSending
    <2>3. CASE StartSending
        BY <1>1, <2>3 DEF StartSending, Counters, PeersSending
    <2>6. CASE RtpTx
        <3>1. ~we_sent /\ we_sent' /\ we_sent' \in BOOLEAN
            BY <2>6 DEF RtpTx
        <3>2. PeersSending = senders - 0 /\ PeersSending' = senders' - 1
            BY <3>1 DEF PeersSending
        <3>3. PeersSending \in 0 .. members - 1
            BY DEF IInv, Counters
        <3> QED BY <1>1, <2>6, <3>1, <3>2, <3>3 DEF RtpTx, Counters
    <2>4. CASE StopSending
        <3>1. /\ members' = members - 0 /\ senders' = senders - 1
              /\ te' = te /\ tn' = tn /\ tp' = tp /\ pmembers' = pmembers
            BY <2>4, LeftKeeps DEF StopSending
        <3> QED BY <1>1, <2>4, <3>1 DEF StopSending, Counters, PeersSending
    <2>5. CASE SelfStopsSending
        <3>1. /\ members' = members - 0 /\ senders' = senders - 1
              /\ te' = te /\ tn' = tn /\ tp' = tp /\ pmembers' = pmembers
            BY <2>5, LeftKeeps DEF SelfStopsSending
        <3>2. we_sent /\ ~we_sent' /\ we_sent' \in BOOLEAN
            BY <2>5 DEF SelfStopsSending
        <3>3. PeersSending = senders - 1 /\ PeersSending' = senders' - 0
            BY <3>2 DEF PeersSending
        <3>4. PeersSending \in 0 .. members - 1
            BY DEF IInv, Counters
        <3>5. UNCHANGED <<tick, te, tp, tn, initial, silence>>
            BY <2>5, <3>1 DEF SelfStopsSending
        <3> QED BY <1>1, <3>1, <3>2, <3>3, <3>4, <3>5 DEF Counters
    <2> QED BY <2>1, <2>2, <2>3, <2>4, <2>5, <2>6
<1>3. Clock' /\ LastRead'
    BY <1>2 DEF IInv, Clock, LastRead
<1> QED
    BY <1>2, <1>3 DEF IInv

LEMMA TimerTickOK ==
    ASSUME IInv, TimerTick
    PROVE  IInv'
<1>1. Counters'
    BY DEF TimerTick, count, IInv, Counters, PeersSending
<1>2. Clock'
    BY Constants DEF TimerTick, IInv, Clock, Ready
<1>3. PICK then \in 0 .. tick : tp = (then * TICK_RATE) % TIME_MOD /\ tick - then <= silence
    BY DEF IInv, LastRead
<1>4. then \in 0 .. tick' /\ tp' = (then * TICK_RATE) % TIME_MOD /\ tick' - then <= silence'
    BY <1>3, Constants DEF TimerTick, IInv, Clock
<1> QED
    BY <1>1, <1>2, <1>4 DEF IInv, LastRead

LEMMA TimeoutOK ==
    ASSUME IInv, rtcp_interval_timeout
    PROVE  IInv'
<1> DEFINE tc == rtcp_current_time
<1>1. tick \in Nat /\ tc \in Int /\ tp \in Int /\ silence \in 0 .. tick /\ initial \in BOOLEAN
    BY ClockType, Constants DEF IInv, Clock
<1>2. Counters'
    BY DEF rtcp_interval_timeout, count, IInv, Counters, PeersSending
<1>3. PICK t \in rtcp_interval_calc : SendReport(tc, t) \/ Reconsider(tc, t)
    BY DEF rtcp_interval_timeout
<1>4. t \in Nat
    BY <1>1, DrawBounds DEF IInv
<1>5. tick' = tick
    BY DEF rtcp_interval_timeout
<1>6. CASE SendReport(tc, t)
    <2>1. PICK next \in rtcp_interval_calc : schedule(tc, tc + next)
        BY <1>6 DEF SendReport
    <2>2. next \in Nat
        BY <1>1, DrawBounds DEF IInv
    <2>3. tc + next \in Int
        BY <1>1, <2>2
    <2>4. tn' = tc + next /\ te' \in Nat
        BY <1>1, <2>1, <2>3, ScheduleType
    <2>5. tp' = tc /\ silence' \in 0 .. tick /\ initial' = FALSE
        BY <1>1, <1>6 DEF SendReport
    <2>6. Clock'
        BY <1>1, <1>5, <2>3, <2>4, <2>5 DEF IInv, Clock
    <2>7. tick \in 0 .. tick' /\ tp' = (tick * TICK_RATE) % TIME_MOD /\ tick' - tick <= silence'
        BY <1>1, <1>5, <2>5 DEF rtcp_current_time
    <2>8. LastRead'
        BY <2>7 DEF LastRead
    <2> QED BY <1>2, <2>6, <2>8 DEF IInv
<1>7. CASE Reconsider(tc, t)
    <2>1. tp + t \in Int
        BY <1>1, <1>4
    <2>2. tn' = tp + t /\ te' \in Nat
        BY <1>1, <1>7, <2>1, ScheduleType DEF Reconsider
    <2>3. Clock' /\ LastRead'
        BY <1>5, <1>7, <2>1, <2>2 DEF IInv, Clock, LastRead, Reconsider
    <2> QED BY <1>2, <2>3 DEF IInv
<1> QED
    BY <1>3, <1>6, <1>7

LEMMA Inductive == IInv /\ [Next]_vars => IInv'
<1> SUFFICES ASSUME IInv, [Next]_vars PROVE IInv'
    OBVIOUS
<1>1. CASE \/ \E ds \in {0, 1} : Join(ds) \/ Leave(ds)
           \/ StartSending \/ StopSending \/ RtpTx \/ SelfStopsSending
    BY <1>1, PeersOK
<1>2. CASE TimerTick
    BY <1>2, TimerTickOK
<1>3. CASE rtcp_interval_timeout
    BY <1>3, TimeoutOK
<1>4. CASE UNCHANGED vars
    BY <1>4 DEF vars, count, IInv, Counters, PeersSending, Clock, LastRead
<1> QED
    BY <1>1, <1>2, <1>3, <1>4 DEF Next, Step

\* The waiting is part of the silence, and only a tick adds to it.
LEMMA WaitsOK ==
    ASSUME IInv, Waits, [Next]_vars
    PROVE  /\ Waits'
           /\ waiting' = 0 \/ waiting' = waiting + (tick' - tick)
<1>1. /\ silence \in Nat /\ tick \in Nat /\ waiting \in Nat /\ waiting <= silence
      /\ silence' \in Nat
    BY Inductive, Constants DEF IInv, Clock, Waits
<1>2. CASE Next
    <2>1. silence' = 0 \/ silence' = silence + (tick' - tick)
        <3>1. CASE \/ \E ds \in {0, 1} : Join(ds) \/ Leave(ds)
                   \/ StartSending \/ StopSending \/ RtpTx \/ SelfStopsSending
            <4>1. tick' = tick /\ silence' = silence
                BY <3>1, PeersOK
            <4> QED BY <1>1, <4>1
        <3>2. CASE TimerTick
            BY <1>1, <3>2 DEF TimerTick
        <3>3. CASE rtcp_interval_timeout
            <4>1. tick' = tick /\ (silence' = 0 \/ silence' = silence)
                BY <3>3 DEF rtcp_interval_timeout, SendReport, Reconsider
            <4> QED BY <1>1, <4>1
        <3> QED BY <1>2, <3>1, <3>2, <3>3 DEF Next, Step
    <2>2. waiting' = 0 \/ (silence' # 0 /\ waiting' = waiting + (tick' - tick))
        BY <1>2 DEF Next, KeepWaiting
    <2>3. tick' - tick \in {0, 1}
        <3>1. tick' = tick \/ tick' = tick + 1
            BY <1>2, PeersOK DEF Next, Step, TimerTick, rtcp_interval_timeout
        <3> QED BY <1>1, <3>1
    <2> QED BY <1>1, <2>1, <2>2, <2>3 DEF Waits
<1>3. CASE UNCHANGED vars
    <2>1. waiting' = waiting /\ silence' = silence /\ tick' = tick
        BY <1>3 DEF vars
    <2> QED BY <1>1, <2>1 DEF Waits
<1> QED
    BY <1>2, <1>3

LEMMA Invariance == Spec => [](IInv /\ Waits)
<1>1. Init => Waits
    BY DEF Init, Waits
<1>2. IInv /\ Waits /\ [Next]_vars => Waits'
    BY WaitsOK
<1> QED
    BY <1>1, <1>2, InitOK, Inductive, PTL DEF Spec

\* The counters from which the interval is computed never leave their ranges,
\* and the delay given to the timer is always one it can be set to.
THEOREM TypeCorrect == Spec => []TypeOK
<1>1. IInv /\ Waits => TypeOK
    BY Constants DEF IInv, Counters, Clock, Waits, PeersSending, TypeOK
<1> QED
    BY <1>1, Invariance, PTL

\* Reports are not sent in bursts: two of them are at least the shortest draw
\* from the minimum interval apart, also across a wrap of the clock
\* (__rtcp_interval_timeout).
THEOREM NoBursts == Spec => Paced
<1>1. ASSUME IInv, Next, silence' = 0, silence # 0
      PROVE  silence * TICK_RATE >= (41 * Least) \div 100
    <2> DEFINE tc == rtcp_current_time
    <2>1. tick \in Nat /\ tp \in Int /\ silence \in Nat /\ initial \in BOOLEAN
        BY <1>1, Constants DEF IInv, Clock
    <2>2. rtcp_interval_timeout
        <3>1. CASE TimerTick
            BY <1>1, <2>1, <3>1 DEF TimerTick
        <3>2. CASE \/ \E ds \in {0, 1} : Join(ds) \/ Leave(ds)
                   \/ StartSending \/ StopSending \/ RtpTx \/ SelfStopsSending
            BY <1>1, <3>2, PeersOK
        <3> QED BY <1>1, <3>1, <3>2 DEF Next, Step
    <2>3. PICK t \in rtcp_interval_calc : SendReport(tc, t) \/ Reconsider(tc, t)
        BY <2>2 DEF rtcp_interval_timeout
    <2>4. tp + t <= tc
        BY <1>1, <2>3 DEF SendReport, Reconsider
    <2>5. t \in Nat /\ t >= (41 * Least) \div 100
        BY <1>1, <2>1, DrawBounds DEF IInv
    <2>6. PICK then \in 0 .. tick : tp = (then * TICK_RATE) % TIME_MOD /\ tick - then <= silence
        BY <1>1 DEF IInv, LastRead
    <2> DEFINE a == then * TICK_RATE  b == tick * TICK_RATE  e == silence * TICK_RATE
    <2>7. a \in Int /\ b \in Int /\ a <= b /\ e \in Int
        BY <2>1, <2>6, Constants
    <2>8. b - a <= e
        <3>1. (tick - then) * TICK_RATE <= silence * TICK_RATE
            BY <2>1, <2>6, Constants
        <3> QED BY <2>1, <2>6, <3>1, Constants
    <2>9. tc = b % TIME_MOD /\ tp = a % TIME_MOD
        BY <2>6 DEF rtcp_current_time
    <2> HIDE DEF a, b, e
    <2>10. (b % TIME_MOD) - (a % TIME_MOD) <= b - a
        BY <2>7, Constants, DivMonotone
    <2>11. tc \in Int
        BY <2>1, ClockType, Constants
    <2>12. tc - tp <= b - a
        BY <2>9, <2>10
    <2> HIDE DEF tc
    <2>13. t <= e
        BY <2>1, <2>4, <2>5, <2>7, <2>8, <2>11, <2>12
    <2>14. e >= (41 * Least) \div 100
        <3>1. Least \in Nat
            BY <2>1, Constants DEF Least
        <3> QED BY <2>5, <2>7, <2>13, <3>1
    <2> QED BY <2>14 DEF e
<1>2. IInv /\ [Next]_vars =>
        [silence' = 0 /\ silence # 0 =>
          silence * TICK_RATE >= (41 * (IF initial THEN MIN_TIME \div 2 ELSE MIN_TIME)) \div 100]_vars
    BY <1>1 DEF Least
<1> QED
    BY <1>2, Invariance, PTL DEF Spec, Paced

-----------------------------------------------------------------------------
(***************************************************************************)
(* Reports keep coming.                                                    *)
(***************************************************************************)
LEMMA LongestTicks == LongestDraw = get_soft_tick_from_milsec((123 * Longest) \div 100)
BY DEF LongestDraw, Longest

LEMMA ExactClock ==
    ASSUME ClockLasts, tick \in 0 .. HORIZON
    PROVE  rtcp_current_time = tick * TICK_RATE
<1> DEFINE x == tick * TICK_RATE
<1>1. tick * TICK_RATE <= HORIZON * TICK_RATE
    BY Constants
<1>2. x \in 0 .. TIME_MOD - 1
    BY <1>1, Constants DEF ClockLasts
<1>3. rtcp_current_time = x % TIME_MOD
    BY DEF rtcp_current_time
<1> HIDE DEF x
<1>4. x % TIME_MOD = x
    BY <1>2, Constants, ModSmall
<1> QED
    BY <1>3, <1>4 DEF x

\* A report that is due k ticks after the last one, t milliseconds after it,
\* leaves the timer with what is left of the longest draw.
LEMMA ScheduleInTime ==
    ASSUME Counters, initial \in BOOLEAN, NEW t \in rtcp_interval_calc, NEW tc \in Int, NEW k \in Nat,
           NEW due \in Int, due = tc - k * TICK_RATE + t, due > tc \/ k = 0, schedule(tc, due)
    PROVE  te' \in Nat /\ k + te' <= LongestDraw
<1> DEFINE L == (123 * Longest) \div 100  e == k * TICK_RATE
<1>1. t \in Nat /\ t <= L /\ Longest \in Nat /\ Longest >= 1
    BY DrawBounds
<1>2. L \in Nat /\ L >= 1 /\ e \in Nat /\ (k = 0 => e = 0)
    BY <1>1, Constants
<1>3. PICK ms \in cal_delta_in_ms(tc, due) : te' = get_soft_tick_from_milsec(ms)
    BY DEF schedule
<1>4. ms \in Nat /\ ms >= 1 /\ (due - tc >= 1 => ms <= due - tc) /\ (due - tc = 0 => ms = 1)
    BY Delays
<1>5. due - tc = t - e
    BY <1>1, <1>2
<1> HIDE DEF L
<1>6. ms + e <= L
    <2> HIDE DEF e
    <2>1. CASE due - tc >= 1
        BY <1>1, <1>2, <1>4, <1>5, <2>1
    <2>2. CASE k = 0 /\ due - tc = 0
        BY <1>1, <1>2, <1>4, <1>5, <2>2
    <2> QED BY <1>1, <1>2, <1>5, <2>1, <2>2
<1>7. get_soft_tick_from_milsec(ms) + k <= get_soft_tick_from_milsec(L)
    BY <1>2, <1>4, <1>6, TicksLeft
<1>8. get_soft_tick_from_milsec(ms) \in Nat /\ get_soft_tick_from_milsec(L) \in Nat
    BY <1>2, <1>4, Ticks
<1> QED
    BY <1>3, <1>7, <1>8, LongestTicks DEF L

LEMMA InitScheduled == ClockLasts /\ Init => SInv
<1> SUFFICES ASSUME ClockLasts, Init PROVE SInv
    OBVIOUS
<1>1. IInv
    BY InitOK
<1>2. PICK t \in rtcp_interval_calc :
        tn = t /\ \E ms \in cal_delta_in_ms(0, t) : te = get_soft_tick_from_milsec(ms)
    BY DEF Init
<1>3. PICK ms \in cal_delta_in_ms(0, t) : te = get_soft_tick_from_milsec(ms)
    BY <1>2
<1> DEFINE L == (123 * Longest) \div 100
<1>4. t \in Nat /\ t <= L /\ Longest \in Nat /\ Longest >= 1
    BY <1>1, DrawBounds DEF IInv, Clock
<1>5. ms \in Nat /\ (t >= 1 => ms <= t) /\ (t = 0 => ms = 1)
    BY <1>4, Delays
<1>6. L \in Nat /\ ms + 0 * TICK_RATE <= L
    BY <1>4, <1>5, Constants
<1> HIDE DEF L
<1>7. get_soft_tick_from_milsec(ms) + 0 <= get_soft_tick_from_milsec(L)
    BY <1>5, <1>6, TicksLeft
<1>8. te <= LongestDraw
    BY <1>3, <1>5, <1>7, Ticks, LongestTicks DEF L
<1>9. tick = 0 /\ silence = 0 /\ waiting = 0 /\ tp = 0 /\ te \in Nat
    BY <1>1 DEF Init, IInv, Clock
<1>10. 0 \in 0 .. tick /\ tp = 0 * TICK_RATE /\ waiting <= tick - 0 /\ (tick - 0) + te <= LongestDraw
    BY <1>8, <1>9, Constants
<1> QED
    BY <1>1, <1>9, <1>10 DEF SInv, Waits, Scheduled

LEMMA TimeoutScheduled ==
    ASSUME ClockLasts, SInv, rtcp_interval_timeout, KeepWaiting
    PROVE  Scheduled'
<1> DEFINE tc == rtcp_current_time
<1>1. IInv /\ tick \in 0 .. HORIZON /\ tick \in Nat /\ initial \in BOOLEAN /\ waiting \in Nat
    BY Constants DEF SInv, IInv, Clock, Waits
<1>2. PICK then \in 0 .. tick : /\ tp = then * TICK_RATE /\ waiting <= tick - then
                              /\ (tick - then) + te <= LongestDraw
    BY DEF SInv, Scheduled
<1> DEFINE k == tick - then
<1>3. tc = tick * TICK_RATE /\ tick' = tick /\ k \in Nat
    BY <1>1, <1>2, ExactClock DEF rtcp_interval_timeout
<1>4. tc \in Int /\ tp = tc - k * TICK_RATE /\ tp \in Int
    BY <1>1, <1>2, <1>3, Constants
<1>5. PICK t \in rtcp_interval_calc : SendReport(tc, t) \/ Reconsider(tc, t)
    BY DEF rtcp_interval_timeout
<1>6. t \in Nat
    BY <1>1, DrawBounds DEF IInv
<1> HIDE DEF tc
<1>7. CASE SendReport(tc, t)
    <2>1. rtcp_send_report' = rtcp_send_report
        BY DEF rtcp_interval_timeout, rtcp_send_report, count
    <2>2. tp' = tc /\ (rtcp_send_report => silence' = 0)
        BY <1>7 DEF SendReport
    <2>3. waiting' = 0
        BY <2>1, <2>2 DEF KeepWaiting
    <2>4. PICK next \in rtcp_interval_calc : schedule(tc, tc + next)
        BY <1>7 DEF SendReport
    <2> DEFINE due == tc + next
    <2>5. next \in Nat
        BY <1>1, DrawBounds DEF IInv
    <2>6. due \in Int /\ due = tc - 0 * TICK_RATE + next /\ schedule(tc, due)
        BY <1>4, <2>4, <2>5, Constants
    <2> HIDE DEF due
    <2>7. te' \in Nat /\ 0 + te' <= LongestDraw
        BY <1>1, <1>4, <2>6, ScheduleInTime DEF IInv
    <2>8. /\ tick \in 0 .. tick' /\ tp' = tick * TICK_RATE
          /\ waiting' <= tick' - tick /\ (tick' - tick) + te' <= LongestDraw
        BY <1>1, <1>3, <2>2, <2>3, <2>7
    <2> QED BY <2>8 DEF Scheduled
<1>8. CASE Reconsider(tc, t)
    <2> DEFINE due == tp + t
    <2> HIDE DEF k
    <2>1. due \in Int /\ due = tc - k * TICK_RATE + t /\ due > tc /\ schedule(tc, due)
        BY <1>3, <1>4, <1>6, <1>8, Constants DEF Reconsider
    <2> HIDE DEF due
    <2>2. te' \in Nat /\ k + te' <= LongestDraw
        BY <1>1, <1>3, <1>4, <2>1, ScheduleInTime DEF IInv
    <2>3. tp' = tp
        BY <1>8 DEF Reconsider
    <2>4. waiting' <= waiting
        BY <1>1, <1>3 DEF KeepWaiting
    <2>5. /\ then \in 0 .. tick' /\ tp' = then * TICK_RATE
          /\ waiting' <= tick' - then /\ (tick' - then) + te' <= LongestDraw
        <3>1. waiting' \in Int
            BY <1>1, <1>3 DEF KeepWaiting
        <3> QED BY <1>1, <1>2, <1>3, <2>2, <2>3, <2>4, <3>1 DEF k
    <2> QED BY <2>5 DEF Scheduled
<1> QED
    BY <1>5, <1>7, <1>8

LEMMA InductiveScheduled == ClockLasts /\ SInv /\ [Next]_vars => SInv'
<1> SUFFICES ASSUME ClockLasts, SInv, [Next]_vars PROVE SInv'
    OBVIOUS
<1>1. /\ IInv /\ IInv' /\ Waits /\ Waits'
      /\ waiting' = 0 \/ waiting' = waiting + (tick' - tick)
    BY Inductive, WaitsOK DEF SInv
<1>2. PICK then \in 0 .. tick : /\ tp = then * TICK_RATE /\ waiting <= tick - then
                              /\ (tick - then) + te <= LongestDraw
    BY DEF SInv, Scheduled
<1>3. te \in Nat /\ silence \in Nat /\ tick \in Nat /\ waiting \in Nat /\ waiting' \in Nat
    BY <1>1, Constants DEF IInv, Clock, Waits
<1>4. ASSUME tick' = tick, te' = te, tp' = tp PROVE SInv'
    <2>1. waiting' <= waiting
        BY <1>1, <1>3, <1>4
    <2>2. /\ then \in 0 .. tick' /\ tp' = then * TICK_RATE
          /\ waiting' <= tick' - then /\ (tick' - then) + te' <= LongestDraw
        BY <1>2, <1>3, <1>4, <2>1
    <2> QED BY <1>1, <2>2 DEF SInv, Scheduled
<1>5. CASE \/ \E ds \in {0, 1} : Join(ds) \/ Leave(ds)
           \/ StartSending \/ StopSending \/ RtpTx \/ SelfStopsSending
    BY <1>1, <1>4, <1>5, PeersOK
<1>6. CASE TimerTick
    <2>1. te' = te - 1 /\ tick' = tick + 1 /\ tp' = tp
        BY <1>3, <1>6 DEF TimerTick, Ready
    <2>2. waiting' <= waiting + 1
        BY <1>1, <1>3, <2>1
    <2>3. (tick' - then) + te' = (tick - then) + te
        BY <1>2, <1>3, <2>1
    <2>4. /\ then \in 0 .. tick' /\ tp' = then * TICK_RATE
          /\ waiting' <= tick' - then /\ (tick' - then) + te' <= LongestDraw
        BY <1>2, <1>3, <2>1, <2>2, <2>3
    <2> QED BY <1>1, <2>4 DEF SInv, Scheduled
<1>7. CASE rtcp_interval_timeout /\ KeepWaiting
    BY <1>1, <1>7, TimeoutScheduled DEF SInv
<1>8. CASE UNCHANGED vars
    BY <1>4, <1>8 DEF vars
<1> QED
    BY <1>5, <1>6, <1>7, <1>8 DEF Next, Step

\* However members come, go and start or stop sending, however often the callback
\* puts a report off, and however often a report is given up because it does not
\* fit the buffer: from the moment on which reports fit, one is sent within the
\* longest interval a draw can give, for as long as the clock does not wrap.
THEOREM ReportsKeepComing == ClockLasts => (Spec => []BoundedSilence)
<1> SUFFICES ASSUME ClockLasts PROVE Spec => []BoundedSilence
    OBVIOUS
<1>1. Init => SInv
    BY InitScheduled
<1>2. SInv /\ [Next]_vars => SInv'
    BY InductiveScheduled
<1>3. SInv => BoundedSilence
    <2> SUFFICES ASSUME SInv PROVE waiting <= LongestDraw
        BY DEF BoundedSilence
    <2>1. PICK then \in 0 .. tick : waiting <= tick - then /\ (tick - then) + te <= LongestDraw
        BY DEF SInv, Scheduled
    <2>3. te \in Nat /\ tick \in Nat /\ waiting \in Nat
        BY Constants DEF SInv, IInv, Clock, Waits
    <2>2. LongestDraw \in Int
        <3>1. PICK share \in Share : TRUE
            BY IntervalAssumption
        <3>2. Longest \in Nat
            BY TdBounds DEF SInv, IInv, Clock
        <3>3. (123 * Longest) \div 100 \in Nat
            BY <3>2
        <3> QED BY <3>3, Ticks, LongestTicks
    <2> QED BY <2>1, <2>2, <2>3
<1> QED
    BY <1>1, <1>2, <1>3, PTL DEF Spec

-----------------------------------------------------------------------------
(* What they say *)


\* What the assumptions say of the sizes.
LEMMA EncoderConstants ==
    /\ BUFFER_LEN \in Nat /\ COUNT_MOD \in Nat \ {0, 1} /\ MAX_MEMBERS \in 1 .. COUNT_MOD
    /\ BufLen \subseteq 0 .. BUFFER_LEN /\ BUFFER_LEN \in 4 .. 1024
    /\ Text \subseteq 0 .. 255 /\ LOSSES \in Nat
BY EncoderAssumption, ReportAssumption

-----------------------------------------------------------------------------
(* The encoder *)

Packet(pt, n, l) == [kind |-> "header", pt |-> pt, count |-> n, length |-> l]

Octets == 0 .. BUFFER_LEN - 1

\* An rtcp_encoder_t with its indices inside the buffer.
Encoder(bf, bl, r, w, cb, rt) ==
    [buf |-> bf, buf_len |-> bl, rtcp |-> r, write_ndx |-> w, chunk_begin |-> cb, ret |-> rt]

Inside(bf, bl, r, w, cb) ==
    /\ DOMAIN bf = Octets /\ bl \in 0 .. BUFFER_LEN
    /\ w \in 0 .. bl /\ r \in 0 .. w /\ cb \in 0 .. w

Sound(re) == \E bf, bl, r, w, cb, rt : re = Encoder(bf, bl, r, w, cb, rt) /\ Inside(bf, bl, r, w, cb)

\* The cells of two buffers are the same outside S.
SameBut(new, old, S) == \A o \in Octets \ S : new[o] = old[o]

\* The fields of a sound encoder.
LEMMA SoundFields ==
    ASSUME NEW re, Sound(re)
    PROVE  /\ re = Encoder(re.buf, re.buf_len, re.rtcp, re.write_ndx, re.chunk_begin, re.ret)
           /\ Inside(re.buf, re.buf_len, re.rtcp, re.write_ndx, re.chunk_begin)
BY DEF Sound, Encoder

\* The converse: such fields are a sound encoder.
LEMMA FieldsSound ==
    ASSUME NEW bf, NEW bl, NEW r, NEW w, NEW cb, NEW rt, Inside(bf, bl, r, w, cb)
    PROVE  Sound(Encoder(bf, bl, r, w, cb, rt))
BY Zenon DEF Sound

\* A call that finds no room changes nothing.
LEMMA FullSound ==
    ASSUME NEW re, Sound(re)
    PROVE  Sound(Full(re)) /\ Full(re).ret = "full" /\ Full(re).buf_len = re.buf_len
<1>1. PICK bf, bl, r, w, cb, rt : re = Encoder(bf, bl, r, w, cb, rt) /\ Inside(bf, bl, r, w, cb)
    BY DEF Sound
<1>2. Full(re) = Encoder(bf, bl, r, w, cb, "full")
    BY <1>1 DEF Full, Encoder
<1> QED BY <1>1, <1>2, FieldsSound DEF Encoder

\* rtcp_encoder_init.
LEMMA InitDoes ==
    ASSUME NEW n \in 0 .. BUFFER_LEN
    PROVE  /\ Sound(rtcp_encoder_init(n)) /\ rtcp_encoder_init(n).buf_len = n
           /\ rtcp_encoder_init(n).write_ndx = 0
<1> DEFINE bf == [o \in Octets |-> IF o = 0 THEN Header("none") ELSE Stale]
<1>1. rtcp_encoder_init(n) = Encoder(bf, n, 0, 0, 0, "ok")
    BY DEF rtcp_encoder_init, Encoder, Octets
<1>2. Inside(bf, n, 0, 0, 0)
    BY EncoderConstants DEF Inside
<1> HIDE DEF bf
<1> QED BY <1>1, <1>2, FieldsSound DEF Encoder


\* What a call that begins a report does, and the calls below: it finds no room
\* or succeeds.
ReportOpened(new, re, pt, size, ssrc) ==
    /\ Sound(new) /\ new.buf_len = re.buf_len
    /\ \/ new.ret = "full" /\ space_left(re) < size
       \/ /\ new.ret = "ok"
          /\ new.rtcp = re.write_ndx /\ new.write_ndx = re.write_ndx + size
          /\ new.buf[re.write_ndx] = Packet(pt, 0, 0)
          /\ new.buf[re.write_ndx + 4] = Word(ssrc)

\* rtcp_encoder_sr_begin and rtcp_encoder_rr_begin.
LEMMA ReportBeginDoes ==
    ASSUME NEW re, Sound(re), NEW pt, NEW size \in Nat, size > 4, NEW ssrc,
           NEW new, new = rtcp_encoder_report_begin(re, pt, size, ssrc)
    PROVE  ReportOpened(new, re, pt, size, ssrc)
<1> USE DEF ReportOpened
<1>1. CASE space_left(re) < size
    BY <1>1, FullSound DEF rtcp_encoder_report_begin
<1>2. CASE ~(space_left(re) < size)
    <2>1. PICK bf, bl, r, w, cb, rt : re = Encoder(bf, bl, r, w, cb, rt) /\ Inside(bf, bl, r, w, cb)
        BY DEF Sound
    <2> DEFINE to == [[bf EXCEPT ![w] = Packet(pt, 0, 0)] EXCEPT ![w + 4] = Word(ssrc)]
    <2>2. rtcp_encoder_report_begin(re, pt, size, ssrc) = Encoder(to, bl, w, w + size, cb, "ok")
        BY <1>2, <2>1 DEF rtcp_encoder_report_begin, Begin, Header, Packet, HEADER_SIZE, Encoder
    <2>3. w + size <= bl
        BY <1>2, <2>1, EncoderConstants DEF space_left, Inside, Encoder
    <2>4. Inside(to, bl, w, w + size, cb) /\ to[w] = Packet(pt, 0, 0) /\ to[w + 4] = Word(ssrc)
        BY <2>1, <2>3, EncoderConstants, SMTT(30) DEF Inside, Octets
    <2>5. Sound(Encoder(to, bl, w, w + size, cb, "ok"))
        <3> HIDE DEF to
        <3> QED BY <2>4, FieldsSound
    <2> HIDE DEF to
    <2> QED BY <2>1, <2>2, <2>4, <2>5 DEF Encoder
<1> QED BY <1>1, <1>2

\* A count below its limit does not wrap.
LEMMA CountUp ==
    ASSUME NEW n \in Nat, n + 1 < COUNT_MOD
    PROVE  (n + 1) % COUNT_MOD = n + 1
BY EncoderConstants, ModSmall

\* The packet being written has n elements so far, and room for one more in
\* its count.
Counted(re, pt, n, l) ==
    /\ re.buf[re.rtcp] = Packet(pt, n, l) /\ re.rtcp < re.write_ndx
    /\ n \in Nat /\ n + 1 < COUNT_MOD

\* count and write_ndx agree on the place of the next element.
InStep(re, base, size, n) ==
    base \in Nat /\ size \in Nat \ {0} /\ re.rtcp + base + size * n = re.write_ndx

\* An element is added to the packet.
ElementAdded(new, re, pt, n, l, size, cell) ==
    /\ Sound(new) /\ new.buf_len = re.buf_len
    /\ \/ new.ret = "full" /\ space_left(re) < size
       \/ /\ new.ret = "ok" /\ new.rtcp = re.rtcp
          /\ new.write_ndx = re.write_ndx + size
          /\ new.buf[re.rtcp] = Packet(pt, n + 1, l)
          /\ new.buf[re.write_ndx] = cell
          /\ SameBut(new.buf, re.buf, {re.rtcp, re.write_ndx})

\* rtcp_encoder_sr_add_rr, rtcp_encoder_rr_add_rr and rtcp_encoder_bye_add_ssrc:
\* when count has kept step with write_ndx, the element goes to write_ndx.
LEMMA AddElementDoes ==
    ASSUME NEW re, Sound(re), NEW pt, NEW n, NEW l, Counted(re, pt, n, l),
           NEW base, NEW size, InStep(re, base, size, n), NEW cell,
           NEW new, new = AddElement(re, base, size, cell)
    PROVE  ElementAdded(new, re, pt, n, l, size, cell)
<1> USE DEF ElementAdded
<1>0. base \in Nat /\ size \in Nat \ {0}
    BY DEF InStep
<1>1. CASE space_left(re) < size
    BY <1>1, FullSound DEF AddElement
<1>2. CASE ~(space_left(re) < size)
    <2>1. PICK bf, bl, r, w, cb, rt : re = Encoder(bf, bl, r, w, cb, rt) /\ Inside(bf, bl, r, w, cb)
        BY DEF Sound
    <2>2. bf[r] = Packet(pt, n, l) /\ r < w /\ n \in Nat /\ n + 1 < COUNT_MOD
        BY <2>1 DEF Encoder, Counted
    <2>3. w + size <= bl
        BY <1>0, <1>2, <2>1, EncoderConstants DEF space_left, Inside, Encoder
    <2> DEFINE put == [bf EXCEPT ![w] = cell]
               to == [put EXCEPT ![r] = Packet(pt, n + 1, l)]
    <2>4. put[r] = Packet(pt, n, l)
        BY <1>0, <2>1, <2>2, <2>3, EncoderConstants DEF Inside, Octets
    <2>5. (n + 1) % COUNT_MOD = n + 1
        BY <2>2, CountUp
    <2>6. bf[r].count = n /\ [put[r] EXCEPT !.count = (n + 1) % COUNT_MOD] = Packet(pt, n + 1, l)
        <3> HIDE DEF put
        <3> QED BY <2>2, <2>4, <2>5 DEF Packet
    <2>7. ndx(re) = n
        BY <2>1, <2>2 DEF ndx, Packet, Encoder
    <2>8. AddElement(re, base, size, cell) =
            Encoder([put EXCEPT ![r] = [put[r] EXCEPT !.count = (bf[r].count + 1) % COUNT_MOD]],
                    bl, r, w + size, cb, "ok")
        <3>1. AddElement(re, base, size, cell) =
                [re EXCEPT !.buf[w] = cell,
                    !.buf[r].count = (@ + 1) % COUNT_MOD,
                    !.write_ndx = @ + size, !.ret = "ok"]
            <4>1. re.rtcp + base + size * ndx(re) = w /\ re.rtcp = r /\ re.write_ndx = w
                BY <2>1, <2>7 DEF InStep, Encoder
            <4>2. AddElement(re, base, size, cell) =
                    [re EXCEPT !.buf[re.rtcp + base + size * ndx(re)] = cell,
                        !.buf[re.rtcp].count = (@ + 1) % COUNT_MOD,
                        !.write_ndx = @ + size, !.ret = "ok"]
                BY <1>2 DEF AddElement
            <4> QED BY <4>1, <4>2
        <3>2. w \in Int
            BY <2>1, EncoderConstants DEF Inside
        <3> DEFINE res == AddElement(re, base, size, cell)
        <3>3. res = [re EXCEPT !.buf[w] = cell,
                        !.buf[r].count = (@ + 1) % COUNT_MOD,
                        !.write_ndx = @ + size, !.ret = "ok"]
            BY <3>1
        <3> HIDE DEF res
        <3>4. res = Encoder([put EXCEPT ![r] = [put[r] EXCEPT !.count = (bf[r].count + 1) % COUNT_MOD]],
                            bl, r, w + size, cb, "ok")
            BY <1>0, <2>1, <3>2, <3>3 DEF Encoder
        <3> QED BY <3>4 DEF res
    <2>9. AddElement(re, base, size, cell) = Encoder(to, bl, r, w + size, cb, "ok")
        <3> HIDE DEF put
        <3> QED BY <2>6, <2>8
    <2>10. Inside(to, bl, r, w + size, cb)
        BY <1>0, <2>1, <2>3, EncoderConstants DEF Inside, Octets
    <2>11. to[r] = Packet(pt, n + 1, l) /\ to[w] = cell /\ SameBut(to, bf, {r, w})
        BY <1>0, <2>1, <2>2, <2>3, EncoderConstants, SMTT(30) DEF Inside, Octets, SameBut
    <2>12. Sound(Encoder(to, bl, r, w + size, cb, "ok"))
        <3> HIDE DEF to
        <3> QED BY <2>10, FieldsSound
    <2> HIDE DEF to
    <2> QED BY <2>1, <2>9, <2>11, <2>12 DEF Encoder
<1> QED BY <1>1, <1>2

\* A packet is begun.
PacketOpened(new, re, pt) ==
    /\ Sound(new) /\ new.buf_len = re.buf_len
    /\ \/ new.ret = "full" /\ space_left(re) < 4
       \/ /\ new.ret = "ok"
          /\ new.rtcp = re.write_ndx /\ new.write_ndx = re.write_ndx + 4
          /\ new.buf[re.write_ndx] = Packet(pt, 0, 0)
          /\ SameBut(new.buf, re.buf, {re.write_ndx})

\* rtcp_encoder_sdes_begin and rtcp_encoder_bye_begin.
LEMMA BeginDoes ==
    ASSUME NEW re, Sound(re), NEW pt,
           NEW new, new = IF space_left(re) < HEADER_SIZE THEN Full(re) ELSE Begin(re, pt, HEADER_SIZE)
    PROVE  PacketOpened(new, re, pt)
<1> USE DEF PacketOpened
<1>1. CASE space_left(re) < HEADER_SIZE
    BY <1>1, FullSound DEF HEADER_SIZE
<1>2. CASE ~(space_left(re) < HEADER_SIZE)
    <2>1. PICK bf, bl, r, w, cb, rt : re = Encoder(bf, bl, r, w, cb, rt) /\ Inside(bf, bl, r, w, cb)
        BY DEF Sound
    <2> DEFINE to == [bf EXCEPT ![w] = Packet(pt, 0, 0)]
    <2>2. Begin(re, pt, HEADER_SIZE) = Encoder(to, bl, w, w + 4, cb, "ok")
        <3>1. w \in Int
            BY <2>1, EncoderConstants DEF Inside
        <3> DEFINE res == Begin(re, pt, HEADER_SIZE)
        <3>2. res = [re EXCEPT !.rtcp = re.write_ndx, !.buf[re.write_ndx] = Packet(pt, 0, 0),
                               !.write_ndx = @ + 4, !.ret = "ok"]
            BY DEF Begin, Header, Packet, HEADER_SIZE
        <3> HIDE DEF res
        <3>3. res = Encoder(to, bl, w, w + 4, cb, "ok")
            BY <2>1, <3>1, <3>2 DEF Encoder
        <3> QED BY <3>3 DEF res
    <2>3. w + 4 <= bl
        BY <1>2, <2>1, EncoderConstants DEF space_left, Inside, Encoder, HEADER_SIZE
    <2>4. Inside(to, bl, w, w + 4, cb) /\ to[w] = Packet(pt, 0, 0) /\ SameBut(to, bf, {w})
        BY <2>1, <2>3, EncoderConstants DEF Inside, Octets, SameBut
    <2>5. Sound(Encoder(to, bl, w, w + 4, cb, "ok"))
        <3> HIDE DEF to
        <3> QED BY <2>4, FieldsSound
    <2> HIDE DEF to
    <2> QED BY <1>2, <2>1, <2>2, <2>4, <2>5 DEF Encoder
<1> QED BY <1>1, <1>2

\* A chunk is begun.
ChunkOpened(new, re, pt, n, l, ssrc) ==
    /\ Sound(new) /\ new.buf_len = re.buf_len
    /\ \/ new.ret = "full" /\ space_left(re) < 4
       \/ /\ new.ret = "ok" /\ new.rtcp = re.rtcp
          /\ new.chunk_begin = re.write_ndx /\ new.write_ndx = re.write_ndx + 4
          /\ new.buf[re.rtcp] = Packet(pt, n + 1, l)
          /\ new.buf[re.write_ndx] = Word(ssrc)
          /\ SameBut(new.buf, re.buf, {re.rtcp, re.write_ndx})

\* rtcp_encoder_sdes_chunk_begin.
LEMMA ChunkBeginDoes ==
    ASSUME NEW re, Sound(re), NEW pt, NEW n, NEW l, Counted(re, pt, n, l), NEW ssrc,
           NEW new, new = rtcp_encoder_sdes_chunk_begin(re, ssrc)
    PROVE  ChunkOpened(new, re, pt, n, l, ssrc)
<1> USE DEF ChunkOpened
<1>1. CASE space_left(re) < 4
    BY <1>1, FullSound DEF rtcp_encoder_sdes_chunk_begin
<1>2. CASE ~(space_left(re) < 4)
    <2>1. PICK bf, bl, r, w, cb, rt : re = Encoder(bf, bl, r, w, cb, rt) /\ Inside(bf, bl, r, w, cb)
        BY DEF Sound
    <2>2. bf[r] = Packet(pt, n, l) /\ r < w /\ n \in Nat /\ n + 1 < COUNT_MOD
        BY <2>1 DEF Encoder, Counted
    <2>3. w + 4 <= bl
        BY <1>2, <2>1, EncoderConstants DEF space_left, Inside, Encoder
    <2> DEFINE to == [[bf EXCEPT ![r] = Packet(pt, n + 1, l)] EXCEPT ![w] = Word(ssrc)]
    <2>4. (n + 1) % COUNT_MOD = n + 1
        BY <2>2, CountUp
    <2>5. [bf[r] EXCEPT !.count = (bf[r].count + 1) % COUNT_MOD] = Packet(pt, n + 1, l)
        BY <2>2, <2>4 DEF Packet
    <2>6. rtcp_encoder_sdes_chunk_begin(re, ssrc) =
            Encoder([[bf EXCEPT ![r] = [bf[r] EXCEPT !.count = (bf[r].count + 1) % COUNT_MOD]]
                        EXCEPT ![w] = Word(ssrc)],
                    bl, r, w + 4, w, "ok")
        BY <1>2, <2>1 DEF rtcp_encoder_sdes_chunk_begin, Encoder
    <2>7. rtcp_encoder_sdes_chunk_begin(re, ssrc) = Encoder(to, bl, r, w + 4, w, "ok")
        BY <2>5, <2>6
    <2>8. Inside(to, bl, r, w + 4, w)
        BY <2>1, <2>3, EncoderConstants DEF Inside, Octets
    <2>9. to[r] = Packet(pt, n + 1, l) /\ to[w] = Word(ssrc) /\ SameBut(to, bf, {r, w})
        BY <2>1, <2>2, <2>3, EncoderConstants DEF Inside, Octets, SameBut
    <2>10. Sound(Encoder(to, bl, r, w + 4, w, "ok"))
        <3> HIDE DEF to
        <3> QED BY <2>8, FieldsSound
    <2> HIDE DEF to
    <2> QED BY <2>1, <2>7, <2>9, <2>10 DEF Encoder
<1> QED BY <1>1, <1>2

\* A cell is written.
CellWritten(new, re, cell, size) ==
    /\ Sound(new) /\ new.buf_len = re.buf_len
    /\ \/ new.ret = "full" /\ space_left(re) < size
       \/ /\ new.ret = "ok"
          /\ new.rtcp = re.rtcp /\ new.chunk_begin = re.chunk_begin
          /\ new.write_ndx = re.write_ndx + size
          /\ new.buf[re.write_ndx] = cell
          /\ SameBut(new.buf, re.buf, {re.write_ndx})

\* rtcp_encoder_sdes_chunk_add_cname and rtcp_encoder_bye_add_reason: a cell
\* at write_ndx, and size octets.
LEMMA WriteDoes ==
    ASSUME NEW re, Sound(re), NEW cell, NEW size \in Nat \ {0},
           NEW new,
           new = IF space_left(re) < size THEN Full(re)
                 ELSE [re EXCEPT !.buf[re.write_ndx] = cell, !.write_ndx = @ + size, !.ret = "ok"]
    PROVE  CellWritten(new, re, cell, size)
<1> USE DEF CellWritten
<1>1. CASE space_left(re) < size
    BY <1>1, FullSound
<1>2. CASE ~(space_left(re) < size)
    <2>1. PICK bf, bl, r, w, cb, rt : re = Encoder(bf, bl, r, w, cb, rt) /\ Inside(bf, bl, r, w, cb)
        BY DEF Sound
    <2> DEFINE to == [bf EXCEPT ![w] = cell]
    <2>2. [re EXCEPT !.buf[re.write_ndx] = cell, !.write_ndx = @ + size, !.ret = "ok"]
             = Encoder(to, bl, r, w + size, cb, "ok")
        <3>1. w \in Int
            BY <2>1, EncoderConstants DEF Inside
        <3> DEFINE res == [re EXCEPT !.buf[re.write_ndx] = cell, !.write_ndx = @ + size, !.ret = "ok"]
        <3>2. res = [re EXCEPT !.buf[re.write_ndx] = cell, !.write_ndx = @ + size, !.ret = "ok"]
            OBVIOUS
        <3> HIDE DEF res
        <3>3. res = Encoder(to, bl, r, w + size, cb, "ok")
            BY <2>1, <3>1, <3>2 DEF Encoder
        <3> QED BY <3>3 DEF res
    <2>3. w + size <= bl
        BY <1>2, <2>1, EncoderConstants DEF space_left, Inside, Encoder
    <2>4. Inside(to, bl, r, w + size, cb) /\ to[w] = cell /\ SameBut(to, bf, {w})
        BY <2>1, <2>3, EncoderConstants DEF Inside, Octets, SameBut
    <2>5. Sound(Encoder(to, bl, r, w + size, cb, "ok"))
        <3> HIDE DEF to
        <3> QED BY <2>4, FieldsSound
    <2> HIDE DEF to
    <2> QED BY <1>2, <2>1, <2>2, <2>4, <2>5 DEF Encoder
<1> QED BY <1>1, <1>2

\* Padding ends at the next word behind the null octet.
LEMMA Padding ==
    ASSUME NEW k \in Nat
    PROVE  /\ Pad(k) \in 0 .. 3 /\ (k + Pad(k)) % 4 = 0
           /\ k > 0 => k + Pad(k) = 4 * ((k - 1) \div 4 + 1)
BY DEF Pad

\* A chunk is ended.
ChunkClosed(new, re) ==
    /\ Sound(new) /\ new.buf_len = re.buf_len
    /\ \/ new.ret = "full" /\ space_left(re) < 1 + Pad(re.write_ndx + 1 - re.chunk_begin)
       \/ /\ new.ret = "ok" /\ new.rtcp = re.rtcp /\ new.chunk_begin = re.chunk_begin
          /\ new.write_ndx = re.chunk_begin + 4 * ((re.write_ndx - re.chunk_begin) \div 4 + 1)
          /\ new.write_ndx > re.write_ndx
          /\ new.buf[re.write_ndx] = Zero
          /\ SameBut(new.buf, re.buf, re.write_ndx .. new.write_ndx)

\* rtcp_encoder_sdes_chunk_end.
LEMMA ChunkEndDoes ==
    ASSUME NEW re, Sound(re),
           NEW new, new = rtcp_encoder_sdes_chunk_end(re)
    PROVE  ChunkClosed(new, re)
<1> USE DEF ChunkClosed
<1>1. CASE space_left(re) < 1
    <2> DEFINE size == re.write_ndx + 1 - re.chunk_begin
    <2>1. size \in Nat /\ space_left(re) \in Int
        BY SoundFields, EncoderConstants DEF Inside, space_left
    <2> HIDE DEF size
    <2>2. Pad(size) \in 0 .. 3
        BY <2>1, Padding
    <2> DEFINE pad == Pad(size)
    <2> HIDE DEF pad
    <2>3. space_left(re) < 1 + pad
        BY <1>1, <2>1, <2>2 DEF pad
    <2> QED BY <1>1, <2>3, FullSound DEF rtcp_encoder_sdes_chunk_end, size, pad
<1>2. CASE ~(space_left(re) < 1)
    <2>1. PICK bf, bl, r, w, cb, rt : re = Encoder(bf, bl, r, w, cb, rt) /\ Inside(bf, bl, r, w, cb)
        BY DEF Sound
    <2>2. w + 1 <= bl
        BY <1>2, <2>1, EncoderConstants DEF space_left, Inside, Encoder
    <2> DEFINE pad == Pad(w + 1 - cb)
               put == [bf EXCEPT ![w] = Zero]
               zeroed == [re EXCEPT !.buf[re.write_ndx] = Zero, !.write_ndx = @ + 1]
               to == [o \in DOMAIN put |-> IF o \in w + 1 .. w + 1 + pad - 1 THEN Zero ELSE put[o]]
    <2>3. pad \in 0 .. 3 /\ w + 1 + pad = cb + 4 * ((w - cb) \div 4 + 1)
        <3> DEFINE size == w + 1 - cb
        <3>1. size \in Nat /\ size > 0 /\ size - 1 = w - cb /\ w \in Nat /\ cb \in Nat
            BY <2>1, EncoderConstants DEF Inside
        <3>2. pad \in 0 .. 3 /\ size + pad = 4 * ((size - 1) \div 4 + 1)
            <4> HIDE DEF size
            <4>1. Pad(size) \in 0 .. 3 /\ size + Pad(size) = 4 * ((size - 1) \div 4 + 1)
                BY <3>1, Padding
            <4> QED BY <4>1 DEF size
        <3> DEFINE q == (w - cb) \div 4
        <3>3. size + pad = 4 * (q + 1) /\ q \in Int
            <4> HIDE DEF pad
            <4> QED BY <3>1, <3>2
        <3> HIDE DEF pad, q
        <3>4. w + 1 + pad = cb + 4 * (q + 1)
            BY <3>1, <3>2, <3>3
        <3> QED BY <3>2, <3>4 DEF q
    <2>4. zeroed = Encoder(put, bl, r, w + 1, cb, rt)
        <3>1. w \in Int
            BY <2>1, EncoderConstants DEF Inside
        <3>2. zeroed = [re EXCEPT !.buf[re.write_ndx] = Zero, !.write_ndx = @ + 1]
            OBVIOUS
        <3> HIDE DEF zeroed
        <3> QED BY <2>1, <3>1, <3>2 DEF Encoder
    <2>5. Inside(put, bl, r, w + 1, cb) /\ put[w] = Zero /\ SameBut(put, bf, {w})
        BY <2>1, <2>2, EncoderConstants DEF Inside, Octets, SameBut
    <2>6. rtcp_encoder_sdes_chunk_end(re) =
             IF space_left(zeroed) < pad THEN Full(zeroed)
             ELSE [zeroed EXCEPT
                      !.buf = [o \in DOMAIN @ |->
                                  IF o \in zeroed.write_ndx .. zeroed.write_ndx + pad - 1
                                  THEN Zero ELSE @[o]],
                      !.write_ndx = @ + pad, !.ret = "ok"]
        BY <1>2, <2>1 DEF rtcp_encoder_sdes_chunk_end, Encoder
    <2> HIDE DEF zeroed, pad, put
    <2>7. CASE space_left(zeroed) < pad
        <3>1. Sound(zeroed) /\ zeroed.buf_len = re.buf_len
            BY <2>1, <2>4, <2>5, FieldsSound DEF Encoder
        <3>2. space_left(re) < 1 + pad
            BY <2>1, <2>3, <2>4, <2>7, EncoderConstants DEF space_left, Inside, Encoder
        <3>3. pad = Pad(re.write_ndx + 1 - re.chunk_begin)
            BY <2>1 DEF pad, Encoder
        <3> QED BY <2>6, <2>7, <3>1, <3>2, <3>3, FullSound
    <2>8. CASE ~(space_left(zeroed) < pad)
        <3>1. rtcp_encoder_sdes_chunk_end(re) = Encoder(to, bl, r, w + 1 + pad, cb, "ok")
            <4> DEFINE res == rtcp_encoder_sdes_chunk_end(re)
            <4>1. res = [zeroed EXCEPT
                            !.buf = [o \in DOMAIN @ |->
                                        IF o \in zeroed.write_ndx .. zeroed.write_ndx + pad - 1
                                        THEN Zero ELSE @[o]],
                            !.write_ndx = @ + pad, !.ret = "ok"]
                BY <2>6, <2>8
            <4> HIDE DEF res
            <4>2. res = Encoder(to, bl, r, w + 1 + pad, cb, "ok")
                BY <2>4, <4>1 DEF Encoder
            <4> QED BY <4>2 DEF res
        <3>2. w + 1 + pad <= bl
            BY <2>1, <2>3, <2>4, <2>8, EncoderConstants DEF space_left, Inside, Encoder
        <3>3. Inside(to, bl, r, w + 1 + pad, cb)
            BY <2>1, <2>3, <2>5, <3>2, EncoderConstants DEF Inside
        <3>4. to[w] = Zero /\ SameBut(to, bf, w .. w + 1 + pad)
            <4>1. w \in Nat /\ w \in Octets /\ DOMAIN put = Octets /\ Octets \subseteq Nat
                BY <2>1, <2>2, <2>5, EncoderConstants DEF Inside, Octets
            <4>2. to[w] = put[w]
                BY <2>3, <4>1
            <4>3. ASSUME NEW o \in Octets, o \notin w .. w + 1 + pad PROVE to[o] = bf[o]
                <5>1. o \in Int /\ o # w /\ o \notin w + 1 .. w + 1 + pad - 1
                    BY <2>3, <4>1, <4>3
                <5>2. to[o] = put[o]
                    BY <4>1, <5>1
                <5>3. put[o] = bf[o]
                    BY <2>5, <5>1 DEF SameBut
                <5> QED BY <5>2, <5>3
            <4> QED BY <2>5, <4>2, <4>3 DEF SameBut
        <3>5. Sound(Encoder(to, bl, r, w + 1 + pad, cb, "ok"))
            <4> HIDE DEF to
            <4> QED BY <3>3, FieldsSound
        <3>6. w + 1 + pad > w
            BY <2>1, <2>3, EncoderConstants DEF Inside
        <3> HIDE DEF to
        <3> QED BY <2>1, <2>3, <3>1, <3>4, <3>5, <3>6 DEF Encoder
    <2> QED BY <2>7, <2>8
<1> QED BY <1>1, <1>2

\* The packet being written consists of whole words.
Words(re, pt, n, l) ==
    /\ re.buf[re.rtcp] = Packet(pt, n, l)
    /\ re.write_ndx >= re.rtcp + 4 /\ (re.write_ndx - re.rtcp) % 4 = 0

\* A packet is ended.
PacketClosed(new, re, pt, n) ==
    /\ Sound(new) /\ new.buf_len = re.buf_len /\ new.ret = "ok"
    /\ new.rtcp = re.rtcp /\ new.chunk_begin = re.chunk_begin /\ new.write_ndx = re.write_ndx
    /\ \E k \in Nat : /\ new.buf[re.rtcp] = Packet(pt, n, k)
                      /\ re.rtcp + 4 * (k + 1) = re.write_ndx
    /\ SameBut(new.buf, re.buf, {re.rtcp})

\* rtcp_encoder_end_packet: a packet of whole words gets its length.
LEMMA EndPacketDoes ==
    ASSUME NEW re, Sound(re), NEW pt, NEW n, NEW l, Words(re, pt, n, l),
           NEW new, new = rtcp_encoder_end_packet(re)
    PROVE  PacketClosed(new, re, pt, n)
<1> USE DEF PacketClosed
<1>1. PICK bf, bl, r, w, cb, rt : re = Encoder(bf, bl, r, w, cb, rt) /\ Inside(bf, bl, r, w, cb)
    BY DEF Sound
<1>2. bf[r] = Packet(pt, n, l) /\ w >= r + 4 /\ (w - r) % 4 = 0
    BY <1>1 DEF Encoder, Words
<1> DEFINE k == (w - r) \div 4 - 1
           to == [bf EXCEPT ![r] = Packet(pt, n, k)]
<1>3. k \in Nat /\ r + 4 * (k + 1) = w
    BY <1>1, <1>2, EncoderConstants DEF Inside
<1>4. rtcp_encoder_end_packet(re) = [re EXCEPT !.buf[r].length = k, !.ret = "ok"]
    BY <1>1, <1>2 DEF rtcp_encoder_end_packet, Encoder
<1> HIDE DEF k
<1>5. rtcp_encoder_end_packet(re) =
        Encoder([bf EXCEPT ![r] = [bf[r] EXCEPT !.length = k]], bl, r, w, cb, "ok")
    BY <1>1, <1>4 DEF Encoder
<1>6. [bf[r] EXCEPT !.length = k] = Packet(pt, n, k)
    BY <1>2 DEF Packet
<1>7. rtcp_encoder_end_packet(re) = Encoder(to, bl, r, w, cb, "ok")
    BY <1>5, <1>6
<1>8. Inside(to, bl, r, w, cb) /\ to[r] = Packet(pt, n, k) /\ SameBut(to, bf, {r})
    BY <1>1, <1>2, EncoderConstants DEF Inside, Octets, SameBut
<1>9. Sound(Encoder(to, bl, r, w, cb, "ok"))
    <2> HIDE DEF to
    <2> QED BY <1>8, FieldsSound
<1> HIDE DEF to
<1> QED BY <1>1, <1>3, <1>7, <1>8, <1>9 DEF Encoder

-----------------------------------------------------------------------------
(* The layout of a packet *)

Id == Peer \cup {Self}

Blk == [ssrc : Peer, of : Peer \cup {NoOne}, loss : 0 .. LOSSES]

\* What meant and got consist of.
Item == ({"SR", "RR", "chunk", "BYE"} \X Id) \cup ({"block"} \X Blk) \cup ({"cname"} \X Text)

\* The header at octet o, whose length is not yet set, or leads to octet e.
Opened(bf, o, pt, c) == \E l \in Nat : bf[o] = Packet(pt, c, l)

Closed(bf, o, pt, c, e) == \E l \in Nat : bf[o] = Packet(pt, c, l) /\ o + 4 * (l + 1) = e

Base(pt) == IF pt = "SR" THEN 28 ELSE 8

SdesAt(pt, c) == Base(pt) + 24 * c

\* m begins with a report of c blocks, and the cells say so.
Blocks(bf, m, pt, c) ==
    /\ pt \in {"SR", "RR"} /\ c \in Nat /\ Len(m) >= c + 1
    /\ bf[4] = Word(Self) /\ m[1] = <<pt, Self>>
    /\ \A i \in 1 .. c : \E x \in Blk :
          m[i + 1] = <<"block", x>> /\ bf[Base(pt) + 24 * (i - 1)] = Block(x)

\* The chunk at octet o is element i of m, and its name, if it has one, the
\* next; the null octet at z leads to the next chunk, at octet e and element k.
Named(bf, m, o, i, z, k) ==
    \/ k = i + 1 /\ z = o + 4
    \/ /\ k = i + 2
       /\ \E t \in Text : m[i + 1] = <<"cname", t>> /\ bf[o + 4] = Cname(t) /\ z = o + 6 + t

NextWord(o, z) == o + 4 * ((z - o) \div 4 + 1)

Begun(bf, m, o, i) == \E s \in Id : m[i] = <<"chunk", s>> /\ bf[o] = Word(s)

Chunk(bf, m, o, i, e, k) ==
    /\ Begun(bf, m, o, i)
    /\ \E z \in Nat : Named(bf, m, o, i, z, k) /\ bf[z] = Zero /\ e = NextWord(o, z)

\* Chunks 1 .. n - 1 are complete: chunk j begins at octet b[j] and is element
\* f[j] of m.
Chunks(bf, m, pt, c, n, b, f) ==
    /\ n \in Nat \ {0} /\ b \in [1 .. n -> Nat] /\ f \in [1 .. n -> Nat]
    /\ b[1] = SdesAt(pt, c) + 4 /\ f[1] = c + 2
    /\ \A j \in 1 .. n : b[1] <= b[j] /\ b[j] <= b[n] /\ f[1] <= f[j] /\ f[j] <= f[n]
    /\ b[n] % 4 = 0 /\ f[n] <= Len(m) + 1
    /\ \A j \in 1 .. n - 1 : Chunk(bf, m, b[j], f[j], b[j + 1], f[j + 1])

\* k sources leave, in the BYE packet at octet o, from element i of m.
Byes(bf, m, o, i, k) ==
    \A j \in 1 .. k : \E s \in Peer : m[i + j - 1] = <<"BYE", s>> /\ bf[o + 4 * j] = Word(s)

\* m2 continues m; two buffers agree from octet lo to before hi.
Longer(m2, m) ==
    /\ m \in Seq(Item) /\ m2 \in Seq(Item) /\ Len(m) <= Len(m2)
    /\ \A i \in 1 .. Len(m) : m2[i] = m[i]

Said(m2, m, x) == m \in Seq(Item) /\ x \in Item /\ m2 = m \o <<x>>

Agree(bf2, bf, lo, hi) == \A o \in lo .. hi - 1 : bf2[o] = bf[o]

\* One more element of meant or got.
LEMMA Appending ==
    ASSUME NEW m \in Seq(Item), NEW x \in Item
    PROVE  /\ m \o <<x>> = Append(m, x) /\ m \o <<x>> \in Seq(Item)
           /\ Len(m \o <<x>>) = Len(m) + 1 /\ (m \o <<x>>)[Len(m) + 1] = x
           /\ Longer(m \o <<x>>, m)
           /\ m \o <<>> = m /\ Longer(m, m)
<1>1. m \o <<x>> = Append(m, x) /\ m \o <<>> = m
    OBVIOUS
<1>2. Append(m, x) \in Seq(Item) /\ Len(Append(m, x)) = Len(m) + 1 /\ Append(m, x)[Len(m) + 1] = x
    OBVIOUS
<1>3. \A i \in 1 .. Len(m) : Append(m, x)[i] = m[i]
    OBVIOUS
<1>4. Len(m) \in Nat
    OBVIOUS
<1>5. Longer(Append(m, x), m) /\ Longer(m, m)
    BY <1>2, <1>3, <1>4 DEF Longer
<1> QED BY <1>1, <1>2, <1>5

\* What was said before is not changed by what is said now.
LEMMA SaidDoes ==
    ASSUME NEW m, NEW x, NEW m2, Said(m2, m, x)
    PROVE  /\ m2 \in Seq(Item) /\ Longer(m2, m) /\ Len(m2) = Len(m) + 1 /\ m2[Len(m) + 1] = x
           /\ Len(m) \in Nat
BY Appending DEF Said

\* The two reports have headers of 28 and of 8 octets.
LEMMA BaseValue == \A pt : Base(pt) \in {8, 28}
BY DEF Base

\* SDES begins on a word behind the header.
LEMMA SdesValue ==
    ASSUME NEW pt, NEW c \in Nat
    PROVE  SdesAt(pt, c) \in Nat /\ SdesAt(pt, c) >= 8 /\ SdesAt(pt, c) % 4 = 0
BY BaseValue DEF SdesAt

\* A report stays while what follows it is written.
LEMMA BlocksStay ==
    ASSUME NEW bf, NEW m, NEW pt, NEW c, Blocks(bf, m, pt, c), NEW bf2, NEW m2, Longer(m2, m),
           Agree(bf2, bf, 4, SdesAt(pt, c))
    PROVE  Blocks(bf2, m2, pt, c)
<1>1. c \in Nat /\ Len(m) \in Nat /\ Len(m2) \in Nat /\ Len(m) >= c + 1 /\ Len(m) <= Len(m2)
    BY DEF Blocks, Longer
<1>2. bf2[4] = bf[4] /\ m2[1] = m[1]
    BY <1>1, SdesValue DEF Agree, Longer
<1>3. ASSUME NEW i \in 1 .. c
      PROVE  m2[i + 1] = m[i + 1] /\ bf2[Base(pt) + 24 * (i - 1)] = bf[Base(pt) + 24 * (i - 1)]
    <2>1. i + 1 \in 1 .. Len(m)
        BY <1>1
    <2>2. Base(pt) + 24 * (i - 1) \in 4 .. SdesAt(pt, c) - 1
        BY <1>1, BaseValue DEF SdesAt
    <2> QED BY <2>1, <2>2 DEF Agree, Longer
<1> QED BY <1>1, <1>2, <1>3 DEF Blocks

\* One more block.
LEMMA BlocksGrow ==
    ASSUME NEW bf, NEW m, NEW pt, NEW c, Blocks(bf, m, pt, c), Len(m) = c + 1, NEW bf2,
           NEW x \in Blk, Agree(bf2, bf, 4, SdesAt(pt, c)), bf2[SdesAt(pt, c)] = Block(x),
           NEW m2, Said(m2, m, <<"block", x>>)
    PROVE  /\ Blocks(bf2, m2, pt, c + 1)
           /\ SdesAt(pt, c + 1) = SdesAt(pt, c) + 24
<1> DEFINE y == <<"block", x>>
<1>1. Said(m2, m, y)
    OBVIOUS
<1>2. c \in Nat /\ pt \in {"SR", "RR"}
    BY DEF Blocks
<1> HIDE DEF y
<1>3. Longer(m2, m) /\ Len(m2) = c + 2 /\ m2[c + 2] = y
    <2>1. Longer(m2, m) /\ Len(m2) = Len(m) + 1 /\ m2[Len(m) + 1] = y
        BY <1>1, SaidDoes
    <2>2. c + 1 + 1 = c + 2
        BY <1>2
    <2> QED BY <2>1, <2>2
<1>4. Blocks(bf2, m2, pt, c)
    BY <1>3, BlocksStay
<1>5. Base(pt) + 24 * (c + 1 - 1) = SdesAt(pt, c) /\ SdesAt(pt, c + 1) = SdesAt(pt, c) + 24
    BY <1>2, BaseValue DEF SdesAt
<1>6. ASSUME NEW i \in 1 .. c + 1
      PROVE  \E z \in Blk : m2[i + 1] = <<"block", z>> /\ bf2[Base(pt) + 24 * (i - 1)] = Block(z)
    <2>1. CASE i \in 1 .. c
        BY <1>4, <2>1 DEF Blocks
    <2>2. CASE i = c + 1
        <3>1. i + 1 = c + 2
            BY <1>2, <2>2
        <3>2. m2[i + 1] = y
            BY <1>3, <3>1
        <3>3. bf2[Base(pt) + 24 * (i - 1)] = Block(x)
            <4>1. Base(pt) + 24 * (i - 1) = SdesAt(pt, c)
                BY <1>2, <2>2, BaseValue DEF SdesAt
            <4> QED BY <4>1
        <3> QED BY <3>2, <3>3 DEF y
    <2> QED BY <1>2, <2>1, <2>2
<1>7. Blocks(bf2, m2, pt, c + 1)
    BY <1>2, <1>3, <1>4, <1>6 DEF Blocks
<1> QED BY <1>5, <1>7

\* The null octet is behind the beginning of its chunk, and before the next.
LEMMA ChunkSize ==
    ASSUME NEW bf, NEW m, NEW o \in Nat, NEW i \in Nat, NEW z \in Nat, NEW k \in Nat, Named(bf, m, o, i, z, k)
    PROVE  /\ NextWord(o, z) \in Nat /\ o + 4 <= z /\ z < NextWord(o, z) /\ o + 8 <= NextWord(o, z)
           /\ (NextWord(o, z) - o) % 4 = 0
           /\ i < k /\ k <= i + 2
<1>1. o + 4 <= z /\ i < k /\ k <= i + 2
    BY EncoderConstants DEF Named
<1> DEFINE q == (z - o) \div 4
<1>2. q \in Int /\ 4 * q <= z - o /\ z - o < 4 * q + 4
    BY <1>1
<1>3. NextWord(o, z) = o + 4 * (q + 1)
    BY DEF NextWord
<1> HIDE DEF q
<1>4. q >= 1 /\ NextWord(o, z) - o = 4 * (q + 1)
    BY <1>1, <1>2, <1>3
<1> QED BY <1>1, <1>2, <1>3, <1>4

\* A complete chunk stays while what follows it is written.
LEMMA ChunkStays ==
    ASSUME NEW bf, NEW m, NEW o \in Nat, NEW i \in Nat, NEW e \in Nat, NEW k \in Nat, i > 0,
           Chunk(bf, m, o, i, e, k), k <= Len(m) + 1, NEW bf2, NEW m2, Longer(m2, m), Agree(bf2, bf, o, e)
    PROVE  Chunk(bf2, m2, o, i, e, k)
<1>1. PICK z \in Nat : Named(bf, m, o, i, z, k) /\ bf[z] = Zero /\ e = NextWord(o, z)
    BY DEF Chunk
<1>2. o + 4 <= z /\ z < e /\ i < k /\ k <= i + 2
    BY <1>1, ChunkSize
<1>3. Len(m) \in Nat /\ \A j \in 1 .. Len(m) : m2[j] = m[j]
    BY DEF Longer
<1>4. bf2[o] = bf[o] /\ bf2[z] = bf[z] /\ bf2[o + 4] = bf[o + 4]
    BY <1>2 DEF Agree
<1>5. m2[i] = m[i] /\ (k = i + 2 => m2[i + 1] = m[i + 1])
    <2>1. i \in 1 .. Len(m) /\ (k = i + 2 => i + 1 \in 1 .. Len(m))
        BY <1>2, <1>3
    <2> QED BY <1>3, <2>1
<1>6. Named(bf2, m2, o, i, z, k)
    BY <1>1, <1>4, <1>5 DEF Named
<1>7. Begun(bf2, m2, o, i)
    BY <1>4, <1>5 DEF Begun, Chunk
<1> QED BY <1>1, <1>4, <1>6, <1>7 DEF Chunk

\* So do all complete chunks.
LEMMA ChunksStay ==
    ASSUME NEW bf, NEW m, NEW pt, NEW c \in Nat, NEW n, NEW b, NEW f, Chunks(bf, m, pt, c, n, b, f),
           NEW bf2, NEW m2, Longer(m2, m), Agree(bf2, bf, SdesAt(pt, c) + 4, b[n])
    PROVE  Chunks(bf2, m2, pt, c, n, b, f)
<1>1. /\ n \in Nat \ {0} /\ b \in [1 .. n -> Nat] /\ f \in [1 .. n -> Nat]
      /\ b[1] = SdesAt(pt, c) + 4 /\ f[1] = c + 2 /\ f[n] <= Len(m) + 1
      /\ \A j \in 1 .. n : b[1] <= b[j] /\ b[j] <= b[n] /\ f[1] <= f[j] /\ f[j] <= f[n]
    BY DEF Chunks
<1>2. Len(m) \in Nat /\ Len(m2) \in Nat /\ Len(m) <= Len(m2)
    BY DEF Longer
<1>3. ASSUME NEW j \in 1 .. n - 1
      PROVE  Chunk(bf2, m2, b[j], f[j], b[j + 1], f[j + 1])
    <2>1. j \in 1 .. n /\ j + 1 \in 1 .. n /\ n \in 1 .. n
        BY <1>1
    <2> DEFINE o == b[j]  i == f[j]  e == b[j + 1]  k == f[j + 1]
    <2>2. /\ o \in Nat /\ i \in Nat /\ e \in Nat /\ k \in Nat /\ b[n] \in Nat /\ f[n] \in Nat
          /\ b[1] <= o /\ e <= b[n] /\ f[1] <= i /\ k <= f[n]
        BY <1>1, <2>1
    <2>3. Chunk(bf, m, o, i, e, k)
        BY DEF Chunks
    <2> HIDE DEF o, i, e, k
    <2>4. i > 0 /\ k <= Len(m) + 1
        BY <1>1, <1>2, <2>2
    <2>5. Agree(bf2, bf, o, e)
        BY <1>1, <2>2, SdesValue, SMTT(30) DEF Agree
    <2>6. Chunk(bf2, m2, o, i, e, k)
        BY <2>2, <2>3, <2>4, <2>5, ChunkStays
    <2> QED BY <2>6 DEF o, i, e, k
<1>4. f[n] \in Nat /\ f[n] <= Len(m2) + 1
    BY <1>1, <1>2
<1> QED BY <1>1, <1>3, <1>4 DEF Chunks

\* A chunk is complete.
LEMMA ChunksGrow ==
    ASSUME NEW bf, NEW m \in Seq(Item), NEW pt, NEW c \in Nat, NEW n, NEW b, NEW f,
           Chunks(bf, m, pt, c, n, b, f), NEW e \in Nat, NEW k \in Nat,
           Chunk(bf, m, b[n], f[n], e, k), k <= Len(m) + 1
    PROVE  \E b2, f2 : /\ Chunks(bf, m, pt, c, n + 1, b2, f2)
                       /\ b2[n + 1] = e /\ f2[n + 1] = k
<1> DEFINE b2 == [j \in 1 .. n + 1 |-> IF j = n + 1 THEN e ELSE b[j]]
           f2 == [j \in 1 .. n + 1 |-> IF j = n + 1 THEN k ELSE f[j]]
<1>1. /\ n \in Nat \ {0} /\ b \in [1 .. n -> Nat] /\ f \in [1 .. n -> Nat]
      /\ b[1] = SdesAt(pt, c) + 4 /\ f[1] = c + 2 /\ b[n] % 4 = 0
      /\ \A j \in 1 .. n : b[1] <= b[j] /\ b[j] <= b[n] /\ f[1] <= f[j] /\ f[j] <= f[n]
    BY DEF Chunks
<1>2. b[n] < e /\ f[n] < k /\ e % 4 = 0
    <2> DEFINE o == b[n]  i == f[n]
    <2>1. o \in Nat /\ i \in Nat /\ o % 4 = 0
        BY <1>1
    <2> HIDE DEF o, i
    <2>2. PICK z \in Nat : Named(bf, m, o, i, z, k) /\ e = NextWord(o, z)
        BY DEF Chunk, o, i
    <2>3. o + 8 <= e /\ (e - o) % 4 = 0 /\ i < k
        BY <2>1, <2>2, ChunkSize
    <2>4. o < e /\ i < k /\ e % 4 = 0
        BY <2>1, <2>3
    <2> QED BY <2>4 DEF o, i
<1>3. /\ b2 \in [1 .. n + 1 -> Nat] /\ f2 \in [1 .. n + 1 -> Nat]
      /\ b2[n + 1] = e /\ f2[n + 1] = k
      /\ \A j \in 1 .. n : b2[j] = b[j] /\ f2[j] = f[j]
    BY <1>1
<1> HIDE DEF b2, f2
<1>4. b2[1] = b[1] /\ f2[1] = f[1] /\ n + 1 \in Nat \ {0} /\ n \in 1 .. n
    BY <1>1, <1>3
<1>5. ASSUME NEW j \in 1 .. n + 1
      PROVE  b2[1] <= b2[j] /\ b2[j] <= b2[n + 1] /\ f2[1] <= f2[j] /\ f2[j] <= f2[n + 1]
    <2>1. CASE j = n + 1
        BY <1>1, <1>2, <1>3, <1>4, <2>1, SMTT(30)
    <2>2. CASE j \in 1 .. n
        <3>1. b2[j] = b[j] /\ f2[j] = f[j] /\ {b[1], b[j], b[n], f[1], f[j], f[n]} \subseteq Nat
            BY <1>1, <1>3, <1>4, <2>2, SMTT(30)
        <3>2. b[1] <= b[j] /\ b[j] <= b[n] /\ f[1] <= f[j] /\ f[j] <= f[n]
            BY <1>1, <2>2
        <3>3. b2[1] <= b2[j] /\ f2[1] <= f2[j]
            BY <1>4, <3>1, <3>2
        <3>4. b[j] <= e /\ f[j] <= k
            BY <1>2, <3>1, <3>2, SMTT(30)
        <3> QED BY <1>3, <3>1, <3>3, <3>4
    <2> QED BY <1>1, <2>1, <2>2
<1>6. ASSUME NEW j \in 1 .. n
      PROVE  Chunk(bf, m, b2[j], f2[j], b2[j + 1], f2[j + 1])
    <2>1. j \in 1 .. n
        OBVIOUS
    <2>2. CASE j = n
        BY <1>3, <1>4, <2>2
    <2>3. CASE j # n
        <3>1. j \in 1 .. n - 1 /\ j + 1 \in 1 .. n
            BY <1>1, <2>1, <2>3
        <3>2. Chunk(bf, m, b[j], f[j], b[j + 1], f[j + 1])
            BY <3>1 DEF Chunks
        <3> QED BY <1>3, <2>1, <3>1, <3>2
    <2> QED BY <2>2, <2>3
<1>7. Chunks(bf, m, pt, c, n + 1, b2, f2)
    <2>1. b2[n + 1] % 4 = 0 /\ f2[n + 1] <= Len(m) + 1
        BY <1>2, <1>3
    <2>2. b2[1] = SdesAt(pt, c) + 4 /\ f2[1] = c + 2
        BY <1>1, <1>4
    <2>3. n + 1 \in Nat \ {0} /\ b2 \in [1 .. n + 1 -> Nat] /\ f2 \in [1 .. n + 1 -> Nat]
        BY <1>3, <1>4
    <2>4. \A j \in 1 .. n + 1 : b2[1] <= b2[j] /\ b2[j] <= b2[n + 1] /\ f2[1] <= f2[j] /\ f2[j] <= f2[n + 1]
        BY <1>5
    <2> DEFINE p == n + 1
    <2>5. p \in Nat \ {0} /\ b2 \in [1 .. p -> Nat] /\ f2 \in [1 .. p -> Nat]
        BY <2>3
    <2>6. b2[p] % 4 = 0 /\ f2[p] <= Len(m) + 1
        BY <2>1
    <2>7. \A j \in 1 .. p : b2[1] <= b2[j] /\ b2[j] <= b2[p] /\ f2[1] <= f2[j] /\ f2[j] <= f2[p]
        BY <2>4
    <2>8. 1 .. p - 1 = 1 .. n
        BY <1>1
    <2> HIDE DEF p
    <2>9. Chunks(bf, m, pt, c, p, b2, f2)
        BY <1>6, <2>2, <2>5, <2>6, <2>7, <2>8 DEF Chunks
    <2> QED BY <2>9 DEF p
<1> QED BY <1>3, <1>7

\* The sources that leave stay while what follows them is written.
LEMMA ByesStay ==
    ASSUME NEW bf, NEW m, NEW o \in Nat, NEW i \in Nat, NEW k \in Nat, Byes(bf, m, o, i, k), i > 0, i + k - 1 <= Len(m),
           NEW bf2, NEW m2, Longer(m2, m), Agree(bf2, bf, o + 4, o + 4 * k + 1)
    PROVE  Byes(bf2, m2, o, i, k)
<1>1. Len(m) \in Nat
    BY DEF Longer
<1>2. ASSUME NEW j \in 1 .. k PROVE m2[i + j - 1] = m[i + j - 1] /\ bf2[o + 4 * j] = bf[o + 4 * j]
    <2>1. i + j - 1 \in 1 .. Len(m) /\ o + 4 * j \in o + 4 .. o + 4 * k + 1 - 1
        BY <1>1
    <2>2. m2[i + j - 1] = m[i + j - 1]
        BY <2>1 DEF Longer
    <2>3. bf2[o + 4 * j] = bf[o + 4 * j]
        BY <2>1 DEF Agree
    <2> QED BY <2>2, <2>3
<1> QED BY <1>2 DEF Byes

\* One more source leaves.
LEMMA ByesGrow ==
    ASSUME NEW bf, NEW m, NEW o \in Nat, NEW i \in Nat, NEW k \in Nat, Byes(bf, m, o, i, k), i > 0, i + k - 1 = Len(m),
           NEW bf2, NEW s \in Peer, Agree(bf2, bf, o + 4, o + 4 * k + 1), bf2[o + 4 * (k + 1)] = Word(s),
           NEW m2, Said(m2, m, <<"BYE", s>>)
    PROVE  Byes(bf2, m2, o, i, k + 1)
<1> DEFINE y == <<"BYE", s>>
<1>1. Said(m2, m, y)
    OBVIOUS
<1> HIDE DEF y
<1>2. Longer(m2, m) /\ m2[Len(m) + 1] = y
    BY <1>1, SaidDoes
<1>3. Byes(bf2, m2, o, i, k)
    BY <1>2, ByesStay
<1>4. i + (k + 1) - 1 = Len(m) + 1
    OBVIOUS
<1>5. ASSUME NEW j \in 1 .. k + 1
      PROVE  \E t \in Peer : m2[i + j - 1] = <<"BYE", t>> /\ bf2[o + 4 * j] = Word(t)
    <2>1. CASE j \in 1 .. k
        BY <1>3, <2>1 DEF Byes
    <2>2. CASE j = k + 1
        BY <1>2, <1>4, <2>2 DEF y
    <2> QED BY <2>1, <2>2
<1> QED BY <1>5 DEF Byes

\* The report, or the report and SDES, are written and their lengths set.
ReportWritten(bf, m, pt, c) == Blocks(bf, m, pt, c) /\ Closed(bf, 0, pt, c, SdesAt(pt, c))

SdesWritten(bf, m, pt, c, n, b, f) ==
    /\ ReportWritten(bf, m, pt, c) /\ Chunks(bf, m, pt, c, n, b, f)
    /\ Closed(bf, SdesAt(pt, c), "SDES", n - 1, b[n])

\* A report whose length is set stays.
LEMMA ReportStays ==
    ASSUME NEW bf, NEW m, NEW pt, NEW c, ReportWritten(bf, m, pt, c), NEW bf2, NEW m2, Longer(m2, m),
           Agree(bf2, bf, 0, SdesAt(pt, c))
    PROVE  ReportWritten(bf2, m2, pt, c) /\ c \in Nat
<1>1. c \in Nat
    BY DEF ReportWritten, Blocks
<1>2. Agree(bf2, bf, 4, SdesAt(pt, c)) /\ bf2[0] = bf[0]
    BY <1>1, SdesValue DEF Agree
<1>3. Blocks(bf2, m2, pt, c)
    BY <1>2, BlocksStay DEF ReportWritten
<1> QED BY <1>1, <1>2, <1>3 DEF ReportWritten, Closed

\* So does SDES with the report before it.
LEMMA SdesStays ==
    ASSUME NEW bf, NEW m, NEW pt, NEW c, NEW n, NEW b, NEW f, SdesWritten(bf, m, pt, c, n, b, f),
           NEW bf2, NEW m2, Longer(m2, m), Agree(bf2, bf, 0, b[n])
    PROVE  SdesWritten(bf2, m2, pt, c, n, b, f)
<1> DEFINE s == SdesAt(pt, c)
<1>1. c \in Nat
    BY DEF SdesWritten, ReportWritten, Blocks
<1>2. /\ n \in Nat \ {0} /\ b \in [1 .. n -> Nat] /\ b[1] = s + 4
      /\ \A j \in 1 .. n : b[1] <= b[j] /\ b[j] <= b[n]
    BY DEF SdesWritten, Chunks
<1>3. s \in Nat
    BY <1>1, SdesValue
<1> HIDE DEF s
<1>4. b[n] \in Nat /\ s + 4 <= b[n]
    BY <1>2, <1>3
<1>5. Agree(bf2, bf, 0, s) /\ Agree(bf2, bf, s + 4, b[n]) /\ bf2[s] = bf[s]
    BY <1>3, <1>4 DEF Agree
<1>6. ReportWritten(bf2, m2, pt, c)
    BY <1>5, ReportStays DEF SdesWritten, s
<1>7. Chunks(bf2, m2, pt, c, n, b, f)
    BY <1>1, <1>5, ChunksStay DEF SdesWritten, s
<1> QED BY <1>5, <1>6, <1>7 DEF SdesWritten, Closed, s

-----------------------------------------------------------------------------
(* The writer *)

Written == Sound(enc) /\ enc.buf_len \in BufLen /\ meant \in Seq(Item)

InBlocks(pt, c) ==
    /\ Blocks(enc.buf, meant, pt, c) /\ Opened(enc.buf, 0, pt, c)
    /\ enc.rtcp = 0 /\ enc.write_ndx = SdesAt(pt, c) /\ Len(meant) = c + 1
    /\ c <= at - 1 /\ (at >= 2 => c <= at - 2) /\ pt = (IF sender THEN "SR" ELSE "RR")

InSdes(pt, c) ==
    ReportWritten(enc.buf, meant, pt, c) /\ enc.write_ndx = SdesAt(pt, c) /\ Len(meant) = c + 1

InChunks(pt, c, n, b, f, cnt) ==
    /\ ReportWritten(enc.buf, meant, pt, c) /\ Chunks(enc.buf, meant, pt, c, n, b, f)
    /\ enc.rtcp = SdesAt(pt, c) /\ Opened(enc.buf, SdesAt(pt, c), "SDES", cnt)

BetweenChunks(pt, c, n, b, f) ==
    /\ InChunks(pt, c, n, b, f, n - 1)
    /\ enc.write_ndx = b[n] /\ Len(meant) = f[n] - 1

InChunk(pt, c, n, b, f) ==
    /\ InChunks(pt, c, n, b, f, n) /\ Begun(enc.buf, meant, b[n], f[n])
    /\ enc.chunk_begin = b[n]
    /\ Named(enc.buf, meant, b[n], f[n], enc.write_ndx, Len(meant) + 1)

SdesDone(pt, c, n, b, f) ==
    /\ SdesWritten(enc.buf, meant, pt, c, n, b, f)
    /\ enc.write_ndx = b[n] /\ Len(meant) = f[n] - 1

InBye(pt, c, n, b, f, k) ==
    /\ SdesWritten(enc.buf, meant, pt, c, n, b, f)
    /\ k \in Nat /\ Len(meant) = f[n] - 1 + k
    /\ enc.rtcp = b[n] /\ Opened(enc.buf, b[n], "BYE", k) /\ Byes(enc.buf, meant, b[n], f[n], k)
    /\ enc.write_ndx >= b[n] + 4 + 4 * k /\ enc.write_ndx % 4 = 0

ByeDone(pt, c, n, b, f, k) ==
    /\ SdesWritten(enc.buf, meant, pt, c, n, b, f)
    /\ k \in Nat /\ Len(meant) = f[n] - 1 + k
    /\ Closed(enc.buf, b[n], "BYE", k, enc.write_ndx) /\ Byes(enc.buf, meant, b[n], f[n], k)
    /\ enc.write_ndx >= b[n] + 4 + 4 * k

Complete(pt, c, n, b, f, k) ==
    IF more THEN ByeDone(pt, c, n, b, f, k) ELSE SdesDone(pt, c, n, b, f) /\ k = 0

Reading == {"check", "packet", "read_chunk", "read_item"}

Writing == {"blocks", "sdes", "chunk", "cname", "chunk_end", "chunk_ended", "bye", "bye_ssrc", "bye_end", "send"}

Layout ==
    /\ pc \in {"idle", "over"} \cup Writing \cup Reading
    /\ pc = "idle" => enc.write_ndx = 0 /\ meant = <<>>
    /\ pc = "blocks" => \E pt, c : InBlocks(pt, c)
    /\ pc = "sdes" => \E pt, c : InSdes(pt, c)
    /\ pc = "chunk" => \E pt, c, n, b, f : BetweenChunks(pt, c, n, b, f) /\ n < COUNT_MOD
    /\ pc = "cname" => \E pt, c, n, b, f : InChunk(pt, c, n, b, f) /\ Len(meant) = f[n]
    /\ pc = "chunk_end" => \E pt, c, n, b, f : InChunk(pt, c, n, b, f)
    /\ pc = "chunk_ended" => \E pt, c, n, b, f : BetweenChunks(pt, c, n, b, f)
    /\ pc \in {"bye", "bye_ssrc", "bye_end"} => more
    /\ pc = "bye" => \E pt, c, n, b, f : SdesDone(pt, c, n, b, f)
    /\ pc = "bye_ssrc" => \E pt, c, n, b, f, k :
                             InBye(pt, c, n, b, f, k) /\ enc.write_ndx = b[n] + 4 + 4 * k
    /\ pc = "bye_end" => \E pt, c, n, b, f, k : InBye(pt, c, n, b, f, k)
    /\ pc = "send" => \E pt, c, n, b, f, k : Complete(pt, c, n, b, f, k)

\* What a call of the encoder leads to.
LEMMA CallDoes ==
    ASSUME NEW re, NEW said, NEW next, Call(re, said, next)
    PROVE  /\ enc' = re
           /\ re.ret = "ok" => pc' = next /\ meant' = meant \o said /\ gaveUp' = gaveUp
           /\ re.ret = "full" => pc' = "over" /\ meant' = meant /\ gaveUp' = TRUE
           /\ UNCHANGED <<free, sender, cname, more, rx, got>>
BY DEF Call

\* A report that is given up has no layout to keep.
LEMMA GivenUp ==
    ASSUME pc' = "over"
    PROVE  Layout'
BY DEF Layout, Writing, Reading

\* The room that is left, as numbers.
LEMMA Room ==
    ASSUME Written
    PROVE  /\ enc.buf_len \in Nat /\ enc.write_ndx \in Nat /\ enc.rtcp \in Nat /\ enc.chunk_begin \in Nat
           /\ enc.write_ndx <= BUFFER_LEN /\ BUFFER_LEN \in Nat /\ Len(meant) \in Nat
BY EncoderConstants, SoundFields DEF Written, Inside

\* What is outside the changed octets and inside the buffer agrees.
LEMMA SameAgree ==
    ASSUME NEW bf2, NEW bf, NEW S, SameBut(bf2, bf, S), NEW lo \in Nat, NEW hi \in Nat,
           hi <= BUFFER_LEN, \A o \in lo .. hi - 1 : o \notin S
    PROVE  Agree(bf2, bf, lo, hi)
BY EncoderConstants DEF SameBut, Agree, Octets

\* A call that finds no room, and one that succeeds.
LEMMA CallFull ==
    ASSUME Written, NEW re, NEW said, NEW next, Call(re, said, next), Sound(re), re.buf_len = enc.buf_len,
           re.ret = "full"
    PROVE  Written' /\ Layout'
BY CallDoes, GivenUp DEF Written

\* A call that succeeds and puts an element into the packet.
LEMMA CallSaid ==
    ASSUME Written, NEW re, NEW x \in Item, NEW next, Call(re, <<x>>, next), Sound(re),
           re.buf_len = enc.buf_len, re.ret = "ok"
    PROVE  /\ Written' /\ enc' = re /\ pc' = next
           /\ Said(meant', meant, x) /\ Longer(meant', meant)
           /\ Len(meant') = Len(meant) + 1 /\ meant'[Len(meant) + 1] = x
<1>1. enc' = re /\ pc' = next /\ meant' = meant \o <<x>>
    BY CallDoes
<1>2. meant \in Seq(Item) /\ enc.buf_len \in BufLen
    BY DEF Written
<1>3. /\ meant \o <<x>> \in Seq(Item) /\ Longer(meant \o <<x>>, meant)
      /\ Len(meant \o <<x>>) = Len(meant) + 1 /\ (meant \o <<x>>)[Len(meant) + 1] = x
    BY <1>2, Appending
<1> QED BY <1>1, <1>2, <1>3 DEF Written, Said

\* A call that succeeds and puts nothing in that is meant.
LEMMA CallSilent ==
    ASSUME Written, NEW re, NEW next, Call(re, <<>>, next), Sound(re),
           re.buf_len = enc.buf_len, re.ret = "ok"
    PROVE  Written' /\ enc' = re /\ pc' = next /\ meant' = meant /\ Longer(meant', meant)
<1>1. meant \o <<>> = meant /\ meant \in Seq(Item) /\ Longer(meant, meant)
    BY DEF Written, Longer
<1> QED BY <1>1, CallDoes DEF Written

\* rtcp_send_report begins SR or RR in an empty encoder.
LEMMA ReportBeginsStep ==
    ASSUME Written, Layout, ReportBegins, sender \in BOOLEAN
    PROVE  Written' /\ Layout'
<1> DEFINE pt == IF sender THEN "SR" ELSE "RR"
           re == rtcp_encoder_report_begin(enc, pt, Base(pt), Self)
           x == <<pt, Self>>
<1>1. Call(re, <<x>>, "blocks") /\ pc = "idle" /\ at' = 1
    BY DEF ReportBegins, rtcp_encoder_sr_begin, rtcp_encoder_rr_begin, Base, SR_SIZE, RR_SIZE
<1>2. enc.write_ndx = 0 /\ meant = <<>> /\ meant \in Seq(Item)
    BY <1>1 DEF Layout, Written
<1>3. x \in Item /\ pt \in {"SR", "RR"}
    BY DEF Item, Id
<1>4. Base(pt) \in Nat /\ Base(pt) > 4
    BY BaseValue
<1> HIDE DEF re, x
<1>5. /\ Sound(re) /\ re.buf_len = enc.buf_len
      /\ \/ re.ret = "full"
         \/ /\ re.ret = "ok"
            /\ re.rtcp = 0 /\ re.write_ndx = Base(pt)
            /\ re.buf[0] = Packet(pt, 0, 0) /\ re.buf[4] = Word(Self)
    <2>1. /\ Sound(re) /\ re.buf_len = enc.buf_len
          /\ \/ re.ret = "full"
             \/ /\ re.ret = "ok"
                /\ re.rtcp = enc.write_ndx /\ re.write_ndx = enc.write_ndx + Base(pt)
                /\ re.buf[enc.write_ndx] = Packet(pt, 0, 0)
                /\ re.buf[enc.write_ndx + 4] = Word(Self)
        <3> DEFINE size == Base(pt)
        <3>1. size \in Nat /\ size > 4 /\ Sound(enc)
            BY <1>4 DEF Written
        <3> HIDE DEF pt, size
        <3>2. re = rtcp_encoder_report_begin(enc, pt, size, Self)
            BY DEF re, size
        <3>3. ReportOpened(re, enc, pt, size, Self)
            BY <3>1, <3>2, ReportBeginDoes
        <3> QED BY <3>3 DEF ReportOpened, size
    <2> HIDE DEF pt
    <2> QED BY <1>2, <1>4, <2>1
<1>6. enc' = re /\ enc'.buf_len \in BufLen /\ sender' = sender
    BY <1>1, <1>5, CallDoes DEF Written
<1>7. CASE re.ret = "full"
    BY <1>1, <1>5, <1>7, CallFull
<1>8. CASE re.ret = "ok"
    <2>1. pc' = "blocks" /\ meant' = meant \o <<x>>
        BY <1>1, <1>8, CallDoes
    <2>2. meant' \in Seq(Item) /\ Len(meant') = 1 /\ meant'[1] = x
        BY <1>2, <1>3, <2>1
    <2>3. SdesAt(pt, 0) = Base(pt)
        BY <1>4 DEF SdesAt
    <2>4. Blocks(enc'.buf, meant', pt, 0)
        BY <1>3, <1>5, <1>6, <1>8, <2>2 DEF Blocks, x
    <2>5. Opened(enc'.buf, 0, pt, 0)
        BY <1>5, <1>6, <1>8 DEF Opened
    <2>6. InBlocks(pt, 0)'
        BY <1>1, <1>5, <1>6, <1>8, <2>2, <2>3, <2>4, <2>5 DEF InBlocks
    <2>7. (\E q, c : InBlocks(q, c))'
        BY <2>6
    <2> QED BY <1>5, <1>6, <2>1, <2>2, <2>7 DEF Layout, Written, Writing
<1> QED BY <1>5, <1>7, <1>8

\* rtcp_send_report_gen_rr puts one block behind those it wrote.
LEMMA BlockStep ==
    ASSUME Written, Layout, rtcp_send_report_gen_rr, sender \in BOOLEAN,
           used[1].ssrc = Self, Len(used) \in Nat, Len(used) <= COUNT_MOD, at \in 1 .. Len(used) + 1,
           Skipped(used[at]) \/ block(used[at]) \in Blk
    PROVE  Written' /\ Layout'
<1>1. pc = "blocks" /\ at <= Len(used) /\ at' = at + 1
    BY DEF rtcp_send_report_gen_rr
<1>2. PICK pt, c : InBlocks(pt, c)
    BY <1>1 DEF Layout
<1>3. /\ Blocks(enc.buf, meant, pt, c) /\ Opened(enc.buf, 0, pt, c)
      /\ enc.rtcp = 0 /\ enc.write_ndx = SdesAt(pt, c) /\ Len(meant) = c + 1
      /\ c <= at - 1 /\ (at >= 2 => c <= at - 2) /\ pt = (IF sender THEN "SR" ELSE "RR")
    BY <1>2 DEF InBlocks
<1>4. c \in Nat /\ pt \in {"SR", "RR"}
    BY <1>3 DEF Blocks
<1>5. CASE Skipped(used[at])
    <2>1. UNCHANGED <<enc, pc, meant, sender>>
        BY <1>5 DEF rtcp_send_report_gen_rr
    <2>2. at' \in Nat /\ c <= at' - 1 /\ c <= at' - 2
        BY <1>1, <1>3, <1>4
    <2>3. InBlocks(pt, c)'
        BY <1>3, <2>1, <2>2 DEF InBlocks
    <2>4. (\E q, d : InBlocks(q, d))'
        BY <2>3
    <2> QED BY <1>1, <2>1, <2>4 DEF Written, Layout, Writing
<1>6. CASE ~Skipped(used[at])
    <2> DEFINE x == block(used[at])
               re == AddElement(enc, Base(pt), 24, Block(x))
               y == <<"block", x>>
    <2>1. Call(re, <<y>>, "blocks")
        BY <1>3, <1>6 DEF rtcp_send_report_gen_rr, rtcp_encoder_sr_add_rr, rtcp_encoder_rr_add_rr,
                          Base, SR_SIZE, RR_SIZE, BLOCK_SIZE
    <2>2. x \in Blk /\ y \in Item
        BY <1>6 DEF Item
    <2>3. at # 1
        BY <1>6 DEF Skipped
    <2>4. at >= 2 /\ c <= at - 2 /\ c + 1 < COUNT_MOD
        BY <1>1, <1>3, <1>4, <2>3, EncoderConstants
    <2> HIDE DEF x
    <2>5. PICK l \in Nat : enc.buf[0] = Packet(pt, c, l)
        BY <1>3 DEF Opened
    <2>6. InStep(enc, Base(pt), 24, c) /\ SdesAt(pt, c) \in Nat /\ SdesAt(pt, c) >= 8
        BY <1>3, <1>4, BaseValue, SdesValue DEF InStep, SdesAt
    <2>7. /\ Sound(re) /\ re.buf_len = enc.buf_len
          /\ \/ re.ret = "full"
             \/ /\ re.ret = "ok" /\ re.rtcp = 0
                /\ re.write_ndx = SdesAt(pt, c) + 24
                /\ re.buf[0] = Packet(pt, c + 1, l)
                /\ re.buf[SdesAt(pt, c)] = Block(x)
                /\ SameBut(re.buf, enc.buf, {0, SdesAt(pt, c)})
        <3> DEFINE bs == Base(pt)  sz == 24  cell == Block(x)
        <3>1. Sound(enc) /\ Counted(enc, pt, c, l) /\ InStep(enc, bs, sz, c)
            BY <1>3, <1>4, <2>4, <2>5, <2>6 DEF Written, Counted
        <3>2. re = AddElement(enc, bs, sz, cell)
            OBVIOUS
        <3> HIDE DEF bs, sz, cell, re
        <3>3. ElementAdded(re, enc, pt, c, l, sz, cell)
            BY <3>1, <3>2, AddElementDoes
        <3> QED BY <1>3, <3>3 DEF ElementAdded, sz, cell
    <2> HIDE DEF re
    <2>8. CASE re.ret = "full"
        BY <2>1, <2>7, <2>8, CallFull
    <2>9. CASE re.ret = "ok"
        <3> HIDE DEF y
        <3>1. Written' /\ enc' = re /\ pc' = "blocks" /\ Said(meant', meant, y) /\ Len(meant') = Len(meant) + 1
            BY <2>1, <2>2, <2>7, <2>9, CallSaid
        <3>2. SdesAt(pt, c) <= BUFFER_LEN
            BY <1>3, Room
        <3>3. Agree(re.buf, enc.buf, 4, SdesAt(pt, c))
            <4> DEFINE hi == SdesAt(pt, c)
            <4>1. hi \in Nat /\ SameBut(re.buf, enc.buf, {0, hi}) /\ hi <= BUFFER_LEN
                BY <2>6, <2>7, <2>9, <3>2
            <4> HIDE DEF hi
            <4>2. \A o \in 4 .. hi - 1 : o \notin {0, hi}
                BY <4>1
            <4>3. Agree(re.buf, enc.buf, 4, hi)
                BY <4>1, <4>2, SameAgree
            <4> QED BY <4>3 DEF hi
        <3>4. Blocks(re.buf, meant', pt, c + 1) /\ SdesAt(pt, c + 1) = SdesAt(pt, c) + 24
            <4>1. /\ Blocks(enc.buf, meant, pt, c) /\ meant \in Seq(Item) /\ Len(meant) = c + 1
                  /\ re.buf[SdesAt(pt, c)] = Block(x)
                BY <1>3, <2>7, <2>9 DEF Written
            <4>2. Said(meant', meant, <<"block", x>>)
                BY <3>1 DEF y
            <4> QED BY <2>2, <3>3, <4>1, <4>2, BlocksGrow
        <3>5. Opened(re.buf, 0, pt, c + 1)
            BY <2>5, <2>7, <2>9 DEF Opened
        <3>6. at' \in Nat /\ c + 1 <= at' - 1 /\ c + 1 <= at' - 2 /\ Len(meant') = c + 1 + 1
            BY <1>1, <1>3, <1>4, <2>4, <3>1
        <3>7. sender' = sender
            BY <2>1, CallDoes
        <3>8. InBlocks(pt, c + 1)'
            BY <1>3, <2>7, <2>9, <3>1, <3>4, <3>5, <3>6, <3>7 DEF InBlocks
        <3>9. (\E q, d : InBlocks(q, d))'
            BY <3>8
        <3> QED BY <3>1, <3>9 DEF Layout, Writing
    <2> QED BY <2>7, <2>8, <2>9
<1> QED BY <1>5, <1>6

\* The length of the report leads to where SDES will begin.
LEMMA ReportEndsStep ==
    ASSUME Written, Layout, ReportEnds
    PROVE  Written' /\ Layout'
<1> DEFINE re == rtcp_encoder_end_packet(enc)
<1>1. Call(re, <<>>, "sdes") /\ pc = "blocks"
    BY DEF ReportEnds, Writes
<1>2. PICK pt, c : InBlocks(pt, c)
    BY <1>1 DEF Layout
<1>3. /\ Blocks(enc.buf, meant, pt, c) /\ Opened(enc.buf, 0, pt, c)
      /\ enc.rtcp = 0 /\ enc.write_ndx = SdesAt(pt, c) /\ Len(meant) = c + 1
    BY <1>2 DEF InBlocks
<1>4. c \in Nat /\ SdesAt(pt, c) \in Nat /\ SdesAt(pt, c) >= 8 /\ SdesAt(pt, c) % 4 = 0
    BY <1>3, SdesValue DEF Blocks
<1> DEFINE s == SdesAt(pt, c)
<1> HIDE DEF s
<1>5. PICK l \in Nat : enc.buf[0] = Packet(pt, c, l)
    BY <1>3 DEF Opened
<1>6. Words(enc, pt, c, l)
    BY <1>3, <1>4, <1>5 DEF Words
<1> HIDE DEF re
<1>7. /\ Sound(re) /\ re.buf_len = enc.buf_len /\ re.ret = "ok" /\ re.write_ndx = s
      /\ \E k \in Nat : re.buf[0] = Packet(pt, c, k) /\ 0 + 4 * (k + 1) = s
      /\ SameBut(re.buf, enc.buf, {0})
    <2>1. Sound(enc) /\ re = rtcp_encoder_end_packet(enc)
        BY DEF re, Written
    <2>2. PacketClosed(re, enc, pt, c)
        BY <1>6, <2>1, EndPacketDoes
    <2> QED BY <1>3, <2>2 DEF PacketClosed, s
<1>8. Written' /\ enc' = re /\ pc' = "sdes" /\ meant' = meant /\ Longer(meant', meant)
    BY <1>1, <1>7, CallSilent
<1>9. Agree(re.buf, enc.buf, 4, s)
    <2>1. s \in Nat /\ s <= BUFFER_LEN
        BY <1>3, <1>4, Room DEF s
    <2> QED BY <1>7, <2>1, SameAgree
<1>10. Blocks(re.buf, meant', pt, c)
    BY <1>3, <1>8, <1>9, BlocksStay DEF s
<1>11. Closed(re.buf, 0, pt, c, s)
    BY <1>7 DEF Closed
<1>12. InSdes(pt, c)'
    BY <1>3, <1>7, <1>8, <1>10, <1>11 DEF InSdes, ReportWritten, s
<1>13. (\E q, d : InSdes(q, d))'
    BY <1>12
<1> QED BY <1>8, <1>13 DEF Layout, Writing

\* SDES begins behind the report, with no chunk.
LEMMA SdesBeginsStep ==
    ASSUME Written, Layout, SdesBegins
    PROVE  Written' /\ Layout'
<1> DEFINE re == rtcp_encoder_sdes_begin(enc)
<1>1. Call(re, <<>>, "chunk") /\ pc = "sdes"
    BY DEF SdesBegins, Writes
<1>2. PICK pt, c : InSdes(pt, c)
    BY <1>1 DEF Layout
<1> DEFINE s == SdesAt(pt, c)
<1>3. ReportWritten(enc.buf, meant, pt, c) /\ enc.write_ndx = s /\ Len(meant) = c + 1
    BY <1>2 DEF InSdes
<1>4. c \in Nat /\ s \in Nat /\ s >= 8 /\ s % 4 = 0 /\ s <= BUFFER_LEN
    BY <1>3, SdesValue, Room DEF ReportWritten, Blocks
<1> HIDE DEF re, s
<1>5. /\ Sound(re) /\ re.buf_len = enc.buf_len
      /\ \/ re.ret = "full"
         \/ /\ re.ret = "ok" /\ re.rtcp = s /\ re.write_ndx = s + 4
            /\ re.buf[s] = Packet("SDES", 0, 0) /\ SameBut(re.buf, enc.buf, {s})
    <2>1. Sound(enc) /\ re = IF space_left(enc) < HEADER_SIZE THEN Full(enc) ELSE Begin(enc, "SDES", HEADER_SIZE)
        BY DEF re, rtcp_encoder_sdes_begin, Written
    <2>2. PacketOpened(re, enc, "SDES")
        BY <2>1, BeginDoes
    <2> QED BY <1>3, <2>2 DEF PacketOpened
<1>6. CASE re.ret = "full"
    BY <1>1, <1>5, <1>6, CallFull
<1>7. CASE re.ret = "ok"
    <2>1. Written' /\ enc' = re /\ pc' = "chunk" /\ meant' = meant /\ Longer(meant', meant)
        BY <1>1, <1>5, <1>7, CallSilent
    <2>2. Agree(re.buf, enc.buf, 0, s)
        BY <1>4, <1>5, <1>7, SameAgree
    <2>3. ReportWritten(re.buf, meant', pt, c)
        BY <1>3, <2>1, <2>2, ReportStays DEF s
    <2> DEFINE b == [j \in 1 .. 1 |-> s + 4]
               f == [j \in 1 .. 1 |-> c + 2]
    <2>4. /\ b \in [1 .. 1 -> Nat] /\ f \in [1 .. 1 -> Nat] /\ b[1] = s + 4 /\ f[1] = c + 2
          /\ (s + 4) % 4 = 0 /\ c + 2 <= Len(meant') + 1 /\ 1 < COUNT_MOD /\ Len(meant') = c + 2 - 1
        BY <1>3, <1>4, <2>1, EncoderConstants
    <2> HIDE DEF b, f
    <2>5. Chunks(re.buf, meant', pt, c, 1, b, f)
        BY <2>4, <1>4 DEF Chunks, s
    <2>6. Opened(re.buf, s, "SDES", 1 - 1)
        BY <1>5, <1>7 DEF Opened
    <2>7. BetweenChunks(pt, c, 1, b, f)'
        <3>1. InChunks(pt, c, 1, b, f, 1 - 1)'
            BY <1>5, <1>7, <2>1, <2>3, <2>5, <2>6 DEF InChunks, s
        <3>2. enc'.write_ndx = b[1] /\ Len(meant') = f[1] - 1
            BY <1>4, <1>5, <1>7, <2>1, <2>4
        <3> QED BY <3>1, <3>2 DEF BetweenChunks
    <2>8. (\E q, d, n, g, h : BetweenChunks(q, d, n, g, h) /\ n < COUNT_MOD)'
        BY <2>4, <2>7
    <2> QED BY <2>1, <2>8 DEF Layout, Writing
<1> QED BY <1>5, <1>6, <1>7

\* The places of chunks, as numbers.
LEMMA ChunksValue ==
    ASSUME NEW bf, NEW m, NEW pt, NEW c, NEW n, NEW b, NEW f,
           Blocks(bf, m, pt, c), Chunks(bf, m, pt, c, n, b, f)
    PROVE  /\ c \in Nat /\ SdesAt(pt, c) \in Nat /\ SdesAt(pt, c) >= 8 /\ SdesAt(pt, c) % 4 = 0
           /\ n \in Nat \ {0} /\ b[n] \in Nat /\ f[n] \in Nat /\ SdesAt(pt, c) + 4 <= b[n]
           /\ c + 2 <= f[n] /\ b[n] % 4 = 0
<1>1. c \in Nat
    BY DEF Blocks
<1>2. /\ n \in Nat \ {0} /\ b \in [1 .. n -> Nat] /\ f \in [1 .. n -> Nat]
      /\ b[1] = SdesAt(pt, c) + 4 /\ f[1] = c + 2
      /\ \A j \in 1 .. n : b[1] <= b[j] /\ b[j] <= b[n] /\ f[1] <= f[j] /\ f[j] <= f[n]
      /\ b[n] % 4 = 0
    BY DEF Chunks
<1>3. n \in 1 .. n
    BY <1>2
<1>4. b[n] \in Nat /\ f[n] \in Nat /\ SdesAt(pt, c) + 4 <= b[n] /\ c + 2 <= f[n]
    BY <1>2, <1>3
<1> QED BY <1>1, <1>2, <1>4, SdesValue

\* The octets of S are behind e, or the one at s.
Beyond(S, s, e) == \A o \in S : o \in Int /\ (o = s \/ o >= e)

\* What is complete stays while SDES is written.
LEMMA PacketStays ==
    ASSUME NEW bf, NEW m, NEW pt, NEW c, NEW n, NEW b, NEW f,
           ReportWritten(bf, m, pt, c), Chunks(bf, m, pt, c, n, b, f),
           NEW bf2, NEW m2, Longer(m2, m), NEW S, SameBut(bf2, bf, S), b[n] <= BUFFER_LEN,
           Beyond(S, SdesAt(pt, c), b[n])
    PROVE  ReportWritten(bf2, m2, pt, c) /\ Chunks(bf2, m2, pt, c, n, b, f)
<1> DEFINE s == SdesAt(pt, c)  e == b[n]
<1>1. s \in Nat /\ s >= 8 /\ e \in Nat /\ s + 4 <= e /\ c \in Nat
    BY ChunksValue DEF ReportWritten
<1>2. e <= BUFFER_LEN /\ Beyond(S, s, e)
    OBVIOUS
<1> HIDE DEF s, e
<1>3. Agree(bf2, bf, 0, s)
    <2>1. \A o \in 0 .. s - 1 : o \notin S
        BY <1>1, <1>2 DEF Beyond
    <2> QED BY <1>1, <1>2, <2>1, EncoderConstants DEF SameBut, Agree, Octets
<1>4. Agree(bf2, bf, s + 4, e)
    <2>1. \A o \in s + 4 .. e - 1 : o \notin S
        BY <1>1, <1>2 DEF Beyond
    <2> QED BY <1>1, <1>2, <2>1, EncoderConstants DEF SameBut, Agree, Octets
<1>5. ReportWritten(bf2, m2, pt, c)
    BY <1>3, ReportStays DEF s
<1>6. Chunks(bf2, m2, pt, c, n, b, f)
    BY <1>1, <1>4, ChunksStay DEF s, e
<1> QED BY <1>5, <1>6

\* A chunk begins behind the last complete one.
LEMMA ChunkBeginsStep ==
    ASSUME Written, Layout, ChunkBegins
    PROVE  Written' /\ Layout'
<1>1. pc = "chunk"
    BY DEF ChunkBegins, Writes
<1>2. PICK ssrc \in Id : Call(rtcp_encoder_sdes_chunk_begin(enc, ssrc), <<<<"chunk", ssrc>>>>, "cname")
    BY DEF ChunkBegins, Id
<1>3. PICK pt, c, n, b, f : BetweenChunks(pt, c, n, b, f) /\ n < COUNT_MOD
    BY <1>1 DEF Layout
<1> DEFINE s == SdesAt(pt, c)  o == b[n]  i == f[n]
           re == rtcp_encoder_sdes_chunk_begin(enc, ssrc)
           x == <<"chunk", ssrc>>
<1>4. /\ ReportWritten(enc.buf, meant, pt, c) /\ Chunks(enc.buf, meant, pt, c, n, b, f)
      /\ enc.rtcp = s /\ Opened(enc.buf, s, "SDES", n - 1) /\ enc.write_ndx = o /\ Len(meant) = i - 1
    BY <1>3 DEF BetweenChunks, InChunks
<1>5. /\ s \in Nat /\ n \in Nat \ {0} /\ o \in Nat /\ i \in Nat /\ s + 4 <= o /\ o <= BUFFER_LEN
      /\ Len(meant) + 1 = i
    BY <1>4, ChunksValue, Room, SMTT(30) DEF ReportWritten
<1>6. PICK l \in Nat : enc.buf[s] = Packet("SDES", n - 1, l)
    BY <1>4 DEF Opened
<1>7. x \in Item /\ Call(re, <<x>>, "cname")
    BY <1>2 DEF Item
<1> HIDE DEF s, o, i, re, x
<1>8. /\ Sound(re) /\ re.buf_len = enc.buf_len
      /\ \/ re.ret = "full"
         \/ /\ re.ret = "ok" /\ re.rtcp = s
            /\ re.chunk_begin = o /\ re.write_ndx = o + 4
            /\ re.buf[s] = Packet("SDES", n, l)
            /\ re.buf[o] = Word(ssrc)
            /\ SameBut(re.buf, enc.buf, {s, o})
    <2> DEFINE q == n - 1
    <2>1. q \in Nat /\ q + 1 < COUNT_MOD /\ q + 1 = n
        BY <1>3, <1>5, EncoderConstants
    <2>2. enc.buf[s] = Packet("SDES", q, l)
        BY <1>6
    <2> HIDE DEF q
    <2>3. Sound(enc) /\ Counted(enc, "SDES", q, l) /\ re = rtcp_encoder_sdes_chunk_begin(enc, ssrc)
        BY <1>4, <1>5, <2>1, <2>2 DEF Written, Counted, re
    <2>4. ChunkOpened(re, enc, "SDES", q, l, ssrc)
        BY <2>3, ChunkBeginDoes
    <2> QED BY <1>4, <2>1, <2>4 DEF ChunkOpened
<1>9. CASE re.ret = "full"
    BY <1>7, <1>8, <1>9, CallFull
<1>10. CASE re.ret = "ok"
    <2>1. /\ Written' /\ enc' = re /\ pc' = "cname" /\ Longer(meant', meant)
          /\ Len(meant') = Len(meant) + 1 /\ meant'[Len(meant) + 1] = x
        BY <1>7, <1>8, <1>10, CallSaid
    <2>2. ReportWritten(re.buf, meant', pt, c) /\ Chunks(re.buf, meant', pt, c, n, b, f)
        <3>1. Beyond({s, o}, s, o)
            BY <1>5 DEF Beyond
        <3>2. SameBut(re.buf, enc.buf, {s, o})
            BY <1>8, <1>10
        <3> DEFINE S == {s, o}
        <3> HIDE DEF S
        <3>3. b[n] <= BUFFER_LEN /\ Beyond(S, SdesAt(pt, c), b[n]) /\ SameBut(re.buf, enc.buf, S)
            BY <1>5, <3>1, <3>2 DEF s, o, S
        <3> QED BY <1>4, <2>1, <3>3, PacketStays
    <2>3. Opened(re.buf, s, "SDES", n)
        BY <1>6, <1>8, <1>10 DEF Opened
    <2>4. Begun(re.buf, meant', o, i)
        BY <1>5, <1>8, <1>10, <2>1 DEF Begun, x
    <2>5. Len(meant') = i /\ Named(re.buf, meant', o, i, re.write_ndx, Len(meant') + 1)
        BY <1>5, <1>8, <1>10, <2>1 DEF Named
    <2>6. InChunk(pt, c, n, b, f)'
        BY <1>8, <1>10, <2>1, <2>2, <2>3, <2>4, <2>5 DEF InChunk, InChunks, s, o, i
    <2>7. (\E q, d, p, g, h : InChunk(q, d, p, g, h) /\ Len(meant) = h[p])'
        BY <2>5, <2>6 DEF i
    <2> QED BY <2>1, <2>7 DEF Layout, Writing
<1> QED BY <1>8, <1>9, <1>10

\* The name is written behind the identifier of its chunk.
LEMMA ChunkAddsCnameStep ==
    ASSUME Written, Layout, ChunkAddsCname, cname \in Text
    PROVE  Written' /\ Layout'
<1>1. pc = "cname"
    BY DEF ChunkAddsCname, Writes
<1>2. PICK t \in Text : Call(rtcp_encoder_sdes_chunk_add_cname(enc, t), <<<<"cname", t>>>>, "chunk_end")
    BY DEF ChunkAddsCname
<1>3. PICK pt, c, n, b, f : InChunk(pt, c, n, b, f) /\ Len(meant) = f[n]
    BY <1>1 DEF Layout
<1> DEFINE s == SdesAt(pt, c)  o == b[n]  i == f[n]
           re == rtcp_encoder_sdes_chunk_add_cname(enc, t)
           x == <<"cname", t>>
<1>4. /\ ReportWritten(enc.buf, meant, pt, c) /\ Chunks(enc.buf, meant, pt, c, n, b, f)
      /\ enc.rtcp = s /\ Opened(enc.buf, s, "SDES", n) /\ Begun(enc.buf, meant, o, i)
      /\ enc.chunk_begin = o /\ Named(enc.buf, meant, o, i, enc.write_ndx, Len(meant) + 1) /\ Len(meant) = i
    BY <1>3 DEF InChunk, InChunks
<1>5. /\ s \in Nat /\ n \in Nat \ {0} /\ o \in Nat /\ i \in Nat /\ s + 4 <= o /\ i >= 1
      /\ c \in Nat
    BY <1>4, ChunksValue DEF ReportWritten
<1>6. t \in Nat /\ x \in Item /\ Call(re, <<x>>, "chunk_end")
    BY <1>2, EncoderConstants DEF Item
<1> HIDE DEF s, o, i, x
<1>7. enc.write_ndx = o + 4 /\ o + 4 <= BUFFER_LEN
    BY <1>4, <1>5, Room DEF Named
<1>8. /\ Sound(re) /\ re.buf_len = enc.buf_len
      /\ \/ re.ret = "full"
         \/ /\ re.ret = "ok" /\ re.rtcp = s /\ re.chunk_begin = o /\ re.write_ndx = o + 6 + t
            /\ re.buf[o + 4] = Cname(t)
            /\ SameBut(re.buf, enc.buf, {o + 4})
    <2> DEFINE size == t + 2
    <2>1. size \in Nat \ {0} /\ enc.write_ndx + size = o + 6 + t
        BY <1>5, <1>6, <1>7
    <2>2. re = IF space_left(enc) < size THEN Full(enc)
               ELSE [enc EXCEPT !.buf[enc.write_ndx] = Cname(t), !.write_ndx = @ + size, !.ret = "ok"]
        <3>1. enc.write_ndx + 2 + t = enc.write_ndx + size
            BY <1>5, <1>6, <1>7
        <3> QED BY <3>1 DEF rtcp_encoder_sdes_chunk_add_cname
    <2>3. Sound(enc)
        BY DEF Written
    <2> HIDE DEF size, re
    <2>4. CellWritten(re, enc, Cname(t), size)
        BY <2>1, <2>2, <2>3, WriteDoes
    <2> QED BY <1>4, <1>7, <2>1, <2>4 DEF CellWritten
<1> HIDE DEF re
<1>9. CASE re.ret = "full"
    BY <1>6, <1>8, <1>9, CallFull
<1>10. CASE re.ret = "ok"
    <2>1. /\ Written' /\ enc' = re /\ pc' = "chunk_end" /\ Longer(meant', meant)
          /\ Len(meant') = Len(meant) + 1 /\ meant'[Len(meant) + 1] = x
        BY <1>6, <1>8, <1>10, CallSaid
    <2>2. ReportWritten(re.buf, meant', pt, c) /\ Chunks(re.buf, meant', pt, c, n, b, f)
        <3> DEFINE S == {o + 4}
        <3>1. Beyond(S, s, o) /\ o <= BUFFER_LEN
            BY <1>5, <1>7, EncoderConstants DEF Beyond
        <3>2. SameBut(re.buf, enc.buf, S)
            BY <1>8, <1>10
        <3> HIDE DEF S
        <3>3. b[n] <= BUFFER_LEN /\ Beyond(S, SdesAt(pt, c), b[n])
            BY <3>1 DEF s, o
        <3> QED BY <1>4, <2>1, <3>2, <3>3, PacketStays
    <2>3. re.buf[s] = enc.buf[s] /\ re.buf[o] = enc.buf[o]
        BY <1>5, <1>7, <1>8, <1>10, EncoderConstants DEF SameBut, Octets
    <2>4. Opened(re.buf, s, "SDES", n)
        BY <1>4, <2>3 DEF Opened
    <2>5. Begun(re.buf, meant', o, i)
        <3>1. meant'[i] = meant[i]
            BY <1>4, <1>5, <2>1 DEF Longer
        <3> QED BY <1>4, <2>3, <3>1 DEF Begun
    <2>6. Named(re.buf, meant', o, i, re.write_ndx, Len(meant') + 1)
        <3>1. Len(meant') + 1 = i + 2 /\ meant'[i + 1] = <<"cname", t>>
            BY <1>4, <1>5, <2>1 DEF x
        <3> QED BY <1>8, <1>10, <3>1 DEF Named
    <2>7. InChunk(pt, c, n, b, f)'
        BY <1>8, <1>10, <2>1, <2>2, <2>4, <2>5, <2>6 DEF InChunk, InChunks, s, o, i
    <2>8. (\E q, d, p, g, h : InChunk(q, d, p, g, h))'
        BY <2>7
    <2> QED BY <2>1, <2>8 DEF Layout, Writing
<1> QED BY <1>8, <1>9, <1>10

\* The null octet and the padding complete the chunk.
LEMMA ChunkEndsStep ==
    ASSUME Written, Layout, ChunkEnds
    PROVE  Written' /\ Layout'
<1> DEFINE re == rtcp_encoder_sdes_chunk_end(enc)
<1>1. Call(re, <<>>, "chunk_ended") /\ pc \in {"cname", "chunk_end"}
    BY DEF ChunkEnds, Writes
<1>2. PICK pt, c, n, b, f : InChunk(pt, c, n, b, f)
    BY <1>1 DEF Layout
<1> DEFINE s == SdesAt(pt, c)  o == b[n]  i == f[n]  z == enc.write_ndx  k == Len(meant) + 1
           e == NextWord(o, z)
<1>3. /\ ReportWritten(enc.buf, meant, pt, c) /\ Chunks(enc.buf, meant, pt, c, n, b, f)
      /\ enc.rtcp = s /\ Opened(enc.buf, s, "SDES", n) /\ Begun(enc.buf, meant, o, i)
      /\ enc.chunk_begin = o /\ Named(enc.buf, meant, o, i, z, k)
    BY <1>2 DEF InChunk, InChunks
<1>4. /\ s \in Nat /\ n \in Nat \ {0} /\ o \in Nat /\ i \in Nat /\ s + 4 <= o /\ i >= 1
      /\ c \in Nat
    BY <1>3, ChunksValue DEF ReportWritten
<1>5. z \in Nat /\ k \in Nat /\ z <= BUFFER_LEN /\ BUFFER_LEN \in Nat /\ meant \in Seq(Item)
    BY Room DEF Written
<1> HIDE DEF s, o, i, re, z, k, e
<1>6. e \in Nat /\ o + 4 <= z /\ z < e
    BY <1>3, <1>4, <1>5, ChunkSize DEF e
<1>7. /\ Sound(re) /\ re.buf_len = enc.buf_len
      /\ \/ re.ret = "full"
         \/ /\ re.ret = "ok" /\ re.rtcp = s /\ re.write_ndx = e
            /\ re.buf[z] = Zero
            /\ SameBut(re.buf, enc.buf, z .. e)
    <2>1. Sound(enc) /\ re = rtcp_encoder_sdes_chunk_end(enc)
        BY DEF Written, re
    <2>2. ChunkClosed(re, enc)
        BY <2>1, ChunkEndDoes
    <2>3. e = enc.chunk_begin + 4 * ((z - enc.chunk_begin) \div 4 + 1)
        BY <1>3 DEF e, NextWord
    <2> QED BY <1>3, <2>2, <2>3 DEF ChunkClosed, z
<1>8. CASE re.ret = "full"
    BY <1>1, <1>7, <1>8, CallFull
<1>9. CASE re.ret = "ok"
    <2>1. Written' /\ enc' = re /\ pc' = "chunk_ended" /\ meant' = meant /\ Longer(meant', meant)
        BY <1>1, <1>7, <1>9, CallSilent
    <2>2. ReportWritten(re.buf, meant', pt, c) /\ Chunks(re.buf, meant', pt, c, n, b, f)
        <3> DEFINE S == z .. e
        <3>1. Beyond(S, s, o) /\ o <= BUFFER_LEN
            BY <1>4, <1>5, <1>6 DEF Beyond
        <3>2. SameBut(re.buf, enc.buf, S)
            BY <1>7, <1>9
        <3> HIDE DEF S
        <3>3. b[n] <= BUFFER_LEN /\ Beyond(S, SdesAt(pt, c), b[n])
            BY <3>1 DEF s, o
        <3> QED BY <1>3, <2>1, <3>2, <3>3, PacketStays
    <2>3. re.buf[s] = enc.buf[s] /\ re.buf[o] = enc.buf[o] /\ (z > o + 4 => re.buf[o + 4] = enc.buf[o + 4])
        BY <1>4, <1>5, <1>6, <1>7, <1>9 DEF SameBut, Octets
    <2>4. Opened(re.buf, s, "SDES", n)
        BY <1>3, <2>3 DEF Opened
    <2>5. Begun(re.buf, meant', o, i)
        BY <1>3, <2>1, <2>3 DEF Begun
    <2>6. Named(re.buf, meant', o, i, z, k)
        <3>1. CASE k = i + 1 /\ z = o + 4
            BY <3>1 DEF Named
        <3>2. ASSUME k = i + 2, NEW t \in Text, meant[i + 1] = <<"cname", t>>,
                     enc.buf[o + 4] = Cname(t), z = o + 6 + t
              PROVE  Named(re.buf, meant', o, i, z, k)
            <4>1. t \in Nat /\ z > o + 4
                BY <1>4, <3>2, EncoderConstants
            <4> QED BY <2>1, <2>3, <3>2, <4>1 DEF Named
        <3> QED BY <1>3, <3>1, <3>2 DEF Named
    <2>7. Chunk(re.buf, meant', o, i, e, k)
        BY <1>5, <1>7, <1>9, <2>5, <2>6 DEF Chunk, e
    <2>8. PICK b2, f2 : Chunks(re.buf, meant', pt, c, n + 1, b2, f2) /\ b2[n + 1] = e /\ f2[n + 1] = k
        <3>1. meant' \in Seq(Item) /\ k <= Len(meant') + 1
            BY <1>5, <2>1 DEF k
        <3>2. Chunk(re.buf, meant', b[n], f[n], e, k)
            BY <2>7 DEF o, i
        <3> QED BY <1>4, <1>5, <1>6, <2>2, <3>1, <3>2, ChunksGrow
    <2> DEFINE p == n + 1
    <2>9. Chunks(re.buf, meant', pt, c, p, b2, f2) /\ b2[p] = e /\ f2[p] = k /\ n = p - 1
        BY <1>4, <2>8
    <2> HIDE DEF p
    <2>10. InChunks(pt, c, p, b2, f2, p - 1)'
        BY <1>7, <1>9, <2>1, <2>2, <2>4, <2>9 DEF InChunks, s
    <2>11. Len(meant') = f2[p] - 1
        BY <1>5, <2>1, <2>9, Room DEF k
    <2>12. BetweenChunks(pt, c, p, b2, f2)'
        BY <1>7, <1>9, <2>1, <2>9, <2>10, <2>11 DEF BetweenChunks
    <2>13. (\E q, d, r, g, h : BetweenChunks(q, d, r, g, h))'
        BY <2>12
    <2> QED BY <2>1, <2>13 DEF Layout, Writing
<1> QED BY <1>7, <1>8, <1>9

\* Another chunk is to be written.
LEMMA NextChunkStep ==
    ASSUME Written, Layout, NextChunk
    PROVE  Written' /\ Layout'
<1>1. pc = "chunk_ended" /\ pc' = "chunk" /\ ndx(enc) < COUNT_MOD - 1 /\ UNCHANGED <<enc, meant>>
    BY DEF NextChunk, Writes
<1>2. PICK pt, c, n, b, f : BetweenChunks(pt, c, n, b, f)
    BY <1>1 DEF Layout
<1>3. n < COUNT_MOD
    <2>1. /\ Blocks(enc.buf, meant, pt, c) /\ Chunks(enc.buf, meant, pt, c, n, b, f)
          /\ Opened(enc.buf, enc.rtcp, "SDES", n - 1)
        BY <1>2 DEF BetweenChunks, InChunks, ReportWritten
    <2>2. n \in Nat
        BY <2>1, ChunksValue
    <2>3. ndx(enc) = n - 1
        BY <2>1 DEF Opened, ndx, Packet
    <2> QED BY <1>1, <2>2, <2>3, EncoderConstants
<1>4. BetweenChunks(pt, c, n, b, f)'
    BY <1>1, <1>2 DEF BetweenChunks, InChunks
<1>5. (\E q, d, r, g, h : BetweenChunks(q, d, r, g, h) /\ r < COUNT_MOD)'
    BY <1>3, <1>4
<1> QED BY <1>1, <1>5 DEF Written, Layout, Writing

\* The length of SDES leads to behind its last chunk.
LEMMA SdesEndsStep ==
    ASSUME Written, Layout, SdesEnds, more \in BOOLEAN
    PROVE  Written' /\ Layout'
<1> DEFINE re == rtcp_encoder_end_packet(enc)
           next == IF more THEN "bye" ELSE "send"
<1>1. Call(re, <<>>, next) /\ pc = "chunk_ended"
    BY DEF SdesEnds, Writes
<1>2. PICK pt, c, n, b, f : BetweenChunks(pt, c, n, b, f)
    BY <1>1 DEF Layout
<1> DEFINE s == SdesAt(pt, c)  o == b[n]  q == n - 1
<1>3. /\ ReportWritten(enc.buf, meant, pt, c) /\ Chunks(enc.buf, meant, pt, c, n, b, f)
      /\ enc.rtcp = s /\ Opened(enc.buf, s, "SDES", q) /\ enc.write_ndx = o /\ Len(meant) = f[n] - 1
    BY <1>2 DEF BetweenChunks, InChunks
<1>4. /\ s \in Nat /\ s % 4 = 0 /\ o \in Nat /\ s + 4 <= o /\ o % 4 = 0 /\ o <= BUFFER_LEN
    BY <1>3, ChunksValue, Room DEF ReportWritten
<1> HIDE DEF s, o, q, re, next
<1>5. PICK l \in Nat : enc.buf[s] = Packet("SDES", q, l)
    BY <1>3 DEF Opened
<1>6. Words(enc, "SDES", q, l)
    BY <1>3, <1>4, <1>5 DEF Words
<1>7. /\ Sound(re) /\ re.buf_len = enc.buf_len /\ re.ret = "ok" /\ re.write_ndx = o
      /\ \E k \in Nat : re.buf[s] = Packet("SDES", q, k) /\ s + 4 * (k + 1) = o
      /\ SameBut(re.buf, enc.buf, {s})
    <2>1. Sound(enc) /\ re = rtcp_encoder_end_packet(enc)
        BY DEF re, Written
    <2>2. PacketClosed(re, enc, "SDES", q)
        BY <1>6, <2>1, EndPacketDoes
    <2> QED BY <1>3, <2>2 DEF PacketClosed
<1>8. Written' /\ enc' = re /\ pc' = next /\ meant' = meant /\ Longer(meant', meant)
    BY <1>1, <1>7, CallSilent
<1>9. ReportWritten(re.buf, meant', pt, c) /\ Chunks(re.buf, meant', pt, c, n, b, f)
    <2> DEFINE S == {s}
    <2>1. Beyond(S, s, o) /\ SameBut(re.buf, enc.buf, S)
        BY <1>4, <1>7 DEF Beyond
    <2> HIDE DEF S
    <2>2. b[n] <= BUFFER_LEN /\ Beyond(S, SdesAt(pt, c), b[n])
        BY <1>4, <2>1 DEF s, o
    <2> QED BY <1>3, <1>8, <2>1, <2>2, PacketStays
<1>10. Closed(re.buf, s, "SDES", q, o)
    BY <1>7 DEF Closed
<1>11. SdesDone(pt, c, n, b, f)'
    BY <1>3, <1>7, <1>8, <1>9, <1>10 DEF SdesDone, SdesWritten, s, o, q
<1>12. more' = more
    BY <1>1, CallDoes
<1>13. CASE more
    <2>1. pc' = "bye" /\ more'
        BY <1>8, <1>12, <1>13 DEF next
    <2>2. (\E p, d, m, g, h : SdesDone(p, d, m, g, h))'
        BY <1>11
    <2> QED BY <1>8, <2>1, <2>2 DEF Layout, Writing
<1>14. CASE ~more
    <2>1. pc' = "send" /\ ~more'
        BY <1>8, <1>12, <1>14 DEF next
    <2>2. Complete(pt, c, n, b, f, 0)'
        BY <1>11, <2>1 DEF Complete
    <2>3. (\E p, d, m, g, h, k : Complete(p, d, m, g, h, k))'
        BY <2>2
    <2> QED BY <1>8, <2>1, <2>3 DEF Layout, Writing
<1> QED BY <1>13, <1>14

\* What is complete stays while BYE is written.
LEMMA SdesKept ==
    ASSUME NEW bf, NEW m, NEW pt, NEW c, NEW n, NEW b, NEW f, SdesWritten(bf, m, pt, c, n, b, f),
           b[n] <= BUFFER_LEN, NEW bf2, NEW m2, Longer(m2, m), NEW S, SameBut(bf2, bf, S),
           Beyond(S, b[n], b[n])
    PROVE  SdesWritten(bf2, m2, pt, c, n, b, f)
<1> DEFINE e == b[n]
<1>1. e \in Nat /\ e <= BUFFER_LEN /\ Beyond(S, e, e)
    BY ChunksValue DEF SdesWritten, ReportWritten
<1> HIDE DEF e
<1>2. \A o \in 0 .. e - 1 : o \notin S
    BY <1>1 DEF Beyond
<1>3. Agree(bf2, bf, 0, e)
    BY <1>1, <1>2, EncoderConstants DEF SameBut, Agree, Octets
<1> QED BY <1>3, SdesStays DEF e

\* BYE begins behind SDES.
LEMMA ByeBeginsStep ==
    ASSUME Written, Layout, ByeBegins
    PROVE  Written' /\ Layout'
<1> DEFINE re == rtcp_encoder_bye_begin(enc)
<1>1. Call(re, <<>>, "bye_ssrc") /\ pc = "bye"
    BY DEF ByeBegins, Writes
<1>2. more /\ \E pt, c, n, b, f : SdesDone(pt, c, n, b, f)
    BY <1>1 DEF Layout
<1>3. PICK pt, c, n, b, f : SdesDone(pt, c, n, b, f)
    BY <1>2
<1> DEFINE o == b[n]  i == f[n]
<1>4. SdesWritten(enc.buf, meant, pt, c, n, b, f) /\ enc.write_ndx = o /\ Len(meant) = i - 1
    BY <1>3 DEF SdesDone
<1>5. o \in Nat /\ i \in Nat /\ i >= 2 /\ o % 4 = 0 /\ o <= BUFFER_LEN
    BY <1>4, ChunksValue, Room, SMTT(30) DEF SdesWritten, ReportWritten
<1> HIDE DEF o, i, re
<1>6. /\ Sound(re) /\ re.buf_len = enc.buf_len
      /\ \/ re.ret = "full"
         \/ /\ re.ret = "ok" /\ re.rtcp = o /\ re.write_ndx = o + 4
            /\ re.buf[o] = Packet("BYE", 0, 0) /\ SameBut(re.buf, enc.buf, {o})
    <2>1. Sound(enc) /\ re = IF space_left(enc) < HEADER_SIZE THEN Full(enc) ELSE Begin(enc, "BYE", HEADER_SIZE)
        BY DEF re, rtcp_encoder_bye_begin, Written
    <2>2. PacketOpened(re, enc, "BYE")
        BY <2>1, BeginDoes
    <2> QED BY <1>4, <2>2 DEF PacketOpened
<1>7. CASE re.ret = "full"
    BY <1>1, <1>6, <1>7, CallFull
<1>8. CASE re.ret = "ok"
    <2>1. Written' /\ enc' = re /\ pc' = "bye_ssrc" /\ meant' = meant /\ Longer(meant', meant)
        BY <1>1, <1>6, <1>8, CallSilent
    <2>2. SdesWritten(re.buf, meant', pt, c, n, b, f)
        <3> DEFINE S == {o}
        <3>1. Beyond(S, o, o) /\ SameBut(re.buf, enc.buf, S)
            BY <1>5, <1>6, <1>8 DEF Beyond
        <3> HIDE DEF S
        <3>2. Beyond(S, b[n], b[n]) /\ b[n] <= BUFFER_LEN
            BY <1>5, <3>1 DEF o
        <3> QED BY <1>4, <2>1, <3>1, <3>2, SdesKept
    <2>3. Opened(re.buf, o, "BYE", 0) /\ Byes(re.buf, meant', o, i, 0)
        BY <1>6, <1>8 DEF Opened, Byes
    <2>4. Len(meant') = i - 1 + 0 /\ re.write_ndx >= o + 4 + 4 * 0 /\ re.write_ndx % 4 = 0
          /\ re.write_ndx = o + 4 + 4 * 0
        BY <1>4, <1>5, <1>6, <1>8, <2>1, SMTT(30)
    <2>5. InBye(pt, c, n, b, f, 0)' /\ enc'.write_ndx = b[n] + 4 + 4 * 0
        BY <1>6, <1>8, <2>1, <2>2, <2>3, <2>4 DEF InBye, o, i
    <2>6. (\E p, d, m, g, h, k : InBye(p, d, m, g, h, k) /\ enc.write_ndx = g[m] + 4 + 4 * k)'
        BY <2>5
    <2>7. more'
        BY <1>1, <1>2, CallDoes
    <2> QED BY <2>1, <2>6, <2>7 DEF Layout, Writing
<1> QED BY <1>6, <1>7, <1>8

\* BYE so far, as numbers.
LEMMA ByeValue ==
    ASSUME Written, NEW pt, NEW c, NEW n, NEW b, NEW f, NEW k, InBye(pt, c, n, b, f, k)
    PROVE  /\ SdesWritten(enc.buf, meant, pt, c, n, b, f)
           /\ k \in Nat /\ b[n] \in Nat /\ f[n] \in Nat /\ f[n] >= 2 /\ b[n] % 4 = 0
           /\ Len(meant) = f[n] - 1 + k /\ f[n] + k - 1 = Len(meant)
           /\ enc.write_ndx \in Nat /\ enc.write_ndx >= b[n] + 4 + 4 * k /\ enc.write_ndx % 4 = 0
           /\ enc.write_ndx <= BUFFER_LEN /\ b[n] + 4 * k + 4 <= BUFFER_LEN
           /\ enc.rtcp = b[n] /\ \E l \in Nat : enc.buf[b[n]] = Packet("BYE", k, l)
           /\ Byes(enc.buf, meant, b[n], f[n], k)
<1>1. SdesWritten(enc.buf, meant, pt, c, n, b, f)
    BY DEF InBye
<1>2. b[n] \in Nat /\ f[n] \in Nat /\ f[n] >= 2 /\ b[n] % 4 = 0
    BY <1>1, ChunksValue DEF SdesWritten, ReportWritten
<1>3. enc.write_ndx \in Nat /\ enc.write_ndx <= BUFFER_LEN /\ BUFFER_LEN \in Nat /\ Len(meant) \in Nat
    BY Room
<1>4. k \in Nat /\ Len(meant) = f[n] - 1 + k /\ enc.write_ndx >= b[n] + 4 + 4 * k /\ enc.write_ndx % 4 = 0
    BY DEF InBye
<1>5. f[n] + k - 1 = Len(meant) /\ b[n] + 4 * k + 4 <= BUFFER_LEN
    <2> DEFINE o == b[n]  i == f[n]  w == enc.write_ndx  y == Len(meant)
    <2>1. o \in Nat /\ i \in Nat /\ w \in Nat /\ w <= BUFFER_LEN /\ BUFFER_LEN \in Nat
        BY <1>2, <1>3
    <2>2. k \in Nat /\ y = i - 1 + k /\ w >= o + 4 + 4 * k
        BY <1>4
    <2> HIDE DEF o, i, w, y
    <2>3. i + k - 1 = y /\ o + 4 * k + 4 <= BUFFER_LEN
        BY <2>1, <2>2
    <2> QED BY <2>3 DEF o, i, w, y
<1>6. /\ enc.rtcp = b[n] /\ \E l \in Nat : enc.buf[b[n]] = Packet("BYE", k, l)
      /\ Byes(enc.buf, meant, b[n], f[n], k)
    BY DEF InBye, Opened
<1> QED BY <1>1, <1>2, <1>3, <1>4, <1>5, <1>6

\* One more source in BYE.
LEMMA ByeAddsSsrcStep ==
    ASSUME Written, Layout, ByeAddsSsrc
    PROVE  Written' /\ Layout'
<1>1. pc = "bye_ssrc" /\ ndx(enc) < COUNT_MOD - 1
    BY DEF ByeAddsSsrc, Writes
<1>2. PICK ssrc \in Peer : Call(rtcp_encoder_bye_add_ssrc(enc, ssrc), <<<<"BYE", ssrc>>>>, "bye_ssrc")
    BY DEF ByeAddsSsrc
<1>3. more /\ \E pt, c, n, b, f, k : InBye(pt, c, n, b, f, k) /\ enc.write_ndx = b[n] + 4 + 4 * k
    BY <1>1 DEF Layout
<1>4. PICK pt, c, n, b, f, k : InBye(pt, c, n, b, f, k) /\ enc.write_ndx = b[n] + 4 + 4 * k
    BY <1>3
<1> DEFINE o == b[n]  i == f[n]
           re == AddElement(enc, 4, 4, Word(ssrc))
           x == <<"BYE", ssrc>>
<1>5. /\ SdesWritten(enc.buf, meant, pt, c, n, b, f)
      /\ k \in Nat /\ o \in Nat /\ i \in Nat /\ i >= 2 /\ o % 4 = 0
      /\ Len(meant) = i - 1 + k /\ i + k - 1 = Len(meant)
      /\ o + 4 * k + 4 <= BUFFER_LEN
      /\ enc.rtcp = o /\ Byes(enc.buf, meant, o, i, k)
      /\ \E l \in Nat : enc.buf[o] = Packet("BYE", k, l)
    BY <1>4, ByeValue, SMTT(30)
<1>6. PICK l \in Nat : enc.buf[o] = Packet("BYE", k, l)
    BY <1>5
<1>7. x \in Item /\ Call(re, <<x>>, "bye_ssrc")
    BY <1>2 DEF Item, Id, rtcp_encoder_bye_add_ssrc, HEADER_SIZE
<1>8. enc.write_ndx = o + 4 + 4 * k
    BY <1>4
<1> DEFINE w == o + 4 + 4 * k
<1> HIDE DEF o, i, re, x
<1>9. /\ Sound(re) /\ re.buf_len = enc.buf_len
      /\ \/ re.ret = "full"
         \/ /\ re.ret = "ok" /\ re.rtcp = o
            /\ re.write_ndx = w + 4
            /\ re.buf[o] = Packet("BYE", k + 1, l)
            /\ re.buf[w] = Word(ssrc)
            /\ SameBut(re.buf, enc.buf, {o, w})
    <2> DEFINE bs == 4  sz == 4  cell == Word(ssrc)
    <2>1. Sound(enc) /\ Counted(enc, "BYE", k, l) /\ InStep(enc, bs, sz, k)
        <3>1. ndx(enc) = k
            BY <1>5, <1>6 DEF ndx, Packet
        <3>2. k + 1 < COUNT_MOD
            BY <1>1, <1>5, <3>1, EncoderConstants
        <3>3. Counted(enc, "BYE", k, l)
            BY <1>5, <1>6, <1>8, <3>2 DEF Counted
        <3>4. InStep(enc, bs, sz, k)
            BY <1>5, <1>8 DEF InStep
        <3> QED BY <3>3, <3>4 DEF Written
    <2>2. re = AddElement(enc, bs, sz, cell)
        BY DEF re
    <2> HIDE DEF bs, sz, cell
    <2>3. ElementAdded(re, enc, "BYE", k, l, sz, cell)
        BY <2>1, <2>2, AddElementDoes
    <2> QED BY <1>5, <1>8, <2>3 DEF ElementAdded, sz, cell
<1>10. CASE re.ret = "full"
    BY <1>7, <1>9, <1>10, CallFull
<1>11. CASE re.ret = "ok"
    <2>1. /\ Written' /\ enc' = re /\ pc' = "bye_ssrc" /\ Said(meant', meant, x) /\ Longer(meant', meant)
          /\ Len(meant') = Len(meant) + 1
        BY <1>7, <1>9, <1>11, CallSaid
    <2>2. SdesWritten(re.buf, meant', pt, c, n, b, f)
        <3> DEFINE S == {o, w}
        <3>1. Beyond(S, o, o) /\ SameBut(re.buf, enc.buf, S) /\ o <= BUFFER_LEN
            BY <1>5, <1>9, <1>11, EncoderConstants, SMTT(30) DEF Beyond
        <3> HIDE DEF S
        <3>2. Beyond(S, b[n], b[n]) /\ b[n] <= BUFFER_LEN
            BY <3>1 DEF o
        <3> QED BY <1>5, <2>1, <3>1, <3>2, SdesKept
    <2>3. Byes(re.buf, meant', o, i, k + 1)
        <3>1. Agree(re.buf, enc.buf, o + 4, o + 4 * k + 1)
            <4>1. SameBut(re.buf, enc.buf, {o, w})
                BY <1>9, <1>11
            <4> DEFINE lo == o + 4  hi == o + 4 * k + 1  S == {o, w}
            <4>2. lo \in Nat /\ hi \in Nat /\ hi <= BUFFER_LEN
                BY <1>5, EncoderConstants, SMTT(30)
            <4>3. \A j \in lo .. hi - 1 : j \notin S
                BY <1>5
            <4> HIDE DEF lo, hi, S
            <4>4. Agree(re.buf, enc.buf, lo, hi)
                BY <4>1, <4>2, <4>3, SameAgree DEF S
            <4> QED BY <4>4 DEF lo, hi
        <3>2. re.buf[o + 4 * (k + 1)] = Word(ssrc)
            <4>1. o + 4 * (k + 1) = w
                BY <1>5
            <4> HIDE DEF w
            <4> QED BY <1>9, <1>11, <4>1
        <3>3. Said(meant', meant, <<"BYE", ssrc>>)
            BY <2>1 DEF x
        <3>4. i > 0
            BY <1>5
        <3> QED BY <1>5, <3>1, <3>2, <3>3, <3>4, ByesGrow
    <2> DEFINE p == k + 1
    <2>4. /\ p \in Nat /\ Len(meant') = i - 1 + p /\ re.write_ndx = o + 4 + 4 * p
          /\ re.write_ndx >= o + 4 + 4 * p /\ re.write_ndx % 4 = 0
        BY <1>5, <1>9, <1>11, <2>1
    <2>5. Opened(re.buf, o, "BYE", p)
        BY <1>9, <1>11 DEF Opened
    <2>6. Byes(re.buf, meant', o, i, p) /\ re.rtcp = o
        BY <1>9, <1>11, <2>3
    <2> HIDE DEF p
    <2>7. InBye(pt, c, n, b, f, p)' /\ enc'.write_ndx = b[n] + 4 + 4 * p
        BY <2>1, <2>2, <2>4, <2>5, <2>6 DEF InBye, o, i
    <2>8. (\E q, d, m, g, h, j : InBye(q, d, m, g, h, j) /\ enc.write_ndx = g[m] + 4 + 4 * j)'
        BY <2>7
    <2>9. more'
        BY <1>3, <1>7, CallDoes
    <2> QED BY <2>1, <2>8, <2>9 DEF Layout, Writing
<1> QED BY <1>9, <1>10, <1>11

\* The reason is written behind the sources.
LEMMA ByeAddsReasonStep ==
    ASSUME Written, Layout, ByeAddsReason
    PROVE  Written' /\ Layout'
<1>1. pc = "bye_ssrc"
    BY DEF ByeAddsReason, Writes
<1>2. PICK t \in Text : Call(rtcp_encoder_bye_add_reason(enc, t), <<>>, "bye_end")
    BY DEF ByeAddsReason
<1>3. more /\ \E pt, c, n, b, f, k : InBye(pt, c, n, b, f, k)
    BY <1>1 DEF Layout
<1>4. PICK pt, c, n, b, f, k : InBye(pt, c, n, b, f, k)
    BY <1>3
<1> DEFINE o == b[n]  i == f[n]  w == enc.write_ndx
           re == rtcp_encoder_bye_add_reason(enc, t)
           total == 1 + t + Pad(1 + t)
<1>5. /\ SdesWritten(enc.buf, meant, pt, c, n, b, f)
      /\ k \in Nat /\ o \in Nat /\ i \in Nat /\ i >= 2
      /\ Len(meant) = i - 1 + k /\ i + k - 1 = Len(meant)
      /\ w \in Nat /\ w >= o + 4 + 4 * k /\ w <= BUFFER_LEN /\ o + 4 * k + 4 <= BUFFER_LEN
      /\ enc.rtcp = o /\ Byes(enc.buf, meant, o, i, k)
      /\ \E l \in Nat : enc.buf[o] = Packet("BYE", k, l)
    <2>1. /\ SdesWritten(enc.buf, meant, pt, c, n, b, f)
          /\ k \in Nat /\ o \in Nat /\ i \in Nat /\ i >= 2
          /\ Len(meant) = i - 1 + k /\ i + k - 1 = Len(meant)
          /\ o + 4 * k + 4 <= BUFFER_LEN /\ enc.rtcp = o
        BY <1>4, ByeValue
    <2>2. w \in Nat /\ w >= o + 4 + 4 * k /\ w <= BUFFER_LEN
        BY <1>4, ByeValue
    <2>3. Byes(enc.buf, meant, o, i, k) /\ \E l \in Nat : enc.buf[o] = Packet("BYE", k, l)
        BY <1>4 DEF InBye, Opened
    <2> QED BY <2>1, <2>2, <2>3
<1>6. w % 4 = 0
    BY <1>4, ByeValue
<1>7. PICK l \in Nat : enc.buf[o] = Packet("BYE", k, l)
    BY <1>5
<1>8. total \in Nat \ {0} /\ total % 4 = 0
    <2>1. 1 + t \in Nat
        BY EncoderConstants
    <2> DEFINE u == 1 + t
    <2>2. u \in Nat /\ u >= 1
        BY EncoderConstants
    <2> HIDE DEF u
    <2>3. Pad(u) \in 0 .. 3
        BY <2>2, Padding
    <2>4. u + Pad(u) \in Nat \ {0}
        BY <2>2, <2>3
    <2>5. (u + Pad(u)) % 4 = 0
        BY <2>2, Padding
    <2> QED BY <2>4, <2>5 DEF u
<1>9. re = IF space_left(enc) < total THEN Full(enc)
           ELSE [enc EXCEPT !.buf[enc.write_ndx] = Reason(t), !.write_ndx = @ + total, !.ret = "ok"]
    BY DEF rtcp_encoder_bye_add_reason
<1>10. Call(re, <<>>, "bye_end")
    BY <1>2
<1> HIDE DEF o, i, re, total
<1>11. /\ Sound(re) /\ re.buf_len = enc.buf_len
       /\ \/ re.ret = "full"
          \/ /\ re.ret = "ok" /\ re.rtcp = o /\ re.write_ndx = w + total
             /\ SameBut(re.buf, enc.buf, {w})
    <2>1. Sound(enc)
        BY DEF Written
    <2>2. CellWritten(re, enc, Reason(t), total)
        BY <1>8, <1>9, <2>1, WriteDoes
    <2> QED BY <1>5, <2>2 DEF CellWritten
<1> HIDE DEF w
<1>12. CASE re.ret = "full"
    BY <1>10, <1>11, <1>12, CallFull
<1>13. CASE re.ret = "ok"
    <2>1. Written' /\ enc' = re /\ pc' = "bye_end" /\ meant' = meant /\ Longer(meant', meant)
        BY <1>10, <1>11, <1>13, CallSilent
    <2>2. SdesWritten(re.buf, meant', pt, c, n, b, f)
        <3> DEFINE S == {w}
        <3>1. Beyond(S, o, o) /\ SameBut(re.buf, enc.buf, S) /\ o <= BUFFER_LEN
            BY <1>5, <1>11, <1>13, EncoderConstants DEF Beyond
        <3> HIDE DEF S
        <3>2. Beyond(S, b[n], b[n]) /\ b[n] <= BUFFER_LEN
            BY <3>1 DEF o
        <3> QED BY <1>5, <2>1, <3>1, <3>2, SdesKept
    <2>3. Byes(re.buf, meant', o, i, k)
        <3>1. Agree(re.buf, enc.buf, o + 4, o + 4 * k + 1)
            <4> DEFINE lo == o + 4  hi == o + 4 * k + 1  S == {w}
            <4>0. o \in Nat /\ k \in Nat /\ o + 4 * k + 4 <= BUFFER_LEN /\ BUFFER_LEN \in Nat
                BY <1>5, EncoderConstants
            <4>1. lo \in Nat /\ hi \in Nat /\ hi <= BUFFER_LEN
                BY <4>0
            <4>2. \A j \in lo .. hi - 1 : j \notin S
                <5>1. w \in Nat /\ w >= o + 4 + 4 * k
                    BY <1>5
                <5> QED BY <4>0, <5>1
            <4>3. SameBut(re.buf, enc.buf, S)
                BY <1>11, <1>13
            <4> HIDE DEF lo, hi, S
            <4>4. Agree(re.buf, enc.buf, lo, hi)
                BY <4>1, <4>2, <4>3, SameAgree
            <4> QED BY <4>4 DEF lo, hi
        <3>2. i > 0 /\ i + k - 1 <= Len(meant)
            BY <1>5, Room
        <3> QED BY <1>5, <2>1, <3>1, <3>2, ByesStay
    <2>4. re.buf[o] = enc.buf[o]
        <3>1. o \in Octets \ {w}
            BY <1>5, EncoderConstants DEF Octets
        <3> QED BY <1>11, <1>13, <3>1 DEF SameBut
    <2>5. Opened(re.buf, o, "BYE", k)
        BY <1>7, <2>4 DEF Opened
    <2>6. re.write_ndx >= o + 4 + 4 * k /\ re.write_ndx % 4 = 0
        <3>1. w + total >= o + 4 + 4 * k
            BY <1>5, <1>8
        <3>2. (w + total) % 4 = 0
            BY <1>5, <1>6, <1>8
        <3> QED BY <1>11, <1>13, <3>1, <3>2
    <2>7. InBye(pt, c, n, b, f, k)'
        BY <1>5, <1>11, <1>13, <2>1, <2>2, <2>3, <2>5, <2>6 DEF InBye, o, i
    <2>8. (\E q, d, m, g, h, j : InBye(q, d, m, g, h, j))'
        BY <2>7
    <2>9. more'
        BY <1>3, <1>10, CallDoes
    <2> QED BY <2>1, <2>8, <2>9 DEF Layout, Writing
<1> QED BY <1>11, <1>12, <1>13

\* The length of BYE leads to the end of the packet.
LEMMA ByeEndsStep ==
    ASSUME Written, Layout, ByeEnds
    PROVE  Written' /\ Layout'
<1> DEFINE re == rtcp_encoder_end_packet(enc)
<1>1. Call(re, <<>>, "send") /\ pc \in {"bye_ssrc", "bye_end"}
    BY DEF ByeEnds, Writes
<1>2. more /\ \E pt, c, n, b, f, k : InBye(pt, c, n, b, f, k)
    BY <1>1 DEF Layout
<1>3. PICK pt, c, n, b, f, k : InBye(pt, c, n, b, f, k)
    BY <1>2
<1> DEFINE o == b[n]  i == f[n]  w == enc.write_ndx
<1>4. /\ SdesWritten(enc.buf, meant, pt, c, n, b, f)
      /\ k \in Nat /\ o \in Nat /\ i \in Nat /\ i >= 2
      /\ Len(meant) = i - 1 + k /\ i + k - 1 = Len(meant)
      /\ w \in Nat /\ w >= o + 4 + 4 * k /\ w <= BUFFER_LEN /\ o + 4 * k + 4 <= BUFFER_LEN
      /\ enc.rtcp = o /\ Byes(enc.buf, meant, o, i, k)
      /\ \E l \in Nat : enc.buf[o] = Packet("BYE", k, l)
    <2>1. /\ SdesWritten(enc.buf, meant, pt, c, n, b, f)
          /\ k \in Nat /\ o \in Nat /\ i \in Nat /\ i >= 2
          /\ Len(meant) = i - 1 + k /\ i + k - 1 = Len(meant)
          /\ o + 4 * k + 4 <= BUFFER_LEN /\ enc.rtcp = o
        BY <1>3, ByeValue
    <2>2. w \in Nat /\ w >= o + 4 + 4 * k /\ w <= BUFFER_LEN
        BY <1>3, ByeValue
    <2>3. Byes(enc.buf, meant, o, i, k) /\ \E l \in Nat : enc.buf[o] = Packet("BYE", k, l)
        BY <1>3 DEF InBye, Opened
    <2> QED BY <2>1, <2>2, <2>3
<1>5. w % 4 = 0 /\ o % 4 = 0
    BY <1>3, ByeValue
<1>6. PICK l \in Nat : enc.buf[o] = Packet("BYE", k, l)
    BY <1>4
<1> HIDE DEF o, i, re
<1>7. Words(enc, "BYE", k, l)
    <2>1. w >= o + 4
        BY <1>4
    <2>2. o \in Nat /\ w \in Nat
        BY <1>4
    <2>3. (w - o) % 4 = 0
        <3> HIDE DEF w
        <3> QED BY <1>5, <2>1, <2>2
    <2> QED BY <1>4, <1>6, <2>1, <2>3 DEF Words
<1>8. /\ Sound(re) /\ re.buf_len = enc.buf_len /\ re.ret = "ok" /\ re.write_ndx = w
      /\ \E j \in Nat : re.buf[o] = Packet("BYE", k, j) /\ o + 4 * (j + 1) = w
      /\ SameBut(re.buf, enc.buf, {o})
    <2>1. Sound(enc) /\ re = rtcp_encoder_end_packet(enc)
        BY DEF re, Written
    <2>2. PacketClosed(re, enc, "BYE", k)
        BY <1>7, <2>1, EndPacketDoes
    <2> QED BY <1>4, <2>2 DEF PacketClosed
<1> HIDE DEF w
<1>9. Written' /\ enc' = re /\ pc' = "send" /\ meant' = meant /\ Longer(meant', meant)
    BY <1>1, <1>8, CallSilent
<1>10. SdesWritten(re.buf, meant', pt, c, n, b, f)
    <2> DEFINE S == {o}
    <2>1. Beyond(S, o, o) /\ SameBut(re.buf, enc.buf, S) /\ o <= BUFFER_LEN
        BY <1>4, <1>8, EncoderConstants DEF Beyond
    <2> HIDE DEF S
    <2>2. Beyond(S, b[n], b[n]) /\ b[n] <= BUFFER_LEN
        BY <2>1 DEF o
    <2> QED BY <1>4, <1>9, <2>1, <2>2, SdesKept
<1>11. Byes(re.buf, meant', o, i, k)
    <2>1. Agree(re.buf, enc.buf, o + 4, o + 4 * k + 1)
        <3> DEFINE lo == o + 4  hi == o + 4 * k + 1  S == {o}
        <3>1. lo \in Nat /\ hi \in Nat /\ hi <= BUFFER_LEN
            BY <1>4, EncoderConstants, SMTT(30)
        <3>2. \A j \in lo .. hi - 1 : j \notin S
            BY <1>4
        <3>3. SameBut(re.buf, enc.buf, S)
            BY <1>8
        <3> HIDE DEF lo, hi, S
        <3>4. Agree(re.buf, enc.buf, lo, hi)
            BY <3>1, <3>2, <3>3, SameAgree
        <3> QED BY <3>4 DEF lo, hi
    <2>2. i > 0 /\ i + k - 1 <= Len(meant)
        BY <1>4, Room, SMTT(30)
    <2> QED BY <1>4, <1>9, <2>1, <2>2, ByesStay
<1>12. Closed(re.buf, o, "BYE", k, w)
    BY <1>8 DEF Closed
<1>13. ByeDone(pt, c, n, b, f, k)'
    BY <1>4, <1>8, <1>9, <1>10, <1>11, <1>12 DEF ByeDone, o, i
<1>14. more'
    BY <1>1, <1>2, CallDoes
<1>15. Complete(pt, c, n, b, f, k)'
    BY <1>13, <1>14 DEF Complete
<1>16. (\E q, d, m, g, h, j : Complete(q, d, m, g, h, j))'
    BY <1>15
<1> QED BY <1>9, <1>16 DEF Layout, Writing

\* The encoder is initialised again for the next report.
LEMMA ReportOverStep ==
    ASSUME Written, Layout, ReportOver
    PROVE  Written' /\ Layout'
<1> DEFINE bl == enc.buf_len
<1>1. pc' = "idle" /\ enc' = rtcp_encoder_init(bl) /\ meant' = <<>> /\ bl \in BufLen
    BY DEF ReportOver, Written
<1> HIDE DEF bl
<1>2. bl \in 0 .. BUFFER_LEN
    BY <1>1, EncoderConstants
<1>3. /\ Sound(rtcp_encoder_init(bl)) /\ rtcp_encoder_init(bl).buf_len = bl
      /\ rtcp_encoder_init(bl).write_ndx = 0
    BY <1>2, InitDoes
<1>4. <<>> \in Seq(Item)
    OBVIOUS
<1>5. enc'.write_ndx = 0 /\ Written'
    BY <1>1, <1>3, <1>4 DEF Written
<1> QED BY <1>1, <1>5 DEF Layout, Writing, Reading

-----------------------------------------------------------------------------
(* The reader *)

\* A sequence that follows another to its end is the other.
LEMMA Followed ==
    ASSUME NEW m, NEW g, Longer(m, g)
    PROVE  IsPrefix(g, m) /\ (Len(g) = Len(m) => g = m)
<1>1. /\ g \in Seq(Item) /\ m \in Seq(Item) /\ Len(g) <= Len(m) /\ Len(g) \in Nat /\ Len(m) \in Nat
      /\ \A i \in 1 .. Len(g) : m[i] = g[i]
    BY DEF Longer
<1>2. \A i \in 1 .. Len(g) : g[i] \in Item /\ m[i] \in Item
    BY <1>1
<1> DEFINE a == SubSeq(g, 1, Len(g))  b == SubSeq(m, 1, Len(g))
<1>3. /\ a \in Seq(Item) /\ b \in Seq(Item) /\ Len(a) = Len(g) /\ Len(b) = Len(g)
      /\ \A i \in 1 .. Len(g) : a[i] = g[i] /\ b[i] = m[i]
    <2>1. /\ a \in Seq(Item) /\ Len(a) = IF 1 <= Len(g) THEN Len(g) - 1 + 1 ELSE 0
          /\ \A i \in 1 .. Len(g) - 1 + 1 : a[i] = g[1 + i - 1]
        BY <1>1, <1>2, SubSeqProperties
    <2>2. /\ b \in Seq(Item) /\ Len(b) = IF 1 <= Len(g) THEN Len(g) - 1 + 1 ELSE 0
          /\ \A i \in 1 .. Len(g) - 1 + 1 : b[i] = m[1 + i - 1]
        BY <1>1, <1>2, SubSeqProperties
    <2>3. 1 .. Len(g) - 1 + 1 = 1 .. Len(g) /\ \A i \in 1 .. Len(g) : 1 + i - 1 = i
        BY <1>1
    <2> HIDE DEF a, b
    <2> QED BY <1>1, <2>1, <2>2, <2>3
<1> HIDE DEF a, b
<1>4. a = b
    BY <1>1, <1>3, SeqEqual
<1>5. Len(g) = Len(m) => g = m
    BY <1>1, SeqEqual
<1> QED BY <1>1, <1>4, <1>5 DEF IsPrefix, a, b

\* What the callbacks are given next is what was meant next.
LEMMA FollowsOne ==
    ASSUME NEW m, NEW g, Longer(m, g), Len(g) < Len(m), NEW x, m[Len(g) + 1] = x
    PROVE  Longer(m, Append(g, x)) /\ Len(Append(g, x)) = Len(g) + 1
<1>1. /\ g \in Seq(Item) /\ m \in Seq(Item) /\ Len(g) \in Nat /\ Len(m) \in Nat
      /\ \A i \in 1 .. Len(g) : m[i] = g[i]
    BY DEF Longer
<1>2. x \in Item
    BY <1>1
<1>3. /\ Append(g, x) \in Seq(Item) /\ Len(Append(g, x)) = Len(g) + 1 /\ Append(g, x)[Len(g) + 1] = x
      /\ \A i \in 1 .. Len(g) : Append(g, x)[i] = g[i]
    BY <1>1, <1>2
<1> DEFINE h == Append(g, x)
<1> HIDE DEF h
<1>4. \A i \in 1 .. Len(g) + 1 : m[i] = h[i]
    BY <1>1, <1>3 DEF h
<1>5. h \in Seq(Item) /\ Len(h) = Len(g) + 1
    BY <1>3 DEF h
<1>6. Longer(m, h)
    BY <1>1, <1>4, <1>5 DEF Longer
<1> QED BY <1>5, <1>6 DEF h

\* The same for k of them.
Tells(h, m, o, k) == \A i \in 1 .. k : h[i] = m[o + i]

\* rtcp_handle_sr, rtcp_handle_rr and rtcp_handle_bye give many elements in one
\* step.
LEMMA FollowsMany ==
    ASSUME NEW m, NEW g, Longer(m, g), NEW k \in Nat, Len(g) + k <= Len(m),
           NEW h, h \in [1 .. k -> Item], Tells(h, m, Len(g), k)
    PROVE  Longer(m, g \o h) /\ Len(g \o h) = Len(g) + k
<1>1. /\ g \in Seq(Item) /\ m \in Seq(Item) /\ Len(g) \in Nat /\ Len(m) \in Nat
      /\ \A i \in 1 .. Len(g) : m[i] = g[i]
    BY DEF Longer
<1>2. h \in Seq(Item) /\ Len(h) = k
    BY SeqDef
<1> DEFINE r == g \o h
<1>3. /\ r \in Seq(Item) /\ Len(r) = Len(g) + Len(h)
      /\ \A i \in 1 .. Len(g) + Len(h) : r[i] = IF i <= Len(g) THEN g[i] ELSE h[i - Len(g)]
    BY <1>1, <1>2, ConcatProperties
<1> HIDE DEF r
<1>4. ASSUME NEW i \in 1 .. Len(r) PROVE m[i] = r[i]
    <2>1. i \in 1 .. Len(g) + k /\ r[i] = IF i <= Len(g) THEN g[i] ELSE h[i - Len(g)]
        BY <1>2, <1>3
    <2>2. CASE i <= Len(g)
        BY <1>1, <2>1, <2>2
    <2>3. CASE ~(i <= Len(g))
        <3> DEFINE j == i - Len(g)
        <3>1. j \in 1 .. k /\ Len(g) + j = i
            BY <1>1, <2>1, <2>3
        <3> HIDE DEF j
        <3>2. h[j] = m[i]
            BY <3>1 DEF Tells
        <3> QED BY <2>1, <2>3, <3>2 DEF j
    <2> QED BY <2>2, <2>3
<1>5. Longer(m, r)
    BY <1>1, <1>2, <1>3, <1>4 DEF Longer
<1> QED BY <1>2, <1>3, <1>5 DEF r

\* The reader is at octet r of the packet, has been given g elements, and, in
\* SDES, is at chunk j.
AtPacket(pt, c, n, b, f) ==
    \/ rx.r = 0 /\ got = <<>>
    \/ rx.r = SdesAt(pt, c) /\ Len(got) = c + 1
    \/ rx.r = b[n] /\ Len(got) = f[n] - 1
    \/ rx.r = enc.write_ndx /\ Len(got) = Len(meant)

AtChunk(pt, c, n, b, f, j) ==
    /\ rx.r = SdesAt(pt, c) /\ j \in 1 .. n
    /\ rx.sd = b[j] /\ rx.count = n - j /\ Len(got) = f[j] - 1

AtItem(pt, c, n, b, f, j) ==
    /\ rx.r = SdesAt(pt, c) /\ j \in 1 .. n - 1
    /\ rx.sd = b[j] /\ rx.count = n - (j + 1)
    /\ \/ rx.rsp = b[j] + 4 /\ Len(got) = f[j]
       \/ /\ rx.rsp \in Nat /\ rx.rsp < b[j + 1] /\ enc.buf[rx.rsp] = Zero /\ b[j + 1] = NextWord(b[j], rx.rsp)
          /\ Len(got) = f[j + 1] - 1

ReaderAt(pt, c, n, b, f) ==
    /\ pc = "check" => got = <<>> /\ (rx.r = 0 \/ rx.r = SdesAt(pt, c) \/ (more /\ rx.r = b[n]))
    /\ pc = "packet" => AtPacket(pt, c, n, b, f)
    /\ pc = "read_chunk" => \E j : AtChunk(pt, c, n, b, f, j)
    /\ pc = "read_item" => \E j : AtItem(pt, c, n, b, f, j)

Pointers == \E r, sd, rsp, cnt : rx = [r |-> r, sd |-> sd, rsp |-> rsp, count |-> cnt]

Followup ==
    /\ Longer(meant, got) /\ Pointers
    /\ pc \notin Reading \cup {"over"} => got = <<>>
    /\ pc \in Reading => \E pt, c, n, b, f, k : Complete(pt, c, n, b, f, k) /\ ReaderAt(pt, c, n, b, f)

\* The packets of what was written, and where their lengths lead.
LEMMA Headers ==
    ASSUME Written, NEW pt, NEW c, NEW n, NEW b, NEW f, NEW k, Complete(pt, c, n, b, f, k)
    PROVE  /\ SdesWritten(enc.buf, meant, pt, c, n, b, f)
           /\ SdesAt(pt, c) \in Nat /\ SdesAt(pt, c) >= 8 /\ b[n] \in Nat /\ f[n] \in Nat
           /\ SdesAt(pt, c) + 4 <= b[n] /\ b[n] <= len /\ len \in Nat /\ len <= BUFFER_LEN
           /\ len % 4 = 0 /\ c \in Nat /\ n \in Nat \ {0} /\ k \in Nat /\ pt \in {"SR", "RR"}
           /\ Len(meant) = f[n] - 1 + k /\ c + 2 <= f[n]
           /\ Closed(enc.buf, 0, pt, c, SdesAt(pt, c))
           /\ Closed(enc.buf, SdesAt(pt, c), "SDES", n - 1, b[n])
           /\ more => /\ Closed(enc.buf, b[n], "BYE", k, len) /\ b[n] + 4 + 4 * k <= len
                      /\ Byes(enc.buf, meant, b[n], f[n], k)
           /\ ~more => b[n] = len /\ k = 0
<1>1. SdesWritten(enc.buf, meant, pt, c, n, b, f)
    BY DEF Complete, ByeDone, SdesDone
<1>2. /\ Blocks(enc.buf, meant, pt, c) /\ Chunks(enc.buf, meant, pt, c, n, b, f)
      /\ Closed(enc.buf, 0, pt, c, SdesAt(pt, c)) /\ Closed(enc.buf, SdesAt(pt, c), "SDES", n - 1, b[n])
    BY <1>1 DEF SdesWritten, ReportWritten
<1>3. pt \in {"SR", "RR"}
    BY <1>2 DEF Blocks
<1> DEFINE s == SdesAt(pt, c)  e == b[n]  i == f[n]
<1>4. /\ c \in Nat /\ s \in Nat /\ s >= 8 /\ n \in Nat \ {0} /\ e \in Nat /\ i \in Nat
      /\ s + 4 <= e /\ c + 2 <= i
    BY <1>2, ChunksValue
<1>5. e % 4 = 0
    BY <1>2, ChunksValue
<1>6. len \in Nat /\ len <= BUFFER_LEN /\ len = enc.write_ndx
    BY Room DEF len, rtcp_encoder_msg_len
<1>7. /\ k \in Nat /\ Len(meant) = i - 1 + k
      /\ more => /\ Closed(enc.buf, e, "BYE", k, len) /\ e + 4 + 4 * k <= len
                 /\ Byes(enc.buf, meant, e, i, k)
      /\ ~more => e = len /\ k = 0
    BY <1>4, <1>6 DEF Complete, ByeDone, SdesDone
<1> HIDE DEF s, e, i
<1>8. e <= len
    BY <1>4, <1>6, <1>7
<1>9. len % 4 = 0
    <2>1. CASE more
        <3>1. PICK l \in Nat : e + 4 * (l + 1) = len
            BY <1>7, <2>1 DEF Closed
        <3> HIDE DEF len
        <3> QED BY <1>4, <1>5, <3>1
    <2>2. CASE ~more
        BY <1>5, <1>7, <2>2
    <2> QED BY <2>1, <2>2
<1> QED BY <1>1, <1>2, <1>3, <1>4, <1>6, <1>7, <1>8, <1>9 DEF s, e, i

\* Inside the packet the reader finds what is in the buffer.
LEMMA CellIs ==
    ASSUME Written, NEW o \in Nat, o < len
    PROVE  Cell(o) = enc.buf[o]
<1>1. len \in Nat /\ len <= BUFFER_LEN /\ BUFFER_LEN \in Nat
    BY Room DEF len, rtcp_encoder_msg_len
<1>2. DOMAIN enc.buf = 0 .. BUFFER_LEN - 1
    BY SoundFields DEF Written, Inside, Octets
<1> QED BY <1>1, <1>2 DEF Cell

\* Where a packet was closed rtcp_rx finds its header.
LEMMA HeaderAt ==
    ASSUME Written, NEW o \in Nat, o < len, NEW pt, NEW n, NEW e, Closed(enc.buf, o, pt, n, e)
    PROVE  IsHeader(o) /\ Cell(o).pt = pt /\ Cell(o).count = n /\ Behind(o) = e
<1>1. Cell(o) = enc.buf[o]
    BY CellIs
<1>2. PICK l \in Nat : enc.buf[o] = Packet(pt, n, l) /\ o + 4 * (l + 1) = e
    BY DEF Closed
<1>3. Packet(pt, n, l).kind = "header" /\ Packet(pt, n, l).pt = pt /\ Packet(pt, n, l).count = n
      /\ Packet(pt, n, l).length = l
    BY DEF Packet
<1> QED BY <1>1, <1>2, <1>3 DEF IsHeader, Behind

\* The reader's pointers are set one at a time.
LEMMA PointersMove ==
    ASSUME Pointers
    PROVE  /\ \A v : rx' = [rx EXCEPT !.r = v] =>
                 Pointers' /\ rx'.r = v /\ rx'.sd = rx.sd /\ rx'.rsp = rx.rsp /\ rx'.count = rx.count
           /\ \A v, w : rx' = [rx EXCEPT !.sd = v, !.count = w] =>
                 Pointers' /\ rx'.r = rx.r /\ rx'.sd = v /\ rx'.count = w
           /\ \A v, w : rx' = [rx EXCEPT !.rsp = v, !.count = w] =>
                 Pointers' /\ rx'.r = rx.r /\ rx'.sd = rx.sd /\ rx'.rsp = v /\ rx'.count = w
           /\ \A v, w : rx' = [rx EXCEPT !.rsp = v, !.sd = w] =>
                 Pointers' /\ rx'.r = rx.r /\ rx'.sd = w /\ rx'.rsp = v /\ rx'.count = rx.count
           /\ \A v : rx' = [rx EXCEPT !.rsp = v] =>
                 Pointers' /\ rx'.r = rx.r /\ rx'.sd = rx.sd /\ rx'.rsp = v /\ rx'.count = rx.count
           /\ rx' = rx => Pointers'
<1>1. PICK r, sd, rsp, cnt : rx = [r |-> r, sd |-> sd, rsp |-> rsp, count |-> cnt]
    BY DEF Pointers
<1>2. rx.r = r /\ rx.sd = sd /\ rx.rsp = rsp /\ rx.count = cnt
    BY <1>1
<1>3. ASSUME NEW v, rx' = [rx EXCEPT !.r = v]
      PROVE  Pointers' /\ rx'.r = v /\ rx'.sd = rx.sd /\ rx'.rsp = rx.rsp /\ rx'.count = rx.count
    <2>1. rx' = [r |-> v, sd |-> sd, rsp |-> rsp, count |-> cnt]
        BY <1>1, <1>3
    <2> QED BY <1>2, <2>1 DEF Pointers
<1>4. ASSUME NEW v, NEW w, rx' = [rx EXCEPT !.sd = v, !.count = w]
      PROVE  Pointers' /\ rx'.r = rx.r /\ rx'.sd = v /\ rx'.rsp = rx.rsp /\ rx'.count = w
    <2>1. rx' = [r |-> r, sd |-> v, rsp |-> rsp, count |-> w]
        BY <1>1, <1>4
    <2> QED BY <1>2, <2>1 DEF Pointers
<1>5. ASSUME NEW v, NEW w, rx' = [rx EXCEPT !.rsp = v, !.count = w]
      PROVE  Pointers' /\ rx'.r = rx.r /\ rx'.sd = rx.sd /\ rx'.rsp = v /\ rx'.count = w
    <2>1. rx' = [r |-> r, sd |-> sd, rsp |-> v, count |-> w]
        BY <1>1, <1>5
    <2> QED BY <1>2, <2>1 DEF Pointers
<1>6. ASSUME NEW v, NEW w, rx' = [rx EXCEPT !.rsp = v, !.sd = w]
      PROVE  Pointers' /\ rx'.r = rx.r /\ rx'.sd = w /\ rx'.rsp = v /\ rx'.count = rx.count
    <2>1. rx' = [r |-> r, sd |-> w, rsp |-> v, count |-> cnt]
        BY <1>1, <1>6
    <2> QED BY <1>2, <2>1 DEF Pointers
<1>7. ASSUME NEW v, rx' = [rx EXCEPT !.rsp = v]
      PROVE  Pointers' /\ rx'.r = rx.r /\ rx'.sd = rx.sd /\ rx'.rsp = v /\ rx'.count = rx.count
    <2>1. rx' = [r |-> r, sd |-> sd, rsp |-> v, count |-> cnt]
        BY <1>1, <1>7
    <2> QED BY <1>2, <2>1 DEF Pointers
<1>8. rx' = rx => Pointers'
    BY DEF Pointers
<1> QED BY <1>3, <1>4, <1>5, <1>6, <1>7, <1>8, ZenonT(30)

\* A step of the reader leaves what was written alone.
LEMMA GoesOn ==
    ASSUME Written, UNCHANGED <<enc, meant, more>>, pc' \in Reading,
           NEW pt, NEW c, NEW n, NEW b, NEW f, NEW k, Complete(pt, c, n, b, f, k),
           ReaderAt(pt, c, n, b, f)', Longer(meant', got'), Pointers'
    PROVE  Written' /\ Layout' /\ Followup'
<1>1. Written' /\ Layout'
    BY DEF Written, Layout, Reading
<1>2. Complete(pt, c, n, b, f, k)'
    BY DEF Complete, ByeDone, SdesDone
<1>3. (\E q, d, p, g, h, j : Complete(q, d, p, g, h, j) /\ ReaderAt(q, d, p, g, h))'
    BY <1>2
<1> QED BY <1>1, <1>3 DEF Followup

\* rtcp_check_pkt accepts the first packet.
LEMMA CheckFirstStep ==
    ASSUME Written, Layout, Followup, CheckFirst
    PROVE  Written' /\ Layout' /\ Followup'
<1>1. pc = "send" /\ UNCHANGED <<enc, meant, more>>
    BY DEF CheckFirst, Reads
<1>2. PICK pt, c, n, b, f, k : Complete(pt, c, n, b, f, k)
    BY <1>1 DEF Layout
<1>3. /\ SdesAt(pt, c) \in Nat /\ SdesAt(pt, c) >= 8 /\ b[n] \in Nat
      /\ SdesAt(pt, c) + 4 <= b[n] /\ b[n] <= len /\ len \in Nat
      /\ len % 4 = 0 /\ pt \in {"SR", "RR"}
      /\ Closed(enc.buf, 0, pt, c, SdesAt(pt, c))
    BY <1>2, Headers
<1>4. 0 < len /\ len >= HEADER_SIZE
    BY <1>3 DEF HEADER_SIZE
<1>5. IsHeader(0) /\ Cell(0).pt = pt
    BY <1>3, <1>4, HeaderAt
<1>6. pc' = "check" /\ rx' = [rx EXCEPT !.r = 0] /\ got' = got
    BY <1>3, <1>4, <1>5 DEF CheckFirst
<1>7. got = <<>> /\ Longer(meant, got) /\ Pointers
    BY <1>1 DEF Followup, Reading
<1>8. rx'.r = 0 /\ Pointers'
    BY <1>6, <1>7, PointersMove
<1>9. ReaderAt(pt, c, n, b, f)'
    BY <1>6, <1>7, <1>8 DEF ReaderAt
<1>10. Longer(meant', got') /\ pc' \in Reading
    BY <1>1, <1>6, <1>7 DEF Reading
<1> QED BY <1>1, <1>2, <1>8, <1>9, <1>10, GoesOn

\* rtcp_check_pkt goes from packet to packet, and its sum of lengths is len.
LEMMA CheckNextStep ==
    ASSUME Written, Layout, Followup, CheckNext
    PROVE  Written' /\ Layout' /\ Followup'
<1>1. pc = "check" /\ UNCHANGED <<enc, meant, more>>
    BY DEF CheckNext, Reads
<1>2. PICK pt, c, n, b, f, k : Complete(pt, c, n, b, f, k) /\ ReaderAt(pt, c, n, b, f)
    BY <1>1 DEF Followup, Reading
<1> DEFINE s == SdesAt(pt, c)  e == b[n]  r == Behind(rx.r)
<1>3. /\ s \in Nat /\ s >= 8 /\ e \in Nat /\ s + 4 <= e /\ e <= len /\ len \in Nat
      /\ Closed(enc.buf, 0, pt, c, s) /\ Closed(enc.buf, s, "SDES", n - 1, e) /\ k \in Nat
      /\ more => Closed(enc.buf, e, "BYE", k, len) /\ e + 4 + 4 * k <= len
      /\ ~more => e = len
    BY <1>2, Headers
<1>4. got = <<>> /\ (rx.r = 0 \/ rx.r = s \/ (more /\ rx.r = e)) /\ Longer(meant, got) /\ Pointers
    BY <1>1, <1>2 DEF ReaderAt, Followup
<1>5. /\ r < len /\ IsHeader(r) => rx' = [rx EXCEPT !.r = r] /\ pc' = pc /\ got' = got
      /\ r = len => rx' = [rx EXCEPT !.r = 0] /\ pc' = "packet" /\ got' = got
    <2>1. len \in Int
        BY <1>3
    <2> HIDE DEF len, r
    <2>2. IF r < len /\ IsHeader(r) THEN rx' = [rx EXCEPT !.r = r] /\ UNCHANGED <<pc, got>>
          ELSE IF r = len THEN rx' = [rx EXCEPT !.r = 0] /\ pc' = "packet" /\ UNCHANGED got
          ELSE ReaderLost
        BY DEF CheckNext, r
    <2> QED BY <2>1, <2>2
<1>6. (r = s \/ r = e \/ r = len) /\ (r = e => e < len \/ e = len) /\ (r = e /\ e < len => more) /\ (r = len \/ r < len)
    <2>1. CASE rx.r = 0
        <3>1. 0 \in Nat /\ 0 < len
            BY <1>3
        <3>2. Behind(0) = s
            BY <1>3, <3>1, HeaderAt
        <3> QED BY <1>3, <2>1, <3>2
    <2>2. CASE rx.r = s
        <3>1. s < len
            BY <1>3
        <3>2. Behind(s) = e
            BY <1>3, <3>1, HeaderAt
        <3> QED BY <1>3, <2>2, <3>2
    <2>3. CASE more /\ rx.r = e
        <3>1. e < len
            BY <1>3, <2>3
        <3>2. Behind(e) = len
            BY <1>3, <2>3, <3>1, HeaderAt
        <3> QED BY <1>3, <2>3, <3>2
    <2> QED BY <1>4, <2>1, <2>2, <2>3
<1> HIDE DEF s, e, r
<1>7. r < len => IsHeader(r)
    <2>1. s < len /\ IsHeader(s)
        <3>1. s < len
            BY <1>3
        <3> QED BY <1>3, <3>1, HeaderAt
    <2>2. r = e /\ e < len => IsHeader(e)
        BY <1>3, <1>6, HeaderAt
    <2> QED BY <1>3, <1>6, <2>1, <2>2
<1>8. CASE r = len
    <2>1. rx' = [rx EXCEPT !.r = 0] /\ pc' = "packet" /\ got' = got
        BY <1>5, <1>8
    <2>2. rx'.r = 0 /\ Pointers'
        BY <1>4, <2>1, PointersMove
    <2>3. ReaderAt(pt, c, n, b, f)'
        BY <1>4, <2>1, <2>2 DEF ReaderAt, AtPacket
    <2>4. Longer(meant', got') /\ pc' \in Reading
        BY <1>1, <1>4, <2>1 DEF Reading
    <2> QED BY <1>1, <1>2, <2>2, <2>3, <2>4, GoesOn
<1>9. CASE r < len
    <2>1. rx' = [rx EXCEPT !.r = r] /\ pc' = pc /\ got' = got
        BY <1>5, <1>7, <1>9
    <2>2. rx'.r = r /\ Pointers'
        BY <1>4, <2>1, PointersMove
    <2>3. r = s \/ (more' /\ r = e)
        BY <1>1, <1>3, <1>6, <1>9
    <2>4. ReaderAt(pt, c, n, b, f)'
        BY <1>1, <1>4, <2>1, <2>2, <2>3 DEF ReaderAt, s, e
    <2>5. Longer(meant', got') /\ pc' \in Reading
        BY <1>1, <1>4, <2>1 DEF Reading
    <2> QED BY <1>1, <1>2, <2>2, <2>4, <2>5, GoesOn
<1> QED BY <1>6, <1>8, <1>9

\* The packet that rtcp_rx is about to hand over.
LEMMA WhichPacket ==
    ASSUME Written, NEW pt, NEW c, NEW n, NEW b, NEW f, NEW k, Complete(pt, c, n, b, f, k),
           AtPacket(pt, c, n, b, f), rx.r < len
    PROVE  \/ /\ rx.r = 0 /\ got = <<>>
              /\ Cell(rx.r).pt = pt /\ Cell(rx.r).count = c /\ Behind(rx.r) = SdesAt(pt, c)
           \/ /\ rx.r = SdesAt(pt, c) /\ Len(got) = c + 1
              /\ Cell(rx.r).pt = "SDES" /\ Cell(rx.r).count = n - 1 /\ Behind(rx.r) = b[n]
           \/ /\ more /\ rx.r = b[n] /\ Len(got) = f[n] - 1
              /\ Cell(rx.r).pt = "BYE" /\ Cell(rx.r).count = k /\ Behind(rx.r) = len
<1> DEFINE s == SdesAt(pt, c)  e == b[n]
<1>1. /\ s \in Nat /\ s >= 8 /\ e \in Nat /\ s + 4 <= e /\ e <= len /\ len \in Nat
      /\ Closed(enc.buf, 0, pt, c, s) /\ Closed(enc.buf, s, "SDES", n - 1, e) /\ k \in Nat
      /\ more => Closed(enc.buf, e, "BYE", k, len) /\ e + 4 + 4 * k <= len
      /\ ~more => e = len
    BY Headers
<1>2. len = enc.write_ndx
    BY DEF len, rtcp_encoder_msg_len
<1> HIDE DEF s, e
<1>3. CASE rx.r = 0 /\ got = <<>>
    <2>1. 0 \in Nat /\ 0 < len
        BY <1>1
    <2>2. Cell(0).pt = pt /\ Cell(0).count = c /\ Behind(0) = s
        BY <1>1, <2>1, HeaderAt
    <2> QED BY <1>3, <2>2 DEF s
<1>4. CASE rx.r = s /\ Len(got) = c + 1
    <2>1. s < len
        BY <1>1
    <2>2. Cell(s).pt = "SDES" /\ Cell(s).count = n - 1 /\ Behind(s) = e
        BY <1>1, <2>1, HeaderAt
    <2> QED BY <1>4, <2>2 DEF s, e
<1>5. CASE rx.r = e /\ Len(got) = f[n] - 1
    <2>1. more /\ e < len
        BY <1>1, <1>5
    <2>2. Cell(e).pt = "BYE" /\ Cell(e).count = k /\ Behind(e) = len
        BY <1>1, <2>1, HeaderAt
    <2> QED BY <1>5, <2>1, <2>2 DEF e
<1>6. rx.r # enc.write_ndx
    BY <1>1, <1>2
<1> QED BY <1>3, <1>4, <1>5, <1>6 DEF AtPacket, s, e

\* rtcp_handle_sr and rtcp_handle_rr give every block of the report.
LEMMA ReportStep ==
    ASSUME Written, Layout, Followup, Reads("packet"), rx.r < len,
           NEW q \in {"SR", "RR"}, Cell(rx.r).pt = q, rtcp_handle_report(Base(q))
    PROVE  Written' /\ Layout' /\ Followup'
<1>1. pc = "packet" /\ UNCHANGED <<enc, meant, more>>
    BY DEF Reads
<1>2. PICK pt, c, n, b, f, k : Complete(pt, c, n, b, f, k) /\ ReaderAt(pt, c, n, b, f)
    BY <1>1 DEF Followup, Reading
<1>3. AtPacket(pt, c, n, b, f) /\ Longer(meant, got) /\ Pointers
    BY <1>1, <1>2 DEF ReaderAt, Followup
<1> DEFINE s == SdesAt(pt, c)
<1>4. rx.r = 0 /\ got = <<>> /\ pt = q /\ Cell(rx.r).count = c /\ Behind(rx.r) = s
    BY <1>2, <1>3, WhichPacket
<1>5. /\ SdesWritten(enc.buf, meant, pt, c, n, b, f) /\ s \in Nat /\ s >= 8 /\ b[n] \in Nat
      /\ s + 4 <= b[n] /\ b[n] <= len /\ len \in Nat /\ c \in Nat /\ meant \in Seq(Item)
    BY <1>2, Headers DEF Written
<1>6. /\ Len(meant) >= c + 1 /\ enc.buf[4] = Word(Self) /\ meant[1] = <<pt, Self>>
      /\ \A i \in 1 .. c : \E x \in Blk :
            meant[i + 1] = <<"block", x>> /\ enc.buf[Base(pt) + 24 * (i - 1)] = Block(x)
    BY <1>5 DEF SdesWritten, ReportWritten, Blocks
<1> DEFINE from == Cell(rx.r + HEADER_SIZE)
           rr   == Elements(Base(q), BLOCK_SIZE)
           h    == [i \in DOMAIN rr |-> <<"block", rr[i].block>>]
           y    == <<q, Self>>
<1>7. from = Word(Self)
    <2>1. 4 \in Nat /\ 4 < len /\ rx.r + HEADER_SIZE = 4
        BY <1>4, <1>5 DEF HEADER_SIZE
    <2> QED BY <1>6, <2>1, CellIs
<1>8. DOMAIN rr = 1 .. c /\ \A i \in 1 .. c : rr[i] = Cell(Base(q) + 24 * (i - 1))
    <2>1. ASSUME NEW i \in 1 .. c PROVE rx.r + Base(q) + BLOCK_SIZE * (i - 1) = Base(q) + 24 * (i - 1)
        BY <1>4, <1>5, BaseValue DEF BLOCK_SIZE
    <2> QED BY <1>4, <2>1 DEF Elements
<1> HIDE DEF from, rr, s
<1>9. ASSUME NEW i \in 1 .. c
      PROVE  rr[i].kind = "block" /\ <<"block", rr[i].block>> = meant[1 + i] /\ meant[1 + i] \in Item
    <2>1. PICK x \in Blk : meant[i + 1] = <<"block", x>> /\ enc.buf[Base(pt) + 24 * (i - 1)] = Block(x)
        BY <1>6
    <2> DEFINE o == Base(q) + 24 * (i - 1)
    <2>2. o \in Nat /\ o < len /\ 1 + i = i + 1 /\ i + 1 \in 1 .. Len(meant)
        <3>1. s = Base(q) + 24 * c /\ Base(q) \in Nat
            BY <1>4, BaseValue DEF SdesAt, s
        <3>2. s \in Nat /\ s < len /\ len \in Nat /\ c \in Nat /\ Len(meant) \in Nat
            BY <1>5
        <3>3. Len(meant) >= c + 1
            BY <1>6
        <3> HIDE DEF len
        <3> QED BY <3>1, <3>2, <3>3
    <2>3. enc.buf[o] = Block(x)
        BY <1>4, <2>1
    <2>4. rr[i] = Cell(o)
        BY <1>8
    <2> HIDE DEF o
    <2>5. rr[i] = Block(x)
        BY <2>2, <2>3, <2>4, CellIs
    <2>6. meant[i + 1] \in Item
        BY <1>5, <2>2
    <2> QED BY <2>1, <2>2, <2>5, <2>6 DEF Block
<1>10. rtcp_handle_report(Base(q)) =
         IF from.kind = "word" /\ \A i \in DOMAIN rr : rr[i].kind = "block"
         THEN got' = got \o <<<<Cell(rx.r).pt, from.ssrc>>>> \o h /\ NextPacket
         ELSE ReaderLost
    BY DEF rtcp_handle_report, from, rr
<1>11. from.kind = "word" /\ from.ssrc = Self
    BY <1>7 DEF Word
<1>12. got' = got \o <<y>> \o h /\ NextPacket
    BY <1>8, <1>9, <1>10, <1>11
<1>13. meant[1] = y /\ y \in Item
    BY <1>4, <1>6 DEF Item, Id
<1>14. h \in [1 .. c -> Item] /\ Tells(h, meant, 1, c)
    BY <1>8, <1>9 DEF Tells
<1> HIDE DEF h, y
<1>15. Longer(meant, got') /\ Len(got') = c + 1
    <2> DEFINE g == got \o <<y>>
    <2>1. g = Append(got, y) /\ Len(got) = 0
        BY <1>4, <1>13
    <2>2. Longer(meant, g) /\ Len(g) = 1
        <3>1. Len(got) < Len(meant) /\ meant[Len(got) + 1] = y
            BY <1>5, <1>6, <1>13, <2>1
        <3>2. Longer(meant, Append(got, y)) /\ Len(Append(got, y)) = Len(got) + 1
            BY <1>3, <3>1, FollowsOne
        <3> QED BY <2>1, <3>2
    <2> HIDE DEF g
    <2>3. Len(g) + c <= Len(meant) /\ Tells(h, meant, Len(g), c)
        BY <1>5, <1>6, <1>14, <2>2
    <2>4. Longer(meant, g \o h) /\ Len(g \o h) = Len(g) + c
        BY <1>5, <1>14, <2>2, <2>3, FollowsMany, ZenonT(30)
    <2> QED BY <1>5, <1>12, <2>2, <2>4 DEF g
<1>16. rx' = [rx EXCEPT !.r = s] /\ pc' = "packet"
    BY <1>4, <1>12 DEF NextPacket
<1>17. rx'.r = s /\ Pointers'
    BY <1>3, <1>16, PointersMove
<1>18. ReaderAt(pt, c, n, b, f)'
    BY <1>15, <1>16, <1>17 DEF ReaderAt, AtPacket, s
<1>19. Longer(meant', got') /\ pc' \in Reading
    BY <1>1, <1>15, <1>16 DEF Reading
<1> QED BY <1>1, <1>2, <1>17, <1>18, <1>19, GoesOn

\* rtcp_handle_bye gives every source of BYE.
LEMMA ByeStep ==
    ASSUME Written, Layout, Followup, rtcp_handle_bye
    PROVE  Written' /\ Layout' /\ Followup'
<1>1. pc = "packet" /\ UNCHANGED <<enc, meant, more>> /\ rx.r < len /\ Cell(rx.r).pt = "BYE"
    BY DEF Reads, rtcp_handle_bye
<1>2. PICK pt, c, n, b, f, k : Complete(pt, c, n, b, f, k) /\ ReaderAt(pt, c, n, b, f)
    BY <1>1 DEF Followup, Reading
<1>3. AtPacket(pt, c, n, b, f) /\ Longer(meant, got) /\ Pointers
    BY <1>1, <1>2 DEF ReaderAt, Followup
<1> DEFINE e == b[n]  i == f[n]
<1>4. /\ e \in Nat /\ len \in Nat /\ i \in Nat /\ c \in Nat /\ c + 2 <= i /\ k \in Nat /\ meant \in Seq(Item)
      /\ pt \in {"SR", "RR"} /\ Len(meant) = i - 1 + k
    BY <1>2, Headers DEF Written
<1>5. more /\ rx.r = e /\ Len(got) = i - 1 /\ Cell(rx.r).count = k /\ Behind(rx.r) = len
    BY <1>1, <1>2, <1>3, <1>4, WhichPacket
<1>6. e + 4 + 4 * k <= len /\ Byes(enc.buf, meant, e, i, k)
    BY <1>2, <1>5, Headers
<1> DEFINE src == Elements(HEADER_SIZE, 4)
           h   == [j \in DOMAIN src |-> <<"BYE", src[j].ssrc>>]
<1>7. DOMAIN src = 1 .. k /\ \A j \in 1 .. k : src[j] = Cell(e + 4 * j)
    <2> HIDE DEF e
    <2>1. ASSUME NEW j \in 1 .. k PROVE rx.r + HEADER_SIZE + 4 * (j - 1) = e + 4 * j
        BY <1>4, <1>5 DEF HEADER_SIZE
    <2> QED BY <1>5, <2>1 DEF Elements
<1> HIDE DEF src, e, i
<1>8. ASSUME NEW j \in 1 .. k
      PROVE  /\ src[j].kind = "word" /\ <<"BYE", src[j].ssrc>> = meant[Len(got) + j]
             /\ meant[Len(got) + j] \in Item
    <2>1. PICK t \in Peer : meant[i + j - 1] = <<"BYE", t>> /\ enc.buf[e + 4 * j] = Word(t)
        BY <1>6 DEF Byes
    <2>2. i + j - 1 = Len(got) + j /\ Len(got) + j \in 1 .. Len(meant)
        BY <1>4, <1>5
    <2> DEFINE o == e + 4 * j
    <2>3. o \in Nat /\ o < len
        BY <1>4, <1>6
    <2>4. src[j] = Cell(o) /\ enc.buf[o] = Word(t)
        BY <1>7, <2>1
    <2> HIDE DEF o
    <2>5. src[j] = Word(t)
        BY <2>3, <2>4, CellIs
    <2>6. meant[Len(got) + j] \in Item
        BY <1>4, <2>2
    <2> QED BY <2>1, <2>2, <2>5, <2>6 DEF Word
<1>9. IF \A j \in DOMAIN src : src[j].kind = "word"
      THEN got' = got \o h /\ NextPacket ELSE ReaderLost
    BY DEF rtcp_handle_bye, src
<1>10. got' = got \o h /\ NextPacket
    BY <1>7, <1>8, <1>9
<1>11. h \in [1 .. k -> Item] /\ Tells(h, meant, Len(got), k)
    BY <1>7, <1>8 DEF Tells
<1> HIDE DEF h
<1>12. Longer(meant, got') /\ Len(got') = Len(meant)
    <2>1. Len(got) + k = Len(meant) /\ Len(got) + k <= Len(meant)
        BY <1>4, <1>5
    <2>2. Longer(meant, got \o h) /\ Len(got \o h) = Len(got) + k
        BY <1>3, <1>4, <1>11, <2>1, FollowsMany
    <2> QED BY <1>10, <2>1, <2>2
<1>13. rx' = [rx EXCEPT !.r = len] /\ pc' = "packet"
    BY <1>5, <1>10 DEF NextPacket
<1>14. rx'.r = len /\ Pointers' /\ len = enc'.write_ndx
    BY <1>1, <1>3, <1>13, PointersMove DEF len, rtcp_encoder_msg_len
<1>15. ReaderAt(pt, c, n, b, f)'
    <2> HIDE DEF len
    <2> QED BY <1>1, <1>12, <1>13, <1>14 DEF ReaderAt, AtPacket
<1>16. Longer(meant', got') /\ pc' \in Reading
    BY <1>1, <1>12, <1>13 DEF Reading
<1> QED BY <1>1, <1>2, <1>14, <1>15, <1>16, GoesOn

\* rtcp_handle_sdes comes to the first chunk.
LEMMA SdesStep ==
    ASSUME Written, Layout, Followup, rtcp_handle_sdes
    PROVE  Written' /\ Layout' /\ Followup'
<1>1. /\ pc = "packet" /\ UNCHANGED <<enc, meant, more>> /\ rx.r < len /\ Cell(rx.r).pt = "SDES"
      /\ rx' = [rx EXCEPT !.sd = rx.r + HEADER_SIZE, !.count = Cell(rx.r).count]
      /\ pc' = "read_chunk" /\ got' = got
    BY DEF Reads, rtcp_handle_sdes
<1>2. PICK pt, c, n, b, f, k : Complete(pt, c, n, b, f, k) /\ ReaderAt(pt, c, n, b, f)
    BY <1>1 DEF Followup, Reading
<1>3. AtPacket(pt, c, n, b, f) /\ Longer(meant, got) /\ Pointers
    BY <1>1, <1>2 DEF ReaderAt, Followup
<1> DEFINE s == SdesAt(pt, c)
<1>4. /\ SdesWritten(enc.buf, meant, pt, c, n, b, f) /\ s \in Nat /\ c \in Nat /\ n \in Nat \ {0}
      /\ pt \in {"SR", "RR"}
    BY <1>2, Headers
<1>5. rx.r = s /\ Len(got) = c + 1 /\ Cell(rx.r).count = n - 1
    BY <1>1, <1>2, <1>3, <1>4, WhichPacket
<1>6. b[1] = s + 4 /\ f[1] = c + 2
    BY <1>4 DEF SdesWritten, Chunks
<1>7. Pointers' /\ rx'.r = s /\ rx'.sd = b[1] /\ rx'.count = n - 1
    <2> DEFINE v == rx.r + HEADER_SIZE  w == Cell(rx.r).count
    <2>1. rx' = [rx EXCEPT !.sd = v, !.count = w]
        BY <1>1
    <2>2. v = b[1] /\ w = n - 1
        BY <1>5, <1>6 DEF HEADER_SIZE
    <2> HIDE DEF v, w
    <2>3. Pointers' /\ rx'.r = rx.r /\ rx'.sd = v /\ rx'.count = w
        BY <1>3, <2>1, PointersMove
    <2> QED BY <1>5, <2>2, <2>3
<1>8. AtChunk(pt, c, n, b, f, 1)'
    <2>1. 1 \in 1 .. n /\ Len(got') = f[1] - 1
        BY <1>1, <1>4, <1>5, <1>6
    <2> QED BY <1>7, <2>1 DEF AtChunk
<1>9. (\E j : AtChunk(pt, c, n, b, f, j))'
    BY <1>8
<1>10. ReaderAt(pt, c, n, b, f)'
    BY <1>1, <1>9 DEF ReaderAt
<1>11. Longer(meant', got') /\ pc' \in Reading
    BY <1>1, <1>3 DEF Reading
<1> QED BY <1>1, <1>2, <1>7, <1>10, <1>11, GoesOn

\* The end of SDES that rtcp_handle_sdes computes is not before its real end.
LEMMA EndBehind ==
    ASSUME Written, NEW pt, NEW c, NEW n, NEW b, NEW f, NEW k, Complete(pt, c, n, b, f, k),
           rx.r = SdesAt(pt, c)
    PROVE  end \in Nat /\ b[n] <= end /\ Behind(rx.r) = b[n]
<1> DEFINE s == SdesAt(pt, c)  e == b[n]
<1>1. /\ s \in Nat /\ s >= 8 /\ e \in Nat /\ s + 4 <= e /\ e <= len /\ len \in Nat /\ len <= BUFFER_LEN
      /\ Closed(enc.buf, s, "SDES", n - 1, e)
    BY Headers
<1> HIDE DEF s, e
<1>2. s < len
    BY <1>1
<1>3. Behind(s) = e
    BY <1>1, <1>2, HeaderAt
<1>4. PICK l \in Nat : enc.buf[s] = Packet("SDES", n - 1, l) /\ s + 4 * (l + 1) = e
    BY <1>1 DEF Closed
<1>5. Cell(s).length = l
    <2>1. Cell(s) = enc.buf[s]
        BY <1>1, <1>2, CellIs
    <2> QED BY <1>4, <2>1 DEF Packet
<1>6. BUFFER_LEN \in Nat /\ BUFFER_LEN <= 1024
    BY EncoderConstants
<1>7. l < 256
    BY <1>1, <1>4, <1>6
<1>8. Swapped(l) = 256 * l
    <2>1. l % 256 = l /\ l \div 256 = 0
        BY <1>7
    <2> QED BY <2>1 DEF Swapped
<1>9. end = s + 4 * (256 * l + 1)
    BY <1>5, <1>8 DEF end, s
<1>10. end \in Nat /\ e <= end
    <2> HIDE DEF end
    <2> QED BY <1>1, <1>4, <1>9
<1> QED BY <1>3, <1>10 DEF s, e

\* A complete chunk, as numbers.
LEMMA ChunkAt ==
    ASSUME Written, NEW pt, NEW c, NEW n, NEW b, NEW f, NEW k, Complete(pt, c, n, b, f, k),
           NEW j \in 1 .. n - 1
    PROVE  /\ b[j] \in Nat /\ b[j + 1] \in Nat /\ b[j + 1] <= b[n] /\ b[j + 1] <= len
           /\ f[j] \in Nat /\ f[j] >= 1 /\ f[j + 1] \in Nat /\ f[j + 1] <= Len(meant) + 1
           /\ Chunk(enc.buf, meant, b[j], f[j], b[j + 1], f[j + 1])
           /\ j \in Nat /\ j + 1 \in 1 .. n /\ n \in Nat
<1>1. /\ SdesWritten(enc.buf, meant, pt, c, n, b, f) /\ n \in Nat \ {0} /\ c \in Nat /\ b[n] \in Nat
      /\ b[n] <= len /\ len \in Nat
    BY Headers
<1>2. /\ b \in [1 .. n -> Nat] /\ f \in [1 .. n -> Nat] /\ f[1] = c + 2 /\ f[n] <= Len(meant) + 1
      /\ \A i \in 1 .. n : b[1] <= b[i] /\ b[i] <= b[n] /\ f[1] <= f[i] /\ f[i] <= f[n]
      /\ Chunk(enc.buf, meant, b[j], f[j], b[j + 1], f[j + 1])
    BY <1>1 DEF SdesWritten, Chunks
<1>3. j \in 1 .. n /\ j + 1 \in 1 .. n /\ n \in 1 .. n /\ Len(meant) \in Nat
    BY <1>1, Room
<1> QED BY <1>1, <1>2, <1>3, SMTT(30)

\* rtcp_handle_sdes gives the chunk it is at, or ends behind the last.
LEMMA ReadChunkStep ==
    ASSUME Written, Layout, Followup, ReadChunk
    PROVE  Written' /\ Layout' /\ Followup'
<1>1. pc = "read_chunk" /\ UNCHANGED <<enc, meant, more>>
    BY DEF Reads, ReadChunk
<1>2. PICK pt, c, n, b, f, k : Complete(pt, c, n, b, f, k) /\ ReaderAt(pt, c, n, b, f)
    BY <1>1 DEF Followup, Reading
<1>3. (\E j : AtChunk(pt, c, n, b, f, j)) /\ Longer(meant, got) /\ Pointers
    BY <1>1, <1>2 DEF ReaderAt, Followup
<1>4. PICK j : AtChunk(pt, c, n, b, f, j)
    BY <1>3
<1>5. /\ rx.r = SdesAt(pt, c) /\ j \in 1 .. n
      /\ rx.sd = b[j] /\ rx.count = n - j /\ Len(got) = f[j] - 1
    BY <1>4 DEF AtChunk
<1>6. n \in Nat \ {0} /\ b[n] \in Nat
    BY <1>2, Headers
<1>7. end \in Nat /\ b[n] <= end /\ Behind(rx.r) = b[n]
    BY <1>2, <1>5, EndBehind
<1>8. CASE j = n
    <2>1. NextPacket /\ got' = got
        BY <1>5, <1>6, <1>8 DEF ReadChunk
    <2>2. rx' = [rx EXCEPT !.r = b[n]] /\ pc' = "packet"
        BY <1>7, <2>1 DEF NextPacket
    <2>3. rx'.r = b[n] /\ Pointers'
        BY <1>3, <2>2, PointersMove
    <2>4. ReaderAt(pt, c, n, b, f)'
        BY <1>5, <1>8, <2>1, <2>2, <2>3 DEF ReaderAt, AtPacket
    <2>5. Longer(meant', got') /\ pc' \in Reading
        BY <1>1, <1>3, <2>1, <2>2 DEF Reading
    <2> QED BY <1>1, <1>2, <2>3, <2>4, <2>5, GoesOn
<1>9. CASE j # n
    <2> DEFINE o == b[j]  e == b[j + 1]  i == f[j]  m == f[j + 1]
    <2>1. j \in 1 .. n - 1
        BY <1>5, <1>6, <1>9
    <2>2. /\ o \in Nat /\ e \in Nat /\ e <= b[n] /\ e <= len /\ i \in Nat /\ i >= 1 /\ m \in Nat
          /\ m <= Len(meant) + 1 /\ Chunk(enc.buf, meant, o, i, e, m) /\ j \in Nat
        BY <1>2, <2>1, ChunkAt
    <2>3. Len(meant) \in Nat /\ len \in Nat
        BY <1>2, Room, Headers
    <2> HIDE DEF o, e, i, m
    <2>4. o + 8 <= e /\ i < m
        <3>1. PICK z \in Nat : Named(enc.buf, meant, o, i, z, m) /\ e = NextWord(o, z)
            BY <2>2 DEF Chunk
        <3> QED BY <2>2, <3>1, ChunkSize
    <2>5. PICK ssrc \in Id : meant[i] = <<"chunk", ssrc>> /\ enc.buf[o] = Word(ssrc)
        BY <2>2 DEF Chunk, Begun
    <2>6. Cell(o) = Word(ssrc)
        <3>1. o < len
            BY <2>2, <2>3, <2>4
        <3> QED BY <2>2, <2>5, <3>1, CellIs
    <2>7. rx.sd = o /\ rx.count # 0 /\ ~(rx.sd + 4 >= end) /\ Len(got) = i - 1
        <3>1. rx.sd = o /\ Len(got) = i - 1
            BY <1>5 DEF o, i
        <3>2. rx.count # 0
            BY <1>5, <1>6, <1>9
        <3>3. ~(o + 4 >= end)
            <4> HIDE DEF end
            <4> QED BY <1>6, <1>7, <2>2, <2>4
        <3> QED BY <3>1, <3>2, <3>3
    <2> DEFINE x == <<"chunk", ssrc>>
    <2>8. /\ rx' = [rx EXCEPT !.rsp = o + 4, !.count = rx.count - 1]
          /\ pc' = "read_item" /\ got' = Append(got, x)
        <3>1. Cell(rx.sd).kind = "word" /\ Cell(rx.sd).ssrc = ssrc
            BY <2>6, <2>7 DEF Word
        <3> HIDE DEF end
        <3> QED BY <2>7, <3>1 DEF ReadChunk
    <2> HIDE DEF x
    <2>9. Longer(meant, got') /\ Len(got') = i
        <3>1. Len(got) < Len(meant) /\ Len(got) + 1 = i
            BY <2>2, <2>3, <2>4, <2>7
        <3>2. meant[Len(got) + 1] = x
            BY <2>5, <3>1 DEF x
        <3>3. Longer(meant, Append(got, x)) /\ Len(Append(got, x)) = Len(got) + 1
            BY <1>3, <3>1, <3>2, FollowsOne
        <3> QED BY <2>8, <3>1, <3>3
    <2>10. /\ Pointers' /\ rx'.r = rx.r /\ rx'.sd = rx.sd /\ rx'.rsp = o + 4
           /\ rx'.count = rx.count - 1
        <3> DEFINE v == o + 4  w == rx.count - 1
        <3>1. rx' = [rx EXCEPT !.rsp = v, !.count = w]
            BY <2>8
        <3> HIDE DEF v, w
        <3>2. Pointers' /\ rx'.r = rx.r /\ rx'.sd = rx.sd /\ rx'.rsp = v /\ rx'.count = w
            BY <1>3, <3>1, PointersMove
        <3> QED BY <3>2 DEF v, w
    <2>11. rx.count - 1 = n - (j + 1)
        BY <1>5, <1>6, <2>2
    <2>12. AtItem(pt, c, n, b, f, j)'
        BY <1>5, <2>1, <2>9, <2>10, <2>11 DEF AtItem, o, i
    <2>13. (\E d : AtItem(pt, c, n, b, f, d))'
        BY <2>12
    <2>14. ReaderAt(pt, c, n, b, f)'
        BY <2>8, <2>13 DEF ReaderAt
    <2>15. Longer(meant', got') /\ pc' \in Reading
        BY <1>1, <2>8, <2>9 DEF Reading
    <2> QED BY <1>1, <1>2, <2>10, <2>14, <2>15, GoesOn
<1> QED BY <1>8, <1>9

\* The null octet is reached: the next chunk begins at the next word.
LEMMA ChunkReadStep ==
    ASSUME Written, Followup, UNCHANGED <<enc, meant, more>>,
           NEW pt, NEW c, NEW n, NEW b, NEW f, NEW k, Complete(pt, c, n, b, f, k),
           NEW j \in 1 .. n - 1, rx.r = SdesAt(pt, c), rx.sd = b[j], rx.count = n - (j + 1),
           b[j + 1] = NextWord(b[j], rx.rsp), Len(got) = f[j + 1] - 1,
           ChunkRead(rx.rsp), got' = got
    PROVE  Written' /\ Layout' /\ Followup'
<1>1. j + 1 \in 1 .. n /\ n \in Nat /\ j \in Nat
    BY ChunkAt
<1>2. rx' = [rx EXCEPT !.rsp = rx.rsp, !.sd = b[j + 1]] /\ pc' = "read_chunk"
    BY DEF ChunkRead, NextWord
<1>3. Longer(meant, got) /\ Pointers
    BY DEF Followup
<1> DEFINE v == rx.rsp  w == b[j + 1]  p == j + 1
<1>4. rx' = [rx EXCEPT !.rsp = v, !.sd = w]
    BY <1>2
<1> HIDE DEF v, w
<1>5. Pointers' /\ rx'.r = rx.r /\ rx'.sd = w /\ rx'.count = rx.count
    BY <1>3, <1>4, PointersMove
<1>6. p \in 1 .. n /\ rx.count = n - p /\ Len(got) = f[p] - 1 /\ w = b[p]
    BY <1>1 DEF w
<1> HIDE DEF p
<1>7. AtChunk(pt, c, n, b, f, p)'
    BY <1>5, <1>6 DEF AtChunk
<1>8. (\E i : AtChunk(pt, c, n, b, f, i))'
    BY <1>7
<1>9. ReaderAt(pt, c, n, b, f)'
    BY <1>2, <1>8 DEF ReaderAt
<1>10. Longer(meant', got') /\ pc' \in Reading
    BY <1>2, <1>3 DEF Reading
<1> QED BY <1>5, <1>9, <1>10, GoesOn

\* rtcp_handle_sdes gives the name of the chunk, or goes to the next one.
LEMMA ReadItemStep ==
    ASSUME Written, Layout, Followup, ReadItem
    PROVE  Written' /\ Layout' /\ Followup'
<1>1. pc = "read_item" /\ UNCHANGED <<enc, meant, more>>
    BY DEF Reads, ReadItem
<1>2. PICK pt, c, n, b, f, k : Complete(pt, c, n, b, f, k) /\ ReaderAt(pt, c, n, b, f)
    BY <1>1 DEF Followup, Reading
<1>3. (\E j : AtItem(pt, c, n, b, f, j)) /\ Longer(meant, got) /\ Pointers
    BY <1>1, <1>2 DEF ReaderAt, Followup
<1>4. PICK j : AtItem(pt, c, n, b, f, j)
    BY <1>3
<1> DEFINE o == b[j]  e == b[j + 1]  i == f[j]  m == f[j + 1]
<1>5. /\ rx.r = SdesAt(pt, c) /\ j \in 1 .. n - 1
      /\ rx.sd = o /\ rx.count = n - (j + 1)
      /\ \/ rx.rsp = o + 4 /\ Len(got) = i
         \/ /\ rx.rsp \in Nat /\ rx.rsp < e /\ enc.buf[rx.rsp] = Zero /\ e = NextWord(o, rx.rsp)
            /\ Len(got) = m - 1
    BY <1>4 DEF AtItem
<1>6. /\ o \in Nat /\ e \in Nat /\ e <= b[n] /\ e <= len /\ i \in Nat /\ i >= 1 /\ m \in Nat
      /\ m <= Len(meant) + 1 /\ Chunk(enc.buf, meant, o, i, e, m)
    BY <1>2, <1>5, ChunkAt
<1>7. Len(meant) \in Nat /\ len \in Nat /\ b[n] \in Nat
    BY <1>2, Room, Headers
<1>8. end \in Nat /\ b[n] <= end
    BY <1>2, <1>5, EndBehind
<1> HIDE DEF o, e, i, m
<1>9. ASSUME rx.rsp \in Nat, rx.rsp < e, enc.buf[rx.rsp] = Zero, e = NextWord(o, rx.rsp), Len(got) = m - 1
      PROVE  Written' /\ Layout' /\ Followup'
    <2>1. rx.rsp < len
        BY <1>6, <1>7, <1>9
    <2>2. Cell(rx.rsp) = enc.buf[rx.rsp]
        BY <1>9, <2>1, CellIs
    <2>3. Cell(rx.rsp).kind = "zero"
        BY <1>9, <2>2 DEF Zero
    <2>4. ChunkRead(rx.rsp) /\ got' = got
        BY <2>3 DEF ReadItem
    <2>5. rx.sd = b[j] /\ b[j + 1] = NextWord(b[j], rx.rsp) /\ Len(got) = f[j + 1] - 1
        BY <1>5, <1>9 DEF o, e, m
    <2> QED BY <1>1, <1>2, <1>5, <2>4, <2>5, ChunkReadStep
<1>10. ASSUME rx.rsp = o + 4, Len(got) = i
       PROVE  Written' /\ Layout' /\ Followup'
    <2>1. PICK z \in Nat : Named(enc.buf, meant, o, i, z, m) /\ enc.buf[z] = Zero /\ e = NextWord(o, z)
        BY <1>6 DEF Chunk
    <2>2. o + 4 <= z /\ z < e /\ o + 8 <= e
        BY <1>6, <2>1, ChunkSize
    <2>3. CASE m = i + 1 /\ z = o + 4
        <3>1. rx.rsp \in Nat /\ rx.rsp < e /\ enc.buf[rx.rsp] = Zero /\ e = NextWord(o, rx.rsp)
            BY <1>10, <2>1, <2>2, <2>3
        <3>2. Len(got) = m - 1
            BY <1>6, <1>10, <2>3
        <3> QED BY <1>9, <3>1, <3>2
    <2>4. ASSUME m = i + 2, NEW t \in Text, meant[i + 1] = <<"cname", t>>, enc.buf[o + 4] = Cname(t), z = o + 6 + t
          PROVE  Written' /\ Layout' /\ Followup'
        <3> DEFINE x == <<"cname", t>>
        <3>1. t \in Nat
            BY EncoderConstants
        <3>2. Cell(o + 4) = Cname(t)
            <4> DEFINE a == o + 4
            <4>1. a \in Nat /\ a < len
                BY <1>6, <1>7, <2>2
            <4>2. enc.buf[a] = Cname(t)
                BY <2>4
            <4> HIDE DEF a
            <4>3. Cell(a) = Cname(t)
                BY <4>1, <4>2, CellIs
            <4> QED BY <4>3 DEF a
        <3>3. Cell(rx.rsp).kind = "cname" /\ Cell(rx.rsp).length = t
            BY <1>10, <3>2 DEF Cname
        <3>4. rx.rsp + 2 + Cell(rx.rsp).length = z
            <4>1. o \in Nat
                BY <1>6
            <4>2. o + 4 + 2 + t = o + 6 + t
                BY <3>1, <4>1
            <4> QED BY <1>10, <2>4, <3>3, <4>2
        <3>5. ~(z >= end)
            <4> HIDE DEF end
            <4> QED BY <1>6, <1>7, <1>8, <2>2
        <3>6. rx' = [rx EXCEPT !.rsp = z] /\ got' = Append(got, x) /\ pc' = pc
            <4> DEFINE rspn == rx.rsp + 2 + Cell(rx.rsp).length
            <4>1. IF rspn >= end THEN ChunkRead(rspn) /\ UNCHANGED got
                  ELSE /\ rx' = [rx EXCEPT !.rsp = rspn]
                       /\ got' = Append(got, <<"cname", Cell(rx.rsp).length>>)
                       /\ UNCHANGED pc
                <5>1. Cell(rx.rsp).kind # "zero"
                    BY <3>3
                <5> QED BY <3>3, <5>1 DEF ReadItem
            <4>2. rspn = z
                BY <3>4
            <4> HIDE DEF rspn, end
            <4> QED BY <3>3, <3>5, <4>1, <4>2
        <3> HIDE DEF x
        <3>7. Longer(meant, got') /\ Len(got') = m - 1
            <4>1. Len(got) < Len(meant) /\ Len(got) + 1 = m - 1
                BY <1>6, <1>7, <1>10, <2>4
            <4>2. meant[Len(got) + 1] = x
                BY <1>10, <2>4 DEF x
            <4>3. Longer(meant, Append(got, x)) /\ Len(Append(got, x)) = Len(got) + 1
                BY <1>3, <4>1, <4>2, FollowsOne
            <4> QED BY <3>6, <4>1, <4>3
        <3>8. Pointers' /\ rx'.r = rx.r /\ rx'.sd = rx.sd /\ rx'.rsp = z /\ rx'.count = rx.count
            BY <1>3, <3>6, PointersMove
        <3>9. AtItem(pt, c, n, b, f, j)'
            BY <1>1, <1>5, <2>1, <2>2, <3>7, <3>8 DEF AtItem, o, e, m
        <3>10. (\E d : AtItem(pt, c, n, b, f, d))'
            BY <3>9
        <3>11. ReaderAt(pt, c, n, b, f)'
            BY <1>1, <3>6, <3>10 DEF ReaderAt
        <3>12. Longer(meant', got') /\ pc' \in Reading
            BY <1>1, <3>6, <3>7 DEF Reading
        <3> QED BY <1>1, <1>2, <3>8, <3>11, <3>12, GoesOn
    <2> QED BY <2>1, <2>3, <2>4 DEF Named
<1> QED BY <1>5, <1>9, <1>10

\* rtcp_rx ends behind the last packet.
LEMMA RxEndsStep ==
    ASSUME Written, Layout, Followup, RxEnds
    PROVE  Written' /\ Layout' /\ Followup'
<1>1. pc' = "over" /\ UNCHANGED <<enc, meant, got, rx>>
    BY DEF RxEnds
<1>2. Written' /\ Layout'
    BY <1>1, GivenUp DEF Written
<1>3. Longer(meant', got') /\ Pointers'
    BY <1>1 DEF Followup, Pointers
<1> QED BY <1>1, <1>2, <1>3 DEF Followup, Reading

\* Until the packet is sent nothing is read.
LEMMA NothingRead ==
    ASSUME Followup, Layout, pc \notin Reading \cup {"over"}, pc' \notin Reading, Written',
           UNCHANGED <<rx, got>>
    PROVE  Followup'
<1>1. got = <<>> /\ Pointers /\ meant' \in Seq(Item)
    BY DEF Followup, Written
<1>2. Longer(meant', got')
    BY <1>1 DEF Longer
<1>3. Pointers' /\ got' = <<>>
    BY <1>1 DEF Pointers
<1> QED BY <1>2, <1>3 DEF Followup

\* The table changes between two reports.
LEMMA IdleStep ==
    ASSUME Written, Layout, Followup, Idle
    PROVE  Written' /\ Layout' /\ Followup'
<1>1. pc = "idle" /\ UNCHANGED <<enc, pc, at, more, rx, meant, got, gaveUp>>
    BY DEF Idle
<1>2. Written' /\ Layout'
    BY <1>1 DEF Written, Layout, Writing, Reading
<1> QED BY <1>1, <1>2, NothingRead DEF Reading

\* The packet that is read to its end has been read whole.
LEMMA ReadWhole ==
    ASSUME Written, Followup, pc = "packet", rx.r >= len
    PROVE  got = meant
<1>1. PICK pt, c, n, b, f, k : Complete(pt, c, n, b, f, k) /\ ReaderAt(pt, c, n, b, f)
    BY DEF Followup, Reading
<1>2. AtPacket(pt, c, n, b, f) /\ Longer(meant, got)
    BY <1>1 DEF ReaderAt, Followup
<1> DEFINE s == SdesAt(pt, c)  e == b[n]
<1>3. /\ s \in Nat /\ s >= 8 /\ e \in Nat /\ s + 4 <= e /\ e <= len /\ len \in Nat /\ k \in Nat
      /\ Len(meant) = f[n] - 1 + k /\ f[n] \in Nat
      /\ more => e + 4 + 4 * k <= len
      /\ ~more => e = len /\ k = 0
    BY <1>1, Headers
<1> HIDE DEF s, e
<1>4. Len(got) = Len(meant)
    <2>1. rx.r # 0 /\ rx.r # s
        BY <1>3
    <2>2. CASE rx.r = e /\ Len(got) = f[n] - 1
        <3>1. ~more
            BY <1>3, <2>2
        <3> QED BY <1>3, <2>2, <3>1
    <2> QED BY <1>2, <2>1, <2>2 DEF AtPacket, s, e
<1> QED BY <1>2, <1>4, Followed

-----------------------------------------------------------------------------
(* The member table *)

Entry == [ssrc : Peer \cup {Self}, heard : BOOLEAN, bye : BOOLEAN, src : Source]

InOrder(src) == src.told <= src.prior /\ src.prior <= src.lost

Even(src) == src.told = src.prior

\* An entry's counts are in order, and those of its member once heard.
Good(m) == InOrder(m.src) /\ (m.heard => m.src.of = m.ssrc)

Members ==
    /\ used \in Seq(Entry) /\ free \in Seq(Source) /\ Len(used) + Len(free) = MAX_MEMBERS
    /\ Len(used) >= 1 /\ used[1].ssrc = Self
    /\ \A k \in 1 .. Len(used) : Good(used[k])
    /\ \A j, k \in 1 .. Len(used) : used[j].ssrc = used[k].ssrc => j = k
    /\ \A k \in 1 .. Len(free) : InOrder(free[k]) /\ (~gaveUp => Even(free[k]))

\* Element i of what is written is a block about m.
About(i, m) == meant[i][1] = "block" /\ meant[i][2].ssrc = m.ssrc

\* Such a block tells what m's counts consider reported and nobody was told.
Tallies(x, m) ==
    /\ m.src.told + x.loss <= m.src.prior
    /\ ~gaveUp => m.src.told + x.loss = m.src.prior

Accounts ==
    \A k \in 1 .. Len(used) :
        /\ \A i \in 1 .. Len(meant) : About(i, used[k]) =>
              /\ meant[i][2].of = used[k].src.of
              /\ pc # "over" => Tallies(meant[i][2], used[k])
              /\ pc = "blocks" => k < at
        /\ ~gaveUp /\ (\A i \in 1 .. Len(meant) : ~About(i, used[k])) => Even(used[k].src)
        /\ ~gaveUp /\ pc \in {"idle", "over"} => Even(used[k].src)

\* What changes of an entry, and what does not.
LEMMA EntryFields ==
    ASSUME NEW m \in Entry
    PROVE  /\ m.ssrc \in Id /\ m.heard \in BOOLEAN /\ m.bye \in BOOLEAN /\ m.src \in Source
           /\ m.src.of \in Peer \cup {NoOne}
           /\ m.src.lost \in 0 .. LOSSES /\ m.src.prior \in 0 .. LOSSES /\ m.src.told \in 0 .. LOSSES
BY DEF Entry, Source, Id

\* A count of an entry is set.
WithLost(m, v)  == [m EXCEPT !.src.lost = v]
WithPrior(m, v) == [m EXCEPT !.src.prior = v]
WithTold(m, v)  == [m EXCEPT !.src.told = v]

\* Packets are lost.
LEMMA SetLost ==
    ASSUME NEW m \in Entry, NEW v \in 0 .. LOSSES, NEW r, r = WithLost(m, v)
    PROVE  /\ r \in Entry /\ r.ssrc = m.ssrc /\ r.heard = m.heard /\ r.bye = m.bye
           /\ r.src.of = m.src.of /\ r.src.lost = v /\ r.src.prior = m.src.prior /\ r.src.told = m.src.told
BY DEF Entry, Source, WithLost

\* The interval is closed.
LEMMA SetPrior ==
    ASSUME NEW m \in Entry, NEW v \in 0 .. LOSSES, NEW r, r = WithPrior(m, v)
    PROVE  /\ r \in Entry /\ r.ssrc = m.ssrc /\ r.heard = m.heard /\ r.bye = m.bye
           /\ r.src.of = m.src.of /\ r.src.lost = m.src.lost /\ r.src.prior = v /\ r.src.told = m.src.told
BY DEF Entry, Source, WithPrior

\* A block has told its receiver.
LEMMA SetTold ==
    ASSUME NEW m \in Entry, NEW v \in 0 .. LOSSES, NEW r, r = WithTold(m, v)
    PROVE  /\ r \in Entry /\ r.ssrc = m.ssrc /\ r.heard = m.heard /\ r.bye = m.bye
           /\ r.src.of = m.src.of /\ r.src.lost = m.src.lost /\ r.src.prior = m.src.prior /\ r.src.told = v
BY DEF Entry, Source, WithTold

\* A flag of an entry is set.
LEMMA SetHeard ==
    ASSUME NEW m \in Entry, NEW v \in BOOLEAN, NEW r, r = [m EXCEPT !.heard = v]
    PROVE  r \in Entry /\ r.ssrc = m.ssrc /\ r.heard = v /\ r.src = m.src
BY DEF Entry

\* The member has said that it leaves.
LEMMA SetBye ==
    ASSUME NEW m \in Entry, NEW v \in BOOLEAN, NEW r, r = [m EXCEPT !.bye = v]
    PROVE  r \in Entry /\ r.ssrc = m.ssrc /\ r.heard = m.heard /\ r.src = m.src
BY DEF Entry

\* Nothing was lost of a source that is heard the first time.
LEMMA FreshSource ==
    ASSUME NEW s \in Peer \cup {NoOne}
    PROVE  Fresh(s) \in Source /\ Fresh(s).of = s /\ InOrder(Fresh(s)) /\ Even(Fresh(s))
BY EncoderConstants DEF Fresh, Source, InOrder, Even

\* The first packet of a member makes the source of the entry its own.
LEMMA FirstHeardDoes ==
    ASSUME NEW m \in Entry, m.ssrc \in Peer
    PROVE  /\ FirstHeard(m) \in Entry /\ FirstHeard(m).ssrc = m.ssrc
           /\ Good(FirstHeard(m)) /\ Even(FirstHeard(m).src)
<1> DEFINE v == Fresh(m.ssrc)
           r == FirstHeard(m)
<1>1. v \in Source /\ v.of = m.ssrc /\ InOrder(v) /\ Even(v)
    BY FreshSource
<1>2. r = [m EXCEPT !.heard = TRUE, !.src = v]
    BY DEF FirstHeard
<1> HIDE DEF v, r
<1>3. r \in Entry /\ r.ssrc = m.ssrc /\ r.src = v
    BY <1>1, <1>2 DEF Entry
<1> QED BY <1>1, <1>3 DEF Good, r

\* The entry of a member that joins.
LEMMA NewMember ==
    ASSUME NEW s \in Peer, NEW heard \in BOOLEAN, NEW src \in Source
    PROVE  LET m == Member(s, heard, src) IN
           m \in Entry /\ m.ssrc = s /\ m.heard = heard /\ m.src = src
BY DEF Member, Entry

\* A block that is meant.
LEMMA BlockItem ==
    ASSUME NEW x \in Item, x[1] = "block"
    PROVE  x[2] \in Blk /\ x[2].loss \in 0 .. LOSSES
<1>1. x \in {"block"} \X Blk
    BY DEF Item
<1> QED BY <1>1 DEF Blk

\* One entry changes.
LEMMA MembersSet ==
    ASSUME Members, NEW k \in 1 .. Len(used), NEW r \in Entry, r.ssrc = used[k].ssrc, Good(r),
           used' = [used EXCEPT ![k] = r], free' = free, gaveUp => gaveUp'
    PROVE  /\ Members' /\ Len(used') = Len(used) /\ used'[k] = r
           /\ \A j \in 1 .. Len(used) : j # k => used'[j] = used[j]
<1>1. /\ used \in Seq(Entry) /\ free \in Seq(Source) /\ Len(used) + Len(free) = MAX_MEMBERS
      /\ Len(used) >= 1 /\ used[1].ssrc = Self
      /\ \A j \in 1 .. Len(used) : Good(used[j])
      /\ \A i, j \in 1 .. Len(used) : used[i].ssrc = used[j].ssrc => i = j
      /\ \A j \in 1 .. Len(free) : InOrder(free[j]) /\ (~gaveUp => Even(free[j]))
    BY DEF Members
<1>2. used' \in Seq(Entry) /\ Len(used') = Len(used)
    BY <1>1, ExceptSeq
<1>3. used'[k] = r /\ \A j \in 1 .. Len(used) : j # k => used'[j] = used[j]
    BY <1>1
<1>4. \A j \in 1 .. Len(used) : Good(used'[j]) /\ used'[j].ssrc = used[j].ssrc
    BY <1>1, <1>3
<1>5. \A i, j \in 1 .. Len(used') : used'[i].ssrc = used'[j].ssrc => i = j
    BY <1>1, <1>2, <1>4
<1>6. 1 \in 1 .. Len(used)
    BY <1>1
<1>7. used'[1].ssrc = Self
    BY <1>1, <1>4, <1>6
<1>8. \A j \in 1 .. Len(free') : InOrder(free'[j]) /\ (~gaveUp' => Even(free'[j]))
    BY <1>1
<1> QED BY <1>1, <1>2, <1>3, <1>4, <1>5, <1>7, <1>8 DEF Members

\* Nothing changes.
LEMMA MembersKept ==
    ASSUME Members, UNCHANGED <<used, free>>, gaveUp => gaveUp'
    PROVE  Members'
BY DEF Members

\* A member joins in a free entry.
LEMMA MembersJoin ==
    ASSUME Members, NEW r \in Entry, Unknown(r.ssrc), Good(r), free # <<>>,
           used' = Append(used, r), free' = Tail(free), gaveUp' = gaveUp
    PROVE  /\ Members' /\ Len(used') = Len(used) + 1 /\ used'[Len(used) + 1] = r
           /\ \A j \in 1 .. Len(used) : used'[j] = used[j]
<1>1. /\ used \in Seq(Entry) /\ free \in Seq(Source) /\ Len(used) + Len(free) = MAX_MEMBERS
      /\ Len(used) >= 1 /\ used[1].ssrc = Self
      /\ \A j \in 1 .. Len(used) : Good(used[j])
      /\ \A i, j \in 1 .. Len(used) : used[i].ssrc = used[j].ssrc => i = j
      /\ \A j \in 1 .. Len(free) : InOrder(free[j]) /\ (~gaveUp => Even(free[j]))
    BY DEF Members
<1>2. /\ used' \in Seq(Entry) /\ Len(used') = Len(used) + 1 /\ used'[Len(used) + 1] = r
      /\ \A j \in 1 .. Len(used) : used'[j] = used[j]
    BY <1>1
<1>3. /\ free' \in Seq(Source) /\ Len(free') = Len(free) - 1 /\ Len(free) \in Nat /\ Len(used) \in Nat
      /\ \A j \in 1 .. Len(free') : j + 1 \in 1 .. Len(free) /\ free'[j] = free[j + 1]
    BY <1>1
<1>4. \A j \in 1 .. Len(used) : used[j].ssrc # r.ssrc
    BY <1>1 DEF Unknown
<1>5. 1 .. Len(used) + 1 = (1 .. Len(used)) \cup {Len(used) + 1}
    BY <1>3
<1>6. \A j \in 1 .. Len(used') : Good(used'[j])
    BY <1>1, <1>2, <1>5
<1>7. \A i, j \in 1 .. Len(used') : used'[i].ssrc = used'[j].ssrc => i = j
    BY <1>1, <1>2, <1>4, <1>5
<1>8. \A j \in 1 .. Len(free') : InOrder(free'[j]) /\ (~gaveUp' => Even(free'[j]))
    BY <1>1, <1>3
<1>9. Len(used') + Len(free') = MAX_MEMBERS /\ Len(used') >= 1 /\ used'[1].ssrc = Self
    BY <1>1, <1>2, <1>3
<1> QED BY <1>2, <1>3, <1>6, <1>7, <1>8, <1>9 DEF Members

\* An element is taken out of a sequence.
LEMMA Removed ==
    ASSUME NEW S, NEW s \in Seq(S), NEW k \in 1 .. Len(s)
    PROVE  /\ RemoveAt(s, k) \in Seq(S) /\ Len(RemoveAt(s, k)) = Len(s) - 1
           /\ \A j \in 1 .. Len(s) - 1 : RemoveAt(s, k)[j] = IF j < k THEN s[j] ELSE s[j + 1]
<1> DEFINE a == SubSeq(s, 1, k - 1)  b == SubSeq(s, k + 1, Len(s))  n == Len(s)
<1>1. n \in Nat /\ k \in Nat /\ k >= 1 /\ k <= n /\ \A j \in 1 .. n : s[j] \in S
    OBVIOUS
<1> HIDE DEF n
<1>2. /\ a \in Seq(S) /\ Len(a) = k - 1
      /\ \A j \in 1 .. k - 1 : a[j] = s[j]
    <2>1. \A j \in 1 .. k - 1 : s[j] \in S
        BY <1>1
    <2> DEFINE m == k - 1
    <2>2. m \in Int /\ 1 \in Int /\ \A j \in 1 .. m : s[j] \in S
        BY <1>1, <2>1
    <2>3. /\ a \in Seq(S) /\ Len(a) = IF 1 <= m THEN m - 1 + 1 ELSE 0
          /\ \A j \in 1 .. m - 1 + 1 : a[j] = s[1 + j - 1]
        <3> HIDE DEF m
        <3>1. a = SubSeq(s, 1, m)
            BY DEF m
        <3> HIDE DEF a
        <3> QED BY <2>2, <3>1, SubSeqProperties
    <2>4. 1 .. m - 1 + 1 = 1 .. k - 1 /\ \A j \in 1 .. k - 1 : 1 + j - 1 = j
        BY <1>1
    <2> HIDE DEF a
    <2> QED BY <1>1, <2>3, <2>4
<1>3. /\ b \in Seq(S) /\ Len(b) = n - k
      /\ \A j \in 1 .. n - k : b[j] = s[k + j]
    <2> DEFINE m == k + 1
    <2>1. m \in Int /\ n \in Int /\ \A j \in m .. n : s[j] \in S
        BY <1>1
    <2>2. /\ b \in Seq(S) /\ Len(b) = IF m <= n THEN n - m + 1 ELSE 0
          /\ \A j \in 1 .. n - m + 1 : b[j] = s[m + j - 1]
        <3> HIDE DEF m
        <3>1. b = SubSeq(s, m, n)
            BY DEF m, n
        <3> HIDE DEF b
        <3> QED BY <2>1, <3>1, SubSeqProperties
    <2>3. 1 .. n - m + 1 = 1 .. n - k /\ \A j \in 1 .. n - k : m + j - 1 = k + j
        BY <1>1
    <2>4. IF m <= n THEN n - m + 1 = n - k ELSE n - k = 0
        BY <1>1
    <2> HIDE DEF b, m
    <2> QED BY <2>2, <2>3, <2>4
<1> HIDE DEF a, b
<1>4. /\ a \o b \in Seq(S) /\ Len(a \o b) = Len(a) + Len(b)
      /\ \A j \in 1 .. Len(a) + Len(b) : (a \o b)[j] = IF j <= Len(a) THEN a[j] ELSE b[j - Len(a)]
    BY <1>2, <1>3, ConcatProperties
<1>5. RemoveAt(s, k) = a \o b
    BY DEF RemoveAt, a, b
<1> DEFINE r == a \o b
<1> HIDE DEF r
<1>6. Len(a) + Len(b) = n - 1
    BY <1>1, <1>2, <1>3
<1>7. r \in Seq(S) /\ Len(r) = n - 1
    BY <1>4, <1>6 DEF r
<1>8. ASSUME NEW j \in 1 .. n - 1 PROVE r[j] = IF j < k THEN s[j] ELSE s[j + 1]
    <2>1. r[j] = IF j <= k - 1 THEN a[j] ELSE b[j - (k - 1)]
        BY <1>2, <1>4, <1>6 DEF r
    <2>2. CASE j < k
        <3>1. j \in 1 .. k - 1 /\ j <= k - 1
            BY <1>1, <2>2
        <3> QED BY <1>2, <2>1, <2>2, <3>1
    <2>3. CASE ~(j < k)
        <3> DEFINE i == j - (k - 1)
        <3>1. i \in 1 .. n - k /\ k + i = j + 1 /\ ~(j <= k - 1)
            BY <1>1, <2>3
        <3>2. r[j] = b[i]
            BY <2>1, <3>1
        <3> HIDE DEF i
        <3> QED BY <1>3, <2>3, <3>1, <3>2
    <2> QED BY <2>2, <2>3
<1> QED BY <1>5, <1>7, <1>8 DEF r, n

\* A member leaves its entry.
LEMMA MembersLeave ==
    ASSUME Members, NEW k \in 2 .. Len(used), used' = RemoveAt(used, k),
           free' = Append(free, used[k].src), gaveUp' = gaveUp, ~gaveUp => Even(used[k].src)
    PROVE  /\ Members'
           /\ \A j \in 1 .. Len(used') : \E i \in 1 .. Len(used) : used'[j] = used[i]
<1>1. /\ used \in Seq(Entry) /\ free \in Seq(Source) /\ Len(used) + Len(free) = MAX_MEMBERS
      /\ Len(used) >= 1 /\ used[1].ssrc = Self
      /\ \A j \in 1 .. Len(used) : Good(used[j])
      /\ \A i, j \in 1 .. Len(used) : used[i].ssrc = used[j].ssrc => i = j
      /\ \A j \in 1 .. Len(free) : InOrder(free[j]) /\ (~gaveUp => Even(free[j]))
    BY DEF Members
<1> DEFINE n == Len(used)  src == used[k].src
<1>2. n \in Nat /\ k \in 1 .. n /\ k >= 2
    BY <1>1
<1>3. src \in Source /\ InOrder(src)
    BY <1>1, <1>2, EntryFields DEF Good
<1>4. /\ used' \in Seq(Entry) /\ Len(used') = n - 1
      /\ \A j \in 1 .. n - 1 : used'[j] = IF j < k THEN used[j] ELSE used[j + 1]
    BY <1>1, <1>2, Removed
<1> HIDE DEF src
<1>5. /\ free' \in Seq(Source) /\ Len(free') = Len(free) + 1 /\ free'[Len(free) + 1] = src /\ Len(free) \in Nat
      /\ \A j \in 1 .. Len(free) : free'[j] = free[j]
    BY <1>1, <1>3 DEF src
<1>6. \A j \in 1 .. Len(free') : InOrder(free'[j]) /\ (~gaveUp' => Even(free'[j]))
    BY <1>1, <1>3, <1>5 DEF src
<1> HIDE DEF n
<1>7. ASSUME NEW j \in 1 .. n - 1
      PROVE  \E i \in 1 .. n : used'[j] = used[i] /\ i = IF j < k THEN j ELSE j + 1
    BY <1>2, <1>4
<1>8. \A j \in 1 .. n - 1 : Good(used'[j])
    BY <1>1, <1>7 DEF n
<1>9. ASSUME NEW i \in 1 .. n - 1, NEW j \in 1 .. n - 1, used'[i].ssrc = used'[j].ssrc
      PROVE  i = j
    <2>1. PICK p \in 1 .. n : used'[i] = used[p] /\ p = IF i < k THEN i ELSE i + 1
        BY <1>7
    <2>2. PICK q \in 1 .. n : used'[j] = used[q] /\ q = IF j < k THEN j ELSE j + 1
        BY <1>7
    <2>3. p = q
        BY <1>1, <1>9, <2>1, <2>2 DEF n
    <2> QED BY <1>2, <2>1, <2>2, <2>3
<1>10. used'[1] = used[1] /\ n - 1 >= 1
    BY <1>2, <1>4
<1>11. Len(used') + Len(free') = MAX_MEMBERS
    BY <1>1, <1>2, <1>4, <1>5 DEF n
<1>12. Members'
    BY <1>1, <1>4, <1>5, <1>6, <1>8, <1>9, <1>10, <1>11 DEF Members
<1> QED BY <1>4, <1>7, <1>12 DEF n

\* Between two reports no block is meant.
LEMMA IdleAccounts ==
    ASSUME pc' = "idle", meant' = <<>>, \A k \in 1 .. Len(used') : ~gaveUp' => Even(used'[k].src)
    PROVE  Accounts'
<1>1. 1 .. Len(meant') = {}
    OBVIOUS
<1> QED BY <1>1 DEF Accounts

\* No new block is meant.
NoBlock == Longer(meant', meant) /\ \A i \in 1 .. Len(meant') : i > Len(meant) => meant'[i][1] # "block"

\* The books balance while no block is added.
LEMMA AccountsKept ==
    ASSUME Accounts, used' = used, NoBlock, gaveUp => gaveUp', pc' = "over" => gaveUp',
           pc # "over", pc' # "idle", pc' = "blocks" => meant = <<>> \/ (pc = "blocks" /\ at \in Int /\ at' = at + 1 /\ Len(used) \in Nat)
    PROVE  Accounts'
<1>1. /\ meant \in Seq(Item) /\ meant' \in Seq(Item) /\ Len(meant) \in Nat /\ Len(meant') \in Nat
      /\ Len(meant) <= Len(meant') /\ \A i \in 1 .. Len(meant) : meant'[i] = meant[i]
    BY DEF NoBlock, Longer
<1>2. ASSUME NEW k \in 1 .. Len(used), NEW i \in 1 .. Len(meant'), About(i, used[k])'
      PROVE  i \in 1 .. Len(meant) /\ meant'[i] = meant[i] /\ About(i, used[k])
    <2>1. meant'[i][1] = "block"
        BY <1>2 DEF About
    <2>2. i \in 1 .. Len(meant)
        BY <1>1, <2>1 DEF NoBlock
    <2> QED BY <1>1, <1>2, <2>2 DEF About
<1>3. ASSUME NEW k \in 1 .. Len(used), NEW i \in 1 .. Len(meant), About(i, used[k])
      PROVE  i \in 1 .. Len(meant') /\ About(i, used[k])'
    BY <1>1, <1>3 DEF About
<1>4. ASSUME NEW k \in 1 .. Len(used), NEW i \in 1 .. Len(meant'), About(i, used[k])'
      PROVE  /\ meant'[i][2].of = used'[k].src.of
             /\ pc' # "over" => Tallies(meant[i][2], used[k])'
             /\ pc' = "blocks" => k < at'
    <2>1. i \in 1 .. Len(meant) /\ meant'[i] = meant[i] /\ About(i, used[k])
        BY <1>2, <1>4
    <2>2. /\ meant[i][2].of = used[k].src.of /\ Tallies(meant[i][2], used[k])
          /\ pc = "blocks" => k < at
        BY <2>1 DEF Accounts
    <2>3. Tallies(meant[i][2], used[k])'
        BY <2>1, <2>2 DEF Tallies
    <2>4. meant # <<>>
        BY <1>1, <2>1
    <2>5. pc' = "blocks" => k < at'
        BY <2>2, <2>4
    <2> QED BY <2>1, <2>2, <2>3, <2>5
<1>5. ASSUME NEW k \in 1 .. Len(used), ~gaveUp', \A i \in 1 .. Len(meant') : ~About(i, used[k])'
      PROVE  Even(used'[k].src)
    <2>1. \A i \in 1 .. Len(meant) : ~About(i, used[k])
        BY <1>3, <1>5
    <2> QED BY <1>5, <2>1 DEF Accounts
<1> QED BY <1>4, <1>5 DEF Accounts

-----------------------------------------------------------------------------
(* The invariant *)

Scalars ==
    /\ sender \in BOOLEAN /\ more \in BOOLEAN /\ gaveUp \in BOOLEAN /\ cname \in Text
    /\ at \in 1 .. Len(used) + 1 /\ (pc = "idle" => at = 1)

ReportInv == Scalars /\ Written /\ Layout /\ Followup /\ Members /\ Accounts

\* The invariant holds initially.
LEMMA InitHolds == ReportInit => ReportInv
<1> SUFFICES ASSUME ReportInit PROVE ReportInv
    OBVIOUS
<1>1. PICK n \in BufLen : enc = rtcp_encoder_init(n)
    BY DEF ReportInit
<1>2. n \in 0 .. BUFFER_LEN
    BY EncoderConstants
<1>3. Sound(enc) /\ enc.buf_len = n /\ enc.write_ndx = 0
    BY <1>1, <1>2, InitDoes
<1>4. meant = <<>> /\ got = <<>> /\ pc = "idle" /\ meant \in Seq(Item) /\ gaveUp = FALSE /\ at = 1
    BY DEF ReportInit
<1>5. Written /\ Layout
    BY <1>3, <1>4 DEF Written, Layout, Writing, Reading
<1>6. Followup
    <2>1. Longer(meant, got)
        BY <1>4 DEF Longer
    <2>2. Pointers
        BY DEF ReportInit, Pointers, AtStart
    <2> QED BY <1>4, <2>1, <2>2 DEF Followup, Reading
<1> DEFINE m == Member(Self, FALSE, Fresh(NoOne))
<1>7. Fresh(NoOne) \in Source /\ InOrder(Fresh(NoOne)) /\ Even(Fresh(NoOne))
    BY FreshSource
<1>8. m \in Entry /\ m.ssrc = Self /\ Good(m) /\ Even(m.src)
    BY <1>7 DEF Member, Entry, Good
<1>9. used = <<m>>
    BY DEF ReportInit
<1> HIDE DEF m
<1>10. used \in Seq(Entry) /\ Len(used) = 1 /\ used[1] = m
    BY <1>8, <1>9
<1>11. /\ free \in Seq(Source) /\ Len(free) = MAX_MEMBERS - 1
       /\ \A j \in 1 .. Len(free) : InOrder(free[j]) /\ Even(free[j])
    <2>1. MAX_MEMBERS - 1 \in Nat /\ free = [j \in 1 .. MAX_MEMBERS - 1 |-> Fresh(NoOne)]
        BY EncoderConstants DEF ReportInit
    <2> DEFINE p == MAX_MEMBERS - 1
    <2> HIDE DEF p
    <2>2. p \in Nat /\ free = [j \in 1 .. p |-> Fresh(NoOne)]
        BY <2>1 DEF p
    <2>3. free \in [1 .. p -> Source]
        BY <1>7, <2>2
    <2>4. free \in Seq(Source) /\ Len(free) = p
        BY <2>2, <2>3, SeqDef
    <2> QED BY <1>7, <2>2, <2>4 DEF p
<1>12. Members
    <2>1. Len(used) + Len(free) = MAX_MEMBERS
        BY <1>10, <1>11, EncoderConstants
    <2> QED BY <1>8, <1>10, <1>11, <2>1 DEF Members
<1>13. Accounts
    <2>1. 1 .. Len(meant) = {} /\ \A k \in 1 .. Len(used) : Even(used[k].src)
        <3>1. \A k \in 1 .. Len(used) : k = 1
            BY <1>10
        <3> QED BY <1>4, <1>8, <1>10, <3>1
    <2> QED BY <1>4, <2>1 DEF Accounts
<1>14. Scalars
    <2>1. sender \in BOOLEAN /\ more \in BOOLEAN /\ gaveUp \in BOOLEAN /\ cname \in Text
        BY Zenon DEF ReportInit
    <2>2. at \in 1 .. Len(used) + 1
        BY <1>4, <1>10
    <2> QED BY <1>4, <2>1, <2>2 DEF Scalars
<1> QED BY <1>5, <1>6, <1>12, <1>13, <1>14 DEF ReportInv

\* Before a table step.
LEMMA IdleTable ==
    ASSUME ReportInv, Idle
    PROVE  /\ Written' /\ Layout' /\ Followup' /\ pc' = "idle" /\ meant' = <<>>
           /\ at' = 1 /\ more' \in BOOLEAN /\ gaveUp' = gaveUp /\ gaveUp' \in BOOLEAN
           /\ Members /\ Len(used) \in Nat /\ used \in Seq(Entry)
           /\ \A k \in 1 .. Len(used) : used[k] \in Entry /\ Good(used[k]) /\ (~gaveUp => Even(used[k].src))
           /\ \A k \in 2 .. Len(used) : used[k].ssrc \in Peer
<1>1. Written' /\ Layout' /\ Followup'
    BY IdleStep DEF ReportInv
<1>2. pc = "idle" /\ UNCHANGED <<pc, at, more, meant, gaveUp>>
    BY DEF Idle
<1>3. meant = <<>> /\ at = 1 /\ more \in BOOLEAN /\ gaveUp \in BOOLEAN
    BY <1>2 DEF ReportInv, Layout, Scalars
<1>4. /\ used \in Seq(Entry) /\ Len(used) >= 1 /\ used[1].ssrc = Self
      /\ \A k \in 1 .. Len(used) : Good(used[k])
      /\ \A j, k \in 1 .. Len(used) : used[j].ssrc = used[k].ssrc => j = k
    BY DEF ReportInv, Members
<1>5. Len(used) \in Nat /\ \A k \in 1 .. Len(used) : used[k] \in Entry
    BY <1>4
<1>6. \A k \in 1 .. Len(used) : ~gaveUp => Even(used[k].src)
    BY <1>2 DEF ReportInv, Accounts
<1>7. ASSUME NEW k \in 2 .. Len(used) PROVE used[k].ssrc \in Peer
    <2>1. k \in 1 .. Len(used) /\ 1 \in 1 .. Len(used) /\ k # 1
        BY <1>5
    <2>2. used[k].ssrc # Self /\ used[k].ssrc \in Id
        BY <1>4, <1>5, <2>1, EntryFields
    <2> QED BY <2>2 DEF Id
<1> QED BY <1>1, <1>2, <1>3, <1>4, <1>5, <1>6, <1>7 DEF ReportInv

\* A member joins in the first free entry.
LEMMA JoinStep ==
    ASSUME ReportInv, Idle, NEW ssrc \in Peer, NEW heard \in BOOLEAN, NEW src \in Source,
           Unknown(ssrc), free # <<>>, used' = Append(used, Member(ssrc, heard, src)), free' = Tail(free),
           UNCHANGED <<sender, cname>>, InOrder(src), ~gaveUp => Even(src), heard => src.of = ssrc
    PROVE  ReportInv'
<1> DEFINE r == Member(ssrc, heard, src)
<1>1. /\ Written' /\ Layout' /\ Followup' /\ pc' = "idle" /\ meant' = <<>>
      /\ at' = 1 /\ more' \in BOOLEAN /\ gaveUp' = gaveUp /\ gaveUp' \in BOOLEAN
      /\ Members /\ Len(used) \in Nat
      /\ \A k \in 1 .. Len(used) : ~gaveUp => Even(used[k].src)
    BY IdleTable
<1>2. r \in Entry /\ r.ssrc = ssrc /\ r.heard = heard /\ r.src = src
    BY NewMember
<1>3. used' = Append(used, r)
    OBVIOUS
<1> HIDE DEF r
<1>4. Good(r) /\ Unknown(r.ssrc)
    BY <1>2 DEF Good
<1>5. /\ Members' /\ Len(used') = Len(used) + 1 /\ used'[Len(used) + 1] = r
      /\ \A j \in 1 .. Len(used) : used'[j] = used[j]
    BY <1>1, <1>2, <1>3, <1>4, MembersJoin
<1>6. ASSUME NEW k \in 1 .. Len(used'), ~gaveUp' PROVE Even(used'[k].src)
    <2>1. CASE k = Len(used) + 1
        BY <1>1, <1>2, <1>5, <1>6, <2>1
    <2>2. CASE k \in 1 .. Len(used)
        BY <1>1, <1>5, <1>6, <2>2
    <2> QED BY <1>1, <1>5, <2>1, <2>2
<1>7. Accounts'
    BY <1>1, <1>6, IdleAccounts
<1>8. Scalars'
    <2>1. sender' \in BOOLEAN /\ cname' \in Text
        BY DEF ReportInv, Scalars
    <2>2. at' \in 1 .. Len(used') + 1
        BY <1>1, <1>5
    <2> QED BY <1>1, <2>1, <2>2 DEF Scalars
<1> QED BY <1>1, <1>5, <1>7, <1>8 DEF ReportInv

\* It joins by an RTP packet, and is heard from then on.
LEMMA RtpJoinsStep ==
    ASSUME ReportInv, NEW ssrc \in Peer, RtpJoins(ssrc)
    PROVE  ReportInv'
<1>1. /\ Idle /\ Unknown(ssrc) /\ free # <<>> /\ used' = Append(used, Member(ssrc, TRUE, Fresh(ssrc)))
      /\ free' = Tail(free) /\ UNCHANGED <<sender, cname>>
    BY DEF RtpJoins
<1> DEFINE src == Fresh(ssrc)
<1>2. src \in Source /\ src.of = ssrc /\ InOrder(src) /\ Even(src)
    BY FreshSource
<1>3. used' = Append(used, Member(ssrc, TRUE, src))
    BY <1>1
<1> HIDE DEF src
<1>4. TRUE \in BOOLEAN
    OBVIOUS
<1> QED BY <1>1, <1>2, <1>3, <1>4, JoinStep

\* It joins by an RTCP packet: the entry keeps the source of whoever had it
\* before.
LEMMA RtcpJoinsStep ==
    ASSUME ReportInv, NEW ssrc \in Peer, RtcpJoins(ssrc)
    PROVE  ReportInv'
<1>1. /\ Idle /\ Unknown(ssrc) /\ free # <<>> /\ used' = Append(used, Member(ssrc, FALSE, Head(free)))
      /\ free' = Tail(free) /\ UNCHANGED <<sender, cname>>
    BY DEF RtcpJoins
<1> DEFINE src == Head(free)
<1>2. src \in Source /\ InOrder(src) /\ (~gaveUp => Even(src))
    <2>1. /\ free \in Seq(Source)
          /\ \A k \in 1 .. Len(free) : InOrder(free[k]) /\ (~gaveUp => Even(free[k]))
        BY DEF ReportInv, Members
    <2>2. src = free[1] /\ 1 \in 1 .. Len(free)
        BY <1>1, <2>1
    <2> QED BY <2>1, <2>2
<1>3. used' = Append(used, Member(ssrc, FALSE, src))
    BY <1>1
<1> HIDE DEF src
<1>4. FALSE \in BOOLEAN /\ ~FALSE
    OBVIOUS
<1> QED BY <1>1, <1>2, <1>3, <1>4, JoinStep

\* One entry changes between two reports.
LEMMA SetStep ==
    ASSUME ReportInv, Idle, NEW k \in 1 .. Len(used), NEW r \in Entry, r.ssrc = used[k].ssrc, Good(r),
           ~gaveUp => Even(r.src), used' = [used EXCEPT ![k] = r], UNCHANGED <<free, sender, cname>>
    PROVE  ReportInv'
<1>1. /\ Written' /\ Layout' /\ Followup' /\ pc' = "idle" /\ meant' = <<>>
      /\ at' = 1 /\ more' \in BOOLEAN /\ gaveUp' = gaveUp /\ gaveUp' \in BOOLEAN
      /\ Members /\ Len(used) \in Nat
      /\ \A j \in 1 .. Len(used) : ~gaveUp => Even(used[j].src)
    BY IdleTable
<1>2. /\ Members' /\ Len(used') = Len(used) /\ used'[k] = r
      /\ \A j \in 1 .. Len(used) : j # k => used'[j] = used[j]
    BY <1>1, MembersSet
<1>3. \A j \in 1 .. Len(used') : ~gaveUp' => Even(used'[j].src)
    BY <1>1, <1>2
<1>4. Accounts'
    BY <1>1, <1>3, IdleAccounts
<1>5. Scalars'
    <2>1. sender' \in BOOLEAN /\ cname' \in Text
        BY DEF ReportInv, Scalars
    <2>2. at' \in 1 .. Len(used') + 1
        BY <1>1, <1>2
    <2> QED BY <1>1, <2>1, <2>2 DEF Scalars
<1> QED BY <1>1, <1>2, <1>4, <1>5 DEF ReportInv

\* A member is heard first, ceases to send, loses a packet, or says that it
\* leaves.
LEMMA MemberChangesStep ==
    ASSUME ReportInv, NEW k \in 2 .. Len(used), MemberChanges(k)
    PROVE  ReportInv'
<1> DEFINE m == used[k]
<1>1. Idle /\ UNCHANGED <<free, sender, cname>>
    BY DEF MemberChanges
<1>2. /\ Len(used) \in Nat /\ used \in Seq(Entry) /\ gaveUp' \in BOOLEAN
      /\ \A j \in 1 .. Len(used) : used[j] \in Entry /\ Good(used[j]) /\ (~gaveUp => Even(used[j].src))
      /\ \A j \in 2 .. Len(used) : used[j].ssrc \in Peer
    BY <1>1, IdleTable
<1>3. k \in 1 .. Len(used) /\ m \in Entry /\ Good(m) /\ (~gaveUp => Even(m.src)) /\ m.ssrc \in Peer
    BY <1>2
<1>8. FALSE \in BOOLEAN /\ TRUE \in BOOLEAN
    OBVIOUS
<1>4. CASE used' = [used EXCEPT ![k] = FirstHeard(m)]
    <2> DEFINE r == FirstHeard(m)
    <2>1. r \in Entry /\ r.ssrc = m.ssrc /\ Good(r) /\ Even(r.src)
        BY <1>3, FirstHeardDoes
    <2> HIDE DEF r, m
    <2>2. used' = [used EXCEPT ![k] = r]
        BY <1>4 DEF r
    <2> QED BY <1>1, <1>3, <2>1, <2>2, SetStep DEF m
<1>5. CASE used' = [used EXCEPT ![k].heard = FALSE]
    <2> DEFINE r == [m EXCEPT !.heard = FALSE]
    <2>1. used' = [used EXCEPT ![k] = r] /\ r = [m EXCEPT !.heard = FALSE]
        BY <1>5
    <2> HIDE DEF r, m
    <2>2. r \in Entry /\ r.ssrc = m.ssrc /\ r.heard = FALSE /\ r.src = m.src
        BY <1>3, <2>1, <1>8, SetHeard
    <2>3. Good(r) /\ (~gaveUp => Even(r.src))
        BY <1>3, <2>2 DEF Good
    <2> QED BY <1>1, <1>3, <2>1, <2>2, <2>3, SetStep DEF m
<1>6. CASE m.heard /\ m.src.lost < LOSSES /\ used' = [used EXCEPT ![k].src.lost = @ + 1]
    <2> DEFINE v == m.src.lost + 1
               r == WithLost(m, v)
    <2>1. used' = [used EXCEPT ![k] = r] /\ r = WithLost(m, v)
        BY <1>6 DEF WithLost
    <2>2. /\ m.src.lost \in 0 .. LOSSES /\ m.src.prior \in 0 .. LOSSES /\ m.src.told \in 0 .. LOSSES
          /\ LOSSES \in Nat
        BY <1>3, EntryFields, EncoderConstants
    <2>3. v \in 0 .. LOSSES /\ v >= m.src.lost
        BY <1>6, <2>2
    <2> HIDE DEF r, v, m
    <2>4. /\ r \in Entry /\ r.ssrc = m.ssrc /\ r.heard = m.heard
          /\ r.src.of = m.src.of /\ r.src.lost = v
          /\ r.src.prior = m.src.prior /\ r.src.told = m.src.told
        BY <1>3, <2>1, <2>3, SetLost
    <2>5. Good(r) /\ (~gaveUp => Even(r.src))
        BY <1>3, <2>2, <2>3, <2>4 DEF Good, InOrder, Even
    <2> QED BY <1>1, <1>3, <2>1, <2>4, <2>5, SetStep DEF m
<1>7. CASE used' = [used EXCEPT ![k].bye = TRUE]
    <2> DEFINE r == [m EXCEPT !.bye = TRUE]
    <2>1. used' = [used EXCEPT ![k] = r] /\ r = [m EXCEPT !.bye = TRUE]
        BY <1>7
    <2> HIDE DEF r, m
    <2>2. r \in Entry /\ r.ssrc = m.ssrc /\ r.heard = m.heard /\ r.src = m.src
        BY <1>3, <2>1, <1>8, SetBye
    <2>3. Good(r) /\ (~gaveUp => Even(r.src))
        BY <1>3, <2>2 DEF Good
    <2> QED BY <1>1, <1>3, <2>1, <2>2, <2>3, SetStep DEF m
<1> QED BY <1>4, <1>5, <1>6, <1>7 DEF MemberChanges

\* A member leaves, and its entry goes to the end of the free ones.
LEMMA MemberLeavesStep ==
    ASSUME ReportInv, NEW k \in 2 .. Len(used), MemberLeaves(k)
    PROVE  ReportInv'
<1>1. /\ Idle /\ used' = RemoveAt(used, k) /\ free' = Append(free, used[k].src)
      /\ UNCHANGED <<sender, cname>>
    BY DEF MemberLeaves
<1>2. /\ Written' /\ Layout' /\ Followup' /\ pc' = "idle" /\ meant' = <<>>
      /\ at' = 1 /\ more' \in BOOLEAN /\ gaveUp' = gaveUp /\ gaveUp' \in BOOLEAN
      /\ Members /\ Len(used) \in Nat
      /\ \A j \in 1 .. Len(used) : ~gaveUp => Even(used[j].src)
    BY <1>1, IdleTable
<1>3. ~gaveUp => Even(used[k].src)
    BY <1>2
<1>4. Members' /\ \A j \in 1 .. Len(used') : \E i \in 1 .. Len(used) : used'[j] = used[i]
    BY <1>1, <1>2, <1>3, MembersLeave
<1>5. \A j \in 1 .. Len(used') : ~gaveUp' => Even(used'[j].src)
    BY <1>2, <1>4
<1>6. Accounts'
    BY <1>2, <1>5, IdleAccounts
<1>7. Scalars'
    <2>1. sender' \in BOOLEAN /\ cname' \in Text
        BY <1>1 DEF ReportInv, Scalars
    <2>2. used' \in Seq(Entry)
        BY <1>4 DEF Members
    <2>3. at' \in 1 .. Len(used') + 1
        BY <1>2, <2>2
    <2> QED BY <1>2, <2>1, <2>3 DEF Scalars
<1> QED BY <1>2, <1>4, <1>6, <1>7 DEF ReportInv

\* The session becomes a sender or ceases to be one.
LEMMA SelfChangesStep ==
    ASSUME ReportInv, SelfChanges
    PROVE  ReportInv'
<1>1. Idle /\ sender' = ~sender /\ UNCHANGED <<used, free, cname>>
    BY DEF SelfChanges
<1>2. /\ Written' /\ Layout' /\ Followup' /\ pc' = "idle" /\ meant' = <<>>
      /\ at' = 1 /\ more' \in BOOLEAN /\ gaveUp' = gaveUp /\ gaveUp' \in BOOLEAN
      /\ Members /\ Len(used) \in Nat
      /\ \A j \in 1 .. Len(used) : ~gaveUp => Even(used[j].src)
    BY <1>1, IdleTable
<1>3. Members'
    BY <1>1, <1>2, MembersKept
<1>4. Accounts'
    <2>1. \A j \in 1 .. Len(used') : ~gaveUp' => Even(used'[j].src)
        BY <1>1, <1>2
    <2> QED BY <1>2, <2>1, IdleAccounts
<1>5. Scalars'
    <2>1. sender' \in BOOLEAN /\ cname' \in Text
        BY <1>1, Zenon DEF ReportInv, Scalars
    <2>2. at' \in 1 .. Len(used') + 1
        BY <1>1, <1>2
    <2> QED BY <1>2, <2>1, <2>2 DEF Scalars
<1> QED BY <1>2, <1>3, <1>4, <1>5 DEF ReportInv

\* What a call of the encoder does to the rest of the state.
LEMMA CallChanges ==
    ASSUME NEW re, NEW said, NEW next, Call(re, said, next), pc' # "crashed", gaveUp \in BOOLEAN
    PROVE  /\ \/ pc' = next /\ meant' = meant \o said /\ gaveUp' = gaveUp
              \/ pc' = "over" /\ meant' = meant /\ gaveUp' = TRUE
           /\ UNCHANGED <<free, sender, cname, more, rx, got>>
BY DEF Call

\* A call of the encoder that adds no block keeps the books.
LEMMA CallKeeps ==
    ASSUME ReportInv, NEW re, NEW said, NEW next, Call(re, said, next), used' = used,
           said = <<>> \/ \E x \in Item : said = <<x>> /\ x[1] # "block",
           Written', Layout', pc \notin Reading \cup {"over"},
           next \in Writing, next = "blocks" => meant = <<>>, at' \in {1, at}
    PROVE  ReportInv'
<1>1. /\ sender \in BOOLEAN /\ more \in BOOLEAN /\ gaveUp \in BOOLEAN /\ cname \in Text
      /\ at \in 1 .. Len(used) + 1
    BY DEF ReportInv, Scalars
<1>2. pc' # "crashed"
    BY DEF Layout, Writing, Reading
<1>3. /\ \/ pc' = next /\ meant' = meant \o said /\ gaveUp' = gaveUp
         \/ pc' = "over" /\ meant' = meant /\ gaveUp' = TRUE
      /\ UNCHANGED <<free, sender, cname, more, rx, got>>
    BY <1>1, <1>2, CallChanges
<1>4. Followup'
    <2>1. pc' \notin Reading
        BY <1>3 DEF Reading, Writing
    <2> QED BY <1>3, <2>1, NothingRead DEF ReportInv
<1>5. NoBlock
    <2>1. meant \in Seq(Item)
        BY DEF ReportInv, Written
    <2>2. CASE meant' = meant
        BY <2>1, <2>2 DEF NoBlock, Longer
    <2>3. CASE meant' = meant \o said /\ said = <<>>
        <3>1. meant' = meant
            BY <2>1, <2>3
        <3> QED BY <2>2, <3>1
    <2>4. ASSUME NEW x \in Item, meant' = meant \o <<x>>, x[1] # "block" PROVE NoBlock
        <3>1. /\ Longer(meant', meant)
              /\ Len(meant') = Len(meant) + 1 /\ meant'[Len(meant) + 1] = x
            BY <2>1, <2>4, Appending
        <3>2. \A i \in 1 .. Len(meant') : i > Len(meant) => i = Len(meant) + 1
            BY <2>1, <3>1
        <3> QED BY <2>4, <3>1, <3>2 DEF NoBlock
    <2> QED BY <1>3, <2>2, <2>3, <2>4
<1>6. gaveUp => gaveUp'
    BY <1>1, <1>3
<1>7. Members'
    BY <1>3, <1>6, MembersKept DEF ReportInv
<1>8. Accounts'
    <2>1. pc' = "over" => gaveUp'
        BY <1>3 DEF Writing
    <2>2. pc # "over" /\ pc' # "idle" /\ (pc' = "blocks" => meant = <<>>)
        BY <1>3 DEF Writing
    <2> QED BY <1>5, <1>6, <2>1, <2>2, AccountsKept DEF ReportInv
<1>9. Scalars'
    <2>1. pc' # "idle"
        BY <1>3 DEF Writing
    <2>2. at' \in 1 .. Len(used') + 1
        <3>1. Len(used) \in Nat
            BY DEF ReportInv, Members
        <3> QED BY <1>1, <3>1
    <2>3. gaveUp' \in BOOLEAN
        BY <1>1, <1>3
    <2> QED BY <1>1, <1>3, <2>1, <2>2, <2>3 DEF Scalars
<1> QED BY <1>4, <1>7, <1>8, <1>9 DEF ReportInv

\* What may be said in a call that adds no block.
Silent(said) == said = <<>> \/ \E x \in Item : said = <<x>> /\ x[1] # "block"

\* Nothing but a block is a block.
LEMMA Saying ==
    /\ Silent(<<>>)
    /\ \A t \in {"SR", "RR", "chunk", "BYE"}, s \in Id : Silent(<<<<t, s>>>>)
    /\ \A n \in Text : Silent(<<<<"cname", n>>>>)
<1>1. Silent(<<>>)
    BY DEF Silent
<1>2. ASSUME NEW t \in {"SR", "RR", "chunk", "BYE"}, NEW s \in Id PROVE Silent(<<<<t, s>>>>)
    <2> DEFINE x == <<t, s>>
    <2>1. x \in Item /\ x[1] # "block"
        BY DEF Item
    <2> HIDE DEF x
    <2>2. \E y \in Item : <<x>> = <<y>> /\ y[1] # "block"
        BY <2>1
    <2> QED BY <2>2 DEF x, Silent
<1>3. ASSUME NEW n \in Text PROVE Silent(<<<<"cname", n>>>>)
    <2> DEFINE x == <<"cname", n>>
    <2>1. x \in Item /\ x[1] # "block"
        BY DEF Item
    <2> HIDE DEF x
    <2>2. \E y \in Item : <<x>> = <<y>> /\ y[1] # "block"
        BY <2>1
    <2> QED BY <2>2 DEF x, Silent
<1> QED BY <1>1, <1>2, <1>3

\* A step of the writer that is one such call.
OneCall ==
    \E re, said, next :
        /\ Call(re, said, next) /\ Silent(said) /\ next \in Writing
        /\ next = "blocks" => meant = <<>>

\* A step that is one call keeps the invariant if it keeps the layout.
LEMMA OneCallKeeps ==
    ASSUME ReportInv, OneCall, used' = used, Written' /\ Layout', pc \notin Reading \cup {"over"},
           at' \in {1, at}
    PROVE  ReportInv'
BY CallKeeps DEF OneCall, Silent

\* The steps of the writer, one by one.
LEMMA ReportBeginsKeeps ==
    ASSUME ReportInv, ReportBegins
    PROVE  ReportInv'
<1>1. pc = "idle" /\ at' = 1 /\ used' = used
    BY DEF ReportBegins
<1>2. Written' /\ Layout'
    BY ReportBeginsStep DEF ReportInv, Scalars
<1>3. meant = <<>>
    BY <1>1 DEF ReportInv, Layout
<1>4. Silent(<<<<"SR", Self>>>>) /\ Silent(<<<<"RR", Self>>>>) /\ "blocks" \in Writing
    BY Saying DEF Id, Writing
<1>5. OneCall
    BY <1>3, <1>4 DEF ReportBegins, OneCall
<1> QED BY <1>1, <1>2, <1>5, OneCallKeeps DEF Reading

LEMMA ReportEndsKeeps ==
    ASSUME ReportInv, ReportEnds
    PROVE  ReportInv'
<1>1. pc = "blocks" /\ at' = at /\ used' = used
    BY DEF ReportEnds, Writes
<1>2. Written' /\ Layout'
    BY ReportEndsStep DEF ReportInv
<1>3. OneCall
    BY Saying DEF ReportEnds, OneCall, Writing
<1> QED BY <1>1, <1>2, <1>3, OneCallKeeps DEF Reading

LEMMA SdesBeginsKeeps ==
    ASSUME ReportInv, SdesBegins
    PROVE  ReportInv'
<1>1. pc = "sdes" /\ at' = at /\ used' = used
    BY DEF SdesBegins, Writes
<1>2. Written' /\ Layout'
    BY SdesBeginsStep DEF ReportInv
<1>3. OneCall
    BY Saying DEF SdesBegins, OneCall, Writing
<1> QED BY <1>1, <1>2, <1>3, OneCallKeeps DEF Reading

LEMMA ChunkBeginsKeeps ==
    ASSUME ReportInv, ChunkBegins
    PROVE  ReportInv'
<1>1. pc = "chunk" /\ at' = at /\ used' = used
    BY DEF ChunkBegins, Writes
<1>2. Written' /\ Layout'
    BY ChunkBeginsStep DEF ReportInv
<1>3. OneCall
    <2>1. PICK ssrc \in Id :
              Call(rtcp_encoder_sdes_chunk_begin(enc, ssrc), <<<<"chunk", ssrc>>>>, "cname")
        BY DEF ChunkBegins, Id
    <2>2. Silent(<<<<"chunk", ssrc>>>>)
        BY Saying
    <2> QED BY <2>1, <2>2 DEF OneCall, Writing
<1> QED BY <1>1, <1>2, <1>3, OneCallKeeps DEF Reading

LEMMA ChunkAddsCnameKeeps ==
    ASSUME ReportInv, ChunkAddsCname
    PROVE  ReportInv'
<1>1. pc = "cname" /\ at' = at /\ used' = used
    BY DEF ChunkAddsCname, Writes
<1>2. Written' /\ Layout'
    BY ChunkAddsCnameStep DEF ReportInv, Scalars
<1>3. OneCall
    <2>1. cname \in Text
        BY DEF ReportInv, Scalars
    <2>2. PICK n \in Text :
              Call(rtcp_encoder_sdes_chunk_add_cname(enc, n), <<<<"cname", n>>>>, "chunk_end")
        BY <2>1 DEF ChunkAddsCname
    <2>3. Silent(<<<<"cname", n>>>>)
        BY Saying
    <2> QED BY <2>2, <2>3 DEF OneCall, Writing
<1> QED BY <1>1, <1>2, <1>3, OneCallKeeps DEF Reading

LEMMA ChunkEndsKeeps ==
    ASSUME ReportInv, ChunkEnds
    PROVE  ReportInv'
<1>1. pc \in {"chunk_end", "cname"} /\ at' = at /\ used' = used
    BY DEF ChunkEnds, Writes
<1>2. Written' /\ Layout'
    BY ChunkEndsStep DEF ReportInv
<1>3. OneCall
    BY Saying DEF ChunkEnds, OneCall, Writing
<1> QED BY <1>1, <1>2, <1>3, OneCallKeeps DEF Reading

LEMMA SdesEndsKeeps ==
    ASSUME ReportInv, SdesEnds
    PROVE  ReportInv'
<1>1. pc = "chunk_ended" /\ at' = at /\ used' = used
    BY DEF SdesEnds, Writes
<1>2. Written' /\ Layout'
    BY SdesEndsStep DEF ReportInv, Scalars
<1>3. OneCall
    <2> DEFINE next == IF more THEN "bye" ELSE "send"
    <2>1. next \in Writing /\ next # "blocks"
        BY DEF Writing
    <2>2. Call(rtcp_encoder_end_packet(enc), <<>>, next)
        BY DEF SdesEnds
    <2> HIDE DEF next
    <2> QED BY <2>1, <2>2, Saying DEF OneCall
<1> QED BY <1>1, <1>2, <1>3, OneCallKeeps DEF Reading

LEMMA ByeBeginsKeeps ==
    ASSUME ReportInv, ByeBegins
    PROVE  ReportInv'
<1>1. pc = "bye" /\ at' = at /\ used' = used
    BY DEF ByeBegins, Writes
<1>2. Written' /\ Layout'
    BY ByeBeginsStep DEF ReportInv
<1>3. OneCall
    BY Saying DEF ByeBegins, OneCall, Writing
<1> QED BY <1>1, <1>2, <1>3, OneCallKeeps DEF Reading

LEMMA ByeAddsSsrcKeeps ==
    ASSUME ReportInv, ByeAddsSsrc
    PROVE  ReportInv'
<1>1. pc = "bye_ssrc" /\ at' = at /\ used' = used
    BY DEF ByeAddsSsrc, Writes
<1>2. Written' /\ Layout'
    BY ByeAddsSsrcStep DEF ReportInv
<1>3. OneCall
    <2>1. PICK ssrc \in Id :
              Call(rtcp_encoder_bye_add_ssrc(enc, ssrc), <<<<"BYE", ssrc>>>>, "bye_ssrc")
        BY DEF ByeAddsSsrc, Id
    <2>2. Silent(<<<<"BYE", ssrc>>>>)
        BY Saying
    <2> QED BY <2>1, <2>2 DEF OneCall, Writing
<1> QED BY <1>1, <1>2, <1>3, OneCallKeeps DEF Reading

LEMMA ByeAddsReasonKeeps ==
    ASSUME ReportInv, ByeAddsReason
    PROVE  ReportInv'
<1>1. pc = "bye_ssrc" /\ at' = at /\ used' = used
    BY DEF ByeAddsReason, Writes
<1>2. Written' /\ Layout'
    BY ByeAddsReasonStep DEF ReportInv
<1>3. OneCall
    BY Saying DEF ByeAddsReason, OneCall, Writing
<1> QED BY <1>1, <1>2, <1>3, OneCallKeeps DEF Reading

LEMMA ByeEndsKeeps ==
    ASSUME ReportInv, ByeEnds
    PROVE  ReportInv'
<1>1. pc \in {"bye_ssrc", "bye_end"} /\ at' = at /\ used' = used
    BY DEF ByeEnds, Writes
<1>2. Written' /\ Layout'
    BY ByeEndsStep DEF ReportInv
<1>3. OneCall
    BY Saying DEF ByeEnds, OneCall, Writing
<1> QED BY <1>1, <1>2, <1>3, OneCallKeeps DEF Reading

LEMMA NextChunkKeeps ==
    ASSUME ReportInv, NextChunk
    PROVE  ReportInv'
<1>1. pc = "chunk_ended" /\ pc' = "chunk" /\ UNCHANGED <<table, enc, at, more, rx, meant, got, gaveUp>>
    BY DEF NextChunk, Writes
<1>2. Written' /\ Layout'
    BY NextChunkStep DEF ReportInv
<1>3. UNCHANGED <<used, free, sender, cname>>
    BY <1>1 DEF table
<1>4. Followup'
    BY <1>1, <1>2, NothingRead DEF ReportInv, Reading
<1>5. Members'
    BY <1>1, <1>3, MembersKept DEF ReportInv
<1>6. Accounts'
    <2>1. NoBlock
        BY <1>1 DEF ReportInv, Written, NoBlock, Longer
    <2> QED BY <1>1, <1>3, <2>1, AccountsKept DEF ReportInv
<1>7. Scalars'
    BY <1>1, <1>3 DEF ReportInv, Scalars
<1> QED BY <1>2, <1>4, <1>5, <1>6, <1>7 DEF ReportInv

LEMMA ReportOverKeeps ==
    ASSUME ReportInv, ReportOver
    PROVE  ReportInv'
<1>1. /\ pc = "over" /\ pc' = "idle" /\ at' = 1 /\ rx' = AtStart /\ meant' = <<>> /\ got' = <<>>
      /\ UNCHANGED <<table, more, gaveUp>>
    BY DEF ReportOver
<1>2. Written' /\ Layout'
    BY ReportOverStep DEF ReportInv
<1>3. UNCHANGED <<used, free, sender, cname>>
    BY <1>1 DEF table
<1>4. Followup'
    <2>1. Longer(meant', got')
        BY <1>1 DEF Longer
    <2>2. Pointers'
        BY <1>1 DEF Pointers, AtStart
    <2> QED BY <1>1, <2>1, <2>2 DEF Followup, Reading
<1>5. Members'
    BY <1>1, <1>3, MembersKept DEF ReportInv
<1>6. Accounts'
    <2>1. \A k \in 1 .. Len(used') : ~gaveUp' => Even(used'[k].src)
        BY <1>1, <1>3 DEF ReportInv, Accounts
    <2> QED BY <1>1, <2>1, IdleAccounts
<1>7. Scalars'
    <2>1. sender' \in BOOLEAN /\ more' \in BOOLEAN /\ gaveUp' \in BOOLEAN /\ cname' \in Text
        BY <1>1, <1>3 DEF ReportInv, Scalars
    <2>2. at' \in 1 .. Len(used') + 1
        <3>1. Len(used') \in Nat
            BY <1>5 DEF Members
        <3> QED BY <1>1, <3>1
    <2> QED BY <1>1, <2>1, <2>2 DEF Scalars
<1> QED BY <1>2, <1>4, <1>5, <1>6, <1>7 DEF ReportInv

\* A member that is passed over.
LEMMA BlockSkipped ==
    ASSUME ReportInv, rtcp_send_report_gen_rr, Skipped(used[at]), Written', Layout'
    PROVE  ReportInv'
<1>1. /\ pc = "blocks" /\ at <= Len(used) /\ used' = [used EXCEPT ![at] = used[at]] /\ at' = at + 1
      /\ UNCHANGED <<enc, pc, meant, gaveUp, free, sender, cname, more, rx, got>>
    BY DEF rtcp_send_report_gen_rr, Reported
<1>2. /\ used \in Seq(Entry) /\ Len(used) \in Nat /\ at \in 1 .. Len(used)
      /\ sender \in BOOLEAN /\ more \in BOOLEAN /\ gaveUp \in BOOLEAN /\ cname \in Text
    BY <1>1 DEF ReportInv, Members, Scalars
<1>3. used' = used
    BY <1>1, <1>2
<1>4. Followup'
    BY <1>1, NothingRead DEF ReportInv, Reading
<1>5. Members'
    BY <1>1, <1>3, MembersKept DEF ReportInv
<1>6. Accounts'
    <2>1. NoBlock
        BY <1>1 DEF ReportInv, Written, NoBlock, Longer
    <2>2. at \in Int
        BY <1>2
    <2> QED BY <1>1, <1>2, <1>3, <2>1, <2>2, AccountsKept DEF ReportInv
<1>7. Scalars'
    <2>1. at' \in 1 .. Len(used') + 1
        BY <1>1, <1>2, <1>3
    <2> QED BY <1>1, <1>2, <2>1 DEF Scalars
<1> QED BY <1>4, <1>5, <1>6, <1>7 DEF ReportInv

\* The block about a member that is not.
LEMMA BlockOf ==
    ASSUME NEW m \in Entry, Good(m), ~Skipped(m)
    PROVE  /\ block(m) \in Blk /\ block(m).ssrc = m.ssrc /\ block(m).of = m.src.of
           /\ block(m).loss = m.src.lost - m.src.prior
<1>1. /\ m.ssrc \in Peer /\ m.src.of \in Peer \cup {NoOne} /\ LOSSES \in Nat
      /\ m.src.lost \in 0 .. LOSSES /\ m.src.prior \in 0 .. LOSSES /\ m.src.prior <= m.src.lost
    BY EntryFields, EncoderConstants DEF Good, InOrder, Skipped, Id
<1>2. m.src.lost - m.src.prior \in 0 .. LOSSES
    BY <1>1
<1> QED BY <1>1, <1>2 DEF block, Blk

\* The books after a member was reported on: r is its entry with the interval
\* closed, and x the block about it, unless the report is given up.
LEMMA BlockAccounts ==
    ASSUME Members, Accounts, pc = "blocks", meant \in Seq(Item), gaveUp \in BOOLEAN,
           NEW k \in 1 .. Len(used), at = k, at' = k + 1,
           NEW m, m = used[k], NEW r, r \in Entry, r.ssrc = m.ssrc, r.src.of = m.src.of, r.src.told = m.src.told,
           r.src.prior = m.src.lost,
           NEW x \in Blk, x.ssrc = m.ssrc, x.of = m.src.of, x.loss = m.src.lost - m.src.prior,
           NEW y, y = <<"block", x>>, used' = [used EXCEPT ![k] = r],
           \/ pc' = "blocks" /\ meant' = meant \o <<y>> /\ gaveUp' = gaveUp
           \/ pc' = "over" /\ meant' = meant /\ gaveUp' = TRUE
    PROVE  Accounts'
<1>1. /\ used \in Seq(Entry) /\ Len(used) \in Nat /\ m \in Entry /\ Good(m)
      /\ \A i, j \in 1 .. Len(used) : used[i].ssrc = used[j].ssrc => i = j
    BY DEF Members
<1>2. /\ Len(used') = Len(used) /\ used'[k] = r
      /\ \A j \in 1 .. Len(used) : j # k => used'[j] = used[j]
    BY <1>1, ExceptSeq
<1>3. \A i \in 1 .. Len(meant) : ~About(i, used[k])
    <2>1. ~(k < at) /\ k \in 1 .. Len(used)
        BY <1>1
    <2> QED BY <2>1 DEF Accounts
<1>4. ~gaveUp => Even(m.src)
    BY <1>3 DEF Accounts
<1>5. CASE pc' = "over" /\ meant' = meant /\ gaveUp' = TRUE
    <2>1. ASSUME NEW j \in 1 .. Len(used'), NEW i \in 1 .. Len(meant'), About(i, used[j])'
          PROVE  meant'[i][2].of = used'[j].src.of
        <3>1. About(i, used[j])
            <4>1. used'[j].ssrc = used[j].ssrc
                BY <1>2
            <4> QED BY <1>5, <2>1, <4>1 DEF About
        <3>2. j # k
            BY <1>3, <1>5, <3>1
        <3> QED BY <1>2, <1>5, <3>1, <3>2 DEF Accounts
    <2> QED BY <1>5, <2>1 DEF Accounts
<1>6. CASE pc' = "blocks" /\ meant' = meant \o <<y>> /\ gaveUp' = gaveUp
    <2>1. y \in Item /\ y[1] = "block" /\ y[2] = x
        BY DEF Item
    <2>2. meant' = meant \o <<y>>
        BY <1>6
    <2>3. /\ Longer(meant', meant) /\ Len(meant') = Len(meant) + 1 /\ meant'[Len(meant) + 1] = y
        BY <2>1, <2>2, Appending
    <2>4. /\ Len(meant) \in Nat /\ \A i \in 1 .. Len(meant) : meant'[i] = meant[i]
          /\ \A i \in 1 .. Len(meant') : i \in 1 .. Len(meant) \/ i = Len(meant) + 1
        BY <2>3 DEF Longer
    <2>5. ASSUME NEW j \in 1 .. Len(used'), NEW i \in 1 .. Len(meant), About(i, used[j])'
          PROVE  About(i, used[j]) /\ j # k /\ used'[j] = used[j] /\ meant'[i] = meant[i]
        <3>1. used'[j].ssrc = used[j].ssrc /\ meant'[i] = meant[i]
            BY <1>2, <2>4
        <3>2. About(i, used[j])
            BY <2>5, <3>1 DEF About
        <3> QED BY <1>2, <1>3, <3>1, <3>2
    <2>6. ASSUME NEW j \in 1 .. Len(used'), NEW i, i = Len(meant) + 1, About(i, used[j])'
          PROVE  j = k
        <3>1. meant'[i] = y
            BY <2>3, <2>6
        <3>2. x.ssrc = used'[j].ssrc
            BY <2>1, <2>6, <3>1 DEF About
        <3>3. used[j].ssrc = used[k].ssrc
            BY <1>2, <3>2
        <3> QED BY <1>1, <1>2, <3>3
    <2>7. Tallies(x, r)'
        <3>1. m.src.told \in Int /\ m.src.prior \in Int /\ m.src.lost \in Int /\ m.src.told <= m.src.prior
            BY <1>1, EntryFields DEF Good, InOrder
        <3>2. m.src.told + (m.src.lost - m.src.prior) <= m.src.lost
            BY <3>1
        <3>3. ~gaveUp => m.src.told + (m.src.lost - m.src.prior) = m.src.lost
            BY <1>4, <3>1 DEF Even
        <3> QED BY <1>6, <3>2, <3>3 DEF Tallies
    <2>8. ASSUME NEW j \in 1 .. Len(used'), NEW i \in 1 .. Len(meant'), About(i, used[j])'
          PROVE  /\ meant'[i][2].of = used'[j].src.of
                 /\ Tallies(meant[i][2], used[j])'
                 /\ j < at'
        <3>1. CASE i \in 1 .. Len(meant)
            <4>1. About(i, used[j]) /\ j # k /\ used'[j] = used[j] /\ meant'[i] = meant[i]
                BY <2>5, <2>8, <3>1
            <4>2. /\ meant[i][2].of = used[j].src.of /\ Tallies(meant[i][2], used[j]) /\ j < at
                BY <1>2, <3>1, <4>1 DEF Accounts
            <4>3. Tallies(meant[i][2], used[j])'
                BY <1>6, <4>1, <4>2 DEF Tallies
            <4> QED BY <1>1, <1>2, <4>1, <4>2, <4>3
        <3>2. CASE i = Len(meant) + 1
            <4>1. j = k /\ meant'[i] = y
                BY <2>3, <2>6, <2>8, <3>2
            <4>2. meant'[i][2] = x /\ used'[j] = r
                BY <1>2, <2>1, <4>1
            <4>3. Tallies(meant[i][2], used[j])'
                BY <2>7, <4>2 DEF Tallies
            <4>4. j < at'
                BY <1>1, <4>1
            <4> QED BY <4>2, <4>3, <4>4
        <3> QED BY <2>4, <3>1, <3>2
    <2>9. ASSUME NEW j \in 1 .. Len(used'), ~gaveUp', \A i \in 1 .. Len(meant') : ~About(i, used[j])'
          PROVE  Even(used'[j].src)
        <3>1. Len(meant) + 1 \in 1 .. Len(meant') /\ \A i \in 1 .. Len(meant) : i \in 1 .. Len(meant')
            BY <2>3, <2>4
        <3>2. j # k
            <4>1. PICK p \in 1 .. Len(meant') : meant'[p] = y
                BY <2>3, <3>1
            <4>2. ~About(p, used[j])'
                BY <2>9, <4>1
            <4> QED BY <1>2, <2>1, <4>1, <4>2 DEF About
        <3>3. used'[j] = used[j] /\ j \in 1 .. Len(used)
            BY <1>2, <3>2
        <3>4. \A i \in 1 .. Len(meant) : ~About(i, used[j])
            BY <2>4, <2>9, <3>1, <3>3 DEF About
        <3> QED BY <1>6, <2>9, <3>3, <3>4 DEF Accounts
    <2> QED BY <1>6, <2>8, <2>9 DEF Accounts
<1> QED BY <1>5, <1>6

\* rtcp_send_report_gen_rr keeps the books: it closes the interval of the
\* member in the step that writes the block.
LEMMA BlockKeeps ==
    ASSUME ReportInv, rtcp_send_report_gen_rr
    PROVE  ReportInv'
<1> DEFINE m == used[at]
<1>1. /\ pc = "blocks" /\ at <= Len(used) /\ used' = [used EXCEPT ![at] = Reported(m)] /\ at' = at + 1
    BY DEF rtcp_send_report_gen_rr
<1>2. /\ used \in Seq(Entry) /\ Len(used) \in Nat /\ at \in 1 .. Len(used) /\ used[1].ssrc = Self
      /\ sender \in BOOLEAN /\ more \in BOOLEAN /\ gaveUp \in BOOLEAN /\ cname \in Text
      /\ Written /\ Layout /\ Followup /\ Members /\ Accounts /\ meant \in Seq(Item)
    BY <1>1 DEF ReportInv, Members, Scalars, Written
<1>3. m \in Entry /\ Good(m)
    BY <1>2 DEF Members
<1> HIDE DEF m
<1>4. Skipped(m) \/ block(m) \in Blk
    BY <1>3, BlockOf
<1>5. Written' /\ Layout'
    <2>1. Len(used) <= COUNT_MOD /\ at \in 1 .. Len(used) + 1
        <3>1. Len(used) + Len(free) = MAX_MEMBERS /\ Len(free) \in Nat
            BY <1>2 DEF Members
        <3> QED BY <1>2, <3>1, EncoderConstants
    <2> QED BY <1>2, <1>4, <2>1, BlockStep DEF m
<1>6. CASE Skipped(m)
    BY <1>5, <1>6, BlockSkipped DEF m
<1>7. CASE ~Skipped(m)
    <2> DEFINE v == m.src.lost
               r == WithPrior(m, v)
               x == block(m)
               y == <<"block", x>>
    <2>1. used' = [used EXCEPT ![at] = r]
        BY <1>1, <1>7 DEF Reported, WithPrior
    <2>2. /\ x \in Blk /\ x.ssrc = m.ssrc /\ x.of = m.src.of /\ x.loss = v - m.src.prior
        BY <1>3, <1>7, BlockOf
    <2>3. PICK re : Call(re, <<y>>, "blocks")
        BY <1>7 DEF rtcp_send_report_gen_rr, m
    <2>4. /\ v \in 0 .. LOSSES /\ m.src.prior \in 0 .. LOSSES /\ m.src.told \in 0 .. LOSSES
        BY <1>3, EntryFields
    <2>5. r = WithPrior(m, v) /\ y = <<"block", x>>
        OBVIOUS
    <2> HIDE DEF v, r, x, y
    <2>6. /\ r \in Entry /\ r.ssrc = m.ssrc /\ r.heard = m.heard
          /\ r.src.of = m.src.of /\ r.src.lost = m.src.lost /\ r.src.prior = v /\ r.src.told = m.src.told
        <3>1. m \in Entry /\ v \in 0 .. LOSSES
            BY <1>3, <2>4
        <3> QED BY <2>5, <3>1, SetPrior
    <2>7. Good(r)
        BY <1>3, <2>4, <2>6 DEF Good, InOrder, v
    <2>8. pc' # "crashed"
        BY <1>5 DEF Layout, Writing, Reading
    <2>9. /\ \/ pc' = "blocks" /\ meant' = meant \o <<y>> /\ gaveUp' = gaveUp
             \/ pc' = "over" /\ meant' = meant /\ gaveUp' = TRUE
          /\ UNCHANGED <<free, sender, cname, more, rx, got>>
        BY <1>2, <2>3, <2>8, CallChanges
    <2>10. Followup'
        <3>1. pc' \notin Reading
            BY <2>9 DEF Reading
        <3> QED BY <1>1, <1>2, <1>5, <2>9, <3>1, NothingRead DEF Reading
    <2>11. gaveUp => gaveUp'
        BY <1>2, <2>9
    <2>12. r.ssrc = used[at].ssrc
        BY <2>6 DEF m
    <2>13. Members' /\ Len(used') = Len(used)
        BY <1>2, <2>1, <2>6, <2>7, <2>9, <2>11, <2>12, MembersSet
    <2>14. Accounts'
        <3> DEFINE k == at
        <3>1. m = used[k] /\ k \in 1 .. Len(used) /\ at = k /\ at' = k + 1 /\ used' = [used EXCEPT ![k] = r]
            BY <1>1, <1>2, <2>1 DEF m
        <3> HIDE DEF k
        <3>2. /\ r \in Entry /\ r.ssrc = m.ssrc /\ r.src.of = m.src.of /\ r.src.told = m.src.told
              /\ r.src.prior = m.src.lost
            BY <2>6 DEF v
        <3>3. /\ x \in Blk /\ x.ssrc = m.ssrc /\ x.of = m.src.of /\ x.loss = m.src.lost - m.src.prior
            BY <2>2 DEF v
        <3>4. y = <<"block", x>>
            BY <2>5
        <3>5. Members /\ Accounts /\ pc = "blocks" /\ meant \in Seq(Item) /\ gaveUp \in BOOLEAN
            BY <1>1, <1>2
        <3>6. \/ pc' = "blocks" /\ meant' = meant \o <<y>> /\ gaveUp' = gaveUp
              \/ pc' = "over" /\ meant' = meant /\ gaveUp' = TRUE
            BY <2>9
        <3> QED BY <3>1, <3>2, <3>3, <3>4, <3>5, <3>6, BlockAccounts
    <2>15. Scalars'
        <3>1. at' \in 1 .. Len(used') + 1
            BY <1>1, <1>2, <2>13
        <3>2. gaveUp' \in BOOLEAN
            BY <1>2, <2>9
        <3> QED BY <1>2, <2>9, <3>1, <3>2 DEF Scalars
    <2> QED BY <1>5, <2>10, <2>13, <2>14, <2>15 DEF ReportInv
<1> QED BY <1>6, <1>7

\* A step of the reader changes neither the table nor the books.
LEMMA ReaderKeeps ==
    ASSUME ReportInv, Written' /\ Layout' /\ Followup', UNCHANGED <<table, enc, at, more, meant, gaveUp>>,
           pc \in Reading \cup {"send"}, pc' \in Reading \cup {"lost"}
    PROVE  ReportInv'
<1>1. pc' \in Reading
    BY DEF Layout, Writing, Reading
<1>2. UNCHANGED <<used, free, sender, cname>>
    BY DEF table
<1>3. Members'
    BY <1>2, MembersKept DEF ReportInv
<1>4. Accounts'
    <2>1. NoBlock
        BY DEF ReportInv, Written, NoBlock, Longer
    <2>2. pc # "over" /\ pc' # "over" /\ pc' # "idle" /\ pc' # "blocks"
        BY <1>1 DEF Reading
    <2> QED BY <1>2, <2>1, <2>2, AccountsKept DEF ReportInv
<1>5. Scalars'
    BY <1>1, <1>2 DEF ReportInv, Scalars, Reading
<1> QED BY <1>3, <1>4, <1>5 DEF ReportInv

\* The steps of the reader, one by one.
LEMMA CheckFirstKeeps ==
    ASSUME ReportInv, CheckFirst
    PROVE  ReportInv'
<1>1. /\ pc = "send" /\ pc' \in {"check", "lost"} /\ UNCHANGED <<table, enc, at, more, meant, gaveUp>>
    BY DEF CheckFirst, Reads, ReaderLost
<1> QED BY <1>1, CheckFirstStep, ReaderKeeps DEF ReportInv, Reading

LEMMA CheckNextKeeps ==
    ASSUME ReportInv, CheckNext
    PROVE  ReportInv'
<1>1. /\ pc = "check" /\ pc' \in {"check", "packet", "lost"} /\ UNCHANGED <<table, enc, at, more, meant, gaveUp>>
    BY DEF CheckNext, Reads, ReaderLost
<1> QED BY <1>1, CheckNextStep, ReaderKeeps DEF ReportInv, Reading

LEMMA ReportReadKeeps ==
    ASSUME ReportInv, rtcp_handle_sr \/ rtcp_handle_rr
    PROVE  ReportInv'
<1>1. /\ pc = "packet" /\ pc' \in {"packet", "lost"} /\ UNCHANGED <<table, enc, at, more, meant, gaveUp>>
    BY DEF rtcp_handle_sr, rtcp_handle_rr, rtcp_handle_report, Reads, ReaderLost, NextPacket
<1>2. Written' /\ Layout' /\ Followup'
    <2>1. CASE rtcp_handle_sr
        <3>1. /\ Reads("packet") /\ rx.r < len /\ Cell(rx.r).pt = "SR" /\ rtcp_handle_report(Base("SR"))
            BY <2>1 DEF rtcp_handle_sr, Base, SR_SIZE
        <3> QED BY <3>1, ReportStep DEF ReportInv
    <2>2. CASE rtcp_handle_rr
        <3>1. /\ Reads("packet") /\ rx.r < len /\ Cell(rx.r).pt = "RR" /\ rtcp_handle_report(Base("RR"))
            BY <2>2 DEF rtcp_handle_rr, Base, RR_SIZE
        <3> QED BY <3>1, ReportStep DEF ReportInv
    <2> QED BY <2>1, <2>2
<1> QED BY <1>1, <1>2, ReaderKeeps DEF Reading

LEMMA ByeReadKeeps ==
    ASSUME ReportInv, rtcp_handle_bye
    PROVE  ReportInv'
<1>1. /\ pc = "packet" /\ pc' \in {"packet", "lost"} /\ UNCHANGED <<table, enc, at, more, meant, gaveUp>>
    BY DEF rtcp_handle_bye, Reads, ReaderLost, NextPacket
<1> QED BY <1>1, ByeStep, ReaderKeeps DEF ReportInv, Reading

LEMMA SdesReadKeeps ==
    ASSUME ReportInv, rtcp_handle_sdes
    PROVE  ReportInv'
<1>1. /\ pc = "packet" /\ pc' = "read_chunk" /\ UNCHANGED <<table, enc, at, more, meant, gaveUp>>
    BY DEF rtcp_handle_sdes, Reads
<1> QED BY <1>1, SdesStep, ReaderKeeps DEF ReportInv, Reading

LEMMA ReadChunkKeeps ==
    ASSUME ReportInv, ReadChunk
    PROVE  ReportInv'
<1>1. /\ pc = "read_chunk" /\ pc' \in {"packet", "read_item", "lost"}
      /\ UNCHANGED <<table, enc, at, more, meant, gaveUp>>
    BY DEF ReadChunk, Reads, ReaderLost, NextPacket
<1> QED BY <1>1, ReadChunkStep, ReaderKeeps DEF ReportInv, Reading

LEMMA ReadItemKeeps ==
    ASSUME ReportInv, ReadItem
    PROVE  ReportInv'
<1>1. /\ pc = "read_item" /\ pc' \in {"read_chunk", "read_item", "lost"}
      /\ UNCHANGED <<table, enc, at, more, meant, gaveUp>>
    BY DEF ReadItem, Reads, ReaderLost, ChunkRead
<1> QED BY <1>1, ReadItemStep, ReaderKeeps DEF ReportInv, Reading

\* A member's losses once its block has been read.
LEMMA ToldDoes ==
    ASSUME NEW m \in Entry, Good(m), got = meant, meant \in Seq(Item),
           \A i \in 1 .. Len(meant) : About(i, m) => Tallies(meant[i][2], m),
           ~gaveUp /\ (\A i \in 1 .. Len(meant) : ~About(i, m)) => Even(m.src)
    PROVE  /\ Told(m) \in Entry /\ Told(m).ssrc = m.ssrc /\ Told(m).src.of = m.src.of
           /\ Good(Told(m)) /\ (~gaveUp => Even(Told(m).src))
<1> DEFINE mine == {i \in DOMAIN got : got[i][1] = "block" /\ got[i][2].ssrc = m.ssrc}
<1>1. DOMAIN got = 1 .. Len(meant) /\ mine = {i \in 1 .. Len(meant) : About(i, m)}
    BY DEF About
<1>2. CASE mine = {}
    <2>1. Told(m) = m
        BY <1>2 DEF Told
    <2>2. \A i \in 1 .. Len(meant) : ~About(i, m)
        BY <1>1, <1>2
    <2> QED BY <2>1, <2>2
<1>3. CASE mine # {}
    <2> DEFINE j == CHOOSE i \in mine : TRUE
               x == meant[j][2]
               v == m.src.told + x.loss
               r == WithTold(m, v)
    <2>1. j \in mine
        BY <1>3
    <2>2. j \in 1 .. Len(meant) /\ About(j, m)
        BY <1>1, <2>1
    <2>3. Told(m) = r
        BY <1>3 DEF Told, WithTold
    <2> HIDE DEF j
    <2>4. meant[j] \in Item /\ meant[j][1] = "block"
        BY <2>2 DEF About
    <2>5. x.loss \in 0 .. LOSSES
        BY <2>4, BlockItem
    <2>6. Tallies(x, m)
        BY <2>2
    <2> HIDE DEF x
    <2>7. /\ m.src.lost \in 0 .. LOSSES /\ m.src.prior \in 0 .. LOSSES /\ m.src.told \in 0 .. LOSSES
          /\ LOSSES \in Nat
        BY EntryFields, EncoderConstants
    <2>8. v \in 0 .. LOSSES /\ v <= m.src.prior /\ (~gaveUp => v = m.src.prior)
        BY <2>5, <2>6, <2>7 DEF Tallies
    <2>9. r = WithTold(m, v)
        OBVIOUS
    <2> HIDE DEF v, r
    <2>10. /\ r \in Entry /\ r.ssrc = m.ssrc /\ r.heard = m.heard /\ r.src.of = m.src.of
           /\ r.src.lost = m.src.lost /\ r.src.prior = m.src.prior /\ r.src.told = v
        <3>1. v \in 0 .. LOSSES
            BY <2>8
        <3> QED BY <2>9, <3>1, SetTold
    <2>11. Good(r) /\ (~gaveUp => Even(r.src))
        BY <2>8, <2>10 DEF Good, InOrder, Even
    <2> QED BY <2>3, <2>10, <2>11
<1> QED BY <1>2, <1>3

\* When the report has been read every member in a block has been told of its
\* losses.
LEMMA RxEndsKeeps ==
    ASSUME ReportInv, RxEnds
    PROVE  ReportInv'
<1>1. /\ pc = "packet" /\ rx.r >= len /\ pc' = "over" /\ used' = [k \in DOMAIN used |-> Told(used[k])]
      /\ UNCHANGED <<free, sender, cname, enc, at, more, rx, meant, got, gaveUp>>
    BY DEF RxEnds
<1>2. Written' /\ Layout' /\ Followup'
    BY RxEndsStep DEF ReportInv
<1>3. got = meant /\ meant \in Seq(Item)
    BY <1>1, ReadWhole DEF ReportInv, Written
<1>4. /\ used \in Seq(Entry) /\ free \in Seq(Source) /\ Len(used) + Len(free) = MAX_MEMBERS
      /\ Len(used) >= 1 /\ used[1].ssrc = Self
      /\ \A j \in 1 .. Len(used) : Good(used[j])
      /\ \A i, j \in 1 .. Len(used) : used[i].ssrc = used[j].ssrc => i = j
      /\ \A j \in 1 .. Len(free) : InOrder(free[j]) /\ (~gaveUp => Even(free[j]))
    BY DEF ReportInv, Members
<1> DEFINE n == Len(used)
<1>5. n \in Nat /\ DOMAIN used = 1 .. n /\ \A k \in 1 .. n : used[k] \in Entry
    BY <1>4
<1>6. ASSUME NEW k \in 1 .. n
      PROVE  /\ used'[k] \in Entry /\ used'[k].ssrc = used[k].ssrc /\ used'[k].src.of = used[k].src.of
             /\ Good(used'[k]) /\ (~gaveUp => Even(used'[k].src))
    <2> DEFINE m == used[k]
    <2>1. m \in Entry /\ Good(m)
        BY <1>4, <1>5
    <2>2. \A i \in 1 .. Len(meant) : About(i, m) => Tallies(meant[i][2], m)
        BY <1>1 DEF ReportInv, Accounts
    <2>3. ~gaveUp /\ (\A i \in 1 .. Len(meant) : ~About(i, m)) => Even(m.src)
        BY DEF ReportInv, Accounts
    <2>4. used'[k] = Told(m)
        BY <1>1, <1>5
    <2> HIDE DEF m
    <2>5. /\ Told(m) \in Entry /\ Told(m).ssrc = m.ssrc /\ Told(m).src.of = m.src.of
          /\ Good(Told(m)) /\ (~gaveUp => Even(Told(m).src))
        BY <1>3, <2>1, <2>2, <2>3, ToldDoes
    <2> QED BY <2>4, <2>5 DEF m
<1>7. used' \in Seq(Entry) /\ Len(used') = n
    <2> DEFINE g == [k \in 1 .. n |-> Told(used[k])]
    <2>1. used' = g
        BY <1>1, <1>5
    <2>2. \A k \in 1 .. n : g[k] \in Entry
        BY <1>6, <2>1
    <2>3. g \in [1 .. n -> Entry]
        BY <2>2
    <2> HIDE DEF g, n
    <2> QED BY <1>5, <2>1, <2>3, SeqDef
<1> HIDE DEF n
<1>8. Members'
    <2>1. \A i, j \in 1 .. Len(used') : used'[i].ssrc = used'[j].ssrc => i = j
        BY <1>4, <1>6, <1>7 DEF n
    <2>2. \A j \in 1 .. Len(used') : Good(used'[j])
        BY <1>6, <1>7
    <2>3. Len(used') >= 1 /\ used'[1].ssrc = Self
        BY <1>4, <1>5, <1>6, <1>7 DEF n
    <2>4. Len(used') + Len(free') = MAX_MEMBERS
        BY <1>1, <1>4, <1>7 DEF n
    <2> QED BY <1>1, <1>4, <1>7, <2>1, <2>2, <2>3, <2>4 DEF Members
<1>9. Accounts'
    <2>1. ASSUME NEW k \in 1 .. Len(used'), NEW i \in 1 .. Len(meant'), About(i, used[k])'
          PROVE  meant'[i][2].of = used'[k].src.of
        <3>1. k \in 1 .. Len(used) /\ used'[k].ssrc = used[k].ssrc /\ used'[k].src.of = used[k].src.of
            BY <1>6, <1>7 DEF n
        <3>2. About(i, used[k])
            BY <1>1, <2>1, <3>1 DEF About
        <3> QED BY <1>1, <3>1, <3>2 DEF ReportInv, Accounts
    <2>2. \A k \in 1 .. Len(used') : ~gaveUp' => Even(used'[k].src)
        BY <1>1, <1>6, <1>7
    <2> QED BY <1>1, <2>1, <2>2 DEF Accounts
<1>10. Scalars'
    <2>1. at' \in 1 .. Len(used') + 1
        BY <1>1, <1>7 DEF ReportInv, Scalars, n
    <2> QED BY <1>1, <2>1 DEF ReportInv, Scalars
<1> QED BY <1>2, <1>8, <1>9, <1>10 DEF ReportInv

-----------------------------------------------------------------------------
(* The theorems *)

\* Every step keeps the invariant.
LEMMA NextHolds == ReportInv /\ [ReportNext]_reportVars => ReportInv'
<1> SUFFICES ASSUME ReportInv, [ReportNext]_reportVars PROVE ReportInv'
    OBVIOUS
<1>1. CASE TableStep
    <2>1. ASSUME NEW ssrc \in Peer, RtpJoins(ssrc) \/ RtcpJoins(ssrc) PROVE ReportInv'
        BY <2>1, RtpJoinsStep, RtcpJoinsStep
    <2>2. ASSUME NEW k \in 2 .. Len(used), MemberChanges(k) \/ MemberLeaves(k) PROVE ReportInv'
        BY <2>2, MemberChangesStep, MemberLeavesStep
    <2>3. SelfChanges => ReportInv'
        BY SelfChangesStep
    <2> QED BY <1>1, <2>1, <2>2, <2>3 DEF TableStep
<1>2. CASE WriterStep
    BY <1>2, ReportBeginsKeeps, BlockKeeps, ReportEndsKeeps, SdesBeginsKeeps, ChunkBeginsKeeps,
       ChunkAddsCnameKeeps, ChunkEndsKeeps, NextChunkKeeps, SdesEndsKeeps, ByeBeginsKeeps,
       ByeAddsSsrcKeeps, ByeAddsReasonKeeps, ByeEndsKeeps, ReportOverKeeps DEF WriterStep
<1>3. CASE ReaderStep
    BY <1>3, CheckFirstKeeps, CheckNextKeeps, ReportReadKeeps, SdesReadKeeps, ByeReadKeeps,
       ReadChunkKeeps, ReadItemKeeps, RxEndsKeeps DEF ReaderStep
<1>4. CASE UNCHANGED reportVars
    <2>1. UNCHANGED <<used, free, sender, cname, enc, pc, at, more, rx, meant, got, gaveUp>>
        BY <1>4 DEF reportVars, table
    <2>2. Written'
        BY <2>1 DEF ReportInv, Written
    <2>3. Layout'
        <3>1. \A pt, c : (InBlocks(pt, c) => InBlocks(pt, c)') /\ (InSdes(pt, c) => InSdes(pt, c)')
            BY <2>1 DEF InBlocks, InSdes
        <3>2. \A pt, c, n, b, f : /\ BetweenChunks(pt, c, n, b, f) => BetweenChunks(pt, c, n, b, f)'
                                  /\ InChunk(pt, c, n, b, f) => InChunk(pt, c, n, b, f)'
                                  /\ SdesDone(pt, c, n, b, f) => SdesDone(pt, c, n, b, f)'
            BY <2>1 DEF InChunks, BetweenChunks, InChunk, SdesDone
        <3>3. \A pt, c, n, b, f, k : /\ InBye(pt, c, n, b, f, k) => InBye(pt, c, n, b, f, k)'
                                     /\ Complete(pt, c, n, b, f, k) => Complete(pt, c, n, b, f, k)'
            BY <2>1 DEF InBye, Complete, ByeDone, SdesDone
        <3> QED BY <2>1, <3>1, <3>2, <3>3 DEF ReportInv, Layout
    <2>4. Followup'
        <3>1. \A pt, c, n, b, f, k : Complete(pt, c, n, b, f, k) => Complete(pt, c, n, b, f, k)'
            BY <2>1 DEF Complete, ByeDone, SdesDone
        <3>2. \A pt, c, n, b, f : ReaderAt(pt, c, n, b, f) => ReaderAt(pt, c, n, b, f)'
            BY <2>1 DEF ReaderAt, AtPacket, AtChunk, AtItem, len
        <3>3. Pointers'
            BY <2>1 DEF ReportInv, Followup, Pointers
        <3> QED BY <2>1, <3>1, <3>2, <3>3 DEF ReportInv, Followup
    <2>5. Members' /\ Accounts' /\ Scalars'
        BY <2>1 DEF ReportInv, Members, Accounts, About, Tallies, Scalars
    <2> QED BY <2>2, <2>3, <2>4, <2>5 DEF ReportInv
<1> QED BY <1>1, <1>2, <1>3, <1>4 DEF ReportNext

\* The invariant holds always.
LEMMA InvHolds == ReportSpec => []ReportInv
<1>1. ReportInit => ReportInv
    BY InitHolds
<1>2. ReportInv /\ [ReportNext]_reportVars => ReportInv'
    BY NextHolds
<1> QED BY <1>1, <1>2, PTL DEF ReportSpec

\* The properties follow from it.
LEMMA InvImplies == ReportInv => ReportTypeOK /\ RoundTrip /\ LossesTold /\ BlocksAboutSource
<1> SUFFICES ASSUME ReportInv PROVE ReportTypeOK /\ RoundTrip /\ LossesTold /\ BlocksAboutSource
    OBVIOUS
<1>1. /\ used \in Seq(Entry) /\ free \in Seq(Source) /\ Len(used) + Len(free) = MAX_MEMBERS
      /\ \A k \in 1 .. Len(used) : Good(used[k])
    BY DEF ReportInv, Members
<1>2. DOMAIN used = 1 .. Len(used)
    BY <1>1
<1>3. Sound(enc) /\ enc.buf_len \in BufLen /\ meant \in Seq(Item)
    BY DEF ReportInv, Written
<1>4. DOMAIN meant = 1 .. Len(meant)
    BY <1>3
<1>5. ReportTypeOK
    <2>1. /\ DOMAIN enc.buf = 0 .. BUFFER_LEN - 1 /\ enc.write_ndx \in 0 .. enc.buf_len
          /\ enc.rtcp \in 0 .. enc.write_ndx /\ enc.chunk_begin \in 0 .. enc.write_ndx
        BY <1>3, SoundFields DEF Inside, Octets
    <2>2. {enc.rtcp, enc.chunk_begin} \subseteq 0 .. enc.write_ndx
        BY <2>1
    <2> QED BY <1>1, <1>3, <2>1, <2>2 DEF ReportInv, Scalars, ReportTypeOK, Entry
<1>6. RoundTrip
    <2>1. pc \notin {"crashed", "lost"}
        BY DEF ReportInv, Layout, Writing, Reading
    <2>2. Longer(meant, got)
        BY DEF ReportInv, Followup
    <2>3. IsPrefix(got, meant)
        BY <2>2 DEF Longer, IsPrefix
    <2>4. pc = "packet" /\ rx.r >= len => got = meant
        BY ReadWhole DEF ReportInv
    <2> QED BY <2>1, <2>3, <2>4 DEF RoundTrip
<1>7. LossesTold
    BY <1>2 DEF ReportInv, Accounts, Even, LossesTold
<1>8. BlocksAboutSource
    <2>1. ASSUME NEW i \in 1 .. Len(meant), NEW k \in 1 .. Len(used), About(i, used[k]), used[k].heard
          PROVE  meant[i][2].of = used[k].ssrc
        BY <1>1, <2>1 DEF ReportInv, Accounts, Good
    <2> QED BY <1>2, <1>4, <2>1 DEF BlocksAboutSource, About
<1> QED BY <1>5, <1>6, <1>7, <1>8

-----------------------------------------------------------------------------
(* What a report is given up for *)

\* Octets of the report and of SDES as this program writes them, when every
\* peer has a block.
ReportSize == (IF sender THEN SR_SIZE ELSE RR_SIZE) + BLOCK_SIZE * (Len(used) - 1)

SdesSize(t) == 11 + t + Pad(7 + t)

\* How far the program has come with a packet that has one chunk.
Budget ==
    ~more =>
        /\ pc = "sdes" => enc.write_ndx <= ReportSize
        /\ pc = "chunk" => enc.write_ndx <= ReportSize + 4 /\ ndx(enc) = 0
        /\ pc = "cname" => enc.write_ndx <= ReportSize + 8 /\ ndx(enc) = 1
        /\ pc = "chunk_end" => /\ enc.write_ndx <= ReportSize + 10 + cname
                               /\ enc.write_ndx = enc.chunk_begin + 6 + cname

TooLong == ReportSize + SdesSize(cname) > enc.buf_len

WithinBudget == Budget' /\ (pc' = "over" => TooLong)

\* The numbers these are about.
LEMMA Sizes ==
    ASSUME ReportInv
    PROVE  /\ ReportSize \in Nat /\ ReportSize >= 8 /\ cname \in Nat /\ SdesSize(cname) >= 11 + cname
           /\ SdesSize(cname) = 11 + cname + Pad(7 + cname) /\ SdesSize(cname) \in Nat
           /\ enc.buf_len \in Nat /\ enc.write_ndx \in Nat /\ enc.chunk_begin \in Nat
           /\ Len(used) \in Nat /\ Len(used) >= 1 /\ sender \in BOOLEAN
           /\ ReportSize = (IF sender THEN 28 ELSE 8) + 24 * (Len(used) - 1)
<1>1. Len(used) \in Nat /\ Len(used) >= 1 /\ sender \in BOOLEAN /\ cname \in Nat
    BY EncoderConstants DEF ReportInv, Members, Scalars
<1>2. ReportSize = (IF sender THEN 28 ELSE 8) + 24 * (Len(used) - 1)
    BY DEF ReportSize, SR_SIZE, RR_SIZE, BLOCK_SIZE
<1>3. ReportSize \in Nat /\ ReportSize >= 8
    BY <1>1, <1>2
<1> DEFINE k == 7 + cname
<1>4. k \in Nat
    BY <1>1
<1> HIDE DEF k
<1>5. Pad(k) \in 0 .. 3
    BY <1>4, Padding
<1> DEFINE p == Pad(k)
<1> HIDE DEF p
<1>6. SdesSize(cname) = 11 + cname + p
    BY DEF SdesSize, k, p
<1>7. SdesSize(cname) >= 11 + cname /\ SdesSize(cname) \in Nat
    BY <1>1, <1>5, <1>6 DEF p
<1>8. enc.buf_len \in Nat /\ enc.write_ndx \in Nat /\ enc.chunk_begin \in Nat
    BY Room DEF ReportInv
<1> QED BY <1>1, <1>2, <1>3, <1>6, <1>7, <1>8 DEF k, p

\* The same without the padding.
LEMMA Lengths ==
    ASSUME ReportInv
    PROVE  /\ ReportSize \in Nat /\ ReportSize >= 8 /\ cname \in Nat
           /\ SdesSize(cname) \in Nat /\ SdesSize(cname) >= 11 + cname
           /\ enc.buf_len \in Nat /\ enc.write_ndx \in Nat /\ enc.chunk_begin \in Nat
           /\ Len(used) \in Nat /\ Len(used) >= 1 /\ sender \in BOOLEAN
           /\ ReportSize = (IF sender THEN 28 ELSE 8) + 24 * (Len(used) - 1)
BY Sizes

\* rtcp_encoder_end_packet needs no room.
LEMMA EndNeedsNone ==
    ASSUME NEW re, Sound(re), NEW new, new = rtcp_encoder_end_packet(re)
    PROVE  new.ret # "full" /\ new.write_ndx = re.write_ndx
<1>1. PICK bf, bl, r, w, cb, rt : re = Encoder(bf, bl, r, w, cb, rt)
    BY DEF Sound
<1> QED BY <1>1 DEF rtcp_encoder_end_packet, Encoder

\* A call keeps what the sizes depend on.
LEMMA CallSizes ==
    ASSUME NEW re, NEW said, NEW next, Call(re, said, next), Len(used') = Len(used)
    PROVE  /\ ReportSize' = ReportSize /\ cname' = cname /\ more' = more /\ enc' = re
           /\ re.ret = "full" => pc' = "over"
           /\ re.ret = "ok" => pc' = next
           /\ pc' = "over" => re.ret = "full" \/ next = "over"
<1>1. cname' = cname /\ more' = more /\ sender' = sender /\ enc' = re
    BY DEF Call
<1>2. ReportSize' = ReportSize
    BY <1>1 DEF ReportSize
<1>3. /\ re.ret = "full" => pc' = "over"
      /\ re.ret = "ok" => pc' = next
      /\ pc' = "over" => re.ret = "full" \/ next = "over"
    BY DEF Call
<1> QED BY <1>1, <1>2, <1>3

\* The calls of rtcp_send_report, one by one: each fails only if the whole
\* report is too long.
LEMMA BeginsWithin ==
    ASSUME ReportInv, ReportBegins
    PROVE  WithinBudget
<1> DEFINE pt == IF sender THEN "SR" ELSE "RR"
           size == Base(pt)
           re == rtcp_encoder_report_begin(enc, pt, size, Self)
<1>1. Call(re, <<<<pt, Self>>>>, "blocks") /\ pc = "idle" /\ used' = used
    BY DEF ReportBegins, rtcp_encoder_sr_begin, rtcp_encoder_rr_begin, Base, SR_SIZE, RR_SIZE
<1>2. enc.write_ndx = 0 /\ Sound(enc)
    BY <1>1 DEF ReportInv, Layout, Written
<1>3. size \in Nat /\ size > 4 /\ size = IF sender THEN 28 ELSE 8
    BY BaseValue DEF Base
<1>4. re = rtcp_encoder_report_begin(enc, pt, size, Self)
    OBVIOUS
<1> HIDE DEF re, size, pt
<1>5. ReportOpened(re, enc, pt, size, Self)
    BY <1>2, <1>3, <1>4, ReportBeginDoes
<1>6. pc' = "over" => re.ret = "full"
    BY <1>1, CallSizes
<1>7. pc' \in {"blocks", "over"}
    BY <1>1, <1>5, CallSizes DEF ReportOpened
<1>8. re.ret = "full" => space_left(enc) < size
    BY <1>5 DEF ReportOpened
<1>9. space_left(enc) < size => TooLong
    BY <1>2, <1>3, Sizes DEF space_left, TooLong
<1> QED BY <1>6, <1>7, <1>8, <1>9 DEF WithinBudget, Budget

LEMMA BlockWithin ==
    ASSUME ReportInv, rtcp_send_report_gen_rr
    PROVE  WithinBudget
<1>1. pc = "blocks" /\ at <= Len(used) /\ at \in 1 .. Len(used) + 1 /\ used[1].ssrc = Self
    BY DEF rtcp_send_report_gen_rr, ReportInv, Scalars, Members
<1>2. PICK pt, c : InBlocks(pt, c)
    BY <1>1 DEF ReportInv, Layout
<1>3. /\ Blocks(enc.buf, meant, pt, c) /\ Opened(enc.buf, 0, pt, c)
      /\ enc.rtcp = 0 /\ enc.write_ndx = SdesAt(pt, c)
      /\ (at >= 2 => c <= at - 2) /\ pt = (IF sender THEN "SR" ELSE "RR")
    BY <1>2 DEF InBlocks
<1>4. c \in Nat /\ pt \in {"SR", "RR"}
    BY <1>3 DEF Blocks
<1>5. CASE Skipped(used[at])
    <2>1. pc' = "blocks"
        BY <1>1, <1>5 DEF rtcp_send_report_gen_rr
    <2> QED BY <2>1 DEF WithinBudget, Budget
<1>6. CASE ~Skipped(used[at])
    <2> DEFINE x == block(used[at])
               bs == Base(pt)
               cell == Block(x)
               re == AddElement(enc, bs, 24, cell)
    <2>1. Call(re, <<<<"block", x>>>>, "blocks")
        BY <1>3, <1>6 DEF rtcp_send_report_gen_rr, rtcp_encoder_sr_add_rr, rtcp_encoder_rr_add_rr,
                          Base, SR_SIZE, RR_SIZE, BLOCK_SIZE
    <2>2. at # 1
        BY <1>1, <1>6 DEF Skipped
    <2>3. Len(used) \in Nat /\ Len(used) <= MAX_MEMBERS
        <3>1. Len(used) + Len(free) = MAX_MEMBERS /\ Len(free) \in Nat /\ Len(used) \in Nat
            BY DEF ReportInv, Members
        <3> QED BY <3>1, EncoderConstants
    <2>4. at >= 2 /\ c <= at - 2 /\ c + 1 < COUNT_MOD /\ c + 1 <= Len(used) - 1
        BY <1>1, <1>3, <1>4, <2>2, <2>3, EncoderConstants
    <2>5. PICK l \in Nat : enc.buf[0] = Packet(pt, c, l)
        BY <1>3 DEF Opened
    <2>6. InStep(enc, bs, 24, c) /\ SdesAt(pt, c) \in Nat /\ SdesAt(pt, c) >= 8
        BY <1>3, <1>4, BaseValue, SdesValue DEF InStep, SdesAt
    <2>7. Sound(enc) /\ Counted(enc, pt, c, l)
        BY <1>3, <1>4, <2>4, <2>5, <2>6 DEF ReportInv, Written, Counted
    <2>8. re = AddElement(enc, bs, 24, cell)
        OBVIOUS
    <2> DEFINE sz == 24
    <2>9. ElementAdded(re, enc, pt, c, l, sz, cell)
        <3>1. InStep(enc, bs, sz, c) /\ re = AddElement(enc, bs, sz, cell)
            BY <2>6
        <3> HIDE DEF x, bs, cell, re, sz
        <3> QED BY <2>7, <3>1, AddElementDoes
    <2> HIDE DEF x, bs, cell, re
    <2>10. re.ret \in {"full", "ok"} /\ (re.ret = "full" => space_left(enc) < 24)
        BY <2>9 DEF ElementAdded
    <2>11. Len(used') = Len(used)
        <3>1. used \in Seq(Entry) /\ used' = [used EXCEPT ![at] = Reported(used[at])]
            BY DEF ReportInv, Members, rtcp_send_report_gen_rr
        <3> QED BY <3>1
    <2>12. (pc' = "over" => re.ret = "full") /\ pc' \in {"blocks", "over"}
        BY <2>1, <2>10, <2>11, CallSizes
    <2>13. space_left(enc) < 24 => TooLong
        <3>1. enc.write_ndx = (IF sender THEN 28 ELSE 8) + 24 * c
            BY <1>3 DEF SdesAt, Base
        <3>2. /\ ReportSize = (IF sender THEN 28 ELSE 8) + 24 * (Len(used) - 1)
              /\ ReportSize \in Nat /\ Len(used) \in Nat /\ enc.buf_len \in Nat /\ cname \in Nat
              /\ SdesSize(cname) \in Nat /\ SdesSize(cname) >= 11
            BY Lengths
        <3>3. enc.write_ndx + 24 <= ReportSize
            <4>1. CASE sender
                BY <1>4, <2>4, <3>1, <3>2, <4>1
            <4>2. CASE ~sender
                BY <1>4, <2>4, <3>1, <3>2, <4>2
            <4> QED BY <4>1, <4>2
        <3>4. enc.write_ndx \in Nat
            BY Lengths
        <3> DEFINE d == SdesSize(cname)
                   u == ReportSize
        <3>5. d \in Nat /\ d >= 11 /\ u \in Nat /\ enc.write_ndx + 24 <= u
            BY <3>2, <3>3
        <3> HIDE DEF d, u
        <3>6. enc.buf_len - enc.write_ndx < 24 => u + d > enc.buf_len
            BY <3>2, <3>4, <3>5
        <3> QED BY <3>6 DEF space_left, TooLong, d, u
    <2> QED BY <2>10, <2>12, <2>13 DEF WithinBudget, Budget
<1> QED BY <1>5, <1>6

LEMMA EndsWithin ==
    ASSUME ReportInv, ReportEnds
    PROVE  WithinBudget
<1> DEFINE re == rtcp_encoder_end_packet(enc)
<1>1. Call(re, <<>>, "sdes") /\ pc = "blocks" /\ used' = used /\ at > Len(used)
    BY DEF ReportEnds, Writes
<1>2. PICK pt, c : InBlocks(pt, c)
    BY <1>1 DEF ReportInv, Layout
<1>3. /\ c \in Nat /\ enc.write_ndx = SdesAt(pt, c)
      /\ (at >= 2 => c <= at - 2) /\ pt = (IF sender THEN "SR" ELSE "RR")
    BY <1>2 DEF InBlocks, Blocks
<1>4. re.ret # "full" /\ re.write_ndx = enc.write_ndx
    <2>1. Sound(enc) /\ re = rtcp_encoder_end_packet(enc)
        BY DEF ReportInv, Written
    <2> HIDE DEF re
    <2> QED BY <2>1, EndNeedsNone
<1> HIDE DEF re
<1>5. ReportSize' = ReportSize /\ enc' = re /\ pc' # "over"
    BY <1>1, <1>4, CallSizes
<1>6. pc' \in {"sdes", "crashed"}
    BY <1>1, <1>4 DEF Call
<1>7. at = Len(used) + 1 /\ c <= Len(used) - 1
    BY <1>1, <1>3, Sizes DEF ReportInv, Scalars
<1>8. enc.write_ndx <= ReportSize
    <2>1. enc.write_ndx = (IF sender THEN 28 ELSE 8) + 24 * c
        BY <1>3 DEF SdesAt, Base
    <2> QED BY <1>3, <1>7, <2>1, Sizes
<1> QED BY <1>4, <1>5, <1>6, <1>8 DEF WithinBudget, Budget

LEMMA SdesBeginsWithin ==
    ASSUME ReportInv, Budget, ~more, SdesBegins
    PROVE  WithinBudget
<1> DEFINE re == rtcp_encoder_sdes_begin(enc)
<1>1. Call(re, <<>>, "chunk") /\ pc = "sdes" /\ used' = used
    BY DEF SdesBegins, Writes
<1>2. Sound(enc) /\ re = IF space_left(enc) < HEADER_SIZE THEN Full(enc) ELSE Begin(enc, "SDES", HEADER_SIZE)
    BY DEF rtcp_encoder_sdes_begin, ReportInv, Written
<1> HIDE DEF re
<1>3. PacketOpened(re, enc, "SDES")
    BY <1>2, BeginDoes
<1>4. \/ re.ret = "full" /\ space_left(enc) < 4
      \/ re.ret = "ok" /\ re.write_ndx = enc.write_ndx + 4 /\ ndx(re) = 0
    BY <1>3 DEF PacketOpened, ndx, Packet
<1>5. enc.write_ndx <= ReportSize
    BY <1>1 DEF Budget
<1>6. /\ ReportSize' = ReportSize /\ enc' = re /\ pc' \in {"chunk", "over"}
      /\ pc' = "over" => re.ret = "full"
      /\ pc' = "chunk" => re.ret = "ok"
    BY <1>1, <1>4, CallSizes
<1>7. space_left(enc) < 4 => TooLong
    BY <1>5, Sizes DEF space_left, TooLong
<1>8. pc' = "chunk" => enc'.write_ndx <= ReportSize' + 4 /\ ndx(enc') = 0
    BY <1>4, <1>5, <1>6, Lengths
<1> QED BY <1>4, <1>6, <1>7, <1>8 DEF WithinBudget, Budget

LEMMA ChunkBeginsWithin ==
    ASSUME ReportInv, Budget, ~more, ChunkBegins
    PROVE  WithinBudget
<1>1. pc = "chunk" /\ used' = used
    BY DEF ChunkBegins, Writes
<1>2. PICK ssrc \in Id : Call(rtcp_encoder_sdes_chunk_begin(enc, ssrc), <<<<"chunk", ssrc>>>>, "cname")
    BY DEF ChunkBegins, Id
<1>3. PICK pt, c, n, b, f : BetweenChunks(pt, c, n, b, f) /\ n < COUNT_MOD
    BY <1>1 DEF ReportInv, Layout
<1> DEFINE re == rtcp_encoder_sdes_chunk_begin(enc, ssrc)
<1>4. /\ ReportWritten(enc.buf, meant, pt, c) /\ Chunks(enc.buf, meant, pt, c, n, b, f)
      /\ enc.rtcp = SdesAt(pt, c) /\ Opened(enc.buf, enc.rtcp, "SDES", n - 1) /\ enc.write_ndx = b[n]
    BY <1>3 DEF BetweenChunks, InChunks
<1>5. n \in Nat \ {0} /\ enc.rtcp < enc.write_ndx /\ Sound(enc)
    BY <1>4, ChunksValue DEF ReportWritten, ReportInv, Written
<1>6. PICK l \in Nat : enc.buf[enc.rtcp] = Packet("SDES", n - 1, l)
    BY <1>4 DEF Opened
<1>7. ndx(enc) = 0 /\ enc.write_ndx <= ReportSize + 4
    BY <1>1 DEF Budget
<1>8. n = 1
    BY <1>5, <1>6, <1>7 DEF ndx, Packet
<1>9. Counted(enc, "SDES", 0, l)
    BY <1>5, <1>6, <1>8, EncoderConstants DEF Counted
<1>10. ChunkOpened(re, enc, "SDES", 0, l, ssrc)
    <2>1. re = rtcp_encoder_sdes_chunk_begin(enc, ssrc)
        OBVIOUS
    <2> DEFINE z == 0
    <2>2. Counted(enc, "SDES", z, l)
        BY <1>9
    <2> HIDE DEF re, z
    <2>3. ChunkOpened(re, enc, "SDES", z, l, ssrc)
        BY <1>5, <2>1, <2>2, ChunkBeginDoes
    <2> QED BY <2>3 DEF z
<1> HIDE DEF re
<1>11. \/ re.ret = "full" /\ space_left(enc) < 4
       \/ re.ret = "ok" /\ re.write_ndx = enc.write_ndx + 4 /\ ndx(re) = 1
    BY <1>10 DEF ChunkOpened, ndx, Packet
<1>12. /\ ReportSize' = ReportSize /\ enc' = re /\ pc' \in {"cname", "over"}
       /\ pc' = "over" => re.ret = "full"
       /\ pc' = "cname" => re.ret = "ok"
    BY <1>1, <1>2, <1>11, CallSizes DEF re
<1>13. space_left(enc) < 4 => TooLong
    BY <1>7, Lengths DEF space_left, TooLong
<1>14. pc' = "cname" => enc'.write_ndx <= ReportSize' + 8 /\ ndx(enc') = 1
    BY <1>7, <1>11, <1>12, Lengths
<1> QED BY <1>11, <1>12, <1>13, <1>14 DEF WithinBudget, Budget

\* The name costs two octets more than its length.
LEMMA CnameWithin ==
    ASSUME ReportInv, Budget, ~more, ChunkAddsCname
    PROVE  WithinBudget
<1> DEFINE t == cname
           re == rtcp_encoder_sdes_chunk_add_cname(enc, t)
           cell == Cname(t)
           size == t + 2
<1>1. pc = "cname" /\ used' = used
    BY DEF ChunkAddsCname, Writes
<1>2. ndx(enc) = 1 /\ enc.write_ndx <= ReportSize + 8
    BY <1>1 DEF Budget
<1>3. Call(re, <<<<"cname", t>>>>, "chunk_end")
    BY <1>2 DEF ChunkAddsCname
<1>4. enc.write_ndx = enc.chunk_begin + 4
    <2>1. PICK pt, c, n, b, f : InChunk(pt, c, n, b, f) /\ Len(meant) = f[n]
        BY <1>1 DEF ReportInv, Layout
    <2>2. /\ ReportWritten(enc.buf, meant, pt, c) /\ Chunks(enc.buf, meant, pt, c, n, b, f)
          /\ enc.chunk_begin = b[n] /\ Named(enc.buf, meant, b[n], f[n], enc.write_ndx, Len(meant) + 1)
        BY <2>1 DEF InChunk, InChunks
    <2>3. f[n] \in Nat
        BY <2>2, ChunksValue DEF ReportWritten
    <2> QED BY <2>1, <2>2, <2>3 DEF Named
<1>5. t \in Nat /\ size \in Nat \ {0} /\ Sound(enc) /\ enc.write_ndx \in Nat
    BY Lengths DEF ReportInv, Written
<1>6. CellWritten(re, enc, cell, size)
    <2>1. re = IF space_left(enc) < size THEN Full(enc)
               ELSE [enc EXCEPT !.buf[enc.write_ndx] = cell, !.write_ndx = @ + size, !.ret = "ok"]
        <3>1. enc.write_ndx + 2 + t = enc.write_ndx + size
            BY <1>5
        <3> QED BY <3>1 DEF rtcp_encoder_sdes_chunk_add_cname
    <2> HIDE DEF re, cell, size
    <2> QED BY <1>5, <2>1, WriteDoes
<1> HIDE DEF re, cell
<1>7. \/ re.ret = "full" /\ space_left(enc) < size
      \/ re.ret = "ok" /\ re.write_ndx = enc.write_ndx + size /\ re.chunk_begin = enc.chunk_begin
    BY <1>6 DEF CellWritten
<1>8. /\ ReportSize' = ReportSize /\ enc' = re /\ pc' \in {"chunk_end", "over"} /\ cname' = t
      /\ pc' = "over" => re.ret = "full"
      /\ pc' = "chunk_end" => re.ret = "ok"
    BY <1>1, <1>3, <1>7, CallSizes
<1>9. space_left(enc) < size => TooLong
    BY <1>2, Lengths DEF space_left, TooLong
<1>10. pc' = "chunk_end" => /\ enc'.write_ndx <= ReportSize' + 10 + cname'
                            /\ enc'.write_ndx = enc'.chunk_begin + 6 + cname'
    <2> SUFFICES ASSUME pc' = "chunk_end"
                 PROVE  /\ enc'.write_ndx <= ReportSize' + 10 + cname'
                        /\ enc'.write_ndx = enc'.chunk_begin + 6 + cname'
        OBVIOUS
    <2>1. enc'.write_ndx = enc.write_ndx + (t + 2) /\ enc'.chunk_begin = enc.chunk_begin
        BY <1>7, <1>8
    <2>2. ReportSize \in Nat /\ enc.write_ndx \in Nat /\ enc.chunk_begin \in Nat
        BY Sizes
    <2> HIDE DEF t
    <2> QED BY <1>2, <1>4, <1>5, <1>8, <2>1, <2>2
<1> QED BY <1>7, <1>8, <1>9, <1>10 DEF WithinBudget, Budget

\* The chunk has room for the null octet and the padding when it has room for
\* all of SDES.
LEMMA ChunkEndsWithin ==
    ASSUME ReportInv, Budget, ~more, ChunkEnds
    PROVE  WithinBudget
<1> DEFINE re == rtcp_encoder_sdes_chunk_end(enc)
<1>1. Call(re, <<>>, "chunk_ended") /\ pc \in {"cname", "chunk_end"} /\ used' = used
    BY DEF ChunkEnds, Writes
<1>2. pc = "chunk_end"
    <2>1. pc = "cname" => ndx(enc) = 1 /\ ndx(enc) > 1
        BY DEF ChunkEnds, Writes, Budget
    <2> QED BY <1>1, <2>1
<1>3. enc.write_ndx <= ReportSize + 10 + cname /\ enc.write_ndx = enc.chunk_begin + 6 + cname
    BY <1>2 DEF Budget
<1>4. ChunkClosed(re, enc)
    <2>1. Sound(enc) /\ re = rtcp_encoder_sdes_chunk_end(enc)
        BY DEF ReportInv, Written
    <2> HIDE DEF re
    <2> QED BY <2>1, ChunkEndDoes
<1> HIDE DEF re
<1>5. \/ re.ret = "full" /\ space_left(enc) < 1 + Pad(enc.write_ndx + 1 - enc.chunk_begin)
      \/ re.ret = "ok"
    BY <1>4 DEF ChunkClosed
<1>6. pc' \in {"chunk_ended", "over"} /\ (pc' = "over" => re.ret = "full")
    BY <1>1, <1>5, CallSizes
<1>7. enc.write_ndx + 1 - enc.chunk_begin = 7 + cname
    <2>1. enc.write_ndx \in Nat /\ enc.chunk_begin \in Nat /\ cname \in Nat
        BY Lengths
    <2>2. enc.write_ndx = enc.chunk_begin + 6 + cname
        BY <1>3
    <2> QED BY <2>1, <2>2
<1> DEFINE p == Pad(7 + cname)
<1>8. re.ret = "full" => space_left(enc) < 1 + p
    BY <1>5, <1>7
<1>9. SdesSize(cname) = 11 + cname + p
    BY Sizes
<1>10. p \in Int /\ ReportSize \in Nat /\ enc.write_ndx \in Nat /\ enc.buf_len \in Nat /\ cname \in Nat
    BY Sizes DEF Pad
<1> HIDE DEF p
<1>11. space_left(enc) < 1 + p => TooLong
    BY <1>3, <1>9, <1>10 DEF space_left, TooLong
<1> QED BY <1>6, <1>8, <1>11 DEF WithinBudget, Budget

LEMMA SdesEndsWithin ==
    ASSUME ReportInv, ~more, SdesEnds
    PROVE  WithinBudget
<1> DEFINE re == rtcp_encoder_end_packet(enc)
<1>1. Call(re, <<>>, "send") /\ used' = used
    BY DEF SdesEnds, Writes
<1>2. re.ret # "full"
    <2>1. Sound(enc) /\ re = rtcp_encoder_end_packet(enc)
        BY DEF ReportInv, Written
    <2> HIDE DEF re
    <2> QED BY <2>1, EndNeedsNone
<1> HIDE DEF re
<1>3. pc' \in {"send", "crashed"}
    BY <1>1, <1>2 DEF Call
<1> QED BY <1>3 DEF WithinBudget, Budget

\* Which program uses the encoder does not change.
LEMMA SameProgram == [ReportNext]_reportVars => more' = more
<1> SUFFICES ASSUME [ReportNext]_reportVars PROVE more' = more
    OBVIOUS
<1>1. CASE TableStep
    BY <1>1 DEF TableStep, RtpJoins, RtcpJoins, MemberChanges, MemberLeaves, SelfChanges, Idle
<1>2. CASE WriterStep
    BY <1>2 DEF WriterStep, ReportBegins, rtcp_send_report_gen_rr, ReportEnds, SdesBegins, ChunkBegins,
       ChunkAddsCname, ChunkEnds, NextChunk, SdesEnds, ByeBegins, ByeAddsSsrc, ByeAddsReason, ByeEnds,
       ReportOver, Call
<1>3. CASE ReaderStep
    BY <1>3 DEF ReaderStep, CheckFirst, CheckNext, rtcp_handle_sr, rtcp_handle_rr, rtcp_handle_sdes,
       rtcp_handle_bye, ReadChunk, ReadItem, RxEnds, Reads
<1>4. CASE UNCHANGED reportVars
    BY <1>4 DEF reportVars
<1> QED BY <1>1, <1>2, <1>3, <1>4 DEF ReportNext

\* Every step stays within the budget.
LEMMA BudgetKept ==
    ASSUME ReportInv, Budget, [ReportNext]_reportVars
    PROVE  Budget' /\ (~more /\ pc \notin {"packet", "over"} /\ pc' = "over" => TooLong)
<1> SUFFICES ASSUME ~more PROVE Budget' /\ (pc \notin {"packet", "over"} /\ pc' = "over" => TooLong)
    BY SameProgram DEF Budget
<1>1. CASE TableStep
    <2>1. pc = "idle" /\ pc' = pc
        BY <1>1 DEF TableStep, RtpJoins, RtcpJoins, MemberChanges, MemberLeaves, SelfChanges, Idle
    <2> QED BY <2>1 DEF Budget
<1>2. CASE WriterStep
    <2>1. pc \notin {"bye", "bye_ssrc", "bye_end"}
        BY DEF ReportInv, Layout
    <2>2. ~(NextChunk \/ ByeBegins \/ ByeAddsSsrc \/ ByeAddsReason \/ ByeEnds)
        BY <2>1 DEF NextChunk, ByeBegins, ByeAddsSsrc, ByeAddsReason, ByeEnds, Writes
    <2>3. ReportOver => pc' = "idle"
        BY DEF ReportOver
    <2>4. ReportOver => WithinBudget
        BY <2>3 DEF WithinBudget, Budget
    <2>5. WithinBudget
        BY <1>2, <2>2, <2>4, BeginsWithin, BlockWithin, EndsWithin, SdesBeginsWithin, ChunkBeginsWithin,
           CnameWithin, ChunkEndsWithin, SdesEndsWithin DEF WriterStep
    <2> QED BY <2>5 DEF WithinBudget
<1>3. CASE ReaderStep
    <2>1. pc' \in Reading \cup {"lost", "over"} /\ (pc' = "over" => pc = "packet")
        BY <1>3 DEF ReaderStep, CheckFirst, CheckNext, rtcp_handle_sr, rtcp_handle_rr, rtcp_handle_sdes,
           rtcp_handle_bye, rtcp_handle_report, ReadChunk, ReadItem, RxEnds, Reads, ReaderLost,
           NextPacket, ChunkRead, Reading
    <2> QED BY <2>1 DEF Budget, Reading
<1>4. CASE UNCHANGED reportVars
    <2>1. Budget' /\ pc' = pc
        BY <1>4 DEF reportVars, table, Budget, ReportSize, ndx
    <2> QED BY <2>1
<1> QED BY <1>1, <1>2, <1>3, <1>4 DEF ReportNext

\* The budget holds always.
LEMMA BudgetHolds == ReportSpec => [](ReportInv /\ Budget)
<1>1. ReportInit => Budget
    BY DEF ReportInit, Budget
<1>2. ReportInv /\ Budget /\ [ReportNext]_reportVars => Budget'
    BY BudgetKept
<1> QED BY <1>1, <1>2, InvHolds, PTL DEF ReportSpec

\* A report ends other than by being read only when it is given up.
LEMMA GivingUp ==
    ASSUME [ReportNext]_reportVars, gaveUp \in BOOLEAN
    PROVE  gaveUp' = gaveUp \/ (pc' = "over" /\ pc \notin {"packet", "over"})
<1>1. CASE TableStep
    BY <1>1 DEF TableStep, RtpJoins, RtcpJoins, MemberChanges, MemberLeaves, SelfChanges, Idle
<1>2. CASE WriterStep
    <2>1. CASE ReportOver \/ NextChunk
        BY <2>1 DEF ReportOver, NextChunk
    <2>2. CASE \E re, said, next : Call(re, said, next) /\ pc \notin {"packet", "over"}
        BY <2>2 DEF Call
    <2>3. CASE rtcp_send_report_gen_rr
        <3>1. pc = "blocks"
            BY <2>3 DEF rtcp_send_report_gen_rr
        <3>2. gaveUp' = gaveUp \/ \E re, said, next : Call(re, said, next)
            BY <2>3 DEF rtcp_send_report_gen_rr
        <3> QED BY <2>2, <3>1, <3>2
    <2>4. ASSUME WriterStep, ~ReportOver, ~NextChunk, ~rtcp_send_report_gen_rr
          PROVE  \E re, said, next : Call(re, said, next) /\ pc \notin {"packet", "over"}
        BY <2>4 DEF WriterStep, ReportBegins, ReportEnds, SdesBegins, ChunkBegins,
           ChunkAddsCname, ChunkEnds, SdesEnds, ByeBegins, ByeAddsSsrc, ByeAddsReason, ByeEnds, Writes
    <2> QED BY <1>2, <2>1, <2>2, <2>3, <2>4
<1>3. CASE ReaderStep
    BY <1>3 DEF ReaderStep, CheckFirst, CheckNext, rtcp_handle_sr, rtcp_handle_rr, rtcp_handle_sdes,
       rtcp_handle_bye, ReadChunk, ReadItem, RxEnds, Reads
<1>4. CASE UNCHANGED reportVars
    BY <1>4 DEF reportVars
<1> QED BY <1>1, <1>2, <1>3, <1>4 DEF ReportNext

NeverGivenUp == ~more => ~gaveUp

\* While a report on the members there are fits the buffer, none is given up.
LEMMA NeverHolds == ReportSpec /\ []~TooLong => [](ReportInv /\ NeverGivenUp)
<1>1. ReportInit => NeverGivenUp
    BY DEF ReportInit, NeverGivenUp
<1>2. ASSUME ReportInv, Budget, NeverGivenUp, [ReportNext]_reportVars, ~TooLong PROVE NeverGivenUp'
    <2> SUFFICES ASSUME ~more' PROVE ~gaveUp'
        BY DEF NeverGivenUp
    <2>1. ~more /\ ~gaveUp
        BY <1>2, SameProgram DEF NeverGivenUp
    <2>2. ~(pc' = "over" /\ pc \notin {"packet", "over"})
        BY <1>2, <2>1, BudgetKept
    <2>3. gaveUp \in BOOLEAN
        BY <1>2 DEF ReportInv, Scalars
    <2>4. gaveUp' = gaveUp
        BY <1>2, <2>2, <2>3, GivingUp
    <2> QED BY <2>1, <2>4
<1>3. ReportSpec => [](ReportInv /\ Budget)
    BY BudgetHolds
<1> QED BY <1>1, <1>2, <1>3, PTL DEF ReportSpec

\* The types, and the writer's indices stay inside its buffer: no sequence of
\* calls of the encoder writes behind buf_len, whichever of them finds no room.
THEOREM ReportTypeCorrect == ReportSpec => []ReportTypeOK
BY InvHolds, InvImplies, PTL

\* Whatever rtcp_send_report writes, for any number of members and any lengths
\* of the names, rtcp_rx reads back: rtcp_check_pkt accepts it, no handler
\* comes upon a field that is not where it looks for it, and the callbacks are
\* given what was put in, in the same order, and all of it at the end.
THEOREM WrittenIsRead == ReportSpec => []RoundTrip
BY InvHolds, InvImplies, PTL

\* As long as no report was given up, the blocks that were received add up to
\* the losses that received_prior and expected_prior consider reported, through
\* members that leave, entries that are reused and reports that skip members.
THEOREM LossesAddUp == ReportSpec => []LossesTold
BY InvHolds, InvImplies, PTL

\* A block about a member that is being received counts the packets of that
\* member and not of another that had its entry before.
THEOREM BlocksAreAboutSource == ReportSpec => []BlocksAboutSource
BY InvHolds, InvImplies, PTL

\* rtcp_send_report gives a report up only if a block for every peer and self's
\* name do not fit buf_len: neither a member that left nor the null octet and
\* the padding of the chunk cost it more than their own octets.  (It is the
\* condition under which RtcpInterval lets a report go out.)
THEOREM GivenUpForRoom ==
    ReportSpec => [][~more /\ pc \notin {"packet", "over"} /\ pc' = "over" => TooLong]_reportVars
<1>1. ReportInv /\ Budget /\ [ReportNext]_reportVars
        => [~more /\ pc \notin {"packet", "over"} /\ pc' = "over" => TooLong]_reportVars
    BY BudgetKept
<1> QED BY <1>1, BudgetHolds, PTL DEF ReportSpec

\* In a session whose table never outgrows RTP_CONFIG_RTCP_ENCODER_BUFFER_LEN (a
\* block for every peer and self's name fit it at every moment, as they do for
\* nine members with a name of at most 24 octets and the 256 octets of
\* rtp_config.h), no loss is ever left untold.
THEOREM AllLossesTold == ReportSpec /\ []~TooLong => [](~more => LossesAlwaysTold)
<1>1. ReportInv /\ NeverGivenUp => (~more => LossesAlwaysTold)
    <2>1. ReportInv => LossesTold
        BY InvImplies
    <2> QED BY <2>1 DEF NeverGivenUp, LossesTold, LossesAlwaysTold
<1> QED BY <1>1, NeverHolds, PTL
=============================================================================
