---------------------------- MODULE RtcpInterval ----------------------------
(***************************************************************************)
(* When a session sends its RTCP reports: the interval part of rtcp.c with *)
(* the RTCP timer, the clock it reads and the counters it depends on.      *)
(*                                                                         *)
(* Times are milliseconds.  Peers join, start and stop sending and leave   *)
(* as they do in RtpSession, which shows how members and senders come      *)
(* about; here they change by choice.  The interval is a random draw, and  *)
(* the average packet size it is computed from varies with the traffic: a  *)
(* draw picks both by choice, the average as the time one report takes at  *)
(* the session's bandwidth.  The session itself stays in its table: no BYE *)
(* names it (RtpSession has that case), so members does not go below 1.    *)
(***************************************************************************)
EXTENDS Integers, FiniteSetsExt, RtpConfig

CONSTANTS
    TICK_RATE,      \* milliseconds per tick of the soft timer
    TIME_MOD,       \* the clock is an unsigned int of milliseconds
    HORIZON,        \* bound: the ticks a behaviour of the model lasts
    MIN_TIME,       \* RTCP_MIN_TIME, in milliseconds
    Share,          \* possible values of avg_rtcp_size / rtcp_bw
    SDES_SIZE       \* octets of the SDES packet that ends a report

ASSUME IntervalAssumption ==
    /\ {MAX_MEMBERS, TICK_RATE, TIME_MOD, HORIZON, MIN_TIME} \subseteq Nat \ {0}
    /\ {SDES_SIZE, BUFFER_LEN} \subseteq Nat
    /\ Share \subseteq Nat \ {0} /\ \E top \in Share : \A share \in Share : share <= top

VARIABLES
    tick,       \* ticks since rtp_session_init
    te,         \* rtcp_timer: ticks left, or Off; 0 while its callback is due
    tp, tn,     \* rtcp_var.tp, rtcp_var.tn
    members, senders, pmembers, we_sent, initial,
    silence,    \* ticks since the last report went out (not in the code)
    waiting     \* of these, the ticks since a report last did not fit the
                \* buffer (not in the code)

count == <<members, senders, we_sent>>
vars  == <<tick, te, tp, tn, pmembers, initial, silence, waiting, count>>

Off == -1

-----------------------------------------------------------------------------
\* soft_timer_get_tick_time: the product of tick and tick_rate wraps.
\* rtcp_current_time divides it by 1000; here time stays in milliseconds.
rtcp_current_time == (tick * TICK_RATE) % TIME_MOD

\* The interval before randomisation.  Senders share a quarter of the
\* bandwidth unless they are more than a quarter of the members.
Td(share) ==
    LET least == IF initial THEN MIN_TIME \div 2 ELSE MIN_TIME
        t == IF 4 * senders <= members
             THEN IF we_sent THEN 4 * share * senders
                  ELSE (4 * share * (members - senders)) \div 3
             ELSE share * members
    IN  Max({t, least})

\* A draw between 0.5 and 1.5 times td, divided by the compensation 1.21828.
Draws(td) == (41 * td) \div 100 .. (123 * td) \div 100

rtcp_interval_calc == UNION {Draws(Td(share)) : share \in Share}

\* A delay that is not positive as an int becomes 1 ms.  Converting one that does
\* not fit a uint32_t is undefined: some builds truncate it, others replace it
\* by the nearest value that fits, which is then 0 or -1 as an int.
cal_delta_in_ms(tc, next) ==
    LET AsInt(u) == IF u \in 1 .. TIME_MOD \div 2 - 1 THEN u ELSE 1
        d        == next - tc
    IN  IF d \in 0 .. TIME_MOD - 1 THEN {AsInt(d)} ELSE {AsInt(d % TIME_MOD), 1}

get_soft_tick_from_milsec(ms) == (ms + TICK_RATE - 1) \div TICK_RATE

schedule(tc, next) ==
    /\ tn' = next
    /\ \E ms \in cal_delta_in_ms(tc, next) : te' = get_soft_tick_from_milsec(ms)

-----------------------------------------------------------------------------
\* rtcp_init
Init ==
    /\ tick = 0 /\ tp = 0
    /\ members = 1 /\ senders = 0 /\ pmembers = 1
    /\ we_sent = FALSE /\ initial = TRUE
    /\ \E t \in rtcp_interval_calc :
        /\ tn = t
        /\ \E ms \in cal_delta_in_ms(0, t) : te = get_soft_tick_from_milsec(ms)
    /\ silence = 0 /\ waiting = 0

\* The host makes a call while the callback is not due.  Timeouts of other
\* timers may also come before it in the same tick.
Ready == te # 0

\* Peers that are counted as senders.
PeersSending == senders - (IF we_sent THEN 1 ELSE 0)

\* A peer joins, as a sender or not (rtcp_interval_handle_rtp_event, and
\* rtcp_interval_handle_rtcp_event for RTCP_EVENT_RX_NON_BYE).
Join(ds) ==
    /\ Ready /\ members < MAX_MEMBERS
    /\ members' = members + 1
    /\ senders' = senders + ds
    /\ UNCHANGED <<tick, te, tp, tn, pmembers, we_sent, initial, silence>>

\* A member that was not sending sends.
StartSending ==
    /\ Ready /\ PeersSending < members - 1
    /\ senders' = senders + 1
    /\ UNCHANGED <<tick, te, tp, tn, members, pmembers, we_sent, initial, silence>>

\* rtp_tx
RtpTx ==
    /\ Ready /\ ~we_sent
    /\ we_sent' = TRUE
    /\ senders' = senders + 1
    /\ UNCHANGED <<tick, te, tp, tn, members, pmembers, initial, silence>>

(***************************************************************************)
(* rtcp_interval_handle_rtcp_event for a BYE or a timeout: when there are  *)
(* fewer members than when pmembers was last set, the next report is drawn *)
(* nearer and the last one is put nearer, in proportion.                   *)
(***************************************************************************)
\* Mutant: a sender that leaves is still counted as a sender.
LeftKeepsSenders(dm, ds) ==
    /\ members' = members - dm
    /\ UNCHANGED <<senders, te, tn, tp, pmembers>>

Left(dm, ds) ==
    /\ members' = members - dm
    /\ senders' = senders - ds
    /\ IF members' < pmembers
       THEN LET tc == rtcp_current_time IN
            /\ schedule(tc, tc + (members' * (tn - tc)) \div pmembers)
            /\ tp' = tc - (members' * (tc - tp)) \div pmembers
            /\ pmembers' = members'
       ELSE UNCHANGED <<te, tn, tp, pmembers>>

Leave(ds) ==
    /\ members > 1
    /\ IF ds = 1 THEN PeersSending > 0 ELSE PeersSending < members - 1
    /\ Left(1, ds)
    /\ UNCHANGED <<tick, we_sent, initial, silence>>

\* The sender timer of a peer, or of self, expires.
StopSending ==
    /\ PeersSending > 0
    /\ Left(0, 1)
    /\ UNCHANGED <<tick, we_sent, initial, silence>>

SelfStopsSending ==
    /\ we_sent
    /\ we_sent' = FALSE
    /\ Left(0, 1)
    /\ UNCHANGED <<tick, initial, silence>>

-----------------------------------------------------------------------------
\* rtcp_send_report puts a block of 24 octets into the report for every peer
\* after the head of the SR or RR, and gives up when the buffer is too small.
rtcp_send_report ==
    (IF we_sent THEN 28 ELSE 8) + 24 * (members - 1) + SDES_SIZE <= BUFFER_LEN

\* Mutant: the report goes out whenever the timer expires.
SendAlways(tc, t) ==
    /\ silence' = IF rtcp_send_report THEN 0 ELSE silence
    /\ tp' = tc
    /\ \E next \in rtcp_interval_calc : schedule(tc, tc + next)
    /\ initial' = FALSE

\* __rtcp_interval_timeout: the interval is drawn again from what is known by
\* now, and the report goes out only if its time has come under the new draw.
SendReport(tc, t) ==
    /\ tp + t <= tc
    /\ silence' = IF rtcp_send_report THEN 0 ELSE silence
    /\ tp' = tc
    /\ \E next \in rtcp_interval_calc : schedule(tc, tc + next)
    /\ initial' = FALSE

\* Mutant: a report that is put off is timed from now, not from the last one.
ReconsiderFromNow(tc, t) ==
    /\ tp + t > tc
    /\ schedule(tc, tc + t)
    /\ UNCHANGED <<tp, initial, silence>>

Reconsider(tc, t) ==
    /\ tp + t > tc
    /\ schedule(tc, tp + t)
    /\ UNCHANGED <<tp, initial, silence>>

rtcp_interval_timeout ==
    /\ te = 0
    /\ \E t \in rtcp_interval_calc :
        SendReport(rtcp_current_time, t) \/ Reconsider(rtcp_current_time, t)
    /\ UNCHANGED <<tick, pmembers, count>>

\* rtp_session_timer_tick
TimerTick ==
    /\ Ready /\ tick < HORIZON
    /\ tick' = tick + 1
    /\ te' = IF te > 0 THEN te - 1 ELSE te
    /\ silence' = silence + 1
    /\ UNCHANGED <<tp, tn, pmembers, initial, count>>

Step ==
    \/ \E ds \in {0, 1} : Join(ds) \/ Leave(ds)
    \/ StartSending \/ StopSending
    \/ RtpTx \/ SelfStopsSending
    \/ TimerTick \/ rtcp_interval_timeout

\* The history variable: a report that goes out, and a state whose report would
\* not fit the buffer, start the waiting afresh.
KeepWaiting ==
    waiting' = IF silence' = 0 \/ ~rtcp_send_report' THEN 0 ELSE waiting + (tick' - tick)

Next == Step /\ KeepWaiting

Spec == Init /\ [][Next]_vars

-----------------------------------------------------------------------------
TypeOK ==
    /\ tick \in 0 .. HORIZON /\ silence \in 0 .. HORIZON /\ waiting \in 0 .. silence
    /\ te \in Nat \cup {Off}
    /\ tp \in Int /\ tn \in Int
    /\ members \in 1 .. MAX_MEMBERS /\ pmembers \in 1 .. MAX_MEMBERS
    /\ senders \in 0 .. members
    /\ we_sent \in BOOLEAN /\ initial \in BOOLEAN

\* The longest interval any draw can give, in ticks.
LongestDraw ==
    LET td == Max({MIN_TIME, (4 * Max(Share) * MAX_MEMBERS) \div 3})
    IN  get_soft_tick_from_milsec((123 * td) \div 100)

\* Reports keep coming: however members come, go and start or stop sending, and
\* however often the timer callback puts a report off, one is sent within the
\* longest interval a draw can give, counted from the moment on which a report
\* on the members fits the buffer.  A report that does not fit is given up and
\* tp set as if it had gone out, so the time before that moment is not bounded,
\* but giving up does not delay the report that fits again.  (rtcp.c:315-319:
\* "our actual next report interval" is "between 0.5*t and 1.5*t"; rtcp.c:305:
\* "In that time interval we send one report".)
BoundedSilence == waiting <= LongestDraw

\* Reports are not sent in bursts: between two of them lies at least the
\* shortest draw from the minimum interval, however the counters changed.
Paced ==
    [][silence' = 0 /\ silence # 0 =>
          silence * TICK_RATE >= (41 * (IF initial THEN MIN_TIME \div 2 ELSE MIN_TIME)) \div 100]_vars

\* rtcp.c:159-160 makes the timer callback "also responsible for updating the
\* pmembers, initial, tp" variables: after a report pmembers is the number of
\* members the new tn was computed from.
PmembersFollows == [][te = 0 /\ tp' # tp => pmembers' = members']_vars
=============================================================================
