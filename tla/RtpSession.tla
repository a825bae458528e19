----------------------------- MODULE RtpSession -----------------------------
(***************************************************************************)
(* One RTP session (rtp_session_t) as its host drives it: packets come in  *)
(* through rtp_session_rx_rtp and rtp_session_rx_rtcp, the application     *)
(* sends with rtp_session_tx, and rtp_session_timer_tick runs the timers.  *)
(* The module keeps the membership state: the member table, the flags and  *)
(* transport addresses of the members, the three timers of each member,    *)
(* the table of conflicting addresses and the counters of the RTCP         *)
(* interval (rtcp_control_var_t).                                          *)
(*                                                                         *)
(* The library is single-threaded, so an API call runs to its end before   *)
(* the next one starts.  A call that loops (over the CSRC list of an RTP   *)
(* packet, over the parts of a compound RTCP packet, over the timers that  *)
(* expired in one tick) is one step per iteration; while it is under way   *)
(* no other call is enabled.  What the next iteration meets is chosen when *)
(* it is reached, which gives every packet of any length.                  *)
(*                                                                         *)
(* Left out because nothing in the library reads it: the flags VALIDATED   *)
(* and CSRC, the CNAME, the contents of a sender report, last_rtp_error    *)
(* and last_rtcp_error.  Sequence numbers are the subject of RtpSource:    *)
(* here rtp_update_seq accepts or rejects a packet by choice.  The RTCP    *)
(* transmission timer is the subject of RtcpInterval.                      *)
(*                                                                         *)
(* A BYE may name any member, the session itself included: its own entry   *)
(* is then marked, leaves the table with the leave timer and can be given  *)
(* to a peer, while sess->self goes on pointing to it.  One thing follows  *)
(* that is not modelled: rtp_tx starts the sender timer of a self that is  *)
(* no longer in the table, and an allocation of that entry would           *)
(* initialise a node that is linked into a timer bucket.  Here such an     *)
(* entry is allocated only after its timer ran out.                        *)
(***************************************************************************)
EXTENDS Integers, FiniteSets

CONSTANTS
    Slot,              \* the entries of member_array
    Self,              \* the first entry, the one rtp_session_init_self gets
    SSRC,              \* synchronization source identifiers
    Addr,              \* source transport addresses
    OwnAddr,           \* the address in rtp_session_config_t
    OwnEcho,           \* TRUE iff the network may return this session's own
                       \* packets to it, from its own address
    MEMBER_TIMEOUT,    \* RTP_CONFIG_MEMBER_TIMEOUT, in ticks
    SENDER_TIMEOUT,    \* RTP_CONFIG_SENDER_TIMEOUT, in ticks
    LEAVE_TIMEOUT,     \* RTP_CONFIG_LEAVE_TIMEOUT, in ticks
    CONFLICT_TIMEOUT,  \* RTP_CONFIG_SOURCE_CONFLICT_TIMEOUT, in ticks
    CONFLICT_SIZE,     \* RTP_CONFIG_SOURCE_CONFLICT_TABLE_SIZE
    MAX_SENDERS        \* bound of the model: the session starts to send
                       \* while fewer senders are counted

ASSUME SlotAssumption == IsFiniteSet(Slot) /\ Self \in Slot

ASSUME AddrAssumption == IsFiniteSet(Addr) /\ OwnAddr \in Addr

ASSUME EchoAssumption == OwnEcho \in BOOLEAN

ASSUME TimeoutAssumption ==
    /\ MEMBER_TIMEOUT \in Nat \ {0}
    /\ SENDER_TIMEOUT \in Nat \ {0}
    /\ LEAVE_TIMEOUT \in Nat \ {0}
    /\ CONFLICT_TIMEOUT \in Nat \ {0}
    /\ CONFLICT_SIZE \in Nat /\ MAX_SENDERS \in Nat

VARIABLES
    open,        \* between rtp_session_init and rtp_session_deinit
    used,        \* the entries on used_list; the others are on free_list
    ssrc,        \* rtp_member_t.ssrc
    flags,       \* rtp_member_t.flags
    rtp_addr,    \* rtp_member_t.rtp_addr
    rtcp_addr,   \* rtp_member_t.rtcp_addr
    member_te,   \* rtp_member_t.member_te
    sender_te,   \* rtp_member_t.sender_te
    leave_te,    \* rtp_member_t.leave_te
    conflict,    \* src_conflict: the timer of each address in the used list
    members,     \* rtcp_var.members
    senders,     \* rtcp_var.senders
    pmembers,    \* rtcp_var.pmembers
    we_sent,     \* rtcp_var.we_sent
    rx           \* the packet whose loop is under way, or Idle

table   == <<used, ssrc, flags, rtp_addr, rtcp_addr>>
timers  == <<member_te, sender_te, leave_te>>
cvar    == <<members, senders, pmembers, we_sent>>
vars    == <<open, table, timers, conflict, cvar, rx>>

(***************************************************************************)
(* A soft timer is Off, or it holds the ticks left until it expires.  The  *)
(* value 0 is a timer on the timeout_list of the tick being run: its       *)
(* callback is due, and soft_timer_del can still take it off the list.     *)
(***************************************************************************)
Off == -1

Ticks == Nat \cup {Off}

Flag == {"self", "rtp_heard", "rtcp_heard", "bye", "sender"}

Idle == [call |-> "none"]

InProgress == [call : {"rtp", "rtcp"}, from : Addr]

TypeOK ==
    /\ open \in BOOLEAN
    /\ used \in SUBSET Slot
    /\ ssrc \in [Slot -> SSRC]
    /\ flags \in [Slot -> SUBSET Flag]
    /\ rtp_addr \in [Slot -> Addr]
    /\ rtcp_addr \in [Slot -> Addr]
    /\ member_te \in [Slot -> Ticks]
    /\ sender_te \in [Slot -> Ticks]
    /\ leave_te \in [Slot -> Ticks]
    /\ conflict \in [Addr -> Ticks]
    /\ members \in Nat /\ senders \in Nat /\ pmembers \in Nat
    /\ we_sent \in BOOLEAN
    /\ rx \in {Idle} \cup InProgress

-----------------------------------------------------------------------------
(***************************************************************************)
(* soft_timer.c, as a member sees it.  A running timer ignores an add.     *)
(***************************************************************************)
soft_timer_add(te, m, ticks) == IF te[m] = Off THEN [te EXCEPT ![m] = ticks] ELSE te

soft_timer_del(te, m) == [te EXCEPT ![m] = Off]

Restart(te, m, ticks) == soft_timer_add(soft_timer_del(te, m), m, ticks)

\* Mutant: the comparison with the current tick is off by one.
TickStopsAtOne(te) == [i \in DOMAIN te |-> IF te[i] > 1 THEN te[i] - 1 ELSE te[i]]

Tick(te) == [i \in DOMAIN te |-> IF te[i] > 0 THEN te[i] - 1 ELSE te[i]]

\* The tick under way still has callbacks to run.
Expired ==
    \/ \E m \in Slot : 0 \in {member_te[m], sender_te[m], leave_te[m]}
    \/ \E a \in Addr : conflict[a] = 0

\* The host may make its next call.
Ready == open /\ rx = Idle /\ ~Expired

(***************************************************************************)
(* rtp_member_table.c                                                      *)
(***************************************************************************)
lookup(x) == {m \in used : ssrc[m] = x}

alloc_member(m, x, fs) ==
    /\ m \notin used /\ sender_te[m] = Off
    /\ used' = used \cup {m}
    /\ ssrc' = [ssrc EXCEPT ![m] = x]
    /\ flags' = [flags EXCEPT ![m] = fs]

\* Mutant: the sender timer of a freed member is forgotten.
DeallocKeepsSenderTimer(m) ==
    /\ member_te' = soft_timer_del(member_te, m)
    /\ leave_te' = soft_timer_del(leave_te, m)
    /\ used' = used \ {m}
    /\ UNCHANGED sender_te

dealloc_member(m) ==
    /\ member_te' = soft_timer_del(member_te, m)
    /\ sender_te' = soft_timer_del(sender_te, m)
    /\ leave_te' = soft_timer_del(leave_te, m)
    /\ used' = used \ {m}

\* Mutant: the new identifier is not looked up in the table.
AnySsrc == SSRC

\* The identifiers rtp_member_table_change_random_ssrc may settle on.
FreshSsrc == {x \in SSRC : lookup(x) = {}}

(***************************************************************************)
(* rtcp_interval_handle_rtcp_event for a BYE or a timeout: dm members and  *)
(* ds senders fewer, and pmembers follows members down.                    *)
(***************************************************************************)
\* Mutant: the MEMBER flag is passed only together with the SENDER flag.
LeftOnlySenders(dm, ds) ==
    /\ members' = members - ds
    /\ senders' = senders - ds
    /\ pmembers' = IF members' < pmembers THEN members' ELSE pmembers

Left(dm, ds) ==
    /\ members' = members - dm
    /\ senders' = senders - ds
    /\ pmembers' = IF members' < pmembers THEN members' ELSE pmembers

\* Mutants: every member that goes is taken for a sender; none is.
IsAlwaysSet(f, m) == 1

IsNeverSet(f, m) == 0

IsSet(f, m) == IF f \in flags[m] THEN 1 ELSE 0

-----------------------------------------------------------------------------
(***************************************************************************)
(* rtp_session_init: the tables are emptied, the first entry becomes self, *)
(* and rtcp_init starts the interval variables.                            *)
(***************************************************************************)
Init ==
    /\ open = TRUE
    /\ used = {Self}
    /\ ssrc \in {[m \in Slot |-> x] : x \in SSRC}
    /\ flags = [m \in Slot |-> IF m = Self THEN {"self"} ELSE {}]
    /\ rtp_addr = [m \in Slot |-> OwnAddr]
    /\ rtcp_addr = [m \in Slot |-> OwnAddr]
    /\ member_te = [m \in Slot |-> Off]
    /\ sender_te = [m \in Slot |-> Off]
    /\ leave_te = [m \in Slot |-> Off]
    /\ conflict = [a \in Addr |-> Off]
    /\ members = 1 /\ senders = 0 /\ pmembers = 1
    /\ we_sent = FALSE
    /\ rx = Idle

\* rtp_session_init on a session that was closed: the other entries keep the
\* contents they had, and only self's timers are initialised.
Reopen ==
    /\ ~open
    /\ open' = TRUE
    /\ used' = {Self}
    /\ \E x \in SSRC : ssrc' = [ssrc EXCEPT ![Self] = x]
    /\ flags' = [flags EXCEPT ![Self] = {"self"}]
    /\ rtp_addr' = [rtp_addr EXCEPT ![Self] = OwnAddr]
    /\ rtcp_addr' = [rtcp_addr EXCEPT ![Self] = OwnAddr]
    /\ member_te' = soft_timer_del(member_te, Self)
    /\ sender_te' = soft_timer_del(sender_te, Self)
    /\ leave_te' = soft_timer_del(leave_te, Self)
    /\ conflict' = [a \in Addr |-> Off]
    /\ members' = 1 /\ senders' = 0 /\ pmembers' = 1
    /\ we_sent' = FALSE
    /\ UNCHANGED rx

\* rtp_session_deinit stops the timers of the members in the table and of the
\* conflict list; the tables themselves stay as they are.
Stop(te) == [m \in Slot |-> IF m \in used THEN Off ELSE te[m]]

Close ==
    /\ Ready
    /\ open' = FALSE
    /\ member_te' = Stop(member_te)
    /\ sender_te' = Stop(sender_te)
    /\ leave_te' = Stop(leave_te)
    /\ conflict' = [a \in Addr |-> Off]
    /\ UNCHANGED <<table, cvar, rx>>

-----------------------------------------------------------------------------
(***************************************************************************)
(* rtp_handle_ssrc, one action per way out of it, for an SSRC or CSRC x of *)
(* a packet from address from.  The packet of an ordinary network never    *)
(* carries the session's current SSRC from its own address.                *)
(***************************************************************************)
Arrives(x, from) == OwnEcho \/ x # ssrc[Self] \/ from # OwnAddr

\* A member that has not been heard before on this protocol (f is rtp_heard or
\* rtcp_heard), so that its address is still to be learnt.
\* Mutants: a member that said BYE is not turned away; a known sender is not.
UnheardOrBye(m, f) == flags[m] \cap {"self", f} = {}

HeardOrNot(m, f) == flags[m] \cap {"bye", "self"} = {}

Unheard(m, f) == flags[m] \cap {"bye", "self", f} = {}

\* An unknown source joins; it is taken for a sender.
RtpNewMember(x, from) ==
    /\ lookup(x) = {}
    /\ \E m \in Slot :
        /\ alloc_member(m, x, {"rtp_heard"})
        /\ rtp_addr' = [rtp_addr EXCEPT ![m] = from]
        /\ member_te' = Restart(member_te, m, MEMBER_TIMEOUT)
        /\ sender_te' = Restart(sender_te, m, SENDER_TIMEOUT)
        /\ leave_te' = soft_timer_del(leave_te, m)
    /\ members' = members + 1
    /\ senders' = senders + 1
    /\ UNCHANGED <<rtcp_addr, conflict, pmembers, we_sent>>

\* A member known from RTCP, or one that had stopped sending, sends RTP.
RtpFirstHeard(m, from) ==
    /\ Unheard(m, "rtp_heard")
    /\ flags' = [flags EXCEPT ![m] = @ \cup {"rtp_heard"}]
    /\ rtp_addr' = [rtp_addr EXCEPT ![m] = from]
    /\ senders' = senders + 1
    /\ sender_te' = soft_timer_add(sender_te, m, SENDER_TIMEOUT)
    /\ member_te' = Restart(member_te, m, MEMBER_TIMEOUT)
    /\ UNCHANGED <<used, ssrc, rtcp_addr, leave_te, conflict, members, pmembers, we_sent>>

\* The packet belongs to a member that is sending already.
RtpHeard(m, from) ==
    /\ "bye" \notin flags[m]
    /\ flags[m] \cap {"self", "rtp_heard"} # {}
    /\ rtp_addr[m] = from
    /\ flags' = [flags EXCEPT ![m] = @ \cup {"rtp_heard"}]
    /\ sender_te' = Restart(sender_te, m, SENDER_TIMEOUT)
    /\ member_te' = Restart(member_te, m, MEMBER_TIMEOUT)
    /\ UNCHANGED <<used, ssrc, rtp_addr, rtcp_addr, leave_te, conflict, cvar>>

(***************************************************************************)
(* The tail that rtp_handle_ssrc and rtcp_handle_ssrc share: the packet    *)
(* carries the session's own identifier from another address.  An address  *)
(* in the conflict list has its timer restarted and is ignored; any other  *)
(* is put on the list if there is room, and self takes a new identifier.   *)
(***************************************************************************)
Listed == {a \in Addr : conflict[a] # Off}

conflict_add(from) ==
    IF Cardinality(Listed) < CONFLICT_SIZE
    THEN [conflict EXCEPT ![from] = CONFLICT_TIMEOUT] ELSE conflict

OwnSsrcConflict(m, from) ==
    /\ IF from \in Listed
       THEN /\ conflict' = Restart(conflict, from, CONFLICT_TIMEOUT)
            /\ UNCHANGED ssrc
       ELSE /\ conflict' = conflict_add(from)
            /\ \E y \in FreshSsrc : ssrc' = [ssrc EXCEPT ![m] = y]
    /\ UNCHANGED <<used, flags, rtp_addr, rtcp_addr, timers, cvar>>

RtpOwnSsrc(m, from) ==
    /\ "bye" \notin flags[m]
    /\ "self" \in flags[m]
    /\ rtp_addr[m] # from
    /\ OwnSsrcConflict(m, from)

\* The packet is dropped: no free entry, a member that said BYE, or an
\* identifier in use at another address (rtp_rx_error_3rd_party_conflict).
RtpDropped(x, from) ==
    /\ \/ lookup(x) = {} /\ used = Slot
       \/ \E m \in lookup(x) :
             \/ "bye" \in flags[m]
             \/ "self" \notin flags[m] /\ "rtp_heard" \in flags[m] /\ rtp_addr[m] # from
    /\ UNCHANGED <<table, timers, conflict, cvar>>

rtp_handle_ssrc(x, from) ==
    \/ RtpNewMember(x, from)
    \/ \E m \in lookup(x) : RtpFirstHeard(m, from) \/ RtpOwnSsrc(m, from)
    \/ RtpDropped(x, from)

(***************************************************************************)
(* rtp_rx: a valid packet of a sending member goes on to its CSRC list if  *)
(* rtp_update_seq accepts its sequence number.                             *)
(***************************************************************************)
RtpRx(x, from) ==
    /\ Ready /\ Arrives(x, from)
    /\ UNCHANGED open
    /\ \/ rtp_handle_ssrc(x, from) /\ UNCHANGED rx
       \/ /\ \E m \in lookup(x) : RtpHeard(m, from)
          /\ rx' \in {Idle, [call |-> "rtp", from |-> from]}

RtpCsrc(x) ==
    /\ rx # Idle /\ rx.call = "rtp" /\ Arrives(x, rx.from)
    /\ \/ rtp_handle_ssrc(x, rx.from)
       \/ \E m \in lookup(x) : RtpHeard(m, rx.from)
    /\ UNCHANGED <<open, rx>>

-----------------------------------------------------------------------------
(***************************************************************************)
(* rtcp_handle_ssrc, called for the SSRC of an SR or RR and for every      *)
(* chunk of an SDES.                                                       *)
(***************************************************************************)
RtcpNewMember(x, from) ==
    /\ lookup(x) = {}
    /\ \E m \in Slot :
        /\ alloc_member(m, x, {"rtcp_heard"})
        /\ rtcp_addr' = [rtcp_addr EXCEPT ![m] = from]
        /\ member_te' = Restart(member_te, m, MEMBER_TIMEOUT)
        /\ sender_te' = soft_timer_del(sender_te, m)
        /\ leave_te' = soft_timer_del(leave_te, m)
    /\ members' = members + 1
    /\ UNCHANGED <<rtp_addr, conflict, senders, pmembers, we_sent>>

RtcpHeard(m, from) ==
    /\ \/ Unheard(m, "rtcp_heard") /\ rtcp_addr' = [rtcp_addr EXCEPT ![m] = from]
       \/ /\ "bye" \notin flags[m]
          /\ flags[m] \cap {"self", "rtcp_heard"} # {}
          /\ rtcp_addr[m] = from
          /\ UNCHANGED rtcp_addr
    /\ flags' = [flags EXCEPT ![m] = @ \cup {"rtcp_heard"}]
    /\ member_te' = Restart(member_te, m, MEMBER_TIMEOUT)
    /\ UNCHANGED <<used, ssrc, rtp_addr, sender_te, leave_te, conflict, cvar>>

RtcpOwnSsrc(m, from) ==
    /\ "bye" \notin flags[m]
    /\ flags[m] \cap {"self", "rtcp_heard"} # {}
    /\ rtcp_addr[m] # from
    /\ ssrc[m] = ssrc[Self]
    /\ OwnSsrcConflict(m, from)

RtcpDropped(x, from) ==
    /\ \/ lookup(x) = {} /\ used = Slot
       \/ \E m \in lookup(x) :
             \/ "bye" \in flags[m]
             \/ x # ssrc[Self] /\ "rtcp_heard" \in flags[m] /\ rtcp_addr[m] # from
    /\ UNCHANGED <<table, timers, conflict, cvar>>

rtcp_handle_ssrc(x, from) ==
    \/ RtcpNewMember(x, from)
    \/ \E m \in lookup(x) : RtcpHeard(m, from) \/ RtcpOwnSsrc(m, from)
    \/ RtcpDropped(x, from)

\* Mutant: a repeated BYE is handled again and starts the leave timer afresh.
ByeAgain(m) ==
    /\ Left(1 - IsSet("bye", m), IsSet("rtp_heard", m) * (1 - IsSet("bye", m)))
    /\ flags' = [flags EXCEPT ![m] = @ \cup {"bye"}]
    /\ sender_te' = soft_timer_del(sender_te, m)
    /\ member_te' = soft_timer_del(member_te, m)
    /\ leave_te' = Restart(leave_te, m, LEAVE_TIMEOUT)
    /\ UNCHANGED <<used, ssrc, rtp_addr, rtcp_addr, conflict, we_sent>>

\* One source of a BYE.  Neither the address nor the sender of the compound
\* packet is compared with the member's, and self is a member like the others.
rtcp_handle_bye(m) ==
    /\ "bye" \notin flags[m]
    /\ Left(1, IsSet("rtp_heard", m))
    /\ flags' = [flags EXCEPT ![m] = @ \cup {"bye"}]
    /\ sender_te' = soft_timer_del(sender_te, m)
    /\ member_te' = soft_timer_del(member_te, m)
    /\ leave_te' = soft_timer_add(leave_te, m, LEAVE_TIMEOUT)
    /\ UNCHANGED <<used, ssrc, rtp_addr, rtcp_addr, conflict, we_sent>>

\* The first part of a compound packet is an SR or RR (rtcp_check_pkt).
RtcpRx(x, from) ==
    /\ Ready /\ Arrives(x, from)
    /\ rtcp_handle_ssrc(x, from)
    /\ rx' = [call |-> "rtcp", from |-> from]
    /\ UNCHANGED open

RtcpPart(x) ==
    /\ rx # Idle /\ rx.call = "rtcp" /\ Arrives(x, rx.from)
    /\ rtcp_handle_ssrc(x, rx.from)
    /\ UNCHANGED <<open, rx>>

RtcpBye(x) ==
    /\ rx # Idle /\ rx.call = "rtcp"
    /\ \E m \in lookup(x) : rtcp_handle_bye(m)
    /\ UNCHANGED <<open, rx>>

\* The loop over a packet ends and the call returns to the host.
RxEnd ==
    /\ rx # Idle
    /\ rx' = Idle
    /\ UNCHANGED <<open, table, timers, conflict, cvar>>

-----------------------------------------------------------------------------
(***************************************************************************)
(* rtp_tx.  The timer restart and the counters come before the size check, *)
(* so a packet that is too big has the same effect here as one that goes   *)
(* out.                                                                    *)
(***************************************************************************)
RtpTx ==
    /\ Ready
    /\ we_sent' = TRUE
    /\ IF we_sent THEN UNCHANGED <<flags, senders>>
       ELSE /\ senders < MAX_SENDERS
            /\ flags' = [flags EXCEPT ![Self] = @ \cup {"sender"}]
            /\ senders' = senders + 1
    /\ sender_te' = Restart(sender_te, Self, SENDER_TIMEOUT)
    /\ UNCHANGED <<open, used, ssrc, rtp_addr, rtcp_addr, member_te, leave_te,
                   conflict, members, pmembers, rx>>

(***************************************************************************)
(* rtp_session_timer_tick: every running timer comes one tick nearer, then *)
(* the callbacks of those that expired run, in any order.  A callback may  *)
(* stop other timers of the same tick.                                     *)
(***************************************************************************)
TimerTick ==
    /\ Ready
    /\ member_te' = Tick(member_te)
    /\ sender_te' = Tick(sender_te)
    /\ leave_te' = Tick(leave_te)
    /\ conflict' = Tick(conflict)
    /\ UNCHANGED <<open, table, cvar, rx>>

member_timedout(m) ==
    /\ member_te[m] = 0
    /\ Left(1, IsSet("rtp_heard", m))
    /\ dealloc_member(m)
    /\ UNCHANGED <<ssrc, flags, rtp_addr, rtcp_addr, conflict, we_sent>>

\* The flags rtcp_interval_sender_timedout clears.
\* Mutant: it clears them all.
ClearedAll(m) == Flag

Cleared(m) == {"rtp_heard"} \cup (IF m = Self THEN {"sender"} ELSE {})

sender_timedout(m) ==
    /\ sender_te[m] = 0
    /\ sender_te' = soft_timer_del(sender_te, m)
    /\ flags' = [flags EXCEPT ![m] = @ \ Cleared(m)]
    /\ we_sent' = (we_sent /\ m # Self)
    /\ Left(0, 1)
    /\ UNCHANGED <<used, ssrc, rtp_addr, rtcp_addr, member_te, leave_te, conflict>>

\* Mutant: the entry of a member that left is not freed.
LeaveKeepsEntry(m) ==
    /\ leave_te[m] = 0
    /\ leave_te' = soft_timer_del(leave_te, m)
    /\ UNCHANGED <<table, member_te, sender_te, conflict, cvar>>

leave_timedout(m) ==
    /\ leave_te[m] = 0
    /\ dealloc_member(m)
    /\ UNCHANGED <<ssrc, flags, rtp_addr, rtcp_addr, conflict, cvar>>

conflict_timer_expired(a) ==
    /\ conflict[a] = 0
    /\ conflict' = soft_timer_del(conflict, a)
    /\ UNCHANGED <<table, timers, cvar>>

TimerCallback ==
    /\ open
    /\ \/ \E m \in Slot : member_timedout(m) \/ sender_timedout(m) \/ leave_timedout(m)
       \/ \E a \in Addr : conflict_timer_expired(a)
    /\ UNCHANGED <<open, rx>>

-----------------------------------------------------------------------------
RxStep ==
    \/ \E x \in SSRC :
        \/ \E from \in Addr : RtpRx(x, from) \/ RtcpRx(x, from)
        \/ RtpCsrc(x) \/ RtcpPart(x) \/ RtcpBye(x)

Next ==
    \/ Reopen \/ Close
    \/ RxStep \/ RxEnd
    \/ RtpTx
    \/ TimerTick \/ TimerCallback

Spec == Init /\ [][Next]_vars

(***************************************************************************)
(* A call the host has made returns: every packet is finite and every      *)
(* callback runs.  The host calls rtp_session_timer_tick periodically,     *)
(* whatever the traffic, so ticks are not starved by packets that arrive   *)
(* between them.  Nothing is assumed of the network or the application.    *)
(***************************************************************************)
FairSpec == Spec /\ WF_vars(RxEnd) /\ WF_vars(TimerCallback) /\ SF_vars(TimerTick)

-----------------------------------------------------------------------------
(***************************************************************************)
(* Properties.                                                             *)
(***************************************************************************)
Present == {m \in used : "bye" \notin flags[m]}

Sending == {m \in Present : "rtp_heard" \in flags[m]}

\* The entry sess->self points to was not given to a peer since a BYE that
\* named the session took it out of the table.
OwnEntry == "self" \in flags[Self]

WeSent == IF we_sent THEN 1 ELSE 0

\* rtcp_var.members, from which the RTCP interval is computed, is the number of
\* members in the table that have not said BYE, self included, whatever mix of
\* joins, BYEs and timeouts led there (rtcp.c handle_rtcp_event,
\* handle_rtp_event).
MemberCount == members = Cardinality(Present)

\* rtcp_var.senders is the number of members that sent RTP and were not timed
\* out as senders since, plus one while we_sent holds.  Only if a peer sits in
\* the entry of sess->self does the count go astray: the peer and the session
\* then share one sender timer.
SenderCount == OwnEntry => senders = Cardinality(Sending) + WeSent

\* While the session is open a member has exactly the timers its state calls
\* for: a leave timer once it said BYE, a member timer until then unless it is
\* self, a sender timer while it is counted as a sender (self: while we_sent).
TimersMatchState ==
    open => \A m \in used :
        /\ member_te[m] # Off <=> m \in Present /\ "self" \notin flags[m]
        /\ leave_te[m] # Off <=> m \notin Present
        /\ m # Self => (sender_te[m] # Off <=> m \in Sending)
        /\ m = Self /\ OwnEntry /\ m \in Present => (sender_te[m] # Off <=> we_sent)

\* An entry that is not in the table, and any entry of a closed session, has
\* no running timer: the allocation that reuses it initialises list nodes
\* that would otherwise still be linked into a timer bucket.  The one exception
\* is the sender timer of a self that is not in the table any more, which
\* rtp_tx keeps starting.
NoStrayTimer ==
    \A m \in Slot : ~open \/ m \notin used =>
        /\ member_te[m] = Off /\ leave_te[m] = Off
        /\ sender_te[m] = Off \/ (m = Self /\ Self \notin used)

\* rtp_member_table.c:107, "allocated SSRC must be unique across the entire
\* table": no two members share an identifier, also after self changed its own.
UniqueSsrc == \A m, n \in used : ssrc[m] = ssrc[n] => m = n

\* Self is in the table, as the only entry marked self, at the address it was
\* configured with, and no peer's packet marked it as heard or as gone.
SelfIntact ==
    /\ Self \in used
    /\ \A m \in used : "self" \in flags[m] <=> m = Self
    /\ flags[Self] \subseteq {"self", "sender"}
    /\ rtp_addr[Self] = OwnAddr /\ rtcp_addr[Self] = OwnAddr

\* Only one thing takes self out of the table or changes its entry otherwise
\* than by a new SSRC: a BYE that names its current identifier, from whomever
\* (rtcp_handle_bye has no test for self).  RTP, reports, SDES chunks and
\* CSRCs that carry the identifier never do, and no timer does.
SelfStays ==
    [][open /\ open' /\ SelfIntact => SelfIntact' \/ RtcpBye(ssrc[Self])]_vars

\* rtp_timers.c:14-17 has "Any other session member" timed out when silent: the
\* member timer of self never expires.
SelfNotTimedOut == OwnEntry => member_te[Self] # 0

\* BYE is final: until its entry is freed a member that said BYE stays marked,
\* and nothing that arrives for its SSRC gives its leave timer more time.
ByeIsFinal ==
    [][open /\ open' => \A m \in used \cap used' : "bye" \in flags[m] =>
          /\ "bye" \in flags'[m]
          /\ leave_te'[m] <= leave_te[m]]_vars

\* An identifier in use cannot be taken over: while a member is counted as a
\* sender, packets from elsewhere change neither its SSRC nor its address.
\* Once self is out of the table the last conflict rule of rtcp_handle_ssrc
\* compares with the identifier self had, which a peer may have taken.
NoTakeover ==
    [][open /\ open' /\ Self \in used /\ OwnEntry => \A m \in Sending \cap used' :
          ssrc'[m] = ssrc[m] /\ rtp_addr'[m] = rtp_addr[m]]_vars

\* A member that said BYE leaves the table, whatever still arrives for it.
ByeIsCompleted ==
    \A m \in Slot : (m \in used \ Present) ~> (m \notin used \/ ~open)

\* If from some moment on no packet arrives, the session forgets everyone:
\* at most self is left, in the table and in the counters, and no address stays
\* on the conflict list.
Alone ==
    /\ used \subseteq {Self} /\ members = Cardinality(used) /\ Listed = {}
    /\ \A m \in used : "self" \in flags[m]
    /\ OwnEntry => senders = WeSent

SilenceEmptiesTable == <>[][~RxStep]_vars /\ <>[]open => <>[]Alone

\* The comment at rtp.c:290-292 says of looped packets that "the source is
\* basically blocked": when self gives up its identifier, the address it
\* collided with is on the conflict list afterwards.
ConflictIsListed ==
    [][open /\ open' /\ ssrc'[Self] # ssrc[Self] => conflict' # conflict]_vars

\* The inductive invariant of the proofs: packets are handled only while the
\* session is open, and everything above that concerns a single state.  The
\* three parts in the middle say what is left of the properties of self and of
\* SenderCount once a BYE has named the session.
SelfEntry ==
    /\ \A m \in Slot : "self" \in flags[m] => m = Self
    /\ Self \in used /\ OwnEntry =>
        /\ flags[Self] \subseteq {"self", "sender", "bye"}
        /\ rtp_addr[Self] = OwnAddr /\ rtcp_addr[Self] = OwnAddr

SendersCovered == senders >= Cardinality(Sending) + WeSent

SelfTimerCounted == sender_te[Self] # Off => we_sent \/ Self \in Sending

IInv ==
    /\ TypeOK
    /\ rx # Idle => open
    /\ UniqueSsrc
    /\ SelfEntry /\ SendersCovered /\ SelfTimerCounted
    /\ TimersMatchState /\ NoStrayTimer
    /\ MemberCount /\ SenderCount

=============================================================================
