-------------------------- MODULE RtpSession_proofs --------------------------
(***************************************************************************)
(* Proofs about RtpSession, for any number of entries, identifiers and     *)
(* addresses and any timeouts, on a network that does not return the       *)
(* session's own packets to it.                                            *)
(***************************************************************************)
EXTENDS RtpSession, FiniteSetTheorems, TLAPS

\* The sets the counters count are finite.
LEMMA CountedSets ==
    ASSUME TypeOK
    PROVE  /\ IsFiniteSet(Present) /\ Cardinality(Present) \in Nat
           /\ IsFiniteSet(Sending) /\ Cardinality(Sending) \in Nat
           /\ WeSent \in {0, 1}
<1>1. Present \in SUBSET Slot /\ Sending \in SUBSET Slot
    BY DEF TypeOK, Present, Sending
<1>2. IsFiniteSet(Present) /\ IsFiniteSet(Sending)
    BY <1>1, FS_Subset, SlotAssumption
<1> QED
    BY <1>2, FS_CardinalityType DEF WeSent

\* rtp_session_init establishes the invariant.
LEMMA InitInv == Init => IInv
<1> SUFFICES ASSUME Init PROVE IInv
    OBVIOUS
<1>1. TypeOK
    BY SlotAssumption, AddrAssumption DEF Init, TypeOK, Ticks, Off, Flag, Idle
<1>2. Present = {Self} /\ Sending = {}
    BY SlotAssumption DEF Init, Present, Sending
<1>3. MemberCount /\ SenderCount /\ SendersCovered
  <2>1. Cardinality(Present) = 1 /\ Cardinality(Sending) = 0
    BY <1>2, FS_EmptySet, FS_Singleton, Zenon
  <2> QED
    BY <2>1 DEF Init, MemberCount, SenderCount, SendersCovered, WeSent
<1>4. SelfEntry /\ SelfTimerCounted /\ UniqueSsrc
    BY SlotAssumption DEF Init, SelfEntry, SelfTimerCounted, UniqueSsrc, Off
<1>5. TimersMatchState /\ NoStrayTimer
    BY <1>2, SlotAssumption DEF Init, TimersMatchState, NoStrayTimer, Off
<1> QED
    BY <1>1, <1>3, <1>4, <1>5 DEF IInv, Init

\* A source joins, heard on RTP or on RTCP: one more member, and in the first
\* case one more sender.
LEMMA RtpNewMemberInv ==
    ASSUME IInv, open, open' = open, rx' \in {Idle} \cup InProgress,
           NEW x \in SSRC, NEW from \in Addr, RtpNewMember(x, from)
    PROVE  IInv'
<1> PICK m \in Slot :
        /\ alloc_member(m, x, {"rtp_heard"})
        /\ rtp_addr' = [rtp_addr EXCEPT ![m] = from]
        /\ member_te' = Restart(member_te, m, MEMBER_TIMEOUT)
        /\ sender_te' = Restart(sender_te, m, SENDER_TIMEOUT)
        /\ leave_te' = soft_timer_del(leave_te, m)
    BY DEF RtpNewMember
<1> USE DEF IInv
<1>1. m \notin used /\ m \notin Present /\ m \notin Sending
    BY DEF alloc_member, Present, Sending
<1>2. Present' = Present \cup {m} /\ Sending' = Sending \cup {m}
    BY <1>1 DEF alloc_member, TypeOK, Present, Sending
<1>3. MemberCount' /\ SenderCount' /\ SendersCovered'
  <2>1. /\ Cardinality(Present') = Cardinality(Present) + 1
        /\ Cardinality(Sending') = Cardinality(Sending) + 1
    BY <1>1, <1>2, CountedSets, FS_AddElement
  <2> QED
    <3>1. WeSent' = WeSent
        BY DEF RtpNewMember, WeSent
    <3>2. OwnEntry' => OwnEntry
        BY SlotAssumption DEF alloc_member, OwnEntry, TypeOK
    <3> QED
        BY <2>1, <3>1, <3>2, CountedSets
        DEF RtpNewMember, MemberCount, SenderCount, SendersCovered, TypeOK
<1>4. /\ member_te' \in [Slot -> Ticks] /\ sender_te' \in [Slot -> Ticks] /\ leave_te' \in [Slot -> Ticks]
      /\ \A n \in Slot \ {m} : /\ member_te'[n] = member_te[n]
                               /\ sender_te'[n] = sender_te[n]
                               /\ leave_te'[n] = leave_te[n]
      /\ member_te'[m] # Off /\ sender_te'[m] # Off /\ leave_te'[m] = Off
    BY TimeoutAssumption DEF Restart, soft_timer_add, soft_timer_del, TypeOK, Ticks, Off
<1>5. TypeOK'
  <2>1. flags' \in [Slot -> SUBSET Flag] /\ used' \in SUBSET Slot /\ ssrc' \in [Slot -> SSRC]
    BY DEF alloc_member, TypeOK, Flag
  <2>2. open' \in BOOLEAN /\ we_sent' \in BOOLEAN
    BY DEF RtpNewMember, TypeOK
  <2>3. rtp_addr' \in [Slot -> Addr] /\ rtcp_addr' \in [Slot -> Addr] /\ conflict' \in [Addr -> Ticks]
    BY DEF RtpNewMember, TypeOK
  <2>4. members' \in Nat /\ senders' \in Nat /\ pmembers' \in Nat
    BY DEF RtpNewMember, TypeOK
  <2> QED
    BY <1>4, <2>1, <2>2, <2>3, <2>4 DEF TypeOK
<1>6. SelfEntry' /\ UniqueSsrc'
    BY <1>1, SlotAssumption DEF RtpNewMember, alloc_member, TypeOK, SelfEntry, OwnEntry, UniqueSsrc, lookup
<1>7. TimersMatchState'
    BY <1>1, <1>2, <1>4 DEF RtpNewMember, alloc_member, TypeOK, TimersMatchState, Sending, OwnEntry
<1>8. NoStrayTimer'
    BY <1>1, <1>4 DEF alloc_member, TypeOK, NoStrayTimer
<1>9. SelfTimerCounted'
    BY <1>1, <1>2, <1>4, SlotAssumption DEF RtpNewMember, alloc_member, SelfTimerCounted
<1> QED
    BY <1>3, <1>5, <1>6, <1>7, <1>8, <1>9

LEMMA RtcpNewMemberInv ==
    ASSUME IInv, open, open' = open, rx' \in {Idle} \cup InProgress,
           NEW x \in SSRC, NEW from \in Addr, RtcpNewMember(x, from)
    PROVE  IInv'
<1> PICK m \in Slot :
        /\ alloc_member(m, x, {"rtcp_heard"})
        /\ rtcp_addr' = [rtcp_addr EXCEPT ![m] = from]
        /\ member_te' = Restart(member_te, m, MEMBER_TIMEOUT)
        /\ sender_te' = soft_timer_del(sender_te, m)
        /\ leave_te' = soft_timer_del(leave_te, m)
    BY DEF RtcpNewMember
<1> USE DEF IInv
<1>1. m \notin used /\ m \notin Present /\ m \notin Sending
    BY DEF alloc_member, Present, Sending
<1>2. Present' = Present \cup {m} /\ Sending' = Sending
    BY <1>1 DEF alloc_member, TypeOK, Present, Sending
<1>3. MemberCount' /\ SenderCount' /\ SendersCovered'
  <2>1. /\ Cardinality(Present') = Cardinality(Present) + 1
        /\ Cardinality(Sending') = Cardinality(Sending)
    BY <1>1, <1>2, CountedSets, FS_AddElement
  <2> QED
    <3>1. WeSent' = WeSent
        BY DEF RtcpNewMember, WeSent
    <3>2. OwnEntry' => OwnEntry
        BY SlotAssumption DEF alloc_member, OwnEntry, TypeOK
    <3> QED
        BY <2>1, <3>1, <3>2, CountedSets
        DEF RtcpNewMember, MemberCount, SenderCount, SendersCovered, TypeOK
<1>4. /\ member_te' \in [Slot -> Ticks] /\ sender_te' \in [Slot -> Ticks] /\ leave_te' \in [Slot -> Ticks]
      /\ \A n \in Slot \ {m} : /\ member_te'[n] = member_te[n]
                               /\ sender_te'[n] = sender_te[n]
                               /\ leave_te'[n] = leave_te[n]
      /\ member_te'[m] # Off /\ sender_te'[m] = Off /\ leave_te'[m] = Off
    BY TimeoutAssumption DEF Restart, soft_timer_add, soft_timer_del, TypeOK, Ticks, Off
<1>5. TypeOK'
  <2>1. flags' \in [Slot -> SUBSET Flag] /\ used' \in SUBSET Slot /\ ssrc' \in [Slot -> SSRC]
    BY DEF alloc_member, TypeOK, Flag
  <2>2. open' \in BOOLEAN /\ we_sent' \in BOOLEAN
    BY DEF RtcpNewMember, TypeOK
  <2>3. rtp_addr' \in [Slot -> Addr] /\ rtcp_addr' \in [Slot -> Addr] /\ conflict' \in [Addr -> Ticks]
    BY DEF RtcpNewMember, TypeOK
  <2>4. members' \in Nat /\ senders' \in Nat /\ pmembers' \in Nat
    BY DEF RtcpNewMember, TypeOK
  <2> QED
    BY <1>4, <2>1, <2>2, <2>3, <2>4 DEF TypeOK
<1>6. SelfEntry' /\ UniqueSsrc'
    BY <1>1, SlotAssumption DEF RtcpNewMember, alloc_member, TypeOK, SelfEntry, OwnEntry, UniqueSsrc, lookup
<1>7. TimersMatchState'
    BY <1>1, <1>2, <1>4 DEF RtcpNewMember, alloc_member, TypeOK, TimersMatchState, Sending, OwnEntry
<1>8. NoStrayTimer'
    BY <1>1, <1>4 DEF alloc_member, TypeOK, NoStrayTimer
<1>9. SelfTimerCounted'
    BY <1>1, <1>2, <1>4, SlotAssumption DEF RtcpNewMember, alloc_member, SelfTimerCounted
<1> QED
    BY <1>3, <1>5, <1>6, <1>7, <1>8, <1>9

\* A known member starts to send: one more sender, with a sender timer.
LEMMA RtpFirstHeardInv ==
    ASSUME IInv, open, open' = open, rx' \in {Idle} \cup InProgress,
           NEW m \in used, NEW from \in Addr, RtpFirstHeard(m, from)
    PROVE  IInv'
<1> USE DEF IInv
<1>1. m \in Slot /\ "self" \notin flags[m] /\ m \in Present /\ m \notin Sending
    BY DEF RtpFirstHeard, Unheard, TypeOK, Present, Sending
<1>2. Present' = Present /\ Sending' = Sending \cup {m}
    BY <1>1 DEF RtpFirstHeard, TypeOK, Present, Sending
<1>3. MemberCount' /\ SenderCount' /\ SendersCovered'
  <2>1. Cardinality(Sending') = Cardinality(Sending) + 1
    BY <1>1, <1>2, CountedSets, FS_AddElement
  <2> QED
    <3>1. WeSent' = WeSent /\ (OwnEntry' => OwnEntry)
        BY <1>1, SlotAssumption DEF RtpFirstHeard, WeSent, OwnEntry, TypeOK
    <3> QED
        BY <1>2, <2>1, <3>1, CountedSets
        DEF RtpFirstHeard, MemberCount, SenderCount, SendersCovered, TypeOK
<1>4. /\ member_te' \in [Slot -> Ticks] /\ sender_te' \in [Slot -> Ticks]
      /\ \A n \in Slot \ {m} : member_te'[n] = member_te[n] /\ sender_te'[n] = sender_te[n]
      /\ member_te'[m] # Off /\ sender_te'[m] # Off
    BY <1>1, TimeoutAssumption
    DEF RtpFirstHeard, Restart, soft_timer_add, soft_timer_del, TypeOK, Ticks, Off
<1>5. TypeOK'
  <2>1. flags' \in [Slot -> SUBSET Flag] /\ rtp_addr' \in [Slot -> Addr]
    BY <1>1 DEF RtpFirstHeard, TypeOK, Flag
  <2>2. open' \in BOOLEAN /\ we_sent' \in BOOLEAN
    BY DEF RtpFirstHeard, TypeOK
  <2>3. /\ used' \in SUBSET Slot /\ ssrc' \in [Slot -> SSRC] /\ rtcp_addr' \in [Slot -> Addr]
        /\ leave_te' \in [Slot -> Ticks] /\ conflict' \in [Addr -> Ticks]
    BY DEF RtpFirstHeard, TypeOK
  <2>4. members' \in Nat /\ senders' \in Nat /\ pmembers' \in Nat
    BY DEF RtpFirstHeard, TypeOK
  <2> QED
    BY <1>4, <2>1, <2>2, <2>3, <2>4 DEF TypeOK
<1>6. SelfEntry' /\ UniqueSsrc'
    BY <1>1, SlotAssumption DEF RtpFirstHeard, TypeOK, SelfEntry, OwnEntry, UniqueSsrc
<1>7. TimersMatchState'
    BY <1>1, <1>2, <1>4 DEF RtpFirstHeard, TypeOK, TimersMatchState, OwnEntry
<1>8. NoStrayTimer'
    BY <1>1, <1>4 DEF RtpFirstHeard, TypeOK, NoStrayTimer
<1>9. SelfTimerCounted'
    BY <1>1, <1>2, <1>4, SlotAssumption DEF RtpFirstHeard, SelfTimerCounted
<1> QED
    BY <1>3, <1>5, <1>6, <1>7, <1>8, <1>9

\* A sending member, or an RTCP participant, is heard again: its timers are
\* restarted and nobody is counted anew.
LEMMA RtpHeardInv ==
    ASSUME IInv, open, open' = open, rx' \in {Idle} \cup InProgress,
           NEW m \in used, "self" \notin flags[m], NEW from \in Addr, RtpHeard(m, from)
    PROVE  IInv'
<1> USE DEF IInv
<1>1. m \in Slot /\ m \in Present /\ m \in Sending
    BY DEF RtpHeard, TypeOK, Present, Sending
<1>2. Present' = Present /\ Sending' = Sending
    BY <1>1 DEF RtpHeard, TypeOK, Present, Sending
<1>3. MemberCount' /\ SenderCount' /\ SendersCovered'
  <2>1. WeSent' = WeSent /\ (OwnEntry' => OwnEntry)
    BY <1>1, SlotAssumption DEF RtpHeard, WeSent, OwnEntry, TypeOK, cvar
  <2> QED
    BY <1>2, <2>1 DEF RtpHeard, MemberCount, SenderCount, SendersCovered, cvar
<1>4. /\ member_te' \in [Slot -> Ticks] /\ sender_te' \in [Slot -> Ticks]
      /\ \A n \in Slot \ {m} : member_te'[n] = member_te[n] /\ sender_te'[n] = sender_te[n]
      /\ member_te'[m] # Off /\ sender_te'[m] # Off
    BY <1>1, TimeoutAssumption
    DEF RtpHeard, Restart, soft_timer_add, soft_timer_del, TypeOK, Ticks, Off
<1>5. TypeOK'
  <2>1. flags' \in [Slot -> SUBSET Flag]
    BY <1>1 DEF RtpHeard, TypeOK, Flag
  <2>2. open' \in BOOLEAN /\ we_sent' \in BOOLEAN
    BY DEF RtpHeard, TypeOK, cvar
  <2>3. /\ used' \in SUBSET Slot /\ ssrc' \in [Slot -> SSRC]
        /\ rtp_addr' \in [Slot -> Addr] /\ rtcp_addr' \in [Slot -> Addr]
        /\ leave_te' \in [Slot -> Ticks] /\ conflict' \in [Addr -> Ticks]
        /\ members' \in Nat /\ senders' \in Nat /\ pmembers' \in Nat
    BY DEF RtpHeard, TypeOK, cvar
  <2> QED
    BY <1>4, <2>1, <2>2, <2>3 DEF TypeOK
<1>6. SelfEntry' /\ UniqueSsrc'
    BY <1>1, SlotAssumption DEF RtpHeard, TypeOK, SelfEntry, OwnEntry, UniqueSsrc
<1>7. TimersMatchState'
    BY <1>1, <1>2, <1>4 DEF RtpHeard, TypeOK, TimersMatchState, OwnEntry, cvar
<1>8. NoStrayTimer'
    BY <1>1, <1>4 DEF RtpHeard, TypeOK, NoStrayTimer
<1>9. SelfTimerCounted'
    BY <1>1, <1>2, <1>4, SlotAssumption DEF RtpHeard, SelfTimerCounted, cvar
<1> QED
    BY <1>3, <1>5, <1>6, <1>7, <1>8, <1>9

LEMMA RtcpHeardInv ==
    ASSUME IInv, open, open' = open, rx' \in {Idle} \cup InProgress,
           NEW m \in used, "self" \notin flags[m], NEW from \in Addr, RtcpHeard(m, from)
    PROVE  IInv'
<1> USE DEF IInv
<1>1. m \in Slot /\ m \in Present
    BY DEF RtcpHeard, Unheard, TypeOK, Present
<1>2. Present' = Present /\ Sending' = Sending
    BY <1>1 DEF RtcpHeard, TypeOK, Present, Sending
<1>3. MemberCount' /\ SenderCount' /\ SendersCovered'
  <2>1. WeSent' = WeSent /\ (OwnEntry' => OwnEntry)
    BY <1>1, SlotAssumption DEF RtcpHeard, WeSent, OwnEntry, TypeOK, cvar
  <2> QED
    BY <1>2, <2>1 DEF RtcpHeard, MemberCount, SenderCount, SendersCovered, cvar
<1>4. /\ member_te' \in [Slot -> Ticks]
      /\ \A n \in Slot \ {m} : member_te'[n] = member_te[n]
      /\ member_te'[m] # Off
    BY <1>1, TimeoutAssumption
    DEF RtcpHeard, Restart, soft_timer_add, soft_timer_del, TypeOK, Ticks, Off
<1>5. TypeOK'
  <2>1. flags' \in [Slot -> SUBSET Flag]
    BY <1>1 DEF RtcpHeard, TypeOK, Flag
  <2>2. open' \in BOOLEAN /\ we_sent' \in BOOLEAN
    BY DEF RtcpHeard, TypeOK, cvar
  <2>3. rtcp_addr' \in [Slot -> Addr]
    BY DEF RtcpHeard, TypeOK
  <2>4. /\ used' \in SUBSET Slot /\ ssrc' \in [Slot -> SSRC] /\ rtp_addr' \in [Slot -> Addr]
        /\ sender_te' \in [Slot -> Ticks] /\ leave_te' \in [Slot -> Ticks]
        /\ conflict' \in [Addr -> Ticks]
        /\ members' \in Nat /\ senders' \in Nat /\ pmembers' \in Nat
    BY DEF RtcpHeard, TypeOK, cvar
  <2> QED
    BY <1>4, <2>1, <2>2, <2>3, <2>4 DEF TypeOK
<1>6. SelfEntry' /\ UniqueSsrc'
    BY <1>1, SlotAssumption DEF RtcpHeard, TypeOK, SelfEntry, OwnEntry, UniqueSsrc
<1>7. TimersMatchState'
    BY <1>1, <1>2, <1>4 DEF RtcpHeard, TypeOK, TimersMatchState, OwnEntry, cvar
<1>8. NoStrayTimer'
    BY <1>1, <1>4 DEF RtcpHeard, TypeOK, NoStrayTimer
<1>9. SelfTimerCounted'
    BY <1>1, <1>2, <1>4, SlotAssumption DEF RtcpHeard, SelfTimerCounted, cvar
<1> QED
    BY <1>3, <1>5, <1>6, <1>7, <1>8, <1>9

\* A collision changes nothing but the conflict list and self's identifier,
\* and the new identifier is in nobody's use.
LEMMA OwnSsrcConflictInv ==
    ASSUME IInv, open, open' = open, rx' \in {Idle} \cup InProgress,
           NEW m \in used, NEW from \in Addr, OwnSsrcConflict(m, from)
    PROVE  IInv'
<1> USE DEF IInv
<1>1. Present' = Present /\ Sending' = Sending
    BY DEF OwnSsrcConflict, Present, Sending
<1>2. MemberCount' /\ SenderCount' /\ SendersCovered' /\ SelfTimerCounted'
    BY <1>1 DEF OwnSsrcConflict, MemberCount, SenderCount, SendersCovered, SelfTimerCounted,
                WeSent, OwnEntry, timers, cvar
<1>3. conflict' \in [Addr -> Ticks]
    BY TimeoutAssumption
    DEF OwnSsrcConflict, conflict_add, Restart, soft_timer_add, soft_timer_del, TypeOK, Ticks, Off
<1>4. ssrc' \in [Slot -> SSRC] /\ UniqueSsrc'
    BY SlotAssumption DEF OwnSsrcConflict, FreshSsrc, lookup, TypeOK, UniqueSsrc
<1>5. TypeOK'
  <2>1. open' \in BOOLEAN /\ we_sent' \in BOOLEAN
    BY DEF OwnSsrcConflict, TypeOK, cvar
  <2>2. /\ used' \in SUBSET Slot /\ flags' \in [Slot -> SUBSET Flag]
        /\ rtp_addr' \in [Slot -> Addr] /\ rtcp_addr' \in [Slot -> Addr]
        /\ member_te' \in [Slot -> Ticks] /\ sender_te' \in [Slot -> Ticks]
        /\ leave_te' \in [Slot -> Ticks]
        /\ members' \in Nat /\ senders' \in Nat /\ pmembers' \in Nat
    BY DEF OwnSsrcConflict, TypeOK, timers, cvar
  <2> QED
    BY <1>3, <1>4, <2>1, <2>2 DEF TypeOK
<1>6. SelfEntry'
    BY DEF OwnSsrcConflict, SelfEntry, OwnEntry
<1>7. TimersMatchState' /\ NoStrayTimer'
    BY <1>1 DEF OwnSsrcConflict, TimersMatchState, NoStrayTimer, OwnEntry, timers, cvar
<1> QED
    BY <1>2, <1>4, <1>5, <1>6, <1>7

\* The counters when a member says BYE or times out: it is counted as a sender
\* exactly if it was one.
LEMMA MemberGone ==
    ASSUME TypeOK, MemberCount, SenderCount, SendersCovered, NEW m \in Present,
           Present' = Present \ {m}, Sending' = Sending \ {m},
           Left(1, IsSet("rtp_heard", m)), we_sent' = we_sent,
           OwnEntry' => OwnEntry
    PROVE  /\ MemberCount' /\ SenderCount' /\ SendersCovered'
           /\ members' \in Nat /\ senders' \in Nat /\ pmembers' \in Nat
<1>1. IsSet("rtp_heard", m) = IF m \in Sending THEN 1 ELSE 0
    BY DEF IsSet, Sending
<1>2. /\ Cardinality(Present') = Cardinality(Present) - 1
      /\ Cardinality(Sending') = Cardinality(Sending) - IsSet("rtp_heard", m)
      /\ Cardinality(Present') \in Nat /\ Cardinality(Sending') \in Nat
  <2>1. IsFiniteSet(Present') /\ IsFiniteSet(Sending')
    BY CountedSets, FS_RemoveElement
  <2>2. Cardinality(Present') \in Nat /\ Cardinality(Sending') \in Nat
    BY <2>1, FS_CardinalityType
  <2>3. Cardinality(Present') = Cardinality(Present) - 1
    BY CountedSets, FS_RemoveElement
  <2>4. Cardinality(Sending') = IF m \in Sending THEN Cardinality(Sending) - 1 ELSE Cardinality(Sending)
    BY CountedSets, FS_RemoveElement
  <2> QED
    BY <1>1, <2>2, <2>3, <2>4, CountedSets
<1>3. WeSent \in {0, 1} /\ WeSent' = WeSent
    BY DEF WeSent
<1>4. members' = members - 1 /\ members = Cardinality(Present)
    BY DEF Left, MemberCount
<1>5. /\ senders' = senders - IsSet("rtp_heard", m)
      /\ senders >= Cardinality(Sending) + WeSent
      /\ OwnEntry' => senders = Cardinality(Sending) + WeSent
    BY DEF Left, SenderCount, SendersCovered
<1>6. IsSet("rtp_heard", m) \in {0, 1}
    BY DEF IsSet
<1>7. /\ members' = Cardinality(Present')
      /\ senders' >= Cardinality(Sending') + WeSent'
      /\ OwnEntry' => senders' = Cardinality(Sending') + WeSent'
    BY <1>2, <1>3, <1>4, <1>5, <1>6, CountedSets DEF TypeOK
<1>8. members' \in Nat /\ senders' \in Nat
    BY <1>2, <1>3, <1>5, <1>6, <1>7 DEF TypeOK
<1>9. pmembers' \in Nat
    BY <1>8 DEF Left, TypeOK
<1> QED
    BY <1>7, <1>8, <1>9 DEF MemberCount, SenderCount, SendersCovered

\* BYE: one member fewer, one sender fewer if it was sending, and the leave
\* timer in the place of the other two.
LEMMA ByeInv ==
    ASSUME IInv, open, open' = open, rx' \in {Idle} \cup InProgress,
           NEW m \in used, rtcp_handle_bye(m)
    PROVE  IInv'
<1> USE DEF IInv
<1>1. m \in Slot /\ m \in Present /\ m \notin Present'
    BY DEF rtcp_handle_bye, TypeOK, Present
<1>2. Present' = Present \ {m} /\ Sending' = Sending \ {m}
    BY <1>1 DEF rtcp_handle_bye, TypeOK, Present, Sending
<1>3. /\ OwnEntry' => OwnEntry
      /\ \A n \in Slot : "self" \in flags'[n] <=> "self" \in flags[n]
    BY <1>1, SlotAssumption DEF rtcp_handle_bye, OwnEntry, TypeOK
<1>5. /\ MemberCount' /\ SenderCount' /\ SendersCovered'
      /\ members' \in Nat /\ senders' \in Nat /\ pmembers' \in Nat
    BY <1>1, <1>2, <1>3, MemberGone DEF rtcp_handle_bye
<1>6. /\ member_te' \in [Slot -> Ticks] /\ sender_te' \in [Slot -> Ticks] /\ leave_te' \in [Slot -> Ticks]
      /\ \A n \in Slot \ {m} : /\ member_te'[n] = member_te[n]
                               /\ sender_te'[n] = sender_te[n]
                               /\ leave_te'[n] = leave_te[n]
      /\ member_te'[m] = Off /\ sender_te'[m] = Off /\ leave_te'[m] # Off
    BY <1>1, TimeoutAssumption
    DEF rtcp_handle_bye, soft_timer_add, soft_timer_del, TypeOK, Ticks, Off
<1>7. TypeOK'
  <2>1. flags' \in [Slot -> SUBSET Flag]
    BY <1>1 DEF rtcp_handle_bye, TypeOK, Flag
  <2>2. open' \in BOOLEAN /\ we_sent' \in BOOLEAN
    BY DEF rtcp_handle_bye, TypeOK
  <2>3. /\ used' \in SUBSET Slot /\ ssrc' \in [Slot -> SSRC]
        /\ rtp_addr' \in [Slot -> Addr] /\ rtcp_addr' \in [Slot -> Addr]
        /\ conflict' \in [Addr -> Ticks]
    BY DEF rtcp_handle_bye, TypeOK
  <2> QED
    BY <1>5, <1>6, <2>1, <2>2, <2>3 DEF TypeOK
<1>8. SelfEntry' /\ UniqueSsrc'
    BY <1>1, <1>3, SlotAssumption DEF rtcp_handle_bye, TypeOK, SelfEntry, OwnEntry, UniqueSsrc
<1>9. TimersMatchState'
    BY <1>1, <1>2, <1>3, <1>6 DEF rtcp_handle_bye, TypeOK, TimersMatchState
<1>10. NoStrayTimer'
    BY <1>1, <1>6 DEF rtcp_handle_bye, TypeOK, NoStrayTimer
<1>11. SelfTimerCounted'
    BY <1>1, <1>2, <1>6, SlotAssumption DEF rtcp_handle_bye, SelfTimerCounted
<1> QED
    BY <1>5, <1>7, <1>8, <1>9, <1>10, <1>11

\* rtp_tx: self becomes a sender once, and its sender timer runs.
LEMMA RtpTxInv ==
    ASSUME IInv, RtpTx
    PROVE  IInv'
<1> USE DEF IInv
<1>1. open /\ open' = open /\ we_sent' /\ Self \in Slot
    BY SlotAssumption DEF RtpTx, Ready
<1>2. flags' \in [Slot -> SUBSET Flag] /\ \A n \in Slot : flags'[n] \ {"sender"} = flags[n] \ {"sender"}
    BY <1>1 DEF RtpTx, TypeOK, Flag
<1>3. Present' = Present /\ Sending' = Sending
  <2>1. \A n \in Slot : /\ "bye" \in flags'[n] <=> "bye" \in flags[n]
                       /\ "rtp_heard" \in flags'[n] <=> "rtp_heard" \in flags[n]
    BY <1>2
  <2> QED
    BY <2>1 DEF RtpTx, TypeOK, Present, Sending
<1>4. MemberCount' /\ SenderCount' /\ SendersCovered'
  <2> OwnEntry' => OwnEntry
    BY <1>1, <1>2 DEF OwnEntry
  <2>1. CASE we_sent
    BY <1>1, <1>3, <2>1 DEF RtpTx, MemberCount, SenderCount, SendersCovered, WeSent
  <2>2. CASE ~we_sent
    BY <1>1, <1>3, <2>2, CountedSets
    DEF RtpTx, MemberCount, SenderCount, SendersCovered, WeSent, TypeOK
  <2> QED
    BY <2>1, <2>2
<1>5. /\ sender_te' \in [Slot -> Ticks]
      /\ \A n \in Slot \ {Self} : sender_te'[n] = sender_te[n]
      /\ sender_te'[Self] # Off
    BY <1>1, TimeoutAssumption DEF RtpTx, Restart, soft_timer_add, soft_timer_del, TypeOK, Ticks, Off
<1>6. TypeOK'
  <2>1. open' \in BOOLEAN /\ we_sent' \in BOOLEAN
    BY DEF RtpTx, TypeOK
  <2>2. /\ used' \in SUBSET Slot /\ ssrc' \in [Slot -> SSRC]
        /\ rtp_addr' \in [Slot -> Addr] /\ rtcp_addr' \in [Slot -> Addr]
        /\ member_te' \in [Slot -> Ticks] /\ leave_te' \in [Slot -> Ticks]
        /\ conflict' \in [Addr -> Ticks]
        /\ members' \in Nat /\ pmembers' \in Nat /\ rx' \in {Idle} \cup InProgress
    BY DEF RtpTx, TypeOK
  <2>3. senders' \in Nat
    BY DEF RtpTx, TypeOK
  <2> QED
    BY <1>2, <1>5, <2>1, <2>2, <2>3 DEF TypeOK
<1>7. SelfEntry' /\ UniqueSsrc' /\ SelfTimerCounted'
    BY <1>1, <1>2 DEF RtpTx, TypeOK, SelfEntry, OwnEntry, UniqueSsrc, SelfTimerCounted
<1>8. TimersMatchState'
    BY <1>1, <1>2, <1>3, <1>5 DEF RtpTx, TypeOK, TimersMatchState, OwnEntry
<1>9. NoStrayTimer'
    BY <1>1, <1>5 DEF RtpTx, TypeOK, NoStrayTimer
<1> QED
    BY <1>1, <1>4, <1>6, <1>7, <1>8, <1>9

\* A tick leaves a timer off that was off, and no other.
LEMMA TickKeepsOff ==
    ASSUME NEW S, NEW te \in [S -> Ticks]
    PROVE  Tick(te) \in [S -> Ticks] /\ \A i \in S : Tick(te)[i] # Off <=> te[i] # Off
<1> SUFFICES ASSUME NEW i \in S
             PROVE  Tick(te)[i] \in Ticks /\ (Tick(te)[i] # Off <=> te[i] # Off)
    BY DEF Tick
<1> QED
    BY DEF Tick, Ticks, Off

LEMMA TimerTickInv ==
    ASSUME IInv, TimerTick
    PROVE  IInv'
<1> USE DEF IInv
<1>1. /\ member_te' \in [Slot -> Ticks] /\ sender_te' \in [Slot -> Ticks]
      /\ leave_te' \in [Slot -> Ticks] /\ conflict' \in [Addr -> Ticks]
      /\ \A m \in Slot : /\ member_te'[m] # Off <=> member_te[m] # Off
                         /\ sender_te'[m] # Off <=> sender_te[m] # Off
                         /\ leave_te'[m] # Off <=> leave_te[m] # Off
    BY TickKeepsOff DEF TimerTick, TypeOK
<1>2. Present' = Present /\ Sending' = Sending
    BY DEF TimerTick, table, Present, Sending
<1>3. TypeOK'
  <2>1. open' \in BOOLEAN /\ we_sent' \in BOOLEAN
    BY DEF TimerTick, TypeOK, cvar
  <2> QED
    BY <1>1, <2>1 DEF TimerTick, TypeOK, table, cvar
<1>4. MemberCount' /\ SenderCount' /\ SendersCovered' /\ SelfEntry' /\ UniqueSsrc'
    BY <1>2 DEF TimerTick, MemberCount, SenderCount, SendersCovered, WeSent, OwnEntry,
                SelfEntry, UniqueSsrc, table, cvar
<1>5. TimersMatchState'
    BY <1>1, <1>2 DEF TimerTick, TimersMatchState, OwnEntry, TypeOK, table, cvar
<1>6. NoStrayTimer'
    BY <1>1 DEF TimerTick, NoStrayTimer, TypeOK, table
<1>7. SelfTimerCounted'
    BY <1>1, <1>2, SlotAssumption DEF TimerTick, SelfTimerCounted, cvar
<1> QED
    BY <1>3, <1>4, <1>5, <1>6, <1>7 DEF TimerTick

\* A member whose timer runs is in the table of an open session.
LEMMA RunningIsUsed ==
    ASSUME IInv, NEW m \in Slot,
           open,
           member_te[m] = 0 \/ (sender_te[m] = 0 /\ m # Self) \/ leave_te[m] = 0
    PROVE  m \in used
BY DEF IInv, NoStrayTimer, Off

\* What freeing an entry does to the timers, the table and the identifiers.
LEMMA Dealloc ==
    ASSUME TypeOK, UniqueSsrc, NoStrayTimer, SelfTimerCounted, NEW m \in Slot, dealloc_member(m),
           open' = open, ssrc' = ssrc,
           Sending' = Sending \ {m}, we_sent' = we_sent
    PROVE  /\ member_te' \in [Slot -> Ticks] /\ sender_te' \in [Slot -> Ticks]
           /\ leave_te' \in [Slot -> Ticks]
           /\ \A n \in Slot \ {m} : /\ member_te'[n] = member_te[n]
                                    /\ sender_te'[n] = sender_te[n]
                                    /\ leave_te'[n] = leave_te[n]
           /\ used' \in SUBSET Slot /\ UniqueSsrc' /\ NoStrayTimer' /\ SelfTimerCounted'
<1>1. /\ member_te' \in [Slot -> Ticks] /\ sender_te' \in [Slot -> Ticks]
      /\ leave_te' \in [Slot -> Ticks]
      /\ \A n \in Slot \ {m} : /\ member_te'[n] = member_te[n]
                               /\ sender_te'[n] = sender_te[n]
                               /\ leave_te'[n] = leave_te[n]
      /\ member_te'[m] = Off /\ sender_te'[m] = Off /\ leave_te'[m] = Off
    BY DEF dealloc_member, soft_timer_del, TypeOK, Ticks
<1>2. used' \in SUBSET Slot /\ UniqueSsrc'
    BY DEF dealloc_member, TypeOK, UniqueSsrc
<1>3. NoStrayTimer'
    BY <1>1 DEF dealloc_member, NoStrayTimer
<1>4. SelfTimerCounted'
    BY <1>1, SlotAssumption DEF SelfTimerCounted
<1> QED
    BY <1>1, <1>2, <1>3, <1>4

LEMMA MemberTimedoutInv ==
    ASSUME IInv, open, NEW m \in Slot, member_timedout(m), UNCHANGED <<open, rx>>
    PROVE  IInv'
<1> USE DEF IInv
<1>1. open /\ m \in used /\ m \in Present
    BY RunningIsUsed DEF member_timedout, NoStrayTimer, TimersMatchState, Present, Off
<1>2. Present' = Present \ {m} /\ Sending' = Sending \ {m}
    BY DEF member_timedout, dealloc_member, Present, Sending
<1>3. /\ MemberCount' /\ SenderCount' /\ SendersCovered'
      /\ members' \in Nat /\ senders' \in Nat /\ pmembers' \in Nat
    BY <1>1, <1>2, MemberGone DEF member_timedout, OwnEntry
<1>4. /\ member_te' \in [Slot -> Ticks] /\ sender_te' \in [Slot -> Ticks]
      /\ leave_te' \in [Slot -> Ticks]
      /\ \A n \in Slot \ {m} : /\ member_te'[n] = member_te[n]
                               /\ sender_te'[n] = sender_te[n]
                               /\ leave_te'[n] = leave_te[n]
      /\ used' \in SUBSET Slot /\ UniqueSsrc' /\ NoStrayTimer' /\ SelfTimerCounted'
    BY <1>2, Dealloc DEF member_timedout
<1>5. TypeOK'
  <2>1. open' \in BOOLEAN /\ we_sent' \in BOOLEAN
    BY DEF member_timedout, TypeOK
  <2> QED
    BY <1>3, <1>4, <2>1 DEF member_timedout, TypeOK
<1>6. SelfEntry'
    BY DEF member_timedout, dealloc_member, SelfEntry, OwnEntry
<1>7. TimersMatchState'
    BY <1>1, <1>2, <1>4 DEF member_timedout, dealloc_member, TimersMatchState, OwnEntry, TypeOK
<1> QED
    BY <1>1, <1>3, <1>4, <1>5, <1>6, <1>7

LEMMA LeaveTimedoutInv ==
    ASSUME IInv, open, NEW m \in Slot, leave_timedout(m), UNCHANGED <<open, rx>>
    PROVE  IInv'
<1> USE DEF IInv
<1>1. open /\ m \in used /\ m \notin Present
    BY RunningIsUsed DEF leave_timedout, NoStrayTimer, TimersMatchState, Present, Off
<1>2. Present' = Present /\ Sending' = Sending /\ Sending' = Sending \ {m}
    BY <1>1 DEF leave_timedout, dealloc_member, Present, Sending
<1>3. MemberCount' /\ SenderCount' /\ SendersCovered'
    BY <1>2 DEF leave_timedout, MemberCount, SenderCount, SendersCovered, WeSent, OwnEntry, cvar
<1>4. /\ member_te' \in [Slot -> Ticks] /\ sender_te' \in [Slot -> Ticks]
      /\ leave_te' \in [Slot -> Ticks]
      /\ \A n \in Slot \ {m} : /\ member_te'[n] = member_te[n]
                               /\ sender_te'[n] = sender_te[n]
                               /\ leave_te'[n] = leave_te[n]
      /\ used' \in SUBSET Slot /\ UniqueSsrc' /\ NoStrayTimer' /\ SelfTimerCounted'
    BY <1>2, Dealloc DEF leave_timedout, cvar
<1>5. TypeOK'
  <2>1. open' \in BOOLEAN /\ we_sent' \in BOOLEAN
    BY DEF leave_timedout, TypeOK, cvar
  <2> QED
    BY <1>4, <2>1 DEF leave_timedout, TypeOK, cvar
<1>6. SelfEntry'
    BY DEF leave_timedout, dealloc_member, SelfEntry, OwnEntry
<1>7. TimersMatchState'
    BY <1>1, <1>2, <1>4 DEF leave_timedout, dealloc_member, TimersMatchState, OwnEntry, TypeOK, cvar
<1> QED
    BY <1>1, <1>3, <1>4, <1>5, <1>6, <1>7

\* The sender timer of a peer, and the one of self, take a sender off the count.
LEMMA SenderTimedoutInv ==
    ASSUME IInv, open, NEW m \in Slot, sender_timedout(m), UNCHANGED <<open, rx>>
    PROVE  IInv'
<1> USE DEF IInv
<1>1. /\ m = Self => we_sent \/ Self \in Sending
      /\ m # Self => m \in used /\ m \in Sending
    BY RunningIsUsed DEF sender_timedout, SelfTimerCounted, TimersMatchState, Off
<1>2. /\ flags' \in [Slot -> SUBSET Flag]
      /\ \A n \in Slot \ {m} : flags'[n] = flags[n]
      /\ "rtp_heard" \notin flags'[m]
      /\ "bye" \in flags'[m] <=> "bye" \in flags[m]
      /\ "self" \in flags'[m] <=> "self" \in flags[m]
      /\ flags'[m] \subseteq flags[m]
    BY DEF sender_timedout, Cleared, TypeOK, Flag
<1>3. Present' = Present /\ Sending' = Sending \ {m}
    BY <1>2 DEF sender_timedout, Present, Sending, TypeOK
<1>4. members' = members /\ senders' = senders - 1
    BY DEF sender_timedout, Left, TypeOK
<1>5. SenderCount' /\ SendersCovered' /\ senders' \in Nat
  <2>1. /\ Cardinality(Sending') \in Nat
        /\ Cardinality(Sending') = IF m \in Sending THEN Cardinality(Sending) - 1
                                   ELSE Cardinality(Sending)
    BY <1>3, CountedSets, FS_RemoveElement, FS_CardinalityType
  <2>2. senders >= Cardinality(Sending) + WeSent
    BY DEF SendersCovered
  <2>3. OwnEntry' => OwnEntry
    BY <1>2, SlotAssumption DEF OwnEntry
  <2>4. OwnEntry => Self \notin Sending
    BY DEF Sending, Present, SelfEntry
  <2>5. CASE m = Self
    <3>1. WeSent' = 0 /\ (m \in Sending \/ WeSent = 1)
        BY <1>1, <2>5 DEF sender_timedout, WeSent
    <3>2. senders' >= Cardinality(Sending') + WeSent'
        BY <1>4, <2>1, <2>2, <3>1, CountedSets DEF TypeOK
    <3>3. OwnEntry' => senders' = Cardinality(Sending') + WeSent'
        BY <1>4, <2>1, <2>3, <2>4, <2>5, <3>1, CountedSets DEF SenderCount
    <3> QED
        BY <1>4, <2>1, <3>1, <3>2, <3>3 DEF SenderCount, SendersCovered, TypeOK
  <2>6. CASE m # Self
    <3>1. WeSent' = WeSent /\ m \in Sending
        BY <1>1, <2>6 DEF sender_timedout, WeSent, TypeOK
    <3>2. senders' >= Cardinality(Sending') + WeSent'
        BY <1>4, <2>1, <2>2, <3>1, CountedSets DEF TypeOK
    <3>3. OwnEntry' => senders' = Cardinality(Sending') + WeSent'
        BY <1>4, <2>1, <2>3, <3>1, CountedSets DEF SenderCount
    <3> QED
        BY <1>4, <2>1, <3>1, <3>2, <3>3, CountedSets DEF SenderCount, SendersCovered, TypeOK
  <2> QED
    BY <2>5, <2>6
<1>6. MemberCount' /\ pmembers' \in Nat /\ members' \in Nat
    BY <1>3, <1>4 DEF MemberCount, sender_timedout, Left, TypeOK
<1>7. /\ sender_te' \in [Slot -> Ticks]
      /\ \A n \in Slot \ {m} : sender_te'[n] = sender_te[n]
      /\ sender_te'[m] = Off
    BY DEF sender_timedout, soft_timer_del, TypeOK, Ticks
<1>8. TypeOK'
  <2>1. open' \in BOOLEAN /\ we_sent' \in BOOLEAN
    BY DEF sender_timedout, TypeOK
  <2> QED
    BY <1>2, <1>5, <1>6, <1>7, <2>1 DEF sender_timedout, TypeOK
<1>9. SelfEntry' /\ UniqueSsrc'
    BY <1>2, SlotAssumption DEF sender_timedout, SelfEntry, OwnEntry, UniqueSsrc, TypeOK
<1>10. TimersMatchState'
  <2>1. we_sent' <=> (we_sent /\ m # Self)
    BY DEF sender_timedout, TypeOK
  <2>2. OwnEntry' => OwnEntry
    BY <1>2, SlotAssumption DEF OwnEntry
  <2> QED
    BY <1>1, <1>2, <1>3, <1>7, <2>1, <2>2 DEF sender_timedout, TimersMatchState, TypeOK
<1>11. NoStrayTimer'
    BY <1>7 DEF sender_timedout, NoStrayTimer, TypeOK
<1>12. SelfTimerCounted'
    BY <1>3, <1>7, SlotAssumption DEF sender_timedout, SelfTimerCounted
<1> QED
    BY <1>5, <1>6, <1>8, <1>9, <1>10, <1>11, <1>12

LEMMA ConflictExpiredInv ==
    ASSUME IInv, open, NEW a \in Addr, conflict_timer_expired(a), UNCHANGED <<open, rx>>
    PROVE  IInv'
<1> USE DEF IInv
<1>1. conflict' \in [Addr -> Ticks]
    BY DEF conflict_timer_expired, soft_timer_del, TypeOK, Ticks
<1>2. Present' = Present /\ Sending' = Sending
    BY DEF conflict_timer_expired, table, Present, Sending
<1>3. TypeOK'
  <2>1. open' \in BOOLEAN /\ we_sent' \in BOOLEAN
    BY DEF conflict_timer_expired, TypeOK, cvar
  <2> QED
    BY <1>1, <2>1 DEF conflict_timer_expired, TypeOK, table, timers, cvar
<1> QED
    BY <1>2, <1>3 DEF conflict_timer_expired, MemberCount, SenderCount, SendersCovered, WeSent, OwnEntry,
                      SelfEntry, SelfTimerCounted, UniqueSsrc,
                      TimersMatchState, NoStrayTimer, table, timers, cvar

\* rtp_session_deinit leaves no timer running; rtp_session_init afterwards
\* finds none on the entries it does not initialise.
LEMMA CloseInv ==
    ASSUME IInv, Close
    PROVE  IInv'
<1> USE DEF IInv
<1>1. \A m \in Slot : member_te'[m] = Off /\ leave_te'[m] = Off
    BY DEF Close, Ready, Stop, NoStrayTimer
<1>2. \A m \in Slot : m # Self \/ Self \in used => sender_te'[m] = Off
    BY DEF Close, Ready, Stop, NoStrayTimer
<1>3. sender_te'[Self] = Off \/ sender_te'[Self] = sender_te[Self]
    BY SlotAssumption DEF Close, Stop
<1>4. Present' = Present /\ Sending' = Sending
    BY DEF Close, table, Present, Sending
<1>5. TypeOK'
  <2>1. open' \in BOOLEAN /\ we_sent' \in BOOLEAN
    BY DEF Close, TypeOK, cvar
  <2>2. conflict' \in [Addr -> Ticks]
    BY DEF Close, Ticks
  <2>3. /\ member_te' \in [Slot -> Ticks] /\ sender_te' \in [Slot -> Ticks]
        /\ leave_te' \in [Slot -> Ticks]
    BY DEF Close, Stop, TypeOK, Ticks
  <2> QED
    BY <2>1, <2>2, <2>3 DEF Close, TypeOK, table, cvar
<1>6. NoStrayTimer'
  <2>1. used' = used
    BY DEF Close, table
  <2> QED
    BY <1>1, <1>2, <2>1 DEF NoStrayTimer
<1>7. SelfTimerCounted'
  <2>1. we_sent' = we_sent
    BY DEF Close, cvar
  <2> QED
    BY <1>3, <1>4, <2>1 DEF SelfTimerCounted
<1> QED
    BY <1>4, <1>5, <1>6, <1>7
    DEF Close, Ready, MemberCount, SenderCount, SendersCovered, WeSent, OwnEntry,
        SelfEntry, UniqueSsrc, TimersMatchState, table, cvar

LEMMA ReopenInv ==
    ASSUME IInv, Reopen
    PROVE  IInv'
<1> USE DEF IInv
<1>1. \A m \in Slot : member_te'[m] = Off /\ sender_te'[m] = Off /\ leave_te'[m] = Off
    BY SlotAssumption DEF Reopen, soft_timer_del, NoStrayTimer, TypeOK, Ticks
<1>2. Present' = {Self} /\ Sending' = {}
    BY SlotAssumption DEF Reopen, Present, Sending, TypeOK
<1>3. TypeOK'
  <2>1. open' \in BOOLEAN /\ we_sent' \in BOOLEAN
    BY DEF Reopen
  <2>2. /\ member_te' \in [Slot -> Ticks] /\ sender_te' \in [Slot -> Ticks]
        /\ leave_te' \in [Slot -> Ticks] /\ conflict' \in [Addr -> Ticks]
    BY DEF Reopen, soft_timer_del, TypeOK, Ticks
  <2>3. /\ used' \in SUBSET Slot /\ ssrc' \in [Slot -> SSRC] /\ flags' \in [Slot -> SUBSET Flag]
        /\ rtp_addr' \in [Slot -> Addr] /\ rtcp_addr' \in [Slot -> Addr]
    BY SlotAssumption, AddrAssumption DEF Reopen, TypeOK, Flag
  <2>4. members' \in Nat /\ senders' \in Nat /\ pmembers' \in Nat /\ rx' \in {Idle} \cup InProgress
    BY DEF Reopen, TypeOK
  <2> QED
    BY <2>1, <2>2, <2>3, <2>4 DEF TypeOK
<1>4. MemberCount' /\ SenderCount' /\ SendersCovered'
  <2>1. Cardinality(Present') = 1 /\ Cardinality(Sending') = 0
    BY <1>2, FS_EmptySet, FS_Singleton, Zenon
  <2> QED
    BY <2>1 DEF Reopen, MemberCount, SenderCount, SendersCovered, WeSent
<1>5. SelfEntry' /\ SelfTimerCounted' /\ UniqueSsrc'
    BY <1>1, SlotAssumption DEF Reopen, SelfEntry, SelfTimerCounted, UniqueSsrc, TypeOK
<1>6. TimersMatchState' /\ NoStrayTimer'
    BY <1>1, <1>2, SlotAssumption DEF Reopen, TimersMatchState, NoStrayTimer, TypeOK
<1> QED
    BY <1>3, <1>4, <1>5, <1>6 DEF Reopen

\* Steps that change no variable of the invariant but rx.
LEMMA UnchangedInv ==
    ASSUME IInv, open' = open, rx' \in {Idle} \cup InProgress, rx' # Idle => open,
           UNCHANGED <<table, timers, conflict, cvar>>
    PROVE  IInv'
<1> USE DEF IInv
<1>1. Present' = Present /\ Sending' = Sending
    BY DEF table, Present, Sending
<1>2. TypeOK'
  <2>1. open' \in BOOLEAN /\ we_sent' \in BOOLEAN
    BY DEF TypeOK, cvar
  <2> QED
    BY <2>1 DEF TypeOK, table, timers, cvar
<1> QED
    BY <1>1, <1>2 DEF MemberCount, SenderCount, SendersCovered, WeSent, OwnEntry,
                      SelfEntry, SelfTimerCounted, UniqueSsrc,
                      TimersMatchState, NoStrayTimer, table, timers, cvar

\* One SSRC of an RTP packet: of the ways through rtp_handle_ssrc, only a packet
\* from self's own address could restart self's timers, and none arrives.
LEMMA RtpSsrcInv ==
    ASSUME IInv, ~OwnEcho, open, open' = open, rx' \in {Idle} \cup InProgress,
           NEW x \in SSRC, NEW from \in Addr, Arrives(x, from),
           rtp_handle_ssrc(x, from) \/ (\E m \in lookup(x) : RtpHeard(m, from))
    PROVE  IInv'
<1>1. CASE RtpNewMember(x, from)
    BY <1>1, RtpNewMemberInv
<1>2. ASSUME NEW m \in lookup(x), RtpFirstHeard(m, from) PROVE IInv'
    BY <1>2, RtpFirstHeardInv DEF lookup
<1>3. ASSUME NEW m \in lookup(x), RtpOwnSsrc(m, from) PROVE IInv'
    BY <1>3, OwnSsrcConflictInv DEF RtpOwnSsrc, lookup
<1>4. CASE RtpDropped(x, from)
    BY <1>4, UnchangedInv DEF RtpDropped
<1>5. ASSUME NEW m \in lookup(x), RtpHeard(m, from) PROVE IInv'
  <2>1. m \in used /\ "self" \notin flags[m]
    BY <1>5 DEF RtpHeard, lookup, Arrives, IInv, TypeOK, SelfEntry, OwnEntry
  <2> QED
    BY <1>5, <2>1, RtpHeardInv
<1> QED
    BY <1>1, <1>2, <1>3, <1>4, <1>5 DEF rtp_handle_ssrc

LEMMA RtcpSsrcInv ==
    ASSUME IInv, ~OwnEcho, open, open' = open, rx' \in {Idle} \cup InProgress,
           NEW x \in SSRC, NEW from \in Addr, Arrives(x, from),
           rtcp_handle_ssrc(x, from)
    PROVE  IInv'
<1>1. CASE RtcpNewMember(x, from)
    BY <1>1, RtcpNewMemberInv
<1>2. ASSUME NEW m \in lookup(x), RtcpHeard(m, from) PROVE IInv'
  <2>1. m \in used /\ "self" \notin flags[m]
    BY <1>2 DEF RtcpHeard, Unheard, lookup, Arrives, IInv, TypeOK, SelfEntry, OwnEntry
  <2> QED
    BY <1>2, <2>1, RtcpHeardInv
<1>3. ASSUME NEW m \in lookup(x), RtcpOwnSsrc(m, from) PROVE IInv'
    BY <1>3, OwnSsrcConflictInv DEF RtcpOwnSsrc, lookup
<1>4. CASE RtcpDropped(x, from)
    BY <1>4, UnchangedInv DEF RtcpDropped
<1> QED
    BY <1>1, <1>2, <1>3, <1>4 DEF rtcp_handle_ssrc

\* Every step of the session preserves the invariant.
LEMMA NextInv ==
    ASSUME IInv, ~OwnEcho, [Next]_vars
    PROVE  IInv'
<1>1. CASE Reopen
    BY <1>1, ReopenInv
<1>2. CASE Close
    BY <1>2, CloseInv
<1>3. CASE RxStep
  <2> PICK x \in SSRC :
        \/ \E from \in Addr : RtpRx(x, from) \/ RtcpRx(x, from)
        \/ RtpCsrc(x) \/ RtcpPart(x) \/ RtcpBye(x)
    BY <1>3 DEF RxStep
  <2>1. ASSUME NEW from \in Addr, RtpRx(x, from) PROVE IInv'
    <3>1. open /\ open' = open /\ Arrives(x, from) /\ rx' \in {Idle} \cup InProgress
        BY <2>1 DEF RtpRx, Ready, IInv, TypeOK, InProgress
    <3>2. rtp_handle_ssrc(x, from) \/ (\E m \in lookup(x) : RtpHeard(m, from))
        BY <2>1 DEF RtpRx
    <3> QED
        BY <3>1, <3>2, RtpSsrcInv
  <2>2. ASSUME NEW from \in Addr, RtcpRx(x, from) PROVE IInv'
    <3>1. open /\ open' = open /\ Arrives(x, from) /\ rx' \in {Idle} \cup InProgress
        BY <2>2 DEF RtcpRx, Ready, InProgress
    <3> QED
        BY <2>2, <3>1, RtcpSsrcInv DEF RtcpRx
  <2>3. CASE RtpCsrc(x)
    <3>1. /\ open /\ open' = open /\ Arrives(x, rx.from)
          /\ rx' \in {Idle} \cup InProgress /\ rx.from \in Addr
        BY <2>3 DEF RtpCsrc, IInv, TypeOK, InProgress
    <3>2. rtp_handle_ssrc(x, rx.from) \/ (\E m \in lookup(x) : RtpHeard(m, rx.from))
        BY <2>3 DEF RtpCsrc
    <3> QED
        BY <3>1, <3>2, RtpSsrcInv
  <2>4. CASE RtcpPart(x)
    <3>1. /\ open /\ open' = open /\ Arrives(x, rx.from)
          /\ rx' \in {Idle} \cup InProgress /\ rx.from \in Addr
        BY <2>4 DEF RtcpPart, IInv, TypeOK, InProgress
    <3> QED
        BY <2>4, <3>1, RtcpSsrcInv DEF RtcpPart
  <2>5. CASE RtcpBye(x)
    <3>1. open /\ open' = open /\ rx' \in {Idle} \cup InProgress
        BY <2>5 DEF RtcpBye, IInv, TypeOK
    <3>2. PICK m \in lookup(x) : rtcp_handle_bye(m)
        BY <2>5 DEF RtcpBye
    <3> QED
        BY <3>1, <3>2, ByeInv DEF lookup
  <2> QED
    BY <2>1, <2>2, <2>3, <2>4, <2>5
<1>4. CASE RxEnd
    BY <1>4, UnchangedInv DEF RxEnd
<1>5. CASE RtpTx
    BY <1>5, RtpTxInv
<1>6. CASE TimerTick
    BY <1>6, TimerTickInv
<1>7. CASE TimerCallback
    BY <1>7, MemberTimedoutInv, SenderTimedoutInv, LeaveTimedoutInv, ConflictExpiredInv
    DEF TimerCallback
<1>8. CASE UNCHANGED vars
  <2>1. open' = open /\ rx' = rx /\ UNCHANGED <<table, timers, conflict, cvar>>
    BY <1>8 DEF vars
  <2> QED
    BY <2>1, UnchangedInv DEF IInv, TypeOK
<1> QED
    BY <1>1, <1>2, <1>3, <1>4, <1>5, <1>6, <1>7, <1>8 DEF Next

\* The invariant holds in every reachable state.
LEMMA Invariance == ~OwnEcho => (Spec => []IInv)
<1> SUFFICES ASSUME ~OwnEcho PROVE Spec => []IInv
    OBVIOUS
<1>1. Init => IInv
    BY InitInv
<1>2. IInv /\ [Next]_vars => IInv'
    BY NextInv
<1> QED
    BY <1>1, <1>2, PTL DEF Spec

\* The session's variables keep their types: in particular the unsigned
\* counters members and senders never go below zero.
THEOREM TypeCorrect == ~OwnEcho => (Spec => []TypeOK)
<1>1. IInv => TypeOK
    BY DEF IInv
<1> QED
    BY <1>1, Invariance, PTL

\* rtcp_var.members, from which the RTCP interval is computed, is exact: whatever
\* order joins, BYEs, timeouts and collisions come in, it is the number of
\* members in the table.
THEOREM MembersExact == ~OwnEcho => (Spec => []MemberCount)
<1>1. IInv => MemberCount
    BY DEF IInv
<1> QED
    BY <1>1, Invariance, PTL

\* So is rtcp_var.senders, of which self is one while it sends, unless a BYE has
\* named the session and its entry went to a peer: the counters of
\* rtcp_interval_calc do not drift apart from the table.
THEOREM SendersExact == ~OwnEcho => (Spec => []SenderCount)
<1>1. IInv => SenderCount
    BY DEF IInv
<1> QED
    BY <1>1, Invariance, PTL

\* The timers that run are those the state of each member calls for: nobody is
\* kept for ever and nobody is timed out twice.
THEOREM TimersExact == ~OwnEcho => (Spec => []TimersMatchState)
<1>1. IInv => TimersMatchState
    BY DEF IInv
<1> QED
    BY <1>1, Invariance, PTL

\* An entry that can be handed out again has no timer that would fire for its
\* next owner, and a closed session has none that would fire at all.  Only the
\* sender timer of a session that a BYE has taken out of its own table may run.
THEOREM NoTimerLeft == ~OwnEcho => (Spec => []NoStrayTimer)
<1>1. IInv => NoStrayTimer
    BY DEF IInv
<1> QED
    BY <1>1, Invariance, PTL

\* No two entries of the member table ever share an identifier, so that
\* rtp_member_table_lookup finds the one that is meant.
THEOREM TableSound == ~OwnEcho => (Spec => []UniqueSsrc)
<1>1. IInv => UniqueSsrc
    BY DEF IInv
<1> QED
    BY <1>1, Invariance, PTL

-----------------------------------------------------------------------------
\* What the handler of one SSRC does to a member that said BYE: nothing.
LEMMA ByeUntouched ==
    ASSUME IInv, NEW n \in used, "bye" \in flags[n],
           NEW x \in SSRC, NEW from \in Addr,
           \/ rtp_handle_ssrc(x, from) \/ (\E m \in lookup(x) : RtpHeard(m, from))
           \/ rtcp_handle_ssrc(x, from)
    PROVE  flags'[n] = flags[n] /\ leave_te'[n] = leave_te[n]
<1> n \in Slot
    BY DEF IInv, TypeOK
<1> USE DEF IInv, TypeOK
<1>1. CASE RtpNewMember(x, from) \/ RtcpNewMember(x, from)
    BY <1>1 DEF RtpNewMember, RtcpNewMember, alloc_member, soft_timer_del
<1>2. ASSUME NEW m \in lookup(x),
             \/ RtpFirstHeard(m, from) \/ RtpHeard(m, from) \/ RtcpHeard(m, from)
      PROVE  flags'[n] = flags[n] /\ leave_te'[n] = leave_te[n]
  <2>1. m # n
    BY <1>2 DEF RtpFirstHeard, RtpHeard, RtcpHeard, Unheard
  <2> QED
    BY <1>2, <2>1 DEF RtpFirstHeard, RtpHeard, RtcpHeard, lookup
<1>3. ASSUME NEW m \in lookup(x), RtpOwnSsrc(m, from) \/ RtcpOwnSsrc(m, from)
      PROVE  flags'[n] = flags[n] /\ leave_te'[n] = leave_te[n]
    BY <1>3 DEF RtpOwnSsrc, RtcpOwnSsrc, OwnSsrcConflict, timers
<1>4. CASE RtpDropped(x, from) \/ RtcpDropped(x, from)
    BY <1>4 DEF RtpDropped, RtcpDropped, table, timers
<1> QED
    BY <1>1, <1>2, <1>3, <1>4 DEF rtp_handle_ssrc, rtcp_handle_ssrc

LEMMA ByeStep ==
    ASSUME IInv, [Next]_vars, open, open', NEW n \in used \cap used', "bye" \in flags[n]
    PROVE  "bye" \in flags'[n] /\ leave_te'[n] <= leave_te[n]
<1> n \in Slot /\ leave_te[n] \in Int
    BY DEF IInv, TypeOK, Ticks, Off
<1> USE DEF IInv, TypeOK
<1>1. CASE Reopen \/ Close
    BY <1>1 DEF Reopen, Close
<1>2. CASE RxStep
  <2>1. ASSUME NEW x \in SSRC, NEW from \in Addr, RtpRx(x, from) \/ RtcpRx(x, from)
        PROVE  flags'[n] = flags[n] /\ leave_te'[n] = leave_te[n]
    BY <2>1, ByeUntouched DEF RtpRx, RtcpRx
  <2>2. ASSUME NEW x \in SSRC, RtpCsrc(x) \/ RtcpPart(x)
        PROVE  flags'[n] = flags[n] /\ leave_te'[n] = leave_te[n]
    <3>1. rx.from \in Addr
        BY <2>2 DEF RtpCsrc, RtcpPart, InProgress
    <3> QED
        BY <2>2, <3>1, ByeUntouched DEF RtpCsrc, RtcpPart
  <2>3. ASSUME NEW x \in SSRC, RtcpBye(x)
        PROVE  flags'[n] = flags[n] /\ leave_te'[n] = leave_te[n]
    BY <2>3 DEF RtcpBye, rtcp_handle_bye, lookup, soft_timer_add
  <2> QED
    BY <1>2, <2>1, <2>2, <2>3 DEF RxStep
<1>3. CASE RxEnd
    BY <1>3 DEF RxEnd, table, timers
<1>4. CASE RtpTx
    BY <1>4 DEF RtpTx
<1>5. CASE TimerTick
    BY <1>5 DEF TimerTick, Tick, table
<1>6. CASE TimerCallback
  <2>1. ASSUME NEW m \in Slot, member_timedout(m) \/ leave_timedout(m)
        PROVE  "bye" \in flags'[n] /\ leave_te'[n] <= leave_te[n]
    BY <2>1 DEF member_timedout, leave_timedout, dealloc_member, soft_timer_del
  <2>2. ASSUME NEW m \in Slot, sender_timedout(m)
        PROVE  "bye" \in flags'[n] /\ leave_te'[n] <= leave_te[n]
    BY <2>2 DEF sender_timedout, Cleared
  <2>3. ASSUME NEW a \in Addr, conflict_timer_expired(a)
        PROVE  "bye" \in flags'[n] /\ leave_te'[n] <= leave_te[n]
    BY <2>3 DEF conflict_timer_expired, table, timers
  <2> QED
    BY <1>6, <2>1, <2>2, <2>3 DEF TimerCallback
<1>7. CASE UNCHANGED vars
    BY <1>7 DEF vars, table, timers
<1> QED
    BY <1>1, <1>2, <1>3, <1>4, <1>5, <1>6, <1>7 DEF Next

\* A member that said BYE stays on its way out: nothing that arrives afterwards,
\* a repeated BYE included, unmarks it or prolongs its stay in the table.
THEOREM ByeFinality == ~OwnEcho => (Spec => ByeIsFinal)
<1>1. IInv /\ [Next]_vars =>
        [open /\ open' => \A m \in used \cap used' : "bye" \in flags[m] =>
            /\ "bye" \in flags'[m]
            /\ leave_te'[m] <= leave_te[m]]_vars
    BY ByeStep
<1> QED
    BY <1>1, Invariance, PTL DEF Spec, ByeIsFinal

-----------------------------------------------------------------------------
\* What the handler of one SSRC does to the identity of a member that sends.
LEMMA SenderUntouched ==
    ASSUME IInv, Self \in used, OwnEntry,
           NEW n \in Sending, NEW x \in SSRC, NEW from \in Addr,
           \/ rtp_handle_ssrc(x, from) \/ (\E m \in lookup(x) : RtpHeard(m, from))
           \/ rtcp_handle_ssrc(x, from)
    PROVE  ssrc'[n] = ssrc[n] /\ rtp_addr'[n] = rtp_addr[n]
<1> n \in Slot /\ n \in used /\ n # Self /\ "rtp_heard" \in flags[n]
    BY DEF IInv, TypeOK, SelfEntry, Sending, Present
<1> USE DEF IInv, TypeOK
<1>1. CASE RtpNewMember(x, from) \/ RtcpNewMember(x, from)
    BY <1>1 DEF RtpNewMember, RtcpNewMember, alloc_member
<1>2. ASSUME NEW m \in lookup(x), RtpFirstHeard(m, from)
      PROVE  ssrc'[n] = ssrc[n] /\ rtp_addr'[n] = rtp_addr[n]
  <2>1. m # n
    BY <1>2 DEF RtpFirstHeard, Unheard
  <2> QED
    BY <1>2, <2>1 DEF RtpFirstHeard
<1>3. ASSUME NEW m \in lookup(x), RtpHeard(m, from) \/ RtcpHeard(m, from)
      PROVE  ssrc'[n] = ssrc[n] /\ rtp_addr'[n] = rtp_addr[n]
    BY <1>3 DEF RtpHeard, RtcpHeard
<1>4. ASSUME NEW m \in lookup(x), RtpOwnSsrc(m, from) \/ RtcpOwnSsrc(m, from)
      PROVE  ssrc'[n] = ssrc[n] /\ rtp_addr'[n] = rtp_addr[n]
  <2>1. m = Self
    BY <1>4 DEF RtpOwnSsrc, RtcpOwnSsrc, lookup, SelfEntry, UniqueSsrc
  <2> QED
    BY <1>4, <2>1 DEF RtpOwnSsrc, RtcpOwnSsrc, OwnSsrcConflict
<1>5. CASE RtpDropped(x, from) \/ RtcpDropped(x, from)
    BY <1>5 DEF RtpDropped, RtcpDropped, table
<1> QED
    BY <1>1, <1>2, <1>3, <1>4, <1>5 DEF rtp_handle_ssrc, rtcp_handle_ssrc

LEMMA SenderStep ==
    ASSUME IInv, [Next]_vars, open, open', Self \in used, OwnEntry,
           NEW n \in Sending \cap used'
    PROVE  ssrc'[n] = ssrc[n] /\ rtp_addr'[n] = rtp_addr[n]
<1>1. CASE Reopen \/ Close
    BY <1>1 DEF Reopen, Close
<1>2. CASE RxStep
  <2>1. ASSUME NEW x \in SSRC, NEW from \in Addr, RtpRx(x, from) \/ RtcpRx(x, from)
        PROVE  ssrc'[n] = ssrc[n] /\ rtp_addr'[n] = rtp_addr[n]
    BY <2>1, SenderUntouched DEF RtpRx, RtcpRx
  <2>2. ASSUME NEW x \in SSRC, RtpCsrc(x) \/ RtcpPart(x)
        PROVE  ssrc'[n] = ssrc[n] /\ rtp_addr'[n] = rtp_addr[n]
    <3>1. rx.from \in Addr
        BY <2>2 DEF RtpCsrc, RtcpPart, InProgress, IInv, TypeOK
    <3> QED
        BY <2>2, <3>1, SenderUntouched DEF RtpCsrc, RtcpPart
  <2>3. ASSUME NEW x \in SSRC, RtcpBye(x)
        PROVE  ssrc'[n] = ssrc[n] /\ rtp_addr'[n] = rtp_addr[n]
    BY <2>3 DEF RtcpBye, rtcp_handle_bye
  <2> QED
    BY <1>2, <2>1, <2>2, <2>3 DEF RxStep
<1>3. CASE RxEnd \/ RtpTx \/ TimerTick
    BY <1>3 DEF RxEnd, RtpTx, TimerTick, table
<1>4. CASE TimerCallback
    BY <1>4 DEF TimerCallback, member_timedout, sender_timedout, leave_timedout,
                conflict_timer_expired, table
<1>5. CASE UNCHANGED vars
    BY <1>5 DEF vars, table
<1> QED
    BY <1>1, <1>2, <1>3, <1>4, <1>5 DEF Next

\* The identifier and the address of a member that sends are its own: no packet,
\* from whatever address and with whatever identifiers, gives them to another,
\* as long as the session has its entry in the table.
THEOREM SendersSafe == ~OwnEcho => (Spec => NoTakeover)
<1>1. IInv /\ [Next]_vars =>
        [open /\ open' /\ Self \in used /\ OwnEntry => \A m \in Sending \cap used' :
            ssrc'[m] = ssrc[m] /\ rtp_addr'[m] = rtp_addr[m]]_vars
    BY SenderStep
<1> QED
    BY <1>1, Invariance, PTL DEF Spec, NoTakeover

-----------------------------------------------------------------------------
\* What the handler of one SSRC does to self: it may get a new identifier.
LEMMA SelfUntouched ==
    ASSUME IInv, ~OwnEcho, SelfIntact, NEW x \in SSRC, NEW from \in Addr, Arrives(x, from),
           \/ rtp_handle_ssrc(x, from) \/ (\E m \in lookup(x) : RtpHeard(m, from))
           \/ rtcp_handle_ssrc(x, from)
    PROVE  SelfIntact'
<1> Self \in used /\ Self \in Slot /\ flags \in [Slot -> SUBSET Flag] /\ used \in SUBSET Slot
    BY SlotAssumption DEF SelfIntact, IInv, TypeOK
<1> rtp_addr \in [Slot -> Addr] /\ rtcp_addr \in [Slot -> Addr]
    BY DEF IInv, TypeOK
<1>1. ASSUME NEW m \in Slot, \/ alloc_member(m, x, {"rtp_heard"})
                             \/ alloc_member(m, x, {"rtcp_heard"}),
             \/ rtp_addr' = rtp_addr \/ rtp_addr' = [rtp_addr EXCEPT ![m] = from],
             \/ rtcp_addr' = rtcp_addr \/ rtcp_addr' = [rtcp_addr EXCEPT ![m] = from]
      PROVE  SelfIntact'
  <2>1. m # Self /\ Self \in used'
    BY <1>1 DEF alloc_member
  <2>2. "self" \notin flags'[m] /\ \A n \in Slot \ {m} : flags'[n] = flags[n]
    BY <1>1 DEF alloc_member
  <2>3. rtp_addr'[Self] = rtp_addr[Self] /\ rtcp_addr'[Self] = rtcp_addr[Self]
    BY <1>1, <2>1
  <2>4. \A n \in used' : n = m \/ n \in used
    BY <1>1 DEF alloc_member
  <2> QED
    BY <2>1, <2>2, <2>3, <2>4 DEF SelfIntact
<1>2. CASE RtpNewMember(x, from)
    BY <1>1, <1>2 DEF RtpNewMember
<1>3. CASE RtcpNewMember(x, from)
    BY <1>1, <1>3 DEF RtcpNewMember
<1>4. ASSUME NEW m \in lookup(x),
             \/ RtpFirstHeard(m, from) \/ RtpHeard(m, from) \/ RtcpHeard(m, from)
      PROVE  SelfIntact'
  <2>1. m # Self /\ m \in used
    BY <1>4 DEF RtpFirstHeard, RtpHeard, RtcpHeard, Unheard, lookup, Arrives, SelfIntact
  <2>2. /\ used' = used /\ \A n \in Slot \ {m} : flags'[n] = flags[n]
        /\ "self" \in flags'[m] <=> "self" \in flags[m]
    BY <1>4, <2>1 DEF RtpFirstHeard, RtpHeard, RtcpHeard
  <2>3. rtp_addr'[Self] = rtp_addr[Self] /\ rtcp_addr'[Self] = rtcp_addr[Self]
    BY <1>4, <2>1 DEF RtpFirstHeard, RtpHeard, RtcpHeard
  <2> QED
    BY <2>1, <2>2, <2>3 DEF SelfIntact
<1>5. ASSUME NEW m \in lookup(x), RtpOwnSsrc(m, from) \/ RtcpOwnSsrc(m, from)
      PROVE  SelfIntact'
    BY <1>5 DEF RtpOwnSsrc, RtcpOwnSsrc, OwnSsrcConflict, SelfIntact
<1>6. CASE RtpDropped(x, from) \/ RtcpDropped(x, from)
    BY <1>6 DEF RtpDropped, RtcpDropped, SelfIntact, table
<1> QED
    BY <1>2, <1>3, <1>4, <1>5, <1>6 DEF rtp_handle_ssrc, rtcp_handle_ssrc

LEMMA SelfStep ==
    ASSUME IInv, ~OwnEcho, [Next]_vars, open, open', SelfIntact
    PROVE  SelfIntact' \/ RtcpBye(ssrc[Self])
<1> Self \in used /\ Self \in Slot /\ flags \in [Slot -> SUBSET Flag] /\ used \in SUBSET Slot
    BY SlotAssumption DEF SelfIntact, IInv, TypeOK
<1>1. CASE Reopen \/ Close
    BY <1>1 DEF Reopen, Close
<1>2. CASE RxStep
  <2>1. ASSUME NEW x \in SSRC, NEW from \in Addr, RtpRx(x, from) \/ RtcpRx(x, from)
        PROVE  SelfIntact'
    BY <2>1, SelfUntouched DEF RtpRx, RtcpRx
  <2>2. ASSUME NEW x \in SSRC, RtpCsrc(x) \/ RtcpPart(x)
        PROVE  SelfIntact'
    <3>1. rx.from \in Addr
        BY <2>2 DEF RtpCsrc, RtcpPart, InProgress, IInv, TypeOK
    <3> QED
        BY <2>2, <3>1, SelfUntouched DEF RtpCsrc, RtcpPart
  <2>3. ASSUME NEW x \in SSRC, RtcpBye(x), x # ssrc[Self]
        PROVE  SelfIntact'
    <3>1. PICK m \in lookup(x) : rtcp_handle_bye(m)
        BY <2>3 DEF RtcpBye
    <3>2. m # Self /\ m \in used
        BY <2>3 DEF lookup
    <3>3. /\ \A n \in Slot \ {m} : flags'[n] = flags[n]
          /\ "self" \in flags'[m] <=> "self" \in flags[m]
        BY <3>1, <3>2 DEF rtcp_handle_bye
    <3> QED
        BY <3>1, <3>2, <3>3 DEF rtcp_handle_bye, SelfIntact
  <2> QED
    BY <1>2, <2>1, <2>2, <2>3 DEF RxStep
<1>3. CASE RxEnd \/ TimerTick
    BY <1>3 DEF RxEnd, TimerTick, SelfIntact, table
<1>4. CASE RtpTx
    BY <1>4 DEF RtpTx, SelfIntact
<1>5. CASE TimerCallback
  <2>1. ASSUME NEW m \in Slot, member_timedout(m) \/ leave_timedout(m)
        PROVE  SelfIntact'
    <3>1. m # Self
        BY <2>1 DEF member_timedout, leave_timedout, IInv, TimersMatchState, Present,
                    SelfIntact, Off
    <3> QED
        BY <2>1, <3>1 DEF member_timedout, leave_timedout, dealloc_member, SelfIntact
  <2>2. ASSUME NEW m \in Slot, sender_timedout(m)
        PROVE  SelfIntact'
    <3>1. /\ \A n \in Slot \ {m} : flags'[n] = flags[n]
          /\ "self" \in flags'[m] <=> "self" \in flags[m]
          /\ flags'[m] \subseteq flags[m]
        BY <2>2 DEF sender_timedout, Cleared
    <3> QED
        BY <2>2, <3>1 DEF sender_timedout, SelfIntact
  <2>3. ASSUME NEW a \in Addr, conflict_timer_expired(a)
        PROVE  SelfIntact'
    BY <2>3 DEF conflict_timer_expired, SelfIntact, table
  <2> QED
    BY <1>5, <2>1, <2>2, <2>3 DEF TimerCallback
<1>6. CASE UNCHANGED vars
    BY <1>6 DEF vars, SelfIntact, table
<1> QED
    BY <1>1, <1>2, <1>3, <1>4, <1>5, <1>6 DEF Next

\* Nothing takes self out of the table, gives it another address or marks it as
\* heard or gone, through collisions and timeouts, but a BYE that names the
\* identifier it has at that moment.
THEOREM SelfKept == ~OwnEcho => (Spec => SelfStays)
<1> SUFFICES ASSUME ~OwnEcho PROVE Spec => SelfStays
    OBVIOUS
<1>1. IInv /\ [Next]_vars =>
        [open /\ open' /\ SelfIntact => SelfIntact' \/ RtcpBye(ssrc[Self])]_vars
    BY SelfStep
<1> QED
    BY <1>1, Invariance, PTL DEF Spec, SelfStays

=============================================================================
