------------------------------ MODULE SoftTimer ------------------------------
(***************************************************************************)
(* soft_timer.c: a timer wheel.  A timer hangs in the bucket of the tick   *)
(* it expires at, modulo the number of buckets; a tick looks through one   *)
(* bucket and moves what expires now to a list of its own, whose callbacks *)
(* it then runs one by one.                                                *)
(*                                                                         *)
(* The module is shown to implement TimerService, which is how RtpSession  *)
(* sees its timers.                                                        *)
(***************************************************************************)
EXTENDS Integers, Sequences, SequencesExt, Lists

CONSTANTS Elem, Delay, TICK_RATE,
          NUM_BUCKETS,    \* SOFT_TIMER_NUM_BUCKETS
          TICK_MOD        \* the ticks are counted in an unsigned int

ASSUME WheelAssumption ==
    /\ Delay \subseteq Nat \ {0} /\ TICK_RATE \in Nat \ {0}
    /\ NUM_BUCKETS \in Nat \ {0} /\ TICK_MOD \in Nat \ {0}
    /\ \A ms \in Delay : ms <= TICK_RATE * TICK_MOD    \* both are as wide as an int
    /\ Elem \cap {"host", "loop"} = {}

VARIABLES
    tick,          \* SoftTimer.tick
    buckets,       \* SoftTimer.buckets
    expires,       \* SoftTimerElem.tick
    timeout_list,  \* the local list of timer_tick
    active,        \* who runs: "host", "loop" (timer_tick), or a callback
    wanted         \* the timers that were started and since then neither
                   \* stopped nor called (not in the code)

vars == <<tick, buckets, expires, timeout_list, active, wanted>>

Bucket == 0 .. NUM_BUCKETS - 1

TickCount == 0 .. TICK_MOD - 1

Init ==
    /\ tick = 0
    /\ buckets = [b \in Bucket |-> <<>>]
    /\ expires = [e \in Elem |-> 0]
    /\ timeout_list = <<>>
    /\ active = "host"
    /\ wanted = {}

-----------------------------------------------------------------------------
\* An element is running iff its list node is linked into some list.
is_soft_timer_running(e) ==
    e \in ToSet(timeout_list) \/ \E b \in Bucket : e \in ToSet(buckets[b])

get_soft_tick_from_milsec(ms) ==
    ms \div TICK_RATE + (IF ms % TICK_RATE # 0 THEN 1 ELSE 0)

\* Mutant: a running timer is linked again.
AddAgain(e, ms) ==
    /\ active # "loop"
    /\ LET at == (tick + get_soft_tick_from_milsec(ms)) % TICK_MOD IN
        /\ expires' = [expires EXCEPT ![e] = at]
        /\ buckets' = [buckets EXCEPT ![at % NUM_BUCKETS] = Append(@, e)]
    /\ wanted' = wanted \cup {e}
    /\ UNCHANGED <<tick, timeout_list, active>>

soft_timer_add(e, ms) ==
    /\ active # "loop"
    /\ IF is_soft_timer_running(e) THEN UNCHANGED <<expires, buckets>>
       ELSE LET at == (tick + get_soft_tick_from_milsec(ms)) % TICK_MOD IN
            /\ expires' = [expires EXCEPT ![e] = at]
            /\ buckets' = [buckets EXCEPT ![at % NUM_BUCKETS] = Append(@, e)]
    /\ wanted' = wanted \cup {e}
    /\ UNCHANGED <<tick, timeout_list, active>>

\* Mutant: a timer on the list of those that expired is not taken off it.
DelFromWheelOnly(e) ==
    /\ active # "loop"
    /\ buckets' = [b \in Bucket |-> Kept(buckets[b], Elem \ {e})]
    /\ wanted' = wanted \ {e}
    /\ UNCHANGED <<tick, expires, timeout_list, active>>

soft_timer_del(e) ==
    /\ active # "loop"
    /\ buckets' = [b \in Bucket |-> Kept(buckets[b], Elem \ {e})]
    /\ timeout_list' = Kept(timeout_list, Elem \ {e})
    /\ wanted' = wanted \ {e}
    /\ UNCHANGED <<tick, expires, active>>

\* Mutant: the current tick has more bits than the tick a timer expires at.
TickWider ==
    /\ active = "host"
    /\ LET now == tick + 1
           b   == now % NUM_BUCKETS
       IN  /\ tick' = now
           /\ timeout_list' = Kept(buckets[b], {e \in Elem : expires[e] = now})
           /\ buckets' = [buckets EXCEPT ![b] = Kept(@, {e \in Elem : expires[e] # now})]
    /\ active' = "loop"
    /\ UNCHANGED <<expires, wanted>>

\* The part of timer_tick before the loop over the callbacks.
timer_tick ==
    /\ active = "host"
    /\ LET now == (tick + 1) % TICK_MOD
           b   == now % NUM_BUCKETS
       IN  /\ tick' = now
           /\ timeout_list' = Kept(buckets[b], {e \in Elem : expires[e] = now})
           /\ buckets' = [buckets EXCEPT ![b] = Kept(@, {e \in Elem : expires[e] # now})]
    /\ active' = "loop"
    /\ UNCHANGED <<expires, wanted>>

\* Mutant: the timer is called but stays on the list.
RunStillLinked ==
    /\ active = "loop" /\ timeout_list # <<>>
    /\ active' = Head(timeout_list)
    /\ wanted' = wanted \ {active'}
    /\ UNCHANGED <<tick, buckets, expires, timeout_list>>

\* The loop takes the first timer off the list and calls it.
RunCallback ==
    /\ active = "loop" /\ timeout_list # <<>>
    /\ active' = Head(timeout_list)
    /\ timeout_list' = Tail(timeout_list)
    /\ wanted' = wanted \ {active'}
    /\ UNCHANGED <<tick, buckets, expires>>

CallbackReturns ==
    /\ active \in Elem
    /\ active' = "loop"
    /\ UNCHANGED <<tick, buckets, expires, timeout_list, wanted>>

TickReturns ==
    /\ active = "loop" /\ timeout_list = <<>>
    /\ active' = "host"
    /\ UNCHANGED <<tick, buckets, expires, timeout_list, wanted>>

Next ==
    \/ \E e \in Elem : (\E ms \in Delay : soft_timer_add(e, ms)) \/ soft_timer_del(e)
    \/ timer_tick \/ RunCallback \/ CallbackReturns \/ TickReturns

Spec == Init /\ [][Next]_vars

\* Callbacks return, and the loop goes on.
FairSpec == Spec /\ WF_vars(RunCallback) /\ WF_vars(CallbackReturns) /\ WF_vars(TickReturns)

-----------------------------------------------------------------------------
TypeOK ==
    /\ tick \in TickCount
    /\ buckets \in [Bucket -> Seq(Elem)]
    /\ expires \in [Elem -> TickCount]
    /\ timeout_list \in Seq(Elem)
    /\ active \in {"host", "loop"} \cup Elem
    /\ wanted \subseteq Elem

\* Every timer has one list node, so it may be linked only once: no mix of adds,
\* deletes and expirations, from the host or from callbacks, links it twice,
\* and it hangs where the tick it expires at will look for it.
LinkedOnce ==
    /\ IsInjective(timeout_list)
    /\ \A b \in Bucket :
        /\ IsInjective(buckets[b])
        /\ \A e \in ToSet(buckets[b]) :
            /\ e \notin ToSet(timeout_list)
            /\ expires[e] % NUM_BUCKETS = b

\* The ticks until a timer expires, as TimerService counts them.
Left(e) ==
    IF e \in ToSet(timeout_list) THEN 0
    ELSE IF is_soft_timer_running(e) THEN 1 + ((expires[e] - tick - 1) % TICK_MOD)
    ELSE -1

Service == INSTANCE TimerService WITH left <- [e \in Elem |-> Left(e)]

\* The wheel is a timer service: every timer expires at the tick it was asked
\* for, not a turn of the wheel early or late and not once more, across the
\* wrap of the tick counter; a timer that was stopped does not expire, also
\* when it was already due (soft_timer.c:107-113).
ImplementsTimerService == Service!Spec

\* A tick ends: callbacks that start timers again, their own included, cannot
\* keep the loop of timer_tick going.
TickEnds == active # "host" ~> active = "host"
=============================================================================
