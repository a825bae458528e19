---------------------------- MODULE TimerService ----------------------------
(***************************************************************************)
(* What the soft timers promise to the code that uses them.  A timer is    *)
(* off, or it has a number of ticks left; the tick that brings it to zero  *)
(* runs its callback.  A callback may start and stop any timer, its own    *)
(* and those due in the same tick included.                                *)
(***************************************************************************)
EXTENDS Integers

CONSTANTS Elem,        \* the timers
          Delay,       \* the delays callers ask for, in milliseconds
          TICK_RATE    \* milliseconds per tick

VARIABLES left,        \* ticks left, or Off
          wanted,      \* the timers that were started and since then neither
                       \* stopped nor called
          active       \* who runs: the host, the loop over the timers due, or
                       \* the callback of a timer

Off == -1

Running == {e \in Elem : left[e] # Off}

Due == {e \in Elem : left[e] = 0}

Init == left = [e \in Elem |-> Off] /\ wanted = {} /\ active = "host"

\* The least number of ticks that lasts ms milliseconds.
Lasts(n, ms) == n * TICK_RATE >= ms /\ (n - 1) * TICK_RATE < ms

\* Adding a timer that runs has no effect.
Add(e, ms) ==
    /\ active # "loop"
    /\ IF e \in Running THEN UNCHANGED left
       ELSE \E n \in 1..ms : Lasts(n, ms) /\ left' = [left EXCEPT ![e] = n]
    /\ wanted' = wanted \cup {e}
    /\ UNCHANGED active

Del(e) ==
    /\ active # "loop"
    /\ left' = [left EXCEPT ![e] = Off]
    /\ wanted' = wanted \ {e}
    /\ UNCHANGED active

Tick ==
    /\ active = "host"
    /\ left' = [e \in Elem |-> IF e \in Running THEN left[e] - 1 ELSE Off]
    /\ active' = "loop"
    /\ UNCHANGED wanted

Fire(e) ==
    /\ active = "loop"
    /\ e \in Due
    /\ left' = [left EXCEPT ![e] = Off]
    /\ wanted' = wanted \ {e}
    /\ active' = e

Return == active \in Elem /\ active' = "loop" /\ UNCHANGED <<left, wanted>>

Done == active = "loop" /\ Due = {} /\ active' = "host" /\ UNCHANGED <<left, wanted>>

Next ==
    \/ \E e \in Elem : (\E ms \in Delay : Add(e, ms)) \/ Del(e) \/ Fire(e)
    \/ Tick \/ Return \/ Done

Spec == Init /\ [][Next]_<<left, wanted, active>>
=============================================================================
