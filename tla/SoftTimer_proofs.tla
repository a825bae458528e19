-------------------------- MODULE SoftTimer_proofs --------------------------
(***************************************************************************)
(* Proofs about SoftTimer for every number of buckets, width of the tick   *)
(* counter, set of timers and of delays.                                   *)
(***************************************************************************)
EXTENDS SoftTimer, Basics

LEMMA Constants ==
    /\ Delay \subseteq Nat \ {0} /\ TICK_RATE \in Nat \ {0}
    /\ NUM_BUCKETS \in Nat \ {0} /\ TICK_MOD \in Nat \ {0}
    /\ \A ms \in Delay : ms <= TICK_RATE * TICK_MOD
    /\ "host" \notin Elem /\ "loop" \notin Elem
BY WheelAssumption

\* A delay is rounded up to whole ticks, and they fit the counter.
LEMMA Ticks ==
    ASSUME NEW ms \in Delay
    PROVE  LET n == get_soft_tick_from_milsec(ms) IN
           n \in 1 .. ms /\ n <= TICK_MOD /\ Service!Lasts(n, ms)
<1> DEFINE R == TICK_RATE  q == ms \div R  r == ms % R  n == get_soft_tick_from_milsec(ms)
<1>1. R \in Nat \ {0} /\ ms \in Nat \ {0} /\ ms <= R * TICK_MOD /\ TICK_MOD \in Nat \ {0}
    BY Constants
<1> HIDE DEF R
<1>2. q \in Int /\ r \in 0 .. R - 1 /\ ms = R * q + r
    BY <1>1, DivMod
<1>3. n = q + (IF r # 0 THEN 1 ELSE 0)
    BY DEF get_soft_tick_from_milsec, R
<1> HIDE DEF q, r, n
<1>4. q >= 0
    <2> SUFFICES ASSUME q <= -1 PROVE FALSE
        BY <1>2
    <2>1. R * q <= R * (-1)
        BY <1>1, <1>2
    <2> QED BY <1>1, <1>2, <2>1
<1>5. CASE r = 0
    <2>1. n = q /\ n * R = ms /\ (n - 1) * R = ms - R
        BY <1>1, <1>2, <1>3, <1>5
    <2>2. q >= 1 /\ q <= ms
        BY <1>1, <1>2, <1>4, <1>5
    <2>3. q <= TICK_MOD
        <3> SUFFICES ASSUME q >= TICK_MOD + 1 PROVE FALSE
            BY <1>1, <1>2
        <3>1. R * q >= R * (TICK_MOD + 1)
            BY <1>1, <1>2
        <3>2. R * (TICK_MOD + 1) = R * TICK_MOD + R
            BY <1>1
        <3> QED BY <1>1, <1>2, <1>5, <3>1, <3>2
    <2> QED BY <1>1, <1>2, <2>1, <2>2, <2>3 DEF n, Service!Lasts, R
<1>6. CASE r # 0
    <2>1. n = q + 1 /\ n * R = ms - r + R /\ (n - 1) * R = ms - r
        BY <1>1, <1>2, <1>3, <1>6
    <2>2. n <= ms
        <3>1. q <= R * q
            BY <1>1, <1>2, <1>4
        <3> QED BY <1>1, <1>2, <1>6, <2>1, <3>1
    <2>3. q < TICK_MOD
        <3> SUFFICES ASSUME q >= TICK_MOD PROVE FALSE
            BY <1>1, <1>2
        <3>1. R * q >= R * TICK_MOD
            BY <1>1, <1>2
        <3> QED BY <1>1, <1>2, <1>6, <3>1
    <2>4. n \in 1 .. ms /\ n <= TICK_MOD /\ n * R >= ms /\ (n - 1) * R < ms
        BY <1>1, <1>2, <1>4, <1>6, <2>1, <2>2, <2>3
    <2> QED BY <2>4 DEF n, Service!Lasts, R
<1> QED
    BY <1>5, <1>6

\* The distance from the current tick, across the wrap of the counter.
LEMMA Ahead ==
    ASSUME NEW t \in TickCount, NEW n \in Int, n \in 1 .. TICK_MOD
    PROVE  1 + ((((t + n) % TICK_MOD) - t - 1) % TICK_MOD) = n /\ (t + n) % TICK_MOD \in TickCount
<1> DEFINE a == t + n  b == t + 1  d == n - 1  at == a % TICK_MOD
<1>1. a \in Int /\ b \in Int /\ a - b = d /\ d \in 0 .. TICK_MOD - 1 /\ TICK_MOD \in Nat \ {0}
    BY Constants DEF TickCount
<1> HIDE DEF a, d
<1>2. at \in 0 .. TICK_MOD - 1
    BY <1>1, DivMod
<1> HIDE DEF b
<1>3. ((a % TICK_MOD) - b) % TICK_MOD = (a - b) % TICK_MOD
    BY <1>1, ModAdd
<1>4. d % TICK_MOD = d
    BY <1>1, ModSmall
<1>5. (at - b) % TICK_MOD = d
    BY <1>1, <1>3, <1>4
<1> HIDE DEF at
<1>6. at - t - 1 = at - b
    BY <1>2, Constants DEF b, TickCount
<1>7. (at - t - 1) % TICK_MOD = d
    BY <1>5, <1>6
<1> QED
    BY <1>2, <1>7 DEF a, d, at, TickCount

\* A tick brings every timer one tick nearer, and those due now to zero.
LEMMA Nearer ==
    ASSUME NEW t \in TickCount, NEW x \in TickCount
    PROVE  LET now == (t + 1) % TICK_MOD  d == (x - t - 1) % TICK_MOD IN
           /\ now \in TickCount /\ d \in TickCount
           /\ x = now <=> d = 0
           /\ x # now => (x - now - 1) % TICK_MOD = d - 1
<1> DEFINE b == t + 1  now == b % TICK_MOD  e == x - b  d == e % TICK_MOD  z == x - 1  o == 1
<1>1. /\ TICK_MOD \in Nat \ {0} /\ b \in Int /\ e \in Int /\ x \in Int /\ z \in Int /\ o \in Int
      /\ x - t - 1 = e /\ e - o = z - b /\ x \in 0 .. TICK_MOD - 1 /\ e = x - b
    BY Constants DEF TickCount
<1> HIDE DEF b, e, z, o
<1>2. now \in 0 .. TICK_MOD - 1 /\ d \in 0 .. TICK_MOD - 1
    BY <1>1, DivMod
<1>3. x % TICK_MOD = x
    BY <1>1, ModSmall
<1>4. x = now <=> d = 0
    <2>1. (x - (b % TICK_MOD)) % TICK_MOD = (x - b) % TICK_MOD
        BY <1>1, ModAdd
    <2>2. d = (x - now) % TICK_MOD
        BY <1>1, <2>1
    <2> HIDE DEF now, d
    <2>3. (x - now) % TICK_MOD = IF x >= now THEN x - now ELSE x - now + TICK_MOD
        BY <1>1, <1>2, ModAround
    <2> QED BY <1>1, <1>2, <2>2, <2>3
<1>5. ASSUME d # 0 PROVE (x - now - 1) % TICK_MOD = d - 1
    <2>1. (z - (b % TICK_MOD)) % TICK_MOD = (z - b) % TICK_MOD
        BY <1>1, ModAdd
    <2>2. ((e % TICK_MOD) - o) % TICK_MOD = (e - o) % TICK_MOD
        BY <1>1, ModAdd
    <2> HIDE DEF now, d
    <2>3. x - now - 1 = z - now /\ d - o = d - 1 /\ d - 1 \in 0 .. TICK_MOD - 1
        BY <1>1, <1>2, <1>5 DEF z, o
    <2> DEFINE c == d - 1
    <2>4. c \in 0 .. TICK_MOD - 1
        BY <2>3
    <2> HIDE DEF c
    <2>5. c % TICK_MOD = c
        BY <1>1, <2>4, ModSmall
    <2> QED BY <1>1, <2>1, <2>2, <2>3, <2>5 DEF now, d, c
<1> QED
    BY <1>1, <1>2, <1>4, <1>5 DEF b, TickCount

-----------------------------------------------------------------------------
\* Nothing is left over of a tick once it has returned to the host.
NothingDue == active = "host" => timeout_list = <<>>

IInv == TypeOK /\ LinkedOnce /\ NothingDue

\* The timers on the wheel, and the mapping to TimerService.
OnWheel == {e \in Elem : \E b \in Bucket : e \in ToSet(buckets[b])}

Bar == [e \in Elem |-> Left(e)]

\* What the mapping says of a timer, before and after a step.
LEMMA LeftIs ==
    ASSUME NEW e \in Elem
    PROVE  /\ Bar[e] = IF e \in ToSet(timeout_list) THEN 0
                       ELSE IF e \in OnWheel THEN 1 + ((expires[e] - tick - 1) % TICK_MOD) ELSE -1
           /\ Bar'[e] = IF e \in ToSet(timeout_list)' THEN 0
                        ELSE IF e \in OnWheel' THEN 1 + ((expires'[e] - tick' - 1) % TICK_MOD) ELSE -1
           /\ is_soft_timer_running(e) <=> e \in ToSet(timeout_list) \/ e \in OnWheel
BY DEF Bar, Left, is_soft_timer_running, OnWheel

\* The same mapping, as a set of cases about numbers.
LEMMA LeftRange ==
    ASSUME IInv, NEW e \in Elem
    PROVE  /\ Bar[e] = 0 <=> e \in ToSet(timeout_list)
           /\ Bar[e] # -1 <=> is_soft_timer_running(e)
           /\ Bar[e] \in Int /\ Bar[e] >= -1
<1> DEFINE d == (expires[e] - tick - 1) % TICK_MOD
<1>1. expires[e] \in TickCount /\ tick \in TickCount
    BY DEF IInv, TypeOK
<1>2. d \in Int /\ d >= 0
    BY <1>1, Nearer, Constants DEF TickCount
<1>3. Bar[e] = IF e \in ToSet(timeout_list) THEN 0 ELSE IF e \in OnWheel THEN 1 + d ELSE -1
    BY LeftIs
<1>4. is_soft_timer_running(e) <=> e \in ToSet(timeout_list) \/ e \in OnWheel
    BY LeftIs
<1> HIDE DEF d
<1> QED
    BY <1>2, <1>3, <1>4

LEMMA InitOK == Init => IInv /\ Service!Init
<1> SUFFICES ASSUME Init PROVE IInv /\ Service!Init
    OBVIOUS
<1>1. /\ tick = 0 /\ buckets = [b \in Bucket |-> <<>>] /\ expires = [e \in Elem |-> 0]
      /\ timeout_list = <<>> /\ active = "host" /\ wanted = {} /\ 0 \in TickCount
    BY Constants DEF Init, TickCount
<1>2. TypeOK
    BY <1>1 DEF TypeOK
<1>3. ToSet(<<>>) = {} /\ IsInjective(<<>>)
    BY DEF ToSet, IsInjective
<1>4. LinkedOnce /\ NothingDue
    BY <1>1, <1>3 DEF LinkedOnce, NothingDue
<1>5. OnWheel = {}
    BY <1>1, <1>3 DEF OnWheel
<1>6. Bar = [e \in Elem |-> -1]
    BY <1>1, <1>3, <1>5, LeftIs DEF Bar
<1> QED
    BY <1>1, <1>2, <1>4, <1>6 DEF IInv, Service!Init, Service!Off, Bar

\* A timer that is added hangs in the bucket of its tick, and nobody else moves.
LEMMA AddOK ==
    ASSUME IInv, NEW e \in Elem, NEW ms \in Delay, soft_timer_add(e, ms)
    PROVE  IInv' /\ Service!Add(e, ms)
<1>1. active # "loop" /\ UNCHANGED <<tick, timeout_list, active>> /\ wanted' = wanted \cup {e}
    BY DEF soft_timer_add
<1>2. TypeOK /\ LinkedOnce /\ NothingDue
    BY DEF IInv
<1>3. CASE is_soft_timer_running(e)
    <2>1. UNCHANGED <<expires, buckets>>
        BY <1>3 DEF soft_timer_add
    <2>2. IInv'
        BY <1>1, <1>2, <2>1 DEF IInv, TypeOK, LinkedOnce, NothingDue
    <2>3. Bar' = Bar
        BY <1>1, <2>1 DEF Bar, Left, is_soft_timer_running
    <2>4. e \in {x \in Elem : Bar[x] # -1}
        BY <1>3, LeftRange
    <2> QED
        BY <1>1, <2>2, <2>3, <2>4 DEF Service!Add, Service!Running, Service!Off, Bar
<1>4. CASE ~is_soft_timer_running(e)
    <2> DEFINE n == get_soft_tick_from_milsec(ms)  at == (tick + n) % TICK_MOD  c == at % NUM_BUCKETS
    <2>1. n \in 1 .. ms /\ n <= TICK_MOD /\ Service!Lasts(n, ms) /\ ms \in Nat
        BY Ticks, Constants
    <2>2. expires' = [expires EXCEPT ![e] = at] /\ buckets' = [buckets EXCEPT ![c] = Append(@, e)]
        BY <1>4 DEF soft_timer_add
    <2> HIDE DEF n
    <2>3. n \in Int /\ n \in 1 .. TICK_MOD /\ tick \in TickCount
        BY <1>2, <2>1, Constants DEF TypeOK
    <2>4. 1 + ((at - tick - 1) % TICK_MOD) = n /\ at \in TickCount
        BY <2>3, Ahead
    <2> HIDE DEF at
    <2>5. c \in Bucket
        <3>1. at \in Int /\ NUM_BUCKETS \in Nat \ {0}
            BY <2>4, Constants DEF TickCount
        <3> QED BY <3>1, DivMod DEF Bucket
    <2> HIDE DEF c
    <2>6. /\ expires \in [Elem -> TickCount] /\ buckets \in [Bucket -> Seq(Elem)]
          /\ timeout_list \in Seq(Elem)
        BY <1>2 DEF TypeOK
    <2>7. /\ expires' \in [Elem -> TickCount] /\ expires'[e] = at
          /\ \A x \in Elem : x # e => expires'[x] = expires[x]
        BY <2>2, <2>4, <2>6
    <2>8. /\ buckets' \in [Bucket -> Seq(Elem)] /\ buckets'[c] = Append(buckets[c], e)
          /\ \A b \in Bucket : b # c => buckets'[b] = buckets[b]
        BY <2>2, <2>5, <2>6
    <2>9. TypeOK'
        BY <1>1, <1>2, <2>7, <2>8 DEF TypeOK
    <2>10. e \notin ToSet(timeout_list) /\ \A b \in Bucket : e \notin ToSet(buckets[b])
        BY <1>4 DEF is_soft_timer_running
    <2>11. /\ ToSet(Append(buckets[c], e)) = ToSet(buckets[c]) \cup {e}
           /\ IsInjective(buckets[c]) => IsInjective(Append(buckets[c], e))
        BY <2>5, <2>6, <2>10, Appended
    <2>12. \A b \in Bucket : \A x \in ToSet(buckets[b]) : x \in Elem /\ x # e
        BY <2>6, <2>10 DEF ToSet
    <2>13. LinkedOnce'
        <3>1. IsInjective(timeout_list)'
            BY <1>1, <1>2 DEF LinkedOnce, IsInjective
        <3>2. ASSUME NEW b \in Bucket
              PROVE  /\ IsInjective(buckets'[b])
                     /\ \A x \in ToSet(buckets'[b]) :
                           x \notin ToSet(timeout_list) /\ expires'[x] % NUM_BUCKETS = b
            <4>1. CASE b = c
                <5>1. IsInjective(buckets[c]) /\ \A x \in ToSet(buckets[c]) :
                            x \notin ToSet(timeout_list) /\ expires[x] % NUM_BUCKETS = c
                    BY <1>2, <2>5 DEF LinkedOnce
                <5>2. expires'[e] % NUM_BUCKETS = c
                    BY <2>7 DEF c
                <5>3. buckets'[b] = Append(buckets[c], e)
                    BY <2>8, <4>1
                <5> QED BY <2>5, <2>7, <2>10, <2>11, <2>12, <4>1, <5>1, <5>2, <5>3
            <4>2. CASE b # c
                BY <1>2, <2>7, <2>8, <2>12, <4>2 DEF LinkedOnce
            <4> QED BY <4>1, <4>2
        <3> QED BY <1>1, <3>1, <3>2 DEF LinkedOnce, ToSet, IsInjective
    <2>14. OnWheel' = OnWheel \cup {e}
        <3>1. OnWheel' = {x \in Elem : \E b \in Bucket : x \in ToSet(buckets'[b])}
            BY DEF OnWheel, ToSet
        <3> QED BY <2>5, <2>8, <2>11, <3>1 DEF OnWheel
    <2>15. ToSet(timeout_list)' = ToSet(timeout_list)
        BY <1>1 DEF ToSet
    <2>16. Bar' = [Bar EXCEPT ![e] = n]
        <3>1. Bar'[e] = n
            BY <1>1, <2>4, <2>7, <2>10, <2>14, <2>15, LeftIs
        <3>2. ASSUME NEW x \in Elem, x # e PROVE Bar'[x] = Bar[x]
            BY <1>1, <2>7, <2>14, <2>15, <3>2, LeftIs
        <3> HIDE DEF n
        <3>3. Bar = [x \in Elem |-> Bar[x]] /\ Bar' = [x \in Elem |-> Bar'[x]]
            BY DEF Bar
        <3> HIDE DEF Bar
        <3> QED BY <3>1, <3>2, <3>3
    <2>17. ~(e \in {x \in Elem : Bar[x] # -1})
        BY <1>4, LeftRange
    <2> QED
        BY <1>1, <1>2, <2>1, <2>9, <2>13, <2>16, <2>17
        DEF IInv, NothingDue, Service!Add, Service!Running, Service!Off, Bar
<1> QED
    BY <1>3, <1>4

\* A timer that is stopped is on no list any more, also when it was due.
LEMMA DelOK ==
    ASSUME IInv, NEW e \in Elem, soft_timer_del(e)
    PROVE  IInv' /\ Service!Del(e)
<1>1. active # "loop" /\ UNCHANGED <<tick, expires, active>> /\ wanted' = wanted \ {e}
    BY DEF soft_timer_del
<1>2. /\ buckets' = [b \in Bucket |-> Kept(buckets[b], Elem \ {e})]
      /\ timeout_list' = Kept(timeout_list, Elem \ {e})
    BY DEF soft_timer_del
<1>3. TypeOK /\ LinkedOnce /\ NothingDue
    BY DEF IInv
<1>4. /\ expires \in [Elem -> TickCount] /\ buckets \in [Bucket -> Seq(Elem)]
      /\ timeout_list \in Seq(Elem)
    BY <1>3 DEF TypeOK
<1>5. /\ timeout_list' \in Seq(Elem) /\ ToSet(timeout_list') = ToSet(timeout_list) \cap (Elem \ {e})
      /\ IsInjective(timeout_list) => IsInjective(timeout_list')
    BY <1>2, <1>4, KeptElements
<1>6. ASSUME NEW b \in Bucket
      PROVE  /\ buckets'[b] \in Seq(Elem) /\ ToSet(buckets'[b]) = ToSet(buckets[b]) \cap (Elem \ {e})
             /\ IsInjective(buckets[b]) => IsInjective(buckets'[b])
    <2>1. buckets'[b] = Kept(buckets[b], Elem \ {e}) /\ buckets[b] \in Seq(Elem)
        BY <1>2, <1>4
    <2> QED BY <2>1, KeptElements
<1>7. TypeOK'
    <2>1. buckets' \in [Bucket -> Seq(Elem)]
        BY <1>2, <1>6
    <2> QED BY <1>1, <1>3, <1>5, <2>1 DEF TypeOK
<1>8. LinkedOnce'
    <2>1. IsInjective(timeout_list')
        BY <1>3, <1>5 DEF LinkedOnce
    <2>2. ASSUME NEW b \in Bucket
          PROVE  /\ IsInjective(buckets'[b])
                 /\ \A x \in ToSet(buckets'[b]) :
                       x \notin ToSet(timeout_list') /\ expires'[x] % NUM_BUCKETS = b
        BY <1>1, <1>3, <1>5, <1>6 DEF LinkedOnce
    <2> QED BY <2>1, <2>2 DEF LinkedOnce, ToSet, IsInjective
<1>9. NothingDue'
    <2>1. active = "host" => ToSet(timeout_list') = {}
        BY <1>3, <1>5 DEF NothingDue, ToSet
    <2>2. ToSet(timeout_list') = {} => timeout_list' = <<>>
        BY <1>5 DEF ToSet
    <2> QED BY <1>1, <2>1, <2>2 DEF NothingDue
<1>10. OnWheel' = OnWheel \ {e}
    <2>1. OnWheel' = {x \in Elem : \E b \in Bucket : x \in ToSet(buckets'[b])}
        BY DEF OnWheel, ToSet
    <2> QED BY <1>6, <2>1 DEF OnWheel
<1>11. ToSet(timeout_list)' = ToSet(timeout_list) \ {e}
    <2>1. ToSet(timeout_list)' = ToSet(timeout_list')
        BY DEF ToSet
    <2>2. ToSet(timeout_list) \subseteq Elem
        BY <1>4 DEF ToSet
    <2> QED BY <1>5, <2>1, <2>2
<1>12. Bar' = [Bar EXCEPT ![e] = -1]
    <2>1. Bar'[e] = -1
        BY <1>10, <1>11, LeftIs
    <2>2. ASSUME NEW x \in Elem, x # e PROVE Bar'[x] = Bar[x]
        BY <1>1, <1>10, <1>11, <2>2, LeftIs
    <2>3. Bar = [x \in Elem |-> Bar[x]] /\ Bar' = [x \in Elem |-> Bar'[x]]
        BY DEF Bar
    <2> HIDE DEF Bar
    <2> QED BY <2>1, <2>2, <2>3
<1> QED
    BY <1>1, <1>7, <1>8, <1>9, <1>12 DEF IInv, Service!Del, Service!Off, Bar

\* A tick moves the timers that expire now, and only those, to the list of those
\* due; for all others it is one tick less.
LEMMA TickOK ==
    ASSUME IInv, timer_tick
    PROVE  IInv' /\ Service!Tick
<1> DEFINE now == (tick + 1) % TICK_MOD  c == now % NUM_BUCKETS
           Now == {e \in Elem : expires[e] = now}  Later == {e \in Elem : expires[e] # now}
<1>1. active = "host" /\ tick' = now /\ active' = "loop" /\ UNCHANGED <<expires, wanted>>
    BY DEF timer_tick
<1>2. /\ timeout_list' = Kept(buckets[c], Now)
      /\ buckets' = [buckets EXCEPT ![c] = Kept(@, Later)]
    BY DEF timer_tick
<1>3. TypeOK /\ LinkedOnce /\ timeout_list = <<>>
    BY <1>1 DEF IInv, NothingDue
<1>4. /\ expires \in [Elem -> TickCount] /\ buckets \in [Bucket -> Seq(Elem)] /\ tick \in TickCount
    BY <1>3 DEF TypeOK
<1>5. now \in TickCount
    BY <1>4, Nearer
<1>6. c \in Bucket
    <2> HIDE DEF now
    <2>1. now \in Int /\ NUM_BUCKETS \in Nat \ {0}
        BY <1>5, Constants DEF TickCount
    <2> QED BY <2>1, DivMod DEF Bucket
<1> HIDE DEF now
<1>7. \A e \in Elem : expires[e] = now => expires[e] % NUM_BUCKETS = c
    OBVIOUS
<1> HIDE DEF c
<1>8. buckets[c] \in Seq(Elem) /\ IsInjective(buckets[c])
    BY <1>3, <1>4, <1>6 DEF LinkedOnce
<1>9. /\ timeout_list' \in Seq(Elem) /\ ToSet(timeout_list') = ToSet(buckets[c]) \cap Now
      /\ IsInjective(timeout_list')
    <2> HIDE DEF Now
    <2> QED BY <1>2, <1>8, KeptElements
<1>10. /\ Kept(buckets[c], Later) \in Seq(Elem)
       /\ ToSet(Kept(buckets[c], Later)) = ToSet(buckets[c]) \cap Later
       /\ IsInjective(Kept(buckets[c], Later))
    <2> HIDE DEF Later
    <2> QED BY <1>8, KeptElements
<1>11. /\ buckets' \in [Bucket -> Seq(Elem)] /\ buckets'[c] = Kept(buckets[c], Later)
       /\ \A b \in Bucket : b # c => buckets'[b] = buckets[b]
    BY <1>2, <1>4, <1>6, <1>10
<1>12. ASSUME NEW b \in Bucket
       PROVE  ToSet(buckets'[b]) = ToSet(buckets[b]) \cap Later /\ IsInjective(buckets'[b])
    <2>1. CASE b = c
        BY <1>10, <1>11, <2>1
    <2>2. CASE b # c
        <3>1. buckets'[b] = buckets[b] /\ ToSet(buckets[b]) \subseteq Elem
            BY <1>4, <1>11, <2>2 DEF ToSet
        <3>2. IsInjective(buckets[b]) /\ \A x \in ToSet(buckets[b]) : expires[x] % NUM_BUCKETS = b
            BY <1>3 DEF LinkedOnce
        <3> QED BY <1>7, <2>2, <3>1, <3>2
    <2> QED BY <2>1, <2>2
<1>13. TypeOK'
    BY <1>1, <1>3, <1>5, <1>9, <1>11 DEF TypeOK
<1>14. LinkedOnce'
    <2>1. ASSUME NEW b \in Bucket
          PROVE  /\ IsInjective(buckets'[b])
                 /\ \A x \in ToSet(buckets'[b]) :
                       x \notin ToSet(timeout_list') /\ expires'[x] % NUM_BUCKETS = b
        BY <1>1, <1>3, <1>9, <1>12 DEF LinkedOnce
    <2> QED BY <1>9, <2>1 DEF LinkedOnce, ToSet, IsInjective
<1>15. ToSet(timeout_list)' = OnWheel \cap Now /\ OnWheel' = OnWheel \cap Later
    <2>1. /\ OnWheel' = {x \in Elem : \E b \in Bucket : x \in ToSet(buckets'[b])}
          /\ ToSet(timeout_list)' = ToSet(timeout_list')
        BY DEF OnWheel, ToSet
    <2>2. OnWheel' = OnWheel \cap Later
        BY <1>12, <2>1 DEF OnWheel
    <2>3. ASSUME NEW x \in OnWheel, expires[x] = now PROVE x \in ToSet(buckets[c])
        <3>1. PICK b \in Bucket : x \in ToSet(buckets[b])
            BY <2>3 DEF OnWheel
        <3>2. expires[x] % NUM_BUCKETS = b /\ x \in Elem
            BY <1>3, <2>3, <3>1 DEF LinkedOnce, OnWheel
        <3> QED BY <1>7, <2>3, <3>1, <3>2
    <2>4. ToSet(buckets[c]) \cap Now \subseteq OnWheel
        BY <1>6 DEF OnWheel
    <2>5. OnWheel \cap Now \subseteq ToSet(buckets[c])
        BY <2>3
    <2> QED BY <1>9, <2>1, <2>2, <2>4, <2>5
<1>16. ToSet(timeout_list) = {}
    BY <1>3 DEF ToSet
<1>17. ASSUME NEW e \in Elem
       PROVE  Bar'[e] = IF Bar[e] # -1 THEN Bar[e] - 1 ELSE -1
    <2> DEFINE d == (expires[e] - tick - 1) % TICK_MOD
    <2>1. /\ d \in TickCount /\ (expires[e] = now <=> d = 0)
          /\ (expires[e] # now => (expires[e] - now - 1) % TICK_MOD = d - 1)
        BY <1>4, Nearer DEF now
    <2>2. d \in Int /\ d >= 0
        BY <2>1, Constants DEF TickCount
    <2>3. /\ e \in OnWheel => Bar[e] = 1 + d
          /\ e \notin OnWheel => Bar[e] = -1
        BY <1>16, LeftIs
    <2>4. Bar'[e] = IF e \in OnWheel \cap Now THEN 0
                    ELSE IF e \in OnWheel \cap Later THEN 1 + ((expires[e] - now - 1) % TICK_MOD) ELSE -1
        BY <1>1, <1>15, LeftIs
    <2> HIDE DEF d
    <2>5. CASE e \notin OnWheel
        BY <2>3, <2>4, <2>5
    <2>6. CASE e \in OnWheel /\ expires[e] = now
        BY <2>1, <2>2, <2>3, <2>4, <2>6
    <2>7. CASE e \in OnWheel /\ expires[e] # now
        <3>1. Bar'[e] = 1 + (d - 1)
            BY <2>1, <2>4, <2>7
        <3> QED BY <2>2, <2>3, <2>7, <3>1
    <2> QED BY <2>5, <2>6, <2>7
<1>18. Bar' = [e \in Elem |-> IF Bar[e] # -1 THEN Bar[e] - 1 ELSE -1]
    <2>1. Bar' = [e \in Elem |-> Bar'[e]]
        BY DEF Bar
    <2> HIDE DEF Bar
    <2> QED BY <1>17, <2>1
<1>19. Bar' = [e \in Elem |-> IF e \in {x \in Elem : Bar[x] # -1} THEN Bar[e] - 1 ELSE -1]
    <2> HIDE DEF Bar
    <2> QED BY <1>18
<1> QED
    BY <1>1, <1>13, <1>14, <1>19 DEF IInv, NothingDue, Service!Tick, Service!Running, Service!Off, Bar

\* The first of those due is called, and is then on no list.
LEMMA RunOK ==
    ASSUME IInv, RunCallback
    PROVE  IInv' /\ \E e \in Elem : Service!Fire(e)
<1> DEFINE e == Head(timeout_list)  q == timeout_list
<1>1. /\ active = "loop" /\ q # <<>> /\ active' = e /\ timeout_list' = Tail(q)
      /\ wanted' = wanted \ {e} /\ UNCHANGED <<tick, buckets, expires>>
    BY DEF RunCallback
<1>2. TypeOK /\ LinkedOnce /\ q \in Seq(Elem) /\ IsInjective(q)
    BY DEF IInv, TypeOK, LinkedOnce
<1>3. e \in Elem /\ Tail(q) \in Seq(Elem) /\ e # "host"
    BY <1>1, <1>2, Constants
<1>4. /\ DOMAIN q = 1 .. Len(q) /\ DOMAIN Tail(q) = 1 .. Len(q) - 1 /\ Len(q) \in Nat /\ Len(q) >= 1
      /\ e = q[1] /\ \A i \in 1 .. Len(q) - 1 : Tail(q)[i] = q[i + 1]
    BY <1>1, <1>2
<1>5. ToSet(q) = {e} \cup ToSet(Tail(q))
    <2>1. ASSUME NEW i \in 1 .. Len(q) PROVE q[i] = e \/ \E j \in 1 .. Len(q) - 1 : q[i] = Tail(q)[j]
        <3>1. CASE i = 1
            BY <1>4, <3>1
        <3>2. CASE i # 1
            <4>1. i - 1 \in 1 .. Len(q) - 1 /\ i - 1 + 1 = i
                BY <1>4, <3>2
            <4> QED BY <1>4, <4>1
        <3> QED BY <3>1, <3>2
    <2>2. ASSUME NEW j \in 1 .. Len(q) - 1 PROVE \E i \in 1 .. Len(q) : Tail(q)[j] = q[i]
        BY <1>4
    <2>3. 1 \in DOMAIN q
        BY <1>4
    <2> DEFINE r == Tail(q)
    <2>4. ToSet(q) = {q[i] : i \in 1 .. Len(q)} /\ ToSet(r) = {r[j] : j \in 1 .. Len(q) - 1}
        BY <1>4 DEF ToSet
    <2> HIDE DEF e, q, r
    <2>5. \A x : x \in ToSet(q) <=> \E i \in 1 .. Len(q) : x = q[i]
        BY <2>4
    <2>6. \A x : x \in ToSet(r) <=> \E j \in 1 .. Len(q) - 1 : x = r[j]
        BY <2>4
    <2>7. ASSUME NEW x PROVE x \in ToSet(q) <=> x \in {e} \cup ToSet(r)
        BY <1>4, <2>1, <2>2, <2>3, <2>5, <2>6 DEF r
    <2> QED BY <2>7 DEF r
<1>6. e \notin ToSet(Tail(q)) /\ IsInjective(Tail(q))
    <2> HIDE DEF e, q
    <2> QED BY <1>2, <1>4 DEF ToSet, IsInjective
<1> HIDE DEF e, q
<1>7. TypeOK'
    BY <1>1, <1>2, <1>3 DEF TypeOK
<1>8. ToSet(timeout_list)' = ToSet(q) \ {e}
    BY <1>1, <1>5, <1>6 DEF ToSet
<1>9. LinkedOnce'
    <2>1. IsInjective(timeout_list)'
        BY <1>1, <1>6 DEF IsInjective
    <2>2. \A b \in Bucket :
            /\ IsInjective(buckets[b])
            /\ \A x \in ToSet(buckets[b]) : x \notin ToSet(timeout_list)' /\ expires[x] % NUM_BUCKETS = b
        BY <1>2, <1>8 DEF LinkedOnce, q
    <2> QED BY <1>1, <2>1, <2>2 DEF LinkedOnce, ToSet, IsInjective
<1>10. NothingDue'
    BY <1>1, <1>3 DEF NothingDue
<1>11. OnWheel' = OnWheel /\ e \notin OnWheel /\ e \in ToSet(timeout_list)
    <2>1. OnWheel' = OnWheel
        BY <1>1 DEF OnWheel
    <2>2. e \in ToSet(timeout_list)
        BY <1>5 DEF q
    <2> QED BY <1>2, <2>1, <2>2 DEF OnWheel, LinkedOnce
<1>12. Bar' = [Bar EXCEPT ![e] = -1]
    <2>1. Bar'[e] = -1
        BY <1>3, <1>8, <1>11, LeftIs
    <2>2. ASSUME NEW x \in Elem, x # e PROVE Bar'[x] = Bar[x]
        BY <1>1, <1>8, <1>11, <2>2, LeftIs DEF q
    <2>3. Bar = [x \in Elem |-> Bar[x]] /\ Bar' = [x \in Elem |-> Bar'[x]]
        BY DEF Bar
    <2> HIDE DEF Bar
    <2> QED BY <1>3, <2>1, <2>2, <2>3
<1>13. e \in {x \in Elem : Bar[x] = 0}
    BY <1>3, <1>11, LeftIs
<1>14. Service!Fire(e)
    BY <1>1, <1>12, <1>13 DEF Service!Fire, Service!Due, Service!Off, Bar
<1> QED
    BY <1>3, <1>7, <1>9, <1>10, <1>14 DEF IInv

LEMMA ReturnOK ==
    ASSUME IInv, CallbackReturns
    PROVE  IInv' /\ Service!Return
<1>1. active \in Elem /\ active' = "loop" /\ UNCHANGED <<tick, buckets, expires, timeout_list, wanted>>
    BY DEF CallbackReturns
<1>2. IInv'
    BY <1>1 DEF IInv, TypeOK, LinkedOnce, NothingDue
<1>3. Bar' = Bar
    BY <1>1 DEF Bar, Left, is_soft_timer_running
<1> QED
    BY <1>1, <1>2, <1>3 DEF Service!Return, Bar

\* The loop ends only when nobody is due any more.
LEMMA DoneOK ==
    ASSUME IInv, TickReturns
    PROVE  IInv' /\ Service!Done
<1>1. /\ active = "loop" /\ timeout_list = <<>> /\ active' = "host"
      /\ UNCHANGED <<tick, buckets, expires, timeout_list, wanted>>
    BY DEF TickReturns
<1>2. IInv'
    BY <1>1 DEF IInv, TypeOK, LinkedOnce, NothingDue
<1>3. Bar' = Bar
    BY <1>1 DEF Bar, Left, is_soft_timer_running
<1>4. {x \in Elem : Bar[x] = 0} = {}
    <2>1. ToSet(timeout_list) = {}
        BY <1>1 DEF ToSet
    <2> QED BY <2>1, LeftRange
<1> QED
    BY <1>1, <1>2, <1>3, <1>4 DEF Service!Done, Service!Due, Bar

\* Every step of the wheel keeps the invariant and is a step of the service.
LEMMA Simulates ==
    IInv /\ [Next]_vars => IInv' /\ [Service!Next]_<<Bar, wanted, active>>
<1> SUFFICES ASSUME IInv, [Next]_vars
             PROVE  IInv' /\ [Service!Next]_<<Bar, wanted, active>>
    OBVIOUS
<1>1. CASE UNCHANGED vars
    <2>1. IInv'
        BY <1>1 DEF vars, IInv, TypeOK, LinkedOnce, NothingDue
    <2>2. UNCHANGED <<Bar, wanted, active>>
        BY <1>1 DEF vars, Bar, Left, is_soft_timer_running
    <2> QED BY <2>1, <2>2
<1>2. ASSUME NEW e \in Elem, NEW ms \in Delay, soft_timer_add(e, ms)
      PROVE  IInv' /\ Service!Next
    BY <1>2, AddOK DEF Service!Next
<1>3. ASSUME NEW e \in Elem, soft_timer_del(e)
      PROVE  IInv' /\ Service!Next
    BY <1>3, DelOK DEF Service!Next
<1>4. CASE timer_tick
    BY <1>4, TickOK DEF Service!Next
<1>5. CASE RunCallback
    BY <1>5, RunOK DEF Service!Next
<1>6. CASE CallbackReturns
    BY <1>6, ReturnOK DEF Service!Next
<1>7. CASE TickReturns
    BY <1>7, DoneOK DEF Service!Next
<1> QED
    BY <1>1, <1>2, <1>3, <1>4, <1>5, <1>6, <1>7 DEF Next

LEMMA Invariance == Spec => []IInv
BY InitOK, Simulates, PTL DEF Spec

-----------------------------------------------------------------------------
\* Ticks stay in the counter, lists hold timers, and only the host, the loop or
\* a callback runs.
THEOREM TypeCorrect == Spec => []TypeOK
<1>1. IInv => TypeOK
    BY DEF IInv
<1> QED
    BY <1>1, Invariance, PTL

\* Whatever the host and the callbacks add and delete, no timer is linked into
\* two lists or twice into one, and it hangs in the bucket that its tick visits.
THEOREM NeverLinkedTwice == Spec => []LinkedOnce
<1>1. IInv => LinkedOnce
    BY DEF IInv
<1> QED
    BY <1>1, Invariance, PTL

\* The wheel implements the timer service: for every number of buckets and
\* every width of the counter, each timer runs out at exactly the tick it was
\* asked for and never after it was stopped.
THEOREM Refinement == Spec => ImplementsTimerService
<1>1. Service!Spec <=> Service!Init /\ [][Service!Next]_<<Bar, wanted, active>>
    BY DEF Service!Spec, Bar
<1>2. Init => Service!Init
    BY InitOK
<1>3. IInv /\ [Next]_vars => [Service!Next]_<<Bar, wanted, active>>
    BY Simulates
<1> QED
    BY <1>1, <1>2, <1>3, Invariance, PTL DEF Spec, ImplementsTimerService
=============================================================================
