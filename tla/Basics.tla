------------------------------- MODULE Basics -------------------------------
(***************************************************************************)
(* What the proofs have in common: remainders modulo a positive number     *)
(* that is not fixed, for counters that wrap and buffers that go round,    *)
(* induction over the natural numbers, and walks along linked lists.       *)
(***************************************************************************)
EXTENDS Integers, SequencesExt, Lists, TLAPS, NaturalsInduction,
        WellFoundedInduction, SequenceTheorems

-----------------------------------------------------------------------------
(* Remainders *)

\* Division with remainder.
LEMMA DivMod ==
    ASSUME NEW a \in Int, NEW n \in Nat \ {0}
    PROVE  a % n \in 0 .. n - 1 /\ a \div n \in Int /\ a = n * (a \div n) + (a % n)
OBVIOUS

\* The only multiple of n strictly between -n and n is 0.
LEMMA SmallMultiple ==
    ASSUME NEW n \in Nat \ {0}, NEW k \in Int, -n < n * k, n * k < n
    PROVE  k = 0
OBVIOUS

\* A remainder is the only number in its range that differs by a multiple.
LEMMA ModUnique ==
    ASSUME NEW n \in Nat \ {0}, NEW a \in Int, NEW q \in Int, NEW r \in 0 .. n - 1, a = n * q + r
    PROVE  a % n = r
<1>1. a % n \in 0 .. n - 1 /\ a \div n \in Int /\ a = n * (a \div n) + (a % n)
    BY DivMod
<1> DEFINE d == a \div n   m == a % n
<1>2. d \in Int /\ m \in 0 .. n - 1 /\ n * (q - d) = m - r
    BY <1>1
<1> HIDE DEF d, m
<1>3. q - d = 0
    BY <1>2, SmallMultiple
<1> QED
    BY <1>2, <1>3 DEF m

LEMMA ModSmall ==
    ASSUME NEW n \in Nat \ {0}, NEW a \in 0 .. n - 1
    PROVE  a % n = a
<1>1. a = n * 0 + a
    OBVIOUS
<1> QED
    BY <1>1, ModUnique

\* Numbers that differ by a multiple have the same remainder ...
LEMMA ModCongruent ==
    ASSUME NEW n \in Nat \ {0}, NEW a \in Int, NEW b \in Int, NEW k \in Int, a = b + n * k
    PROVE  a % n = b % n
<1> DEFINE d == b \div n   m == b % n
<1>1. d \in Int /\ m \in 0 .. n - 1 /\ b = n * d + m
    BY DivMod
<1> HIDE DEF d, m
<1>2. a = n * (d + k) + m
    BY <1>1
<1>3. a % n = m
    BY <1>1, <1>2, ModUnique
<1> QED
    BY <1>3 DEF m

\* ... and the other way round.
LEMMA ModEqual ==
    ASSUME NEW n \in Nat \ {0}, NEW a \in Int, NEW b \in Int, a % n = b % n
    PROVE  \E k \in Int : a = b + n * k
<1>1. a \div n \in Int /\ a = n * (a \div n) + (a % n) /\ b \div n \in Int /\ b = n * (b \div n) + (b % n)
    BY DivMod
<1> DEFINE x == a \div n  y == b \div n  m == b % n
<1>2. x \in Int /\ y \in Int /\ m \in Int /\ a = n * x + m /\ b = n * y + m
    BY <1>1
<1> HIDE DEF x, y, m
<1>3. a = b + n * (x - y)
    BY <1>2
<1> DEFINE k == x - y
<1>4. k \in Int /\ a = b + n * k
    BY <1>2, <1>3
<1> HIDE DEF k
<1> QED
    BY <1>4

\* One turn more or less.
LEMMA ModTurn ==
    ASSUME NEW n \in Nat \ {0}, NEW a \in Int
    PROVE  (a + n) % n = a % n /\ (a - n) % n = a % n
<1> DEFINE p == a + n  q == a - n  o == 1  u == -1
<1>1. p \in Int /\ q \in Int /\ o \in Int /\ u \in Int /\ p = a + n * o /\ q = a + n * u
    OBVIOUS
<1> HIDE DEF p, q, o, u
<1>2. p % n = a % n
    BY <1>1, ModCongruent
<1>3. q % n = a % n
    BY <1>1, ModCongruent
<1> QED
    BY <1>2, <1>3 DEF p, q

\* Remainders may be taken before or after an addition or a subtraction.
LEMMA ModAdd ==
    ASSUME NEW n \in Nat \ {0}, NEW a \in Int, NEW b \in Int
    PROVE  /\ ((a % n) + b) % n = (a + b) % n
           /\ (a + (b % n)) % n = (a + b) % n
           /\ ((a % n) - b) % n = (a - b) % n
           /\ (a - (b % n)) % n = (a - b) % n
<1> DEFINE x == a \div n  y == b \div n  r == a % n  s == b % n
<1>1. x \in Int /\ y \in Int /\ r \in Int /\ s \in Int /\ a = n * x + r /\ b = n * y + s
    BY DivMod
<1> HIDE DEF x, y, r, s
<1> DEFINE sum == a + b  diff == a - b  xx == -x  yy == -y
           p1 == r + b  p2 == a + s  p3 == r - b  p4 == a - s
<1>2. /\ {sum, diff, xx, yy, p1, p2, p3, p4} \subseteq Int
      /\ p1 = sum + n * xx
      /\ p2 = sum + n * yy
      /\ p3 = diff + n * xx
      /\ p4 = diff + n * y
    BY <1>1
<1> HIDE DEF sum, diff, xx, yy, p1, p2, p3, p4
<1>3. p1 % n = sum % n
    BY <1>2, ModCongruent
<1>4. p2 % n = sum % n
    BY <1>2, ModCongruent
<1>5. p3 % n = diff % n
    BY <1>2, ModCongruent
<1>6. p4 % n = diff % n
    BY <1>1, <1>2, ModCongruent
<1> QED
    BY <1>3, <1>4, <1>5, <1>6 DEF r, s, sum, diff, p1, p2, p3, p4

\* A remainder modulo a multiple of n has the remainder of the number itself.
LEMMA ModMod ==
    ASSUME NEW n \in Nat \ {0}, NEW w \in Nat \ {0}, w % n = 0, NEW a \in Int
    PROVE  (a % w) % n = a % n
<1> DEFINE x == a \div w  r == a % w  k == w \div n
<1>1. x \in Int /\ r \in Int /\ a = w * x + r /\ k \in Int /\ w = n * k
    BY DivMod
<1> HIDE DEF x, r, k
<1> DEFINE j == k * (-x)
<1>2. j \in Int /\ r \in Int /\ r = a + n * j
    BY <1>1
<1> HIDE DEF j
<1>3. r % n = a % n
    BY <1>2, ModCongruent
<1> QED
    BY <1>3 DEF r

\* Within one turn the difference of two numbers follows from their remainders.
LEMMA ModNear ==
    ASSUME NEW n \in Nat \ {0}, NEW a \in Int, NEW b \in Int, a % n = b % n, a - b \in -(n - 1) .. n - 1
    PROVE  a = b
<1>1. PICK k \in Int : a = b + n * k
    BY ModEqual
<1>2. k = 0
    BY <1>1, SmallMultiple
<1> QED
    BY <1>1, <1>2

\* Less than one turn further, and less than one turn back.
LEMMA ModShift ==
    ASSUME NEW n \in Nat \ {0}, NEW a \in Int, NEW d \in 0 .. n - 1
    PROVE  /\ (a + d) % n = IF (a % n) + d < n THEN (a % n) + d ELSE (a % n) + d - n
           /\ (a - d) % n = IF (a % n) >= d THEN (a % n) - d ELSE (a % n) - d + n
<1> DEFINE q == a \div n  m == a % n  up == a + d  down == a - d
           q1 == q + 1  q2 == q - 1  r0 == m + d  r1 == m + d - n  r2 == m - d  r3 == m - d + n
<1>1. q \in Int /\ m \in 0 .. n - 1 /\ a = n * q + m
    BY DivMod
<1>2. {up, down, q1, q2} \subseteq Int
    BY <1>1
<1>3. /\ up = n * q + r0 /\ up = n * q1 + r1
      /\ down = n * q + r2 /\ down = n * q2 + r3
    BY <1>1
<1>4. /\ m + d < n => r0 \in 0 .. n - 1
      /\ ~(m + d < n) => r1 \in 0 .. n - 1
      /\ m >= d => r2 \in 0 .. n - 1
      /\ ~(m >= d) => r3 \in 0 .. n - 1
    BY <1>1
<1> HIDE DEF q, m, up, down, q1, q2, r0, r1, r2, r3
<1>5. m + d < n => up % n = r0
    BY <1>1, <1>2, <1>3, <1>4, ModUnique
<1>6. ~(m + d < n) => up % n = r1
    BY <1>1, <1>2, <1>3, <1>4, ModUnique
<1>7. m >= d => down % n = r2
    BY <1>1, <1>2, <1>3, <1>4, ModUnique
<1>8. ~(m >= d) => down % n = r3
    BY <1>1, <1>2, <1>3, <1>4, ModUnique
<1> QED
    BY <1>5, <1>6, <1>7, <1>8 DEF m, up, down, r0, r1, r2, r3

\* The successor and the predecessor of a remainder.
LEMMA ModStep ==
    ASSUME NEW n \in Nat \ {0}, n > 1, NEW x \in 0 .. n - 1
    PROVE  /\ (x + 1) % n = IF x + 1 = n THEN 0 ELSE x + 1
           /\ (x - 1) % n = IF x = 0 THEN n - 1 ELSE x - 1
<1> DEFINE d == 1
<1>1. d \in 0 .. n - 1 /\ x \in Int
    OBVIOUS
<1>2. x % n = x
    BY ModSmall
<1>3. /\ (x + d) % n = IF (x % n) + d < n THEN (x % n) + d ELSE (x % n) + d - n
      /\ (x - d) % n = IF (x % n) >= d THEN (x % n) - d ELSE (x % n) - d + n
    <2> HIDE DEF d
    <2> QED BY <1>1, ModShift
<1> QED
    BY <1>2, <1>3

\* Division keeps the order, and a reduced difference is not greater than the
\* difference.
LEMMA DivMonotone ==
    ASSUME NEW n \in Nat \ {0}, NEW a \in Int, NEW b \in Int, a <= b
    PROVE  a \div n <= b \div n /\ (b % n) - (a % n) <= b - a
<1> DEFINE x == a \div n  y == b \div n  r == a % n  q == b % n  k == x - y
<1>1. /\ x \in Int /\ r \in 0 .. n - 1 /\ a = n * x + r
      /\ y \in Int /\ q \in 0 .. n - 1 /\ b = n * y + q
    BY DivMod
<1> HIDE DEF x, y, r, q
<1>2. k \in Int /\ n * k = (a - b) - (r - q)
    BY <1>1
<1>3. n * k < n
    BY <1>1, <1>2
<1> HIDE DEF k
<1>4. k <= 0
    BY <1>2, <1>3
<1>5. n * k <= 0
    BY <1>2, <1>4
<1> QED
    BY <1>1, <1>2, <1>4, <1>5 DEF k, x, y, r, q

\* How far a position is after another one, on a circle of n.
LEMMA ModAround ==
    ASSUME NEW n \in Nat \ {0}, NEW i \in 0 .. n - 1, NEW e \in 0 .. n - 1
    PROVE  (i - e) % n = IF i >= e THEN i - e ELSE i - e + n
<1>1. i % n = i
    BY ModSmall
<1>2. (i - e) % n = IF (i % n) >= e THEN (i % n) - e ELSE (i % n) - e + n
    BY ModShift
<1> QED
    BY <1>1, <1>2

-----------------------------------------------------------------------------
(* Induction *)

\* The natural numbers are well-ordered.
LEMMA LeastNumber ==
    ASSUME NEW T, T \subseteq Nat, T # {}
    PROVE  \E x \in T : \A y \in T : x <= y
<1>1. \E x \in T : \A y \in T : ~ (<<y, x>> \in OpToRel(<, Nat))
    BY NatLessThanWellFounded, WFMin, Zenon
<1>2. \A x, y \in Nat : y < x => <<y, x>> \in OpToRel(<, Nat)
    BY Zenon DEF OpToRel
<1>3. \E x \in T : \A y \in T : ~(y < x)
    BY <1>1, <1>2, Zenon
<1> QED
    BY <1>3

\* Induction over the natural numbers, for a set: the least number outside S
\* would have its predecessor in S.
LEMMA SetInduction ==
    ASSUME NEW S, 0 \in S, \A n \in Nat : n \in S => n + 1 \in S
    PROVE  Nat \subseteq S
<1> DEFINE T == Nat \ S
<1> SUFFICES ASSUME T # {} PROVE FALSE
    OBVIOUS
<1>1. PICK x \in T : \A y \in T : x <= y
    BY LeastNumber
<1>2. x \in Nat /\ x # 0
    BY <1>1
<1>3. x - 1 \in Nat /\ x - 1 + 1 = x /\ x - 1 < x
    BY <1>2
<1> QED
    BY <1>1, <1>3

-----------------------------------------------------------------------------
(* Lists *)

\* The walk, one element at a time.
LEMMA Walk ==
    ASSUME NEW E, NEW s \in Seq(E), NEW S
    PROVE  \E f :
              /\ Kept(s, S) = f[Len(s)] /\ f[0] = <<>>
              /\ \A n \in 1 .. Len(s) :
                    f[n] = IF s[n] \in S THEN Append(f[n - 1], s[n]) ELSE f[n - 1]
<1> DEFINE Step(f, n) ==
                IF n = 0 THEN <<>>
                ELSE IF s[n] \in S THEN Append(f[n - 1], s[n]) ELSE f[n - 1]
           Good(f, k) == f \in [0 .. k -> Seq(E)] /\ \A n \in 0 .. k : f[n] = Step(f, n)
           I == {k \in Nat : k <= Len(s) => \E f : Good(f, k)}
<1>1. Len(s) \in Nat
    OBVIOUS
<1>2. 0 \in I
    <2>1. Good([n \in 0 .. 0 |-> <<>>], 0)
        OBVIOUS
    <2> QED BY <2>1
<1>3. ASSUME NEW k \in Nat, k \in I PROVE k + 1 \in I
    <2>1. CASE ~(k + 1 <= Len(s))
        BY <2>1
    <2>2. CASE k + 1 <= Len(s)
        <3>1. \E f : Good(f, k)
            <4> HIDE DEF Good
            <4>1. k <= Len(s)
                BY <1>1, <2>2
            <4> QED BY <1>3, <4>1
        <3>2. PICK f : Good(f, k)
            BY <3>1
        <3> DEFINE g == [n \in 0 .. k + 1 |-> IF n = k + 1 THEN Step(f, n) ELSE f[n]]
        <3>3. f \in [0 .. k -> Seq(E)] /\ s[k + 1] \in E
            BY <2>2, <3>2
        <3>4. Step(f, k + 1) \in Seq(E)
            BY <3>3
        <3>5. g \in [0 .. k + 1 -> Seq(E)]
            <4> HIDE DEF Step
            <4> QED BY <3>3, <3>4
        <3>6. ASSUME NEW n \in 0 .. k + 1 PROVE g[n] = Step(g, n)
            <4>1. CASE n = k + 1
                BY <4>1
            <4>2. CASE n # k + 1
                <5>1. n \in 0 .. k
                    BY <4>2
                <5>2. g[n] = f[n]
                    <6> HIDE DEF Step
                    <6> QED BY <4>2
                <5>3. f[n] = Step(f, n)
                    BY <3>2, <5>1
                <5>4. n # 0 => g[n - 1] = f[n - 1]
                    <6> HIDE DEF Step
                    <6> QED BY <5>1
                <5> QED BY <5>2, <5>3, <5>4
            <4> QED BY <4>1, <4>2
        <3>7. Good(g, k + 1)
            <4> HIDE DEF g, Step
            <4> QED BY <3>5, <3>6
        <3> HIDE DEF Good, g
        <3> QED BY <3>7
    <2> QED BY <2>1, <2>2
<1>4. Len(s) \in I
    <2> HIDE DEF I
    <2> QED BY <1>1, <1>2, <1>3, SetInduction
<1>5. PICK f : Good(f, Len(s))
    BY <1>1, <1>4
<1> DEFINE kept == CHOOSE h : h = [n \in 0 .. Len(s) |-> Step(h, n)]
<1>6. f = [n \in 0 .. Len(s) |-> Step(f, n)]
    BY <1>5
<1>7. kept = [n \in 0 .. Len(s) |-> Step(kept, n)]
    BY <1>6, Zenon
<1>8. Kept(s, S) = kept[Len(s)]
    BY DEF Kept
<1> HIDE DEF kept
<1>9. kept[0] = <<>>
    BY <1>1, <1>7
<1>10. ASSUME NEW n \in 1 .. Len(s)
       PROVE  kept[n] = IF s[n] \in S THEN Append(kept[n - 1], s[n]) ELSE kept[n - 1]
    <2>1. n \in 0 .. Len(s) /\ n # 0
        BY <1>1
    <2>2. kept[n] = Step(kept, n)
        <3> HIDE DEF Step
        <3> QED BY <1>7, <2>1
    <2> QED BY <2>1, <2>2
<1> QED
    BY <1>8, <1>9, <1>10

\* What the walk leaves in the list: those of S, each as often as before.
LEMMA KeptElements ==
    ASSUME NEW E, NEW s \in Seq(E), NEW S
    PROVE  /\ Kept(s, S) \in Seq(E)
           /\ ToSet(Kept(s, S)) = ToSet(s) \cap S
           /\ IsInjective(s) => IsInjective(Kept(s, S))
<1>1. PICK f : /\ Kept(s, S) = f[Len(s)] /\ f[0] = <<>>
               /\ \A n \in 1 .. Len(s) :
                    f[n] = IF s[n] \in S THEN Append(f[n - 1], s[n]) ELSE f[n - 1]
    BY Walk
<1> DEFINE Upto(k) == {s[i] : i \in 1 .. k}
           P(k) == /\ f[k] \in Seq(E)
                   /\ ToSet(f[k]) = Upto(k) \cap S
                   /\ IsInjective(s) => IsInjective(f[k])
           I == {k \in Nat : k <= Len(s) => P(k)}
<1>2. Len(s) \in Nat /\ DOMAIN s = 1 .. Len(s)
    OBVIOUS
<1>3. 0 \in I
    <2>1. f[0] \in Seq(E) /\ ToSet(f[0]) = {} /\ Upto(0) = {} /\ IsInjective(f[0])
        BY <1>1 DEF ToSet, IsInjective
    <2> QED BY <2>1
<1>4. ASSUME NEW k \in Nat, k \in I, k + 1 <= Len(s) PROVE P(k + 1)
    <2> DEFINE r == f[k]  t == f[k + 1]  x == s[k + 1]
    <2>1. r \in Seq(E) /\ ToSet(r) = Upto(k) \cap S /\ (IsInjective(s) => IsInjective(r))
        BY <1>2, <1>4
    <2>2. t = IF x \in S THEN Append(r, x) ELSE r
        BY <1>1, <1>2, <1>4
    <2>3. x \in E /\ Upto(k + 1) = Upto(k) \cup {x}
        BY <1>2, <1>4
    <2>4. IsInjective(s) => x \notin Upto(k)
        BY <1>2, <1>4 DEF IsInjective
    <2> HIDE DEF r, t, x, Upto
    <2>5. CASE x \in S
        <3>1. t = Append(r, x)
            BY <2>2, <2>5
        <3>2. /\ t \in Seq(E) /\ DOMAIN r = 1 .. Len(r) /\ DOMAIN t = 1 .. Len(r) + 1 /\ Len(r) \in Nat
              /\ t[Len(r) + 1] = x /\ \A i \in 1 .. Len(r) : t[i] = r[i]
            BY <2>1, <2>3, <3>1
        <3>3. ToSet(t) = ToSet(r) \cup {x}
            BY <3>2 DEF ToSet
        <3>4. IsInjective(r) /\ x \notin ToSet(r) => IsInjective(t)
            BY <3>2 DEF ToSet, IsInjective
        <3> QED BY <2>1, <2>3, <2>4, <2>5, <3>2, <3>3, <3>4 DEF t
    <2>6. CASE x \notin S
        BY <2>1, <2>2, <2>3, <2>6 DEF t
    <2> QED BY <2>5, <2>6
<1>5. ASSUME NEW k \in Nat, k \in I PROVE k + 1 \in I
    <2> HIDE DEF P
    <2>1. k + 1 <= Len(s) => P(k + 1)
        BY <1>4, <1>5
    <2> QED BY <2>1
<1>6. Len(s) \in I
    <2> HIDE DEF I
    <2> QED BY <1>2, <1>3, <1>5, SetInduction
<1>7. P(Len(s))
    <2> HIDE DEF P
    <2> QED BY <1>2, <1>6
<1>8. ToSet(s) = Upto(Len(s))
    BY <1>2 DEF ToSet
<1> HIDE DEF Upto
<1> QED
    BY <1>1, <1>7, <1>8

\* One more element at the end of a list.
LEMMA Appended ==
    ASSUME NEW E, NEW s \in Seq(E), NEW x \in E, x \notin ToSet(s)
    PROVE  /\ ToSet(Append(s, x)) = ToSet(s) \cup {x}
           /\ IsInjective(s) => IsInjective(Append(s, x))
<1> DEFINE t == Append(s, x)
<1>1. /\ DOMAIN s = 1 .. Len(s) /\ DOMAIN t = 1 .. Len(s) + 1 /\ Len(s) \in Nat
      /\ t[Len(s) + 1] = x /\ \A i \in 1 .. Len(s) : t[i] = s[i]
    OBVIOUS
<1> HIDE DEF t
<1>2. ToSet(t) = ToSet(s) \cup {x}
    BY <1>1 DEF ToSet
<1>3. IsInjective(s) => IsInjective(t)
    BY <1>1 DEF ToSet, IsInjective
<1> QED
    BY <1>2, <1>3 DEF t
=============================================================================
