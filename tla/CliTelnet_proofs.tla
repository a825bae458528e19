-------------------------- MODULE CliTelnet_proofs --------------------------
(***************************************************************************)
(* Proofs about CliTelnet and the driver it runs on, for any number of     *)
(* connections and descriptors and all sizes of queues and buffers.        *)
(***************************************************************************)
EXTENDS CliTelnet, Basics, FiniteSetTheorems

Driver == [watchers : Seq(Watcher), run_list : Seq(Watcher),
           listening : [Watcher -> SUBSET Event]]

\* Linked, list by list.
Joined(dr) ==
    /\ IsInjective(dr.watchers) /\ IsInjective(dr.run_list)
    /\ ToSet(dr.watchers) \cap ToSet(dr.run_list) = {}
    /\ ToSet(dr.watchers) \cup ToSet(dr.run_list) = {w \in Watcher : dr.listening[w] # {}}

\* What the assumption says of each constant.
LEMMA Constants ==
    /\ Conn \subseteq Watcher /\ Server \in Watcher /\ Server \notin Conn
    /\ Watcher = Conn \cup {Server}
    /\ Length \subseteq Nat \ {0} /\ Fd \subseteq Nat /\ Fd # {}
    /\ TX_BUF_SIZE \in Nat \ {0} /\ CHUNK \in Nat \ {0} /\ Backlog \in Nat \ {0}
    /\ Unread \in Nat \ {0} /\ Room \in Nat \ {0} /\ Writes \in Nat \ {0} /\ Offered \in Nat \ {0}
BY TelnetAssumption

-----------------------------------------------------------------------------
(* The driver *)

\* Watching a further event links a watcher that was not linked, at the tail.
LEMMA WatchKeeps ==
    ASSUME NEW dr \in Driver, Joined(dr), NEW w \in Watcher, NEW event \in Event
    PROVE  LET after == io_driver_watch(dr, w, event) IN
           /\ after \in Driver /\ Joined(after)
           /\ after.listening = [dr.listening EXCEPT ![w] = @ \cup {event}]
           /\ after.run_list = dr.run_list
           /\ ToSet(dr.watchers) \subseteq ToSet(after.watchers)
<1> DEFINE after == io_driver_watch(dr, w, event)
           l == [dr.listening EXCEPT ![w] = @ \cup {event}]
           listens == [dr EXCEPT !.listening[w] = @ \cup {event}]
<1>1. /\ dr.watchers \in Seq(Watcher) /\ dr.run_list \in Seq(Watcher)
      /\ dr.listening \in [Watcher -> SUBSET Event]
    BY DEF Driver
<1>2. /\ l \in [Watcher -> SUBSET Event] /\ l[w] # {}
      /\ \A v \in Watcher : v # w => l[v] = dr.listening[v]
    BY <1>1
<1>3. /\ listens.watchers = dr.watchers /\ listens.run_list = dr.run_list /\ listens.listening = l
      /\ listens \in Driver
    BY <1>1, <1>2 DEF Driver
<1>4. after = IF dr.listening[w] = {} THEN [listens EXCEPT !.watchers = Append(@, w)] ELSE listens
    BY DEF io_driver_watch
<1> HIDE DEF l, after, listens
<1>5. CASE dr.listening[w] = {}
    <2>1. after = [listens EXCEPT !.watchers = Append(dr.watchers, w)]
        BY <1>3, <1>4, <1>5
    <2>2. Append(dr.watchers, w) \in Seq(Watcher)
        BY <1>1
    <2>3. /\ after \in Driver /\ after.watchers = Append(dr.watchers, w)
          /\ after.run_list = dr.run_list /\ after.listening = l
        BY <1>3, <2>1, <2>2 DEF Driver
    <2>4. w \notin ToSet(dr.watchers) /\ w \notin ToSet(dr.run_list)
        BY <1>5 DEF Joined
    <2>5. /\ ToSet(after.watchers) = ToSet(dr.watchers) \cup {w}
          /\ IsInjective(after.watchers)
        BY <1>1, <2>3, <2>4, Appended DEF Joined
    <2>6. {v \in Watcher : l[v] # {}} = {v \in Watcher : dr.listening[v] # {}} \cup {w}
        BY <1>2
    <2>7. Joined(after)
        BY <2>3, <2>4, <2>5, <2>6 DEF Joined
    <2> QED BY <2>3, <2>5, <2>7 DEF l, after
<1>6. CASE dr.listening[w] # {}
    <2>1. after = listens
        BY <1>4, <1>6
    <2>2. {v \in Watcher : l[v] # {}} = {v \in Watcher : dr.listening[v] # {}}
        BY <1>2, <1>6
    <2>3. Joined(after)
        BY <1>3, <2>1, <2>2 DEF Joined
    <2> QED BY <1>3, <2>1, <2>3 DEF l, after
<1> QED
    BY <1>5, <1>6

\* The last event unlinks the watcher from the list it is on.
LEMMA NoWatchKeeps ==
    ASSUME NEW dr \in Driver, Joined(dr), NEW w \in Watcher, NEW event \in Event
    PROVE  LET after == io_driver_no_watch(dr, w, event) IN
           /\ after \in Driver /\ Joined(after)
           /\ after.listening = [dr.listening EXCEPT ![w] = @ \ {event}]
           /\ ToSet(after.run_list) \subseteq ToSet(dr.run_list)
<1> DEFINE after == io_driver_no_watch(dr, w, event)
           l == [dr.listening EXCEPT ![w] = @ \ {event}]
           deaf == [dr EXCEPT !.listening[w] = @ \ {event}]
<1>1. /\ dr.watchers \in Seq(Watcher) /\ dr.run_list \in Seq(Watcher)
      /\ dr.listening \in [Watcher -> SUBSET Event]
    BY DEF Driver
<1>2. /\ l \in [Watcher -> SUBSET Event] /\ l[w] = dr.listening[w] \ {event}
      /\ \A v \in Watcher : v # w => l[v] = dr.listening[v]
    BY <1>1
<1>3. /\ deaf.watchers = dr.watchers /\ deaf.run_list = dr.run_list /\ deaf.listening = l
      /\ deaf \in Driver
    BY <1>1, <1>2 DEF Driver
<1>4. after = IF dr.listening[w] # {} /\ deaf.listening[w] = {} THEN list_del_init(deaf, w) ELSE deaf
    BY DEF io_driver_no_watch
<1> HIDE DEF l, after, deaf
<1>5. CASE dr.listening[w] # {} /\ l[w] = {}
    <2> DEFINE others == Watcher \ {w}
               a == Kept(dr.watchers, others)
               b == Kept(dr.run_list, others)
    <2>1. after = [deaf EXCEPT !.watchers = a, !.run_list = b]
        BY <1>3, <1>4, <1>5 DEF list_del_init
    <2>2. /\ a \in Seq(Watcher) /\ ToSet(a) = ToSet(dr.watchers) \cap others /\ IsInjective(a)
          /\ b \in Seq(Watcher) /\ ToSet(b) = ToSet(dr.run_list) \cap others /\ IsInjective(b)
        <3> HIDE DEF others
        <3> QED BY <1>1, KeptElements DEF Joined
    <2> HIDE DEF a, b
    <2>3. after \in Driver /\ after.watchers = a /\ after.run_list = b /\ after.listening = l
        BY <1>3, <2>1, <2>2 DEF Driver
    <2>4. {v \in Watcher : l[v] # {}} = {v \in Watcher : dr.listening[v] # {}} \cap others
        BY <1>2, <1>5
    <2>5. Joined(after)
        BY <2>2, <2>3, <2>4 DEF Joined
    <2> QED BY <2>2, <2>3, <2>5 DEF l, after
<1>6. CASE ~(dr.listening[w] # {} /\ l[w] = {})
    <2>1. after = deaf
        BY <1>3, <1>4, <1>6
    <2>2. {v \in Watcher : l[v] # {}} = {v \in Watcher : dr.listening[v] # {}}
        BY <1>2, <1>6
    <2>3. Joined(after)
        BY <1>3, <2>1, <2>2 DEF Joined
    <2> QED BY <1>3, <2>1, <2>3 DEF l, after
<1> QED
    BY <1>5, <1>6

\* A round starts with all the watchers.
LEMMA SpliceKeeps ==
    ASSUME NEW dr \in Driver, Joined(dr), dr.run_list = <<>>
    PROVE  /\ splice(dr) \in Driver /\ Joined(splice(dr))
           /\ splice(dr).listening = dr.listening
           /\ ToSet(splice(dr).run_list) = ToSet(dr.watchers)
<1> DEFINE after == splice(dr)
<1>1. /\ after \in Driver /\ after.listening = dr.listening
      /\ after.watchers = <<>> /\ after.run_list = dr.watchers
    BY DEF Driver, splice
<1>2. ToSet(<<>>) = {} /\ IsInjective(<<>>)
    BY DEF ToSet, IsInjective
<1> HIDE DEF after
<1>3. Joined(after)
    BY <1>1, <1>2 DEF Joined
<1> QED
    BY <1>1, <1>3 DEF after

\* The next watcher of the round is on the list watchers when it is run.
LEMMA MoveFirstKeeps ==
    ASSUME NEW dr \in Driver, Joined(dr), dr.run_list # <<>>
    PROVE  /\ move_first(dr) \in Driver /\ Joined(move_first(dr))
           /\ move_first(dr).listening = dr.listening
           /\ Head(dr.run_list) \in ToSet(dr.run_list)
           /\ Head(dr.run_list) \in ToSet(move_first(dr).watchers)
           /\ ToSet(move_first(dr).run_list) \subseteq ToSet(dr.run_list)
<1> DEFINE after == move_first(dr)  r == dr.run_list  h == Head(r)  t == Tail(r)
<1>1. /\ dr.watchers \in Seq(Watcher) /\ r \in Seq(Watcher) /\ r # <<>>
      /\ dr.listening \in [Watcher -> SUBSET Event]
    BY DEF Driver
<1>2. /\ h \in Watcher /\ t \in Seq(Watcher) /\ Len(t) = Len(r) - 1 /\ h = r[1]
      /\ \A i \in 1 .. Len(t) : t[i] = r[i + 1]
    <2> HIDE DEF r
    <2> QED BY <1>1, HeadTailProperties
<1>3. Len(r) \in Nat /\ Len(r) # 0 /\ DOMAIN r = 1 .. Len(r) /\ DOMAIN t = 1 .. Len(r) - 1
    BY <1>1, <1>2
<1>4. /\ after = [dr EXCEPT !.run_list = t, !.watchers = Append(dr.watchers, h)]
      /\ Append(dr.watchers, h) \in Seq(Watcher)
    BY <1>1, <1>2 DEF move_first
<1>5. IsInjective(r) /\ ToSet(dr.watchers) \cap ToSet(r) = {}
    BY DEF Joined
<1> HIDE DEF after, r, h, t
<1>6. ToSet(r) = ToSet(t) \cup {h}
    <2>1. ASSUME NEW x \in ToSet(r) PROVE x \in ToSet(t) \cup {h}
        <3>1. PICK i \in 1 .. Len(r) : x = r[i]
            BY <1>3, <2>1 DEF ToSet
        <3>2. i # 1 => i - 1 \in 1 .. Len(t) /\ t[i - 1] = x
            BY <1>2, <1>3, <3>1
        <3> QED BY <1>2, <1>3, <3>1, <3>2 DEF ToSet
    <2>2. ToSet(t) \subseteq ToSet(r) /\ h \in ToSet(r)
        BY <1>2, <1>3 DEF ToSet
    <2> QED BY <2>1, <2>2
<1>7. h \notin ToSet(t) /\ IsInjective(t)
    <2>1. \A i \in DOMAIN t : i + 1 \in DOMAIN r /\ t[i] = r[i + 1] /\ i + 1 # 1 /\ i \in Nat
        BY <1>2, <1>3
    <2>2. \A i \in DOMAIN t : t[i] # h
        BY <1>2, <1>3, <1>5, <2>1 DEF IsInjective
    <2>3. ASSUME NEW i \in DOMAIN t, NEW j \in DOMAIN t, t[i] = t[j] PROVE i = j
        <3>1. i + 1 = j + 1
            BY <1>5, <2>1, <2>3 DEF IsInjective
        <3> QED BY <2>1, <3>1
    <2> QED BY <2>2, <2>3 DEF ToSet, IsInjective
<1>8. /\ after \in Driver /\ after.listening = dr.listening /\ after.run_list = t
      /\ after.watchers = Append(dr.watchers, h)
    BY <1>1, <1>2, <1>4 DEF Driver
<1>9. ToSet(after.watchers) = ToSet(dr.watchers) \cup {h} /\ IsInjective(after.watchers)
    BY <1>1, <1>2, <1>5, <1>6, <1>8, Appended DEF Joined
<1>10. Joined(after)
    BY <1>5, <1>6, <1>7, <1>8, <1>9 DEF Joined, r
<1> QED
    BY <1>6, <1>8, <1>9, <1>10 DEF after, r, h

\* The lists, one after the other, are as the driver needs them.
LEMMA JoinedLinked ==
    ASSUME NEW dr \in Driver, Joined(dr)
    PROVE  Linked(dr)
<1> DEFINE s == dr.watchers  t == dr.run_list  all == s \o t
<1>1. s \in Seq(Watcher) /\ t \in Seq(Watcher)
    BY DEF Driver
<1>2. /\ Len(s) \in Nat /\ Len(t) \in Nat /\ DOMAIN s = 1 .. Len(s) /\ DOMAIN t = 1 .. Len(t)
      /\ Len(all) = Len(s) + Len(t)
      /\ \A i \in 1 .. Len(s) : all[i] = s[i]
      /\ \A i \in 1 .. Len(t) : all[Len(s) + i] = t[i]
      /\ \A i \in 1 .. Len(s) + Len(t) :
            i <= Len(s) \/ (i - Len(s) \in 1 .. Len(t) /\ all[i] = t[i - Len(s)])
    <2> HIDE DEF s, t
    <2> QED BY <1>1
<1>3. /\ IsInjective(s) /\ IsInjective(t) /\ ToSet(s) \cap ToSet(t) = {}
      /\ ToSet(s) \cup ToSet(t) = {w \in Watcher : dr.listening[w] # {}}
    BY DEF Joined
<1>4. Linked(dr) <=> /\ \A i, j \in 1 .. Len(all) : all[i] = all[j] => i = j
                     /\ {all[i] : i \in 1 .. Len(all)} = {w \in Watcher : dr.listening[w] # {}}
    BY DEF Linked
<1> HIDE DEF s, t, all
<1>5. \A i \in 1 .. Len(all) : \/ i \in 1 .. Len(s) /\ all[i] = s[i] /\ all[i] \in ToSet(s)
                               \/ /\ i - Len(s) \in 1 .. Len(t) /\ all[i] = t[i - Len(s)]
                                  /\ all[i] \in ToSet(t)
    BY <1>2 DEF ToSet
<1>6. ASSUME NEW i \in 1 .. Len(all), NEW j \in 1 .. Len(all), all[i] = all[j] PROVE i = j
    <2>1. CASE i \in 1 .. Len(s) /\ all[i] = s[i] /\ all[i] \in ToSet(s)
        <3>1. j \in 1 .. Len(s) /\ all[j] = s[j]
            BY <1>3, <1>5, <1>6, <2>1
        <3> QED BY <1>2, <1>3, <1>6, <2>1, <3>1 DEF IsInjective
    <2>2. CASE i - Len(s) \in 1 .. Len(t) /\ all[i] = t[i - Len(s)] /\ all[i] \in ToSet(t)
        <3>1. j - Len(s) \in 1 .. Len(t) /\ all[j] = t[j - Len(s)]
            BY <1>3, <1>5, <1>6, <2>2
        <3>2. i - Len(s) = j - Len(s)
            BY <1>2, <1>3, <1>6, <2>2, <3>1 DEF IsInjective
        <3> QED BY <1>2, <3>2
    <2> QED BY <1>5, <2>1, <2>2
<1>7. {all[i] : i \in 1 .. Len(all)} = ToSet(s) \cup ToSet(t)
    <2>1. ASSUME NEW x \in ToSet(s) PROVE \E i \in 1 .. Len(all) : x = all[i]
        BY <1>2, <2>1 DEF ToSet
    <2>2. ASSUME NEW x \in ToSet(t) PROVE \E i \in 1 .. Len(all) : x = all[i]
        <3>1. PICK i \in 1 .. Len(t) : x = t[i]
            BY <1>2, <2>2 DEF ToSet
        <3>2. Len(s) + i \in 1 .. Len(all) /\ all[Len(s) + i] = x
            BY <1>2, <3>1
        <3> QED BY <3>2
    <2> QED BY <1>5, <2>1, <2>2
<1> QED
    BY <1>3, <1>4, <1>6, <1>7

-----------------------------------------------------------------------------
(* The output of a connection *)

\* Bytes in the order in which they were offered, up to the n-th one.
Ordered(q, n) == Increasing(q) /\ \A i \in 1 .. Len(q) : q[i] \in 1 .. n

\* Offering more bytes changes nothing about those before.
LEMMA OrderedMore ==
    ASSUME NEW q \in Seq(Nat), NEW n \in Nat, NEW m \in Nat, n <= m, Ordered(q, n)
    PROVE  Ordered(q, m)
BY DEF Ordered

\* A new message comes after everything offered before it.
LEMMA OrderedMessage ==
    ASSUME NEW q \in Seq(Nat), NEW n \in Nat, NEW len \in Nat, Ordered(q, n),
           NEW msg, msg = [i \in 1 .. len |-> n + i]
    PROVE  msg \in Seq(Nat) /\ Len(msg) = len /\ Ordered(q \o msg, n + len)
<1> DEFINE all == q \o msg  l == Len(q)
<1>1. msg \in Seq(Nat) /\ Len(msg) = len
    OBVIOUS
<1>2. /\ l \in Nat /\ Len(all) = l + len
      /\ \A i \in 1 .. l : all[i] = q[i] /\ q[i] \in 1 .. n
      /\ \A i \in l + 1 .. l + len : all[i] = n + (i - l)
    BY <1>1 DEF Ordered
<1>3. \A i, j \in 1 .. l : i < j => q[i] < q[j]
    BY DEF Ordered, Increasing
<1> HIDE DEF all, l
<1>4. ASSUME NEW i \in 1 .. l + len PROVE all[i] \in 1 .. n + len
    <2>1. CASE i <= l
        <3>1. i \in 1 .. l
            BY <1>2, <2>1
        <3>2. all[i] \in 1 .. n
            BY <1>2, <3>1
        <3> QED BY <3>2
    <2>2. CASE i > l
        BY <1>2, <2>2
    <2> QED BY <1>2, <2>1, <2>2
<1>5. ASSUME NEW i \in 1 .. l + len, NEW j \in 1 .. l + len, i < j PROVE all[i] < all[j]
    <2>1. CASE j <= l
        BY <1>2, <1>3, <1>5, <2>1
    <2>2. CASE i <= l /\ j > l
        <3>1. all[i] <= n /\ all[i] \in Int
            BY <1>2, <2>2
        <3>2. all[j] = n + (j - l) /\ j - l >= 1
            BY <1>2, <2>2
        <3> QED BY <1>2, <3>1, <3>2
    <2>3. CASE i > l /\ j > l
        BY <1>2, <1>5, <2>3
    <2> QED BY <1>2, <1>5, <2>1, <2>2, <2>3
<1> QED
    BY <1>1, <1>2, <1>4, <1>5 DEF Ordered, Increasing, all

\* Concatenation, as the proofs below use it.
LEMMA Concat ==
    \A s, t, u \in Seq(Nat) :
        /\ (s \o t) \o u = s \o (t \o u)
        /\ t \o u \in Seq(Nat) /\ Len(t \o u) = Len(t) + Len(u)
OBVIOUS

\* Taking the first k bytes from a queue.
LEMMA Split ==
    ASSUME NEW s \in Seq(Nat), NEW q \in Seq(Nat), NEW k \in 0 .. Len(q)
    PROVE  LET a == SubSeq(q, 1, k)  b == SubSeq(q, k + 1, Len(q)) IN
           /\ a \in Seq(Nat) /\ Len(a) = k /\ b \in Seq(Nat) /\ Len(b) = Len(q) - k
           /\ s \o a \in Seq(Nat) /\ (s \o a) \o b = s \o q
           /\ \A n \in Nat : Ordered(s \o q, n) => Ordered(s \o a, n)
<1> DEFINE a == SubSeq(q, 1, k)  b == SubSeq(q, k + 1, Len(q))
<1>1. Len(q) \in Nat /\ k \in Nat /\ k <= Len(q) /\ Len(s) \in Nat
    OBVIOUS
<1>2. /\ a \in Seq(Nat) /\ Len(a) = k /\ \A i \in 1 .. k : a[i] = q[i]
      /\ b \in Seq(Nat) /\ Len(b) = Len(q) - k /\ \A i \in 1 .. Len(q) - k : b[i] = q[k + i]
    BY <1>1
<1>3. a \o b = q
    <2> HIDE DEF a, b
    <2>1. /\ a \o b \in Seq(Nat) /\ Len(a \o b) = Len(a) + Len(b)
          /\ \A i \in 1 .. Len(a) + Len(b) : (a \o b)[i] = IF i <= Len(a) THEN a[i] ELSE b[i - Len(a)]
        BY <1>2, ConcatProperties
    <2> DEFINE y == a \o b  l == Len(q)
    <2>2. /\ y \in Seq(Nat) /\ Len(y) = l /\ l \in Nat /\ k <= l
          /\ \A i \in 1 .. l : y[i] = IF i <= k THEN a[i] ELSE b[i - k]
          /\ \A i \in 1 .. l - k : b[i] = q[k + i]
        BY <1>1, <1>2, <2>1
    <2> HIDE DEF y, l
    <2>3. ASSUME NEW i \in 1 .. l PROVE y[i] = q[i]
        <3>1. CASE i <= k
            BY <1>1, <1>2, <2>2, <3>1
        <3>2. CASE i > k
            <4>1. i - k \in 1 .. l - k /\ k + (i - k) = i
                BY <1>1, <2>2, <3>2
            <4>2. y[i] = b[i - k]
                BY <1>1, <2>2, <3>2
            <4> QED BY <2>2, <4>1, <4>2
        <3> QED BY <1>1, <2>2, <3>1, <3>2
    <2>4. y = q
        BY <2>2, <2>3 DEF l
    <2> QED BY <2>4 DEF y
<1> HIDE DEF a, b
<1>4. s \o a \in Seq(Nat) /\ (s \o a) \o b = s \o q
    <2>1. s \o a \in Seq(Nat)
        BY <1>2, ConcatProperties
    <2>2. (s \o a) \o b = s \o (a \o b)
        BY <1>2, Concat
    <2> QED BY <1>3, <2>1, <2>2
<1>5. ASSUME NEW n \in Nat, Ordered(s \o q, n) PROVE Ordered(s \o a, n)
    <2> DEFINE x == s \o a  z == s \o q
    <2>1. /\ Len(x) = Len(s) + Len(a)
          /\ \A i \in 1 .. Len(s) + Len(a) : x[i] = IF i <= Len(s) THEN s[i] ELSE a[i - Len(s)]
        BY <1>2, ConcatProperties
    <2>2. /\ Len(z) = Len(s) + Len(q)
          /\ \A i \in 1 .. Len(s) + Len(q) : z[i] = IF i <= Len(s) THEN s[i] ELSE q[i - Len(s)]
        BY ConcatProperties
    <2> DEFINE l == Len(s)  m == Len(q)
    <2>3. /\ l \in Nat /\ m \in Nat /\ k \in Nat /\ k <= m /\ Len(x) = l + k /\ Len(z) = l + m
          /\ \A i \in 1 .. l + k : x[i] = IF i <= l THEN s[i] ELSE a[i - l]
          /\ \A i \in 1 .. l + m : z[i] = IF i <= l THEN s[i] ELSE q[i - l]
        BY <1>1, <1>2, <2>1, <2>2
    <2> HIDE DEF x, z, l, m
    <2>4. ASSUME NEW i \in 1 .. l + k PROVE i \in 1 .. l + m /\ x[i] = z[i]
        <3>1. i \in 1 .. l + m
            BY <2>3
        <3>2. i <= l \/ i - l \in 1 .. k
            BY <2>3
        <3> QED BY <1>2, <2>3, <3>1, <3>2
    <2>5. Ordered(z, n)
        BY <1>5 DEF z
    <2>6. Ordered(x, n)
        BY <2>3, <2>4, <2>5 DEF Ordered, Increasing
    <2> QED BY <2>6 DEF x
<1> QED
    BY <1>2, <1>4, <1>5 DEF a, b

-----------------------------------------------------------------------------
(* The inductive invariant *)

Connection == [live : BOOLEAN, fd : Fd, size : {0, TX_BUF_SIZE}, tx_buf : Seq(Nat),
               sent : Seq(Nat), offered : 0 .. Offered]

Socket == [open : BOOLEAN, peer : {"open", "closed", "reset"},
           unread : 0 .. Unread, room : 0 .. Room, urgent : BOOLEAN]

Types ==
    /\ d \in Driver
    /\ sel \in [r : SUBSET Fd, w : SUBSET Fd, e : SUBSET Fd, accept : BOOLEAN]
    /\ stage \in {"idle", "next", "RX", "callback", "TX", "EX"} /\ cur \in Watcher
    /\ conn \in [Conn -> Connection]
    /\ writer \in [to : Conn, left : 0 .. Writes + 2]
    /\ sock \in [Fd -> Socket]
    /\ backlog \in 0 .. Backlog /\ crashed \in BOOLEAN

\* The watchers of live connections, and no others but the server's, are linked.
Linking ==
    /\ Joined(d)
    /\ \A c \in Conn : conn[c].live => {"RX", "EX"} \subseteq d.listening[c]
    /\ \A c \in Conn : ~conn[c].live => d.listening[c] = {}

\* What the stages of a round rely on.
Stages ==
    /\ stage = "idle" => d.run_list = <<>>
    /\ stage = "RX" => cur \in ToSet(d.watchers)
    /\ stage = "callback" => conn[writer.to].live

\* Live connections have the open sockets, one each.
Sockets ==
    /\ \A f \in Fd : sock[f].open => \E c \in Conn : conn[c].live /\ conn[c].fd = f
    /\ \A c \in Conn : conn[c].live => sock[conn[c].fd].open
    /\ \A b, c \in Conn : conn[b].live /\ conn[c].live /\ conn[b].fd = conn[c].fd => b = c

\* What select reported still holds when its turn comes.
ToRun(w) == w \in ToSet(d.run_list) \/ (w = cur /\ stage = "RX")

Ongoing(w) == w \in ToSet(d.run_list) \/ (w = cur /\ stage \in {"RX", "callback", "TX", "EX"})

HasInput(f) == sock[f].unread > 0 \/ sock[f].peer # "open"

Reports ==
    /\ sel.accept /\ ToRun(Server) => backlog > 0
    /\ \A c \in Conn : ToRun(c) /\ conn[c].fd \in sel.r => HasInput(conn[c].fd)
    /\ \A c \in Conn : Ongoing(c) /\ conn[c].live /\ conn[c].fd \in sel.e => sock[conn[c].fd].urgent

\* The queue of a connection has room for what it holds, which follows what was
\* sent.
Queued(cn) == Len(cn.tx_buf) <= cn.size /\ Ordered(cn.sent \o cn.tx_buf, cn.offered)

Queues == \A c \in Conn : Queued(conn[c])

IInv == Types /\ Linking /\ Stages /\ Sockets /\ Reports /\ Queues

-----------------------------------------------------------------------------
(* Streams *)

\* write takes no more than it is given and than the socket has room for.
LEMMA WriteTakes ==
    ASSUME Types, NEW f \in Fd, NEW len \in Nat
    PROVE  LET ret == write(f, len) IN
           ret \in Int /\ ret <= len /\ (ret > 0 => ret <= sock[f].room)
BY DEF Types, Socket, write, Min2

\* Some output of a connection goes to its queue or its socket.
Transfers ==
    /\ d' \in Driver /\ Joined(d') /\ ToSet(d'.run_list) \subseteq ToSet(d.run_list)
    /\ \A c \in Conn : /\ conn[c].live => {"RX", "EX"} \subseteq d'.listening[c]
                       /\ ~conn[c].live => d'.listening[c] = {}
    /\ conn' \in [Conn -> Connection]
    /\ \A c \in Conn : /\ conn'[c].live = conn[c].live /\ conn'[c].fd = conn[c].fd
                       /\ Queued(conn'[c])
    /\ sock' \in [Fd -> Socket]
    /\ \A f \in Fd : /\ sock'[f].open = sock[f].open /\ sock'[f].peer = sock[f].peer
                     /\ sock'[f].unread = sock[f].unread /\ sock'[f].urgent = sock[f].urgent

\* Its parts: the driver,
LEMMA TransfersDriver ==
    ASSUME Types, Linking, NEW c \in Conn, conn[c].live,
           d' \in {d, io_driver_watch(d, c, "TX"), io_driver_no_watch(d, c, "TX")}
    PROVE  /\ d' \in Driver /\ Joined(d') /\ ToSet(d'.run_list) \subseteq ToSet(d.run_list)
           /\ \A x \in Conn : /\ conn[x].live => {"RX", "EX"} \subseteq d'.listening[x]
                              /\ ~conn[x].live => d'.listening[x] = {}
<1>1. d \in Driver /\ Joined(d) /\ c \in Watcher /\ "TX" \in Event
    BY Constants DEF Types, Linking, Event
<1>2. /\ d.listening \in [Watcher -> SUBSET Event] /\ Conn \subseteq Watcher
      /\ \A x \in Conn : /\ conn[x].live => {"RX", "EX"} \subseteq d.listening[x]
                         /\ ~conn[x].live => d.listening[x] = {}
    BY <1>1, Constants DEF Driver, Linking
<1>3. CASE d' = d
    BY <1>1, <1>2, <1>3
<1>4. CASE d' = io_driver_watch(d, c, "TX")
    <2>1. /\ d' \in Driver /\ Joined(d') /\ d'.run_list = d.run_list
          /\ d'.listening = [d.listening EXCEPT ![c] = @ \cup {"TX"}]
        BY <1>1, <1>4, WatchKeeps
    <2> QED BY <1>2, <2>1
<1>5. CASE d' = io_driver_no_watch(d, c, "TX")
    <2>1. /\ d' \in Driver /\ Joined(d') /\ ToSet(d'.run_list) \subseteq ToSet(d.run_list)
          /\ d'.listening = [d.listening EXCEPT ![c] = @ \ {"TX"}]
        BY <1>1, <1>5, NoWatchKeeps
    <2> QED BY <1>2, <2>1
<1> QED
    BY <1>3, <1>4, <1>5

\* the connection,
LEMMA TransfersConn ==
    ASSUME Types, Queues, NEW c \in Conn, NEW cn \in Connection, Queued(cn),
           cn.live = conn[c].live, cn.fd = conn[c].fd, conn' = [conn EXCEPT ![c] = cn]
    PROVE  /\ conn' \in [Conn -> Connection]
           /\ \A x \in Conn : /\ conn'[x].live = conn[x].live /\ conn'[x].fd = conn[x].fd
                              /\ Queued(conn'[x])
<1>1. conn \in [Conn -> Connection]
    BY DEF Types
<1> QED
    BY <1>1 DEF Queues

\* and the socket.
LEMMA TransfersSock ==
    ASSUME Types, NEW f \in Fd, NEW n \in Nat, n <= sock[f].room,
           sock' = [sock EXCEPT ![f].room = @ - n]
    PROVE  /\ sock' \in [Fd -> Socket]
           /\ \A g \in Fd : /\ sock'[g].open = sock[g].open /\ sock'[g].peer = sock[g].peer
                            /\ sock'[g].unread = sock[g].unread /\ sock'[g].urgent = sock[g].urgent
<1>1. sock \in [Fd -> Socket] /\ Room \in Nat
    BY Constants DEF Types
<1>2. sock[f] \in Socket /\ sock[f].room \in 0 .. Room
    BY <1>1 DEF Socket
<1> DEFINE s == [sock[f] EXCEPT !.room = @ - n]
<1>3. /\ s \in Socket /\ s.open = sock[f].open /\ s.peer = sock[f].peer
      /\ s.unread = sock[f].unread /\ s.urgent = sock[f].urgent
    BY <1>1, <1>2 DEF Socket
<1>4. sock' = [sock EXCEPT ![f] = s]
    BY <1>1
<1> HIDE DEF s
<1> QED
    BY <1>1, <1>3, <1>4

\* A connection and its output, for the steps below.
LEMMA ConnFields ==
    ASSUME Types, Queues, NEW c \in Conn
    PROVE  /\ conn[c] \in Connection /\ conn[c].fd \in Fd
           /\ conn[c].tx_buf \in Seq(Nat) /\ conn[c].sent \in Seq(Nat)
           /\ conn[c].offered \in Nat /\ conn[c].offered <= Offered
           /\ conn[c].size \in Nat /\ Len(conn[c].tx_buf) <= conn[c].size
           /\ Ordered(conn[c].sent \o conn[c].tx_buf, conn[c].offered)
<1>1. conn[c] \in Connection
    BY DEF Types
<1> QED
    BY <1>1, Constants DEF Queues, Queued, Connection

\* A message waits behind the output queued up, or is dropped.
LEMMA WriteQueuedTransfers ==
    ASSUME Types, Linking, Queues, NEW c \in Conn, conn[c].live, NEW len \in Nat,
           conn[c].offered + len <= Offered, WriteQueued(c, Message(c, len))
    PROVE  Transfers
<1> DEFINE q == conn[c].tx_buf  s == conn[c].sent  n == conn[c].offered  data == Message(c, len)
           p == IF circ_buffer_put(c, q, data) THEN q \o data ELSE q
           cn == [conn[c] EXCEPT !.offered = n + len, !.tx_buf = p]
<1>1. /\ conn[c] \in Connection /\ q \in Seq(Nat) /\ s \in Seq(Nat) /\ n \in Nat /\ n + len \in 0 .. Offered
      /\ conn[c].size \in Nat /\ Len(q) <= conn[c].size /\ Ordered(s \o q, n) /\ conn[c].fd \in Fd
    BY ConnFields, Constants
<1>2. s \o q \in Seq(Nat) /\ data = [i \in 1 .. len |-> n + i]
    BY <1>1 DEF Message
<1>3. data \in Seq(Nat) /\ Len(data) = len /\ Ordered((s \o q) \o data, n + len) /\ Ordered(s \o q, n + len)
    <2> HIDE DEF s, q, n, data
    <2> DEFINE sq == s \o q
    <2>1. sq \in Seq(Nat) /\ Ordered(sq, n)
        BY <1>1, <1>2
    <2> HIDE DEF sq
    <2>2. data \in Seq(Nat) /\ Len(data) = len /\ Ordered(sq \o data, n + len)
        BY <1>1, <1>2, <2>1, OrderedMessage
    <2>3. Ordered(sq, n + len)
        BY <1>1, <2>1, OrderedMore
    <2> QED BY <2>2, <2>3 DEF sq
<1>4. conn' = [conn EXCEPT ![c] = cn] /\ d' = d /\ sock' = sock
    <2>1. conn' = [conn EXCEPT ![c].offered = @ + Len(data), ![c].tx_buf =
                    IF circ_buffer_put(c, @, data) THEN @ \o data ELSE @]
        BY DEF WriteQueued
    <2>2. Len(data) = len
        BY <1>3
    <2> HIDE DEF data
    <2> QED BY <1>1, <2>1, <2>2 DEF WriteQueued, Types, Connection
<1>5. p \in Seq(Nat) /\ Len(p) <= conn[c].size /\ Ordered(s \o p, n + len)
    <2>1. circ_buffer_put(c, q, data) <=> Len(q) + Len(data) <= conn[c].size
        BY DEF circ_buffer_put
    <2> HIDE DEF s, q, n, data
    <2>2. (s \o q) \o data = s \o (q \o data)
        BY <1>1, <1>3, Concat
    <2>3. q \o data \in Seq(Nat) /\ Len(q \o data) = Len(q) + Len(data)
        BY <1>1, <1>3, Concat
    <2>4. CASE circ_buffer_put(c, q, data)
        BY <1>3, <2>1, <2>2, <2>3, <2>4
    <2>5. CASE ~circ_buffer_put(c, q, data)
        BY <1>1, <1>3, <2>5
    <2> QED BY <2>4, <2>5
<1> HIDE DEF p
<1>6. /\ cn \in Connection /\ cn.live = conn[c].live /\ cn.fd = conn[c].fd /\ cn.size = conn[c].size
      /\ cn.sent = s /\ cn.tx_buf = p /\ cn.offered = n + len
    BY <1>1, <1>5 DEF Connection
<1> HIDE DEF cn
<1>7. Queued(cn)
    BY <1>5, <1>6 DEF Queued
<1>8. /\ conn' \in [Conn -> Connection]
      /\ \A x \in Conn : /\ conn'[x].live = conn[x].live /\ conn'[x].fd = conn[x].fd
                         /\ Queued(conn'[x])
    BY <1>4, <1>6, <1>7, TransfersConn
<1>9. /\ d' \in Driver /\ Joined(d') /\ ToSet(d'.run_list) \subseteq ToSet(d.run_list)
      /\ \A x \in Conn : /\ conn[x].live => {"RX", "EX"} \subseteq d'.listening[x]
                         /\ ~conn[x].live => d'.listening[x] = {}
    BY <1>4, TransfersDriver
<1> QED
    BY <1>4, <1>8, <1>9 DEF Transfers, Types

\* A message goes to the socket as far as it has room, and the rest to the queue
\* or nowhere.
LEMMA WriteNowTransfers ==
    ASSUME Types, Linking, Queues, NEW c \in Conn, conn[c].live, NEW len \in Nat,
           conn[c].offered + len <= Offered, WriteNow(c, Message(c, len))
    PROVE  Transfers
<1> DEFINE s == conn[c].sent  n == conn[c].offered  data == Message(c, len)  f == conn[c].fd
           ret == write(f, Len(data))
           took == IF ret < 0 THEN 0 ELSE ret
           part == SubSeq(data, 1, took)
           rest == SubSeq(data, took + 1, Len(data))
           full == ~circ_buffer_put(c, <<>>, rest)
           p == IF ret = -2 \/ full THEN <<>> ELSE rest
           cn == [conn[c] EXCEPT !.offered = n + len, !.sent = s \o part, !.tx_buf = p]
<1>1. /\ conn[c] \in Connection /\ s \in Seq(Nat) /\ n \in Nat /\ n + len \in 0 .. Offered
      /\ conn[c].size \in Nat /\ Ordered(s \o conn[c].tx_buf, n) /\ f \in Fd
    BY ConnFields, Constants
<1>2. conn[c].tx_buf = <<>> /\ s \o <<>> = s
    BY <1>1 DEF WriteNow
<1>3. Ordered(s, n) /\ data = [i \in 1 .. len |-> n + i]
    BY <1>1, <1>2 DEF Message
<1>4. data \in Seq(Nat) /\ Len(data) = len /\ Ordered(s \o data, n + len)
    <2> HIDE DEF s, n, data
    <2> QED BY <1>1, <1>3, OrderedMessage
<1>5. took \in 0 .. Len(data) /\ took <= sock[f].room
    <2>1. ret \in Int /\ ret <= Len(data) /\ (ret > 0 => ret <= sock[f].room)
        <3> HIDE DEF data, f
        <3> QED BY <1>1, <1>4, WriteTakes
    <2>2. sock[f].room \in Nat
        <3>1. \A x \in Socket : x.room \in Nat
            BY Constants DEF Socket
        <3> HIDE DEF f
        <3>2. sock[f] \in Socket
            BY <1>1 DEF Types
        <3> QED BY <3>1, <3>2
    <2> HIDE DEF ret
    <2> QED BY <1>4, <2>1, <2>2
<1>6. /\ conn' = [conn EXCEPT ![c] = cn]
      /\ sock' = [sock EXCEPT ![f].room = @ - took]
      /\ d' \in {d, io_driver_watch(d, c, "TX")}
    <2>1. /\ conn' = [conn EXCEPT ![c].offered = @ + Len(data), ![c].sent = @ \o part, ![c].tx_buf = p]
          /\ sock' = [sock EXCEPT ![f].room = @ - took]
          /\ d' = IF ret # -2 /\ ret # Len(data) /\ full THEN io_driver_watch(d, c, "TX") ELSE d
        BY DEF WriteNow
    <2>2. Len(data) = len
        BY <1>4
    <2> HIDE DEF data, part, p, took, ret, full, f
    <2>3. conn' = [conn EXCEPT ![c] = cn]
        BY <1>1, <2>1, <2>2 DEF Types, Connection
    <2> QED BY <2>1, <2>3
<1>7. full <=> ~(Len(rest) <= conn[c].size)
    <2>1. circ_buffer_put(c, <<>>, rest) <=> Len(<<>>) + Len(rest) <= conn[c].size
        BY DEF circ_buffer_put
    <2>2. Len(rest) \in Nat
        <3> HIDE DEF data, took
        <3> QED BY <1>4, <1>5
    <2> HIDE DEF rest
    <2> QED BY <2>1, <2>2
<1>8. /\ part \in Seq(Nat) /\ rest \in Seq(Nat) /\ s \o part \in Seq(Nat)
      /\ (s \o part) \o rest = s \o data /\ Ordered(s \o part, n + len)
    <2>1. n + len \in Nat
        BY <1>1
    <2> HIDE DEF s, n, data, took
    <2> QED BY <1>1, <1>4, <1>5, <2>1, Split
<1>9. p \in Seq(Nat) /\ Len(p) <= conn[c].size /\ Ordered((s \o part) \o p, n + len)
    <2>1. CASE ret = -2 \/ full
        <3>1. p = <<>>
            BY <2>1
        <3> DEFINE sp == s \o part
        <3>2. sp \in Seq(Nat) /\ Ordered(sp, n + len)
            BY <1>8
        <3> HIDE DEF sp, p
        <3>3. sp \o <<>> = sp
            BY <3>2
        <3>4. p \in Seq(Nat) /\ Len(p) = 0 /\ Ordered(sp \o p, n + len)
            BY <3>1, <3>2, <3>3
        <3> QED BY <1>1, <3>4 DEF sp
    <2>2. CASE ~(ret = -2 \/ full)
        <3>1. p = rest
            BY <2>2
        <3> HIDE DEF p, rest, part, data, ret, full
        <3> QED BY <1>4, <1>7, <1>8, <2>2, <3>1
    <2> QED BY <2>1, <2>2
<1> HIDE DEF p, part, took
<1>10. /\ cn \in Connection /\ cn.live = conn[c].live /\ cn.fd = conn[c].fd /\ cn.size = conn[c].size
       /\ cn.sent = s \o part /\ cn.tx_buf = p /\ cn.offered = n + len
    BY <1>1, <1>8, <1>9 DEF Connection
<1> HIDE DEF cn
<1>11. Queued(cn)
    BY <1>9, <1>10 DEF Queued
<1>12. /\ conn' \in [Conn -> Connection]
       /\ \A x \in Conn : /\ conn'[x].live = conn[x].live /\ conn'[x].fd = conn[x].fd
                          /\ Queued(conn'[x])
    BY <1>6, <1>10, <1>11, TransfersConn
<1>13. /\ d' \in Driver /\ Joined(d') /\ ToSet(d'.run_list) \subseteq ToSet(d.run_list)
       /\ \A x \in Conn : /\ conn[x].live => {"RX", "EX"} \subseteq d'.listening[x]
                          /\ ~conn[x].live => d'.listening[x] = {}
    <2>1. d' \in {d, io_driver_watch(d, c, "TX"), io_driver_no_watch(d, c, "TX")}
        BY <1>6
    <2> QED BY <2>1, TransfersDriver
<1>14. /\ sock' \in [Fd -> Socket]
       /\ \A g \in Fd : /\ sock'[g].open = sock[g].open /\ sock'[g].peer = sock[g].peer
                        /\ sock'[g].unread = sock[g].unread /\ sock'[g].urgent = sock[g].urgent
    <2>1. took \in Nat /\ took <= sock[f].room
        BY <1>4, <1>5
    <2> HIDE DEF f
    <2> QED BY <1>1, <1>6, <2>1, TransfersSock
<1> QED
    BY <1>12, <1>13, <1>14 DEF Transfers

\* The TX event moves the head of the queue to the socket.
LEMMA TxEventTransfers ==
    ASSUME Types, Linking, Queues, NEW c \in Conn, conn[c].live, stream_handle_tx_event(c)
    PROVE  Transfers /\ crashed' \in BOOLEAN
<1> DEFINE q == conn[c].tx_buf  s == conn[c].sent  n == conn[c].offered  f == conn[c].fd
           len == Min2(Len(q), CHUNK)
           ret == write(f, len)
           part == SubSeq(q, 1, ret)
           rest == SubSeq(q, ret + 1, Len(q))
           cn == [conn[c] EXCEPT !.sent = s \o part, !.tx_buf = rest]
<1>1. /\ conn[c] \in Connection /\ q \in Seq(Nat) /\ s \in Seq(Nat) /\ n \in Nat /\ f \in Fd
      /\ conn[c].size \in Nat /\ Len(q) <= conn[c].size /\ Ordered(s \o q, n)
    BY ConnFields
<1>2. \/ UNCHANGED <<conn, sock>> /\ d' = io_driver_no_watch(d, c, "TX") /\ crashed' \in {crashed, TRUE}
      \/ /\ ret > 0
         /\ conn' = [conn EXCEPT ![c].sent = @ \o part, ![c].tx_buf = rest]
         /\ sock' = [sock EXCEPT ![f].room = @ - ret]
         /\ d' \in {d, io_driver_no_watch(d, c, "TX")} /\ crashed' = crashed
    BY DEF stream_handle_tx_event
<1> HIDE DEF q, s, n, f, len, ret, part, rest, cn
<1>3. /\ d' \in Driver /\ Joined(d') /\ ToSet(d'.run_list) \subseteq ToSet(d.run_list)
      /\ \A x \in Conn : /\ conn[x].live => {"RX", "EX"} \subseteq d'.listening[x]
                         /\ ~conn[x].live => d'.listening[x] = {}
    <2>1. d' \in {d, io_driver_watch(d, c, "TX"), io_driver_no_watch(d, c, "TX")}
        BY <1>2
    <2> QED BY <2>1, TransfersDriver
<1>4. crashed' \in BOOLEAN
    BY <1>2 DEF Types
<1>5. CASE UNCHANGED <<conn, sock>>
    BY <1>3, <1>4, <1>5 DEF Transfers, Types, Queues
<1>6. CASE /\ ret > 0
           /\ conn' = [conn EXCEPT ![c].sent = @ \o part, ![c].tx_buf = rest]
           /\ sock' = [sock EXCEPT ![f].room = @ - ret]
    <2>1. ret \in 0 .. Len(q) /\ ret \in Nat /\ ret <= sock[f].room
        <3>1. len \in Nat /\ len <= Len(q) /\ Len(q) \in Nat
            BY <1>1, Constants DEF len, Min2
        <3>2. ret \in Int /\ ret <= len /\ (ret > 0 => ret <= sock[f].room)
            BY <1>1, <3>1, WriteTakes DEF ret
        <3> QED BY <1>6, <3>1, <3>2
    <2>2. /\ part \in Seq(Nat) /\ rest \in Seq(Nat) /\ s \o part \in Seq(Nat)
          /\ Len(rest) = Len(q) - ret /\ (s \o part) \o rest = s \o q
        BY <1>1, <2>1, Split DEF part, rest
    <2>3. Len(rest) <= conn[c].size
        <3>1. Len(q) \in Nat
            BY <1>1
        <3> QED BY <1>1, <2>1, <2>2, <3>1
    <2>4. conn' = [conn EXCEPT ![c] = cn]
        BY <1>1, <1>6 DEF Types, Connection, cn, s
    <2>5. /\ cn \in Connection /\ cn.live = conn[c].live /\ cn.fd = conn[c].fd /\ cn.size = conn[c].size
          /\ cn.sent = s \o part /\ cn.tx_buf = rest /\ cn.offered = n
        BY <1>1, <2>2 DEF Connection, cn, n
    <2>6. Queued(cn)
        BY <1>1, <2>2, <2>3, <2>5 DEF Queued
    <2>7. /\ conn' \in [Conn -> Connection]
          /\ \A x \in Conn : /\ conn'[x].live = conn[x].live /\ conn'[x].fd = conn[x].fd
                             /\ Queued(conn'[x])
        BY <2>4, <2>5, <2>6, TransfersConn
    <2>8. /\ sock' \in [Fd -> Socket]
          /\ \A g \in Fd : /\ sock'[g].open = sock[g].open /\ sock'[g].peer = sock[g].peer
                           /\ sock'[g].unread = sock[g].unread /\ sock'[g].urgent = sock[g].urgent
        BY <1>1, <1>6, <2>1, TransfersSock
    <2> QED BY <1>3, <1>4, <2>7, <2>8 DEF Transfers
<1> QED
    BY <1>2, <1>5, <1>6

\* A connection ends: its watcher is unlinked, its socket closed; the others
\* and their sockets stay as they are.
LEMMA EndKeeps ==
    ASSUME Types, Linking, Sockets, Queues, NEW c \in Conn, conn[c].live, dealloc_cli_connection(c)
    PROVE  /\ d' \in Driver /\ conn' \in [Conn -> Connection] /\ sock' \in [Fd -> Socket]
           /\ Linking' /\ Sockets' /\ Queues'
           /\ ToSet(d'.run_list) \subseteq ToSet(d.run_list) /\ c \notin ToSet(d'.run_list)
           /\ conn'[c].live = FALSE
           /\ \A x \in Conn \ {c} : /\ conn'[x] = conn[x]
                                    /\ conn[x].live => sock'[conn[x].fd] = sock[conn[x].fd]
<1> DEFINE d1 == io_driver_no_watch(d, c, "RX")
           d2 == io_driver_no_watch(d1, c, "TX")
           f == conn[c].fd
           cn == [conn[c] EXCEPT !.live = FALSE, !.size = 0, !.tx_buf = <<>>, !.sent = <<>>, !.offered = 0]
<1>1. /\ d' = io_driver_no_watch(d2, c, "EX") /\ sock' = [sock EXCEPT ![f] = NoSock]
      /\ conn' = [conn EXCEPT ![c] = cn]
    BY DEF dealloc_cli_connection, stream_deinit, Types, Connection
<1>2. /\ d \in Driver /\ Joined(d) /\ c \in Watcher /\ Event = {"RX", "TX", "EX"}
      /\ conn \in [Conn -> Connection] /\ sock \in [Fd -> Socket] /\ conn[c] \in Connection /\ f \in Fd
    BY Constants, ConnFields DEF Types, Linking, Event
<1>3. /\ d.listening \in [Watcher -> SUBSET Event] /\ Conn \subseteq Watcher
    BY <1>2, Constants DEF Driver
<1>4. /\ d1 \in Driver /\ Joined(d1) /\ ToSet(d1.run_list) \subseteq ToSet(d.run_list)
      /\ d1.listening = [d.listening EXCEPT ![c] = @ \ {"RX"}]
    BY <1>2, NoWatchKeeps
<1> HIDE DEF d1
<1>5. /\ d2 \in Driver /\ Joined(d2) /\ ToSet(d2.run_list) \subseteq ToSet(d1.run_list)
      /\ d2.listening = [d1.listening EXCEPT ![c] = @ \ {"TX"}]
    BY <1>2, <1>4, NoWatchKeeps
<1> HIDE DEF d2
<1>6. /\ d' \in Driver /\ Joined(d') /\ ToSet(d'.run_list) \subseteq ToSet(d2.run_list)
      /\ d'.listening = [d2.listening EXCEPT ![c] = @ \ {"EX"}]
    BY <1>1, <1>2, <1>5, NoWatchKeeps
<1>7. d'.listening = [d.listening EXCEPT ![c] = {}]
    <2> DEFINE l == d.listening  l1 == d1.listening  l2 == d2.listening  l3 == d'.listening
    <2>1. l \in [Watcher -> SUBSET {"RX", "TX", "EX"}] /\ c \in Watcher
        BY <1>2, <1>3
    <2>2. /\ l1 = [l EXCEPT ![c] = @ \ {"RX"}] /\ l2 = [l1 EXCEPT ![c] = @ \ {"TX"}]
          /\ l3 = [l2 EXCEPT ![c] = @ \ {"EX"}]
        BY <1>4, <1>5, <1>6
    <2> HIDE DEF l, l1, l2, l3
    <2>3. l3 = [l EXCEPT ![c] = ((l[c] \ {"RX"}) \ {"TX"}) \ {"EX"}]
        BY <2>1, <2>2
    <2>4. ((l[c] \ {"RX"}) \ {"TX"}) \ {"EX"} = {}
        BY <2>1
    <2>5. l3 = [l EXCEPT ![c] = {}]
        BY <2>3, <2>4
    <2> QED BY <2>5 DEF l, l3
<1>8. c \notin ToSet(d'.run_list)
    BY <1>2, <1>3, <1>6, <1>7 DEF Joined
<1>9. /\ cn \in Connection /\ cn.live = FALSE /\ Queued(cn)
    <2>1. /\ cn \in Connection /\ cn.live = FALSE /\ cn.size = 0 /\ cn.tx_buf = <<>> /\ cn.sent = <<>>
          /\ cn.offered = 0
        <3>1. <<>> \in Seq(Nat) /\ 0 \in 0 .. Offered /\ FALSE \in BOOLEAN
            BY Constants
        <3> DEFINE e == <<>>
        <3> HIDE DEF e, f
        <3> QED BY <1>2, <3>1 DEF Connection, e
    <2>2. Len(<<>>) = 0 /\ <<>> \o <<>> = <<>>
        OBVIOUS
    <2>3. Ordered(<<>>, 0)
        BY DEF Ordered, Increasing
    <2> HIDE DEF cn
    <2> QED BY <2>1, <2>2, <2>3 DEF Queued
<1>10. NoSock \in Socket /\ NoSock.open = FALSE
    BY Constants DEF NoSock, Socket
<1> HIDE DEF cn
<1>11. /\ conn' \in [Conn -> Connection] /\ sock' \in [Fd -> Socket] /\ conn'[c] = cn
       /\ \A x \in Conn \ {c} : conn'[x] = conn[x]
    BY <1>1, <1>2, <1>9, <1>10
<1>12. Queues'
    <2>1. \A x \in Conn : Queued(conn'[x])
        BY <1>9, <1>11 DEF Queues
    <2> QED BY <2>1 DEF Queues, Queued
<1>13. Linking'
    BY <1>2, <1>3, <1>6, <1>7, <1>9, <1>11 DEF Linking
<1>14. \A x \in Conn \ {c} : conn[x].live => conn[x].fd # f
    BY DEF Sockets
<1>15. /\ \A x \in Conn \ {c} : conn[x].live => sock'[conn[x].fd] = sock[conn[x].fd]
       /\ \A g \in Fd \ {f} : sock'[g] = sock[g]
       /\ sock'[f].open = FALSE
    <2>1. \A x \in Conn : conn[x].fd \in Fd
        BY <1>2 DEF Connection
    <2> HIDE DEF f
    <2> QED BY <1>1, <1>2, <1>10, <1>14, <2>1
<1>16. Sockets'
    <2>1. \A g \in Fd : sock'[g].open => \E x \in Conn : conn'[x].live /\ conn'[x].fd = g
        <3> SUFFICES ASSUME NEW g \in Fd, sock'[g].open
                     PROVE  \E x \in Conn : conn'[x].live /\ conn'[x].fd = g
            OBVIOUS
        <3>1. g # f /\ sock[g].open
            BY <1>15
        <3>2. PICK x \in Conn : conn[x].live /\ conn[x].fd = g
            BY <3>1 DEF Sockets
        <3> QED BY <1>11, <3>1, <3>2
    <2>2. \A x \in Conn : conn'[x].live => x # c
        BY <1>9, <1>11
    <2> QED BY <1>11, <1>15, <2>1, <2>2 DEF Sockets
<1> QED
    BY <1>4, <1>5, <1>6, <1>8, <1>9, <1>11, <1>12, <1>13, <1>15, <1>16

\* A connection begins: memory and descriptor were free, and the watcher is
\* linked outside of the round in progress.
Begins(newsd, c, size) ==
    /\ conn' = [conn EXCEPT ![c] = [live |-> TRUE, fd |-> newsd, size |-> size,
                                    tx_buf |-> <<>>, sent |-> <<>>, offered |-> 0]]
    /\ d' = stream_init_with_fd(d, c)
    /\ sock' = [sock EXCEPT ![newsd].open = TRUE]

LEMMA BeginKeeps ==
    ASSUME Types, Linking, Sockets, Queues, NEW newsd \in Fd, ~sock[newsd].open,
           NEW c \in Conn, ~conn[c].live, NEW size \in {0, TX_BUF_SIZE}, Begins(newsd, c, size)
    PROVE  /\ d' \in Driver /\ conn' \in [Conn -> Connection] /\ sock' \in [Fd -> Socket]
           /\ Linking' /\ Sockets' /\ Queues'
           /\ d'.run_list = d.run_list /\ c \notin ToSet(d.run_list)
           /\ conn'[c].live = TRUE
           /\ \A x \in Conn \ {c} : /\ conn'[x] = conn[x]
                                    /\ conn[x].live => sock'[conn[x].fd] = sock[conn[x].fd]
<1> DEFINE d1 == io_driver_watch(d, c, "RX")
           cn == [live |-> TRUE, fd |-> newsd, size |-> size,
                  tx_buf |-> <<>>, sent |-> <<>>, offered |-> 0]
           s == [sock[newsd] EXCEPT !.open = TRUE]
<1>1. /\ d \in Driver /\ Joined(d) /\ c \in Watcher /\ Event = {"RX", "TX", "EX"}
      /\ conn \in [Conn -> Connection] /\ sock \in [Fd -> Socket]
      /\ d.listening \in [Watcher -> SUBSET Event] /\ Conn \subseteq Watcher
    BY Constants DEF Types, Linking, Event, Driver
<1>2. d' = io_driver_watch(d1, c, "EX")
    BY DEF Begins, stream_init_with_fd
<1>3. /\ d1 \in Driver /\ Joined(d1) /\ d1.run_list = d.run_list
      /\ d1.listening = [d.listening EXCEPT ![c] = @ \cup {"RX"}]
    BY <1>1, WatchKeeps
<1> HIDE DEF d1
<1>4. /\ d' \in Driver /\ Joined(d') /\ d'.run_list = d1.run_list
      /\ d'.listening = [d1.listening EXCEPT ![c] = @ \cup {"EX"}]
    BY <1>1, <1>2, <1>3, WatchKeeps
<1>5. /\ {"RX", "EX"} \subseteq d'.listening[c]
      /\ \A x \in Watcher \ {c} : d'.listening[x] = d.listening[x]
    BY <1>1, <1>3, <1>4
<1>6. c \notin ToSet(d.run_list)
    BY <1>1 DEF Linking, Joined
<1>7. cn \in Connection /\ cn.live = TRUE /\ cn.fd = newsd /\ Queued(cn)
    <2>1. <<>> \in Seq(Nat) /\ 0 \in 0 .. Offered /\ TRUE \in BOOLEAN
        BY Constants
    <2>2. cn \in Connection /\ cn.live = TRUE /\ cn.fd = newsd
        BY <2>1 DEF Connection
    <2>3. cn.tx_buf = <<>> /\ cn.sent = <<>> /\ cn.offered = 0 /\ cn.size = size /\ size \in Nat
        BY Constants
    <2>4. Len(<<>>) = 0 /\ <<>> \o <<>> = <<>>
        OBVIOUS
    <2>5. Ordered(<<>>, 0)
        BY DEF Ordered, Increasing
    <2> HIDE DEF cn
    <2> QED BY <2>2, <2>3, <2>4, <2>5 DEF Queued
<1>8. s \in Socket /\ s.open = TRUE
    BY <1>1 DEF Socket
<1>9. conn' = [conn EXCEPT ![c] = cn] /\ sock' = [sock EXCEPT ![newsd] = s]
    BY <1>1 DEF Begins
<1> HIDE DEF cn, s
<1>10. /\ conn' \in [Conn -> Connection] /\ sock' \in [Fd -> Socket]
       /\ conn'[c] = cn /\ sock'[newsd] = s
       /\ \A x \in Conn \ {c} : conn'[x] = conn[x]
       /\ \A g \in Fd \ {newsd} : sock'[g] = sock[g]
    BY <1>1, <1>7, <1>8, <1>9
<1>11. Queues'
    <2>1. \A x \in Conn : Queued(conn'[x])
        BY <1>7, <1>10 DEF Queues
    <2> QED BY <2>1 DEF Queues, Queued
<1>12. Linking'
    BY <1>1, <1>4, <1>5, <1>7, <1>10 DEF Linking
<1>13. \A x \in Conn \ {c} : conn[x].live => conn[x].fd \in Fd \ {newsd}
    BY <1>1 DEF Sockets, Connection
<1>14. Sockets'
    <2>1. \A g \in Fd : sock'[g].open => \E x \in Conn : conn'[x].live /\ conn'[x].fd = g
        <3> SUFFICES ASSUME NEW g \in Fd, sock'[g].open
                     PROVE  \E x \in Conn : conn'[x].live /\ conn'[x].fd = g
            OBVIOUS
        <3>1. CASE g = newsd
            BY <1>7, <1>10, <3>1
        <3>2. CASE g # newsd
            <4>1. sock[g].open
                BY <1>10, <3>2
            <4>2. PICK x \in Conn : conn[x].live /\ conn[x].fd = g
                BY <4>1 DEF Sockets
            <4> QED BY <1>10, <4>2
        <3> QED BY <3>1, <3>2
    <2>2. \A x \in Conn : conn'[x].live => sock'[conn'[x].fd].open
        BY <1>7, <1>8, <1>10, <1>13 DEF Sockets
    <2>3. \A b, x \in Conn : conn'[b].live /\ conn'[x].live /\ conn'[b].fd = conn'[x].fd => b = x
        BY <1>7, <1>10, <1>13 DEF Sockets
    <2> QED BY <2>1, <2>2, <2>3 DEF Sockets
<1> QED
    BY <1>3, <1>4, <1>6, <1>7, <1>10, <1>11, <1>12, <1>13, <1>14

-----------------------------------------------------------------------------
(* The steps *)

\* Output disturbs nothing else.
LEMMA TransfersKeep ==
    ASSUME IInv, Transfers
    PROVE  /\ Linking' /\ Sockets' /\ Queues'
           /\ \A c \in Conn : /\ conn'[c].fd = conn[c].fd /\ conn[c].fd \in Fd
                              /\ conn'[c].live = conn[c].live
<1>1. \A c \in Conn : /\ conn'[c].live = conn[c].live /\ conn'[c].fd = conn[c].fd
                      /\ conn[c].fd \in Fd /\ Queued(conn'[c])
    <2>1. \A c \in Conn : conn[c].fd \in Fd
        BY DEF IInv, Types, Connection
    <2> QED BY <2>1 DEF Transfers
<1>2. \A f \in Fd : sock'[f].open = sock[f].open
    BY DEF Transfers
<1>3. Queues'
    BY <1>1 DEF Queues, Queued
<1>4. Linking'
    BY <1>1 DEF Transfers, Linking
<1>5. Sockets'
    BY <1>1, <1>2 DEF IInv, Sockets
<1> QED
    BY <1>1, <1>3, <1>4, <1>5

\* The reports after a step that takes nothing from a socket and brings no
\* watcher back to an earlier stage.
LEMMA ReportsKept ==
    ASSUME IInv, sel' = sel, backlog' = backlog,
           \A w \in Watcher : (ToRun(w)' => ToRun(w)) /\ (Ongoing(w)' => Ongoing(w)),
           \A c \in Conn : /\ conn'[c].fd = conn[c].fd /\ conn'[c].live = conn[c].live
                           /\ HasInput(conn[c].fd) => HasInput(conn[c].fd)'
                           /\ sock[conn[c].fd].urgent => sock'[conn[c].fd].urgent
    PROVE  Reports'
<1>1. Server \in Watcher /\ Conn \subseteq Watcher
    BY Constants
<1>2. (sel.accept /\ ToRun(Server) => backlog > 0)'
    BY <1>1 DEF IInv, Reports
<1>3. ASSUME NEW c \in Conn
      PROVE  /\ (ToRun(c) /\ conn[c].fd \in sel.r => HasInput(conn[c].fd))'
             /\ (Ongoing(c) /\ conn[c].live /\ conn[c].fd \in sel.e => sock[conn[c].fd].urgent)'
    <2>1. (ToRun(c)' => ToRun(c)) /\ (Ongoing(c)' => Ongoing(c))
        BY <1>1
    <2>2. /\ ToRun(c) /\ conn[c].fd \in sel.r => HasInput(conn[c].fd)
          /\ Ongoing(c) /\ conn[c].live /\ conn[c].fd \in sel.e => sock[conn[c].fd].urgent
        BY DEF IInv, Reports
    <2> QED BY <2>1, <2>2
<1> QED
    BY <1>2, <1>3 DEF Reports

\* The invariant holds at the start.
LEMMA InitInv == Init => IInv
<1> SUFFICES ASSUME Init PROVE IInv
    OBVIOUS
<1> DEFINE e == io_driver_init
<1>1. e \in Driver /\ Joined(e) /\ e.run_list = <<>> /\ e.listening = [w \in Watcher |-> {}]
    <2>1. e \in Driver
        BY DEF io_driver_init, Driver
    <2>2. e.watchers = <<>> /\ e.run_list = <<>> /\ e.listening = [w \in Watcher |-> {}]
        BY DEF io_driver_init
    <2>3. ToSet(<<>>) = {} /\ IsInjective(<<>>)
        BY DEF ToSet, IsInjective
    <2> HIDE DEF e
    <2> QED BY <2>1, <2>2, <2>3 DEF Joined
<1> HIDE DEF e
<1>2. /\ d \in Driver /\ Joined(d) /\ d.run_list = <<>>
      /\ d.listening = [e.listening EXCEPT ![Server] = @ \cup {"RX"}]
    <2>1. Server \in Watcher /\ "RX" \in Event /\ d = io_driver_watch(e, Server, "RX")
        BY Constants DEF Init, Event, e
    <2> DEFINE a == io_driver_watch(e, Server, "RX")
    <2>2. /\ a \in Driver /\ Joined(a) /\ a.run_list = e.run_list
          /\ a.listening = [e.listening EXCEPT ![Server] = @ \cup {"RX"}]
        <3>1. e \in Driver /\ Joined(e) /\ Server \in Watcher /\ "RX" \in Event
            BY <1>1, <2>1
        <3> QED BY <3>1, WatchKeeps
    <2> HIDE DEF a
    <2>3. d = a
        BY <2>1 DEF a
    <2> QED BY <1>1, <2>2, <2>3
<1>3. \A c \in Conn : d.listening[c] = {}
    BY <1>1, <1>2, Constants
<1> DEFINE cn == [live |-> FALSE, fd |-> CHOOSE f \in Fd : TRUE, size |-> 0,
                  tx_buf |-> <<>>, sent |-> <<>>, offered |-> 0]
<1>4. cn \in Connection /\ Queued(cn) /\ cn.live = FALSE
    <2>1. /\ <<>> \in Seq(Nat) /\ 0 \in 0 .. Offered /\ FALSE \in BOOLEAN
          /\ (CHOOSE f \in Fd : TRUE) \in Fd
        BY Constants
    <2>2. cn \in Connection /\ cn.live = FALSE
        BY <2>1 DEF Connection
    <2>3. cn.tx_buf = <<>> /\ cn.sent = <<>> /\ cn.offered = 0 /\ cn.size = 0
        OBVIOUS
    <2>4. Len(<<>>) = 0 /\ <<>> \o <<>> = <<>>
        OBVIOUS
    <2>5. Ordered(<<>>, 0)
        BY DEF Ordered, Increasing
    <2> HIDE DEF cn
    <2> QED BY <2>2, <2>3, <2>4, <2>5 DEF Queued
<1>5. NoSock \in Socket /\ NoSock.open = FALSE
    BY Constants DEF NoSock, Socket
<1>6. conn = [c \in Conn |-> cn] /\ sock = [f \in Fd |-> NoSock]
    BY DEF Init
<1> HIDE DEF cn
<1>7. /\ conn \in [Conn -> Connection] /\ sock \in [Fd -> Socket]
      /\ \A c \in Conn : conn[c] = cn
      /\ \A f \in Fd : sock[f] = NoSock
    BY <1>4, <1>5, <1>6
<1>8. Types
    <2>1. writer \in [to : Conn, left : 0 .. Writes + 2]
        <3>1. writer \in [to : Conn, left : {0}] /\ 0 \in 0 .. Writes + 2
            BY Constants DEF Init
        <3> QED BY <3>1
    <2>2. sel \in [r : SUBSET Fd, w : SUBSET Fd, e : SUBSET Fd, accept : BOOLEAN]
        BY DEF Init, NothingReported
    <2>3. stage = "idle" /\ cur \in Watcher /\ backlog \in 0 .. Backlog /\ crashed \in BOOLEAN
        <3>1. 0 \in 0 .. Backlog /\ Server \in Watcher /\ FALSE \in BOOLEAN
            BY Constants
        <3>2. stage = "idle" /\ cur = Server /\ backlog = 0 /\ crashed = FALSE
            BY DEF Init
        <3> QED BY <3>1, <3>2
    <2> QED BY <1>2, <1>7, <2>1, <2>2, <2>3 DEF Types
<1>9. Linking /\ Queues /\ Sockets
    BY <1>2, <1>3, <1>4, <1>5, <1>7 DEF Linking, Queues, Sockets
<1>10. Stages /\ Reports
    <2>1. stage = "idle" /\ sel = NothingReported
        BY DEF Init
    <2>2. sel.accept = FALSE /\ sel.r = {} /\ sel.e = {}
        BY <2>1 DEF NothingReported
    <2> QED BY <1>2, <2>1, <2>2 DEF Stages, Reports
<1> QED
    BY <1>8, <1>9, <1>10 DEF IInv

\* A connection waits for accept.
LEMMA ConnectKeeps ==
    ASSUME IInv, Connect
    PROVE  IInv'
<1>1. /\ backlog \in 0 .. Backlog /\ backlog < Backlog /\ backlog' = backlog + 1
      /\ UNCHANGED <<d, sel, stage, cur, conn, writer, sock, crashed>> /\ Backlog \in Nat
    BY Constants DEF Connect, IInv, Types
<1>2. backlog' \in 0 .. Backlog /\ backlog' > 0
    BY <1>1
<1>3. Types'
    BY <1>1, <1>2 DEF IInv, Types
<1>4. Linking' /\ Stages' /\ Sockets' /\ Queues'
    BY <1>1 DEF IInv, Linking, Stages, Sockets, Queues
<1>5. Reports'
    BY <1>1, <1>2 DEF IInv, Reports, ToRun, Ongoing, HasInput
<1> QED
    BY <1>3, <1>4, <1>5 DEF IInv

\* A peer only adds to what select has reported.
LEMMA PeerKeeps ==
    ASSUME IInv, NEW f \in Fd, PeerStep(f)
    PROVE  IInv'
<1>1. /\ UNCHANGED <<d, sel, stage, cur, conn, writer, backlog, crashed>>
      /\ sock \in [Fd -> Socket] /\ sock[f] \in Socket
    BY DEF PeerStep, IInv, Types
<1>2. PICK s \in Socket :
        /\ sock' = [sock EXCEPT ![f] = s] /\ s.open = sock[f].open
        /\ sock[f].unread > 0 \/ sock[f].peer # "open" => s.unread > 0 \/ s.peer # "open"
        /\ sock[f].urgent => s.urgent
    <2>1. CASE sock[f].unread < Unread /\ sock' = [sock EXCEPT ![f].unread = @ + 1]
        <3> DEFINE s == [sock[f] EXCEPT !.unread = @ + 1]
        <3>1. s \in Socket /\ s.open = sock[f].open /\ s.unread > 0 /\ s.urgent = sock[f].urgent
            BY <1>1, <2>1, Constants DEF Socket
        <3>2. sock' = [sock EXCEPT ![f] = s]
            BY <1>1, <2>1
        <3> HIDE DEF s
        <3> QED BY <3>1, <3>2
    <2>2. CASE sock[f].room < Room /\ sock' = [sock EXCEPT ![f].room = @ + 1]
        <3> DEFINE s == [sock[f] EXCEPT !.room = @ + 1]
        <3>1. /\ s \in Socket /\ s.open = sock[f].open /\ s.unread = sock[f].unread
              /\ s.peer = sock[f].peer /\ s.urgent = sock[f].urgent
            BY <1>1, <2>2, Constants DEF Socket
        <3>2. sock' = [sock EXCEPT ![f] = s]
            BY <1>1, <2>2
        <3> HIDE DEF s
        <3> QED BY <3>1, <3>2
    <2>3. ASSUME NEW p \in {"closed", "reset"}, sock' = [sock EXCEPT ![f].peer = p]
          PROVE  \E s \in Socket :
                    /\ sock' = [sock EXCEPT ![f] = s] /\ s.open = sock[f].open
                    /\ sock[f].unread > 0 \/ sock[f].peer # "open" => s.unread > 0 \/ s.peer # "open"
                    /\ sock[f].urgent => s.urgent
        <3> DEFINE s == [sock[f] EXCEPT !.peer = p]
        <3>1. s \in Socket /\ s.open = sock[f].open /\ s.peer # "open" /\ s.urgent = sock[f].urgent
            BY <1>1 DEF Socket
        <3>2. sock' = [sock EXCEPT ![f] = s]
            BY <1>1, <2>3
        <3> HIDE DEF s
        <3> QED BY <3>1, <3>2
    <2>4. CASE sock' = [sock EXCEPT ![f].urgent = TRUE]
        <3> DEFINE s == [sock[f] EXCEPT !.urgent = TRUE]
        <3>1. /\ s \in Socket /\ s.open = sock[f].open /\ s.unread = sock[f].unread
              /\ s.peer = sock[f].peer /\ s.urgent = TRUE
            BY <1>1 DEF Socket
        <3>2. sock' = [sock EXCEPT ![f] = s]
            BY <1>1, <2>4
        <3> HIDE DEF s
        <3> QED BY <3>1, <3>2
    <2>5. \/ sock[f].unread < Unread /\ sock' = [sock EXCEPT ![f].unread = @ + 1]
          \/ sock[f].room < Room /\ sock' = [sock EXCEPT ![f].room = @ + 1]
          \/ sock' = [sock EXCEPT ![f].peer = "closed"]
          \/ sock' = [sock EXCEPT ![f].peer = "reset"]
          \/ sock' = [sock EXCEPT ![f].urgent = TRUE]
        BY DEF PeerStep
    <2> QED BY <2>1, <2>2, <2>3, <2>4, <2>5
<1>3. /\ sock' \in [Fd -> Socket]
      /\ \A g \in Fd : /\ sock'[g].open = sock[g].open
                       /\ HasInput(g) => HasInput(g)'
                       /\ sock[g].urgent => sock'[g].urgent
    BY <1>1, <1>2 DEF HasInput
<1>4. \A c \in Conn : conn[c].fd \in Fd
    BY DEF IInv, Types, Connection
<1>5. Types'
    BY <1>1, <1>3 DEF IInv, Types
<1>6. Linking' /\ Stages' /\ Queues'
    BY <1>1 DEF IInv, Linking, Stages, Queues
<1>7. Sockets'
    BY <1>1, <1>3, <1>4 DEF IInv, Sockets
<1>8. Reports'
    <2>1. \A c \in Conn : /\ HasInput(conn[c].fd) => HasInput(conn[c].fd)'
                          /\ sock[conn[c].fd].urgent => sock'[conn[c].fd].urgent
        BY <1>1, <1>3, <1>4 DEF HasInput
    <2>2. \A w \in Watcher : (ToRun(w)' => ToRun(w)) /\ (Ongoing(w)' => Ongoing(w))
        BY <1>1 DEF ToRun, Ongoing
    <2> QED BY <1>1, <2>1, <2>2, ReportsKept
<1> QED
    BY <1>5, <1>6, <1>7, <1>8 DEF IInv

\* What select reports is so at that moment; all the watchers are to be run.
LEMMA SelectKeeps ==
    ASSUME IInv, Select
    PROVE  IInv'
<1> DEFINE r == Descriptors("RX", Readable)
           w == Descriptors("TX", Writable)
           e == Descriptors("EX", Urgent)
           accepts == backlog > 0 /\ "RX" \in d.listening[Server]
<1>1. /\ stage = "idle" /\ UNCHANGED <<cur, conn, writer, sock, backlog, crashed>>
      /\ \/ UNCHANGED <<d, sel, stage>>
         \/ /\ sel' = [r |-> r, w |-> w, e |-> e, accept |-> accepts]
            /\ d' = splice(d) /\ stage' = "next"
    BY DEF Select
<1>2. CASE UNCHANGED <<d, sel, stage>>
    BY <1>1, <1>2 DEF IInv, Types, Linking, Stages, Sockets, Reports, Queues, ToRun, Ongoing, HasInput
<1>3. CASE /\ sel' = [r |-> r, w |-> w, e |-> e, accept |-> accepts]
           /\ d' = splice(d) /\ stage' = "next"
    <2>1. \A c \in Conn : conn[c].fd \in Fd
        BY DEF IInv, Types, Connection
    <2>2. r \subseteq Fd /\ w \subseteq Fd /\ e \subseteq Fd /\ accepts \in BOOLEAN
        BY <2>1 DEF Descriptors
    <2>3. \A f \in r : HasInput(f)
        BY <2>1 DEF Descriptors, Readable, HasInput
    <2>4. \A f \in e : sock[f].urgent
        BY <2>1 DEF Descriptors, Urgent
    <2>5. accepts => backlog > 0
        OBVIOUS
    <2> HIDE DEF r, w, e, accepts
    <2>6. /\ sel' \in [r : SUBSET Fd, w : SUBSET Fd, e : SUBSET Fd, accept : BOOLEAN]
          /\ sel'.r = r /\ sel'.e = e /\ sel'.accept = accepts
        BY <1>3, <2>2
    <2>7. d' \in Driver /\ Joined(d') /\ d'.listening = d.listening
        BY <1>1, <1>3, SpliceKeeps DEF IInv, Types, Linking, Stages
    <2>8. Types'
        BY <1>1, <1>3, <2>6, <2>7 DEF IInv, Types
    <2>9. Linking' /\ Stages' /\ Sockets' /\ Queues'
        BY <1>1, <1>3, <2>7 DEF IInv, Linking, Stages, Sockets, Queues
    <2>10. Reports'
        BY <1>1, <2>3, <2>4, <2>5, <2>6 DEF Reports, HasInput
    <2> QED BY <2>8, <2>9, <2>10 DEF IInv
<1> QED
    BY <1>1, <1>2, <1>3

\* The next watcher was still to be run.
LEMMA NextWatcherKeeps ==
    ASSUME IInv, NextWatcher
    PROVE  IInv'
<1>1. /\ UNCHANGED <<conn, writer, sock, backlog, crashed>> /\ stage = "next"
      /\ d \in Driver /\ Joined(d)
    BY DEF NextWatcher, IInv, Types, Linking
<1>2. CASE d.run_list = <<>> /\ stage' = "idle" /\ cur' = Server /\ sel' = NothingReported /\ UNCHANGED d
    <2>1. /\ sel' \in [r : SUBSET Fd, w : SUBSET Fd, e : SUBSET Fd, accept : BOOLEAN]
          /\ sel'.r = {} /\ sel'.e = {} /\ sel'.accept = FALSE
        BY <1>2 DEF NothingReported
    <2>2. Types'
        BY <1>1, <1>2, <2>1, Constants DEF IInv, Types
    <2>3. Linking' /\ Stages' /\ Sockets' /\ Queues'
        BY <1>1, <1>2 DEF IInv, Linking, Stages, Sockets, Queues
    <2>4. Reports'
        BY <2>1 DEF Reports
    <2> QED BY <2>2, <2>3, <2>4 DEF IInv
<1>3. CASE /\ d.run_list # <<>> /\ stage' = "RX" /\ cur' = Head(d.run_list)
           /\ d' = move_first(d) /\ UNCHANGED sel
    <2>1. /\ d' \in Driver /\ Joined(d') /\ d'.listening = d.listening
          /\ cur' \in ToSet(d.run_list) /\ cur' \in ToSet(d'.watchers)
          /\ ToSet(d'.run_list) \subseteq ToSet(d.run_list)
        BY <1>1, <1>3, MoveFirstKeeps
    <2>2. cur' \in Watcher
        BY <1>1, <2>1 DEF Joined
    <2>3. Types'
        BY <1>1, <1>3, <2>1, <2>2 DEF IInv, Types
    <2>4. Linking' /\ Stages' /\ Sockets' /\ Queues'
        BY <1>1, <1>3, <2>1 DEF IInv, Linking, Stages, Sockets, Queues
    <2>5. \A w \in Watcher : (ToRun(w)' => ToRun(w)) /\ (Ongoing(w)' => Ongoing(w))
        BY <2>1 DEF ToRun, Ongoing
    <2>6. Reports'
        <3>1. \A c \in Conn : /\ conn'[c].fd = conn[c].fd /\ conn'[c].live = conn[c].live
                              /\ HasInput(conn[c].fd) => HasInput(conn[c].fd)'
                              /\ sock[conn[c].fd].urgent => sock'[conn[c].fd].urgent
            BY <1>1 DEF HasInput
        <3> QED BY <1>1, <1>3, <2>5, <3>1, ReportsKept
    <2> QED BY <2>3, <2>4, <2>6 DEF IInv
<1> QED
    BY <1>2, <1>3 DEF NextWatcher

\* The watcher that runs is linked and not in the rest of the round; it is the
\* server's or belongs to a live connection.
LEMMA Running ==
    ASSUME IInv, stage = "RX"
    PROVE  /\ cur \notin ToSet(d.run_list) /\ (cur \in Conn => conn[cur].live)
           /\ \A c \in Conn : c \in ToSet(d.run_list) => conn[c].live
<1>1. Joined(d) /\ cur \in ToSet(d.watchers)
    BY DEF IInv, Linking, Stages
<1> QED
    BY <1>1 DEF IInv, Linking, Joined

\* The reports after a step at the RX stage of the connection r, which may have
\* ended; the other connections and their sockets are as before.
LEMMA ReportsOthers ==
    ASSUME IInv, NEW r \in Conn, cur = r, stage \in {"RX", "EX"}, r \notin ToSet(d'.run_list),
           sel' = sel, cur' = cur, backlog' = backlog, stage' \in {"callback", "TX", "next"},
           ToSet(d'.run_list) \subseteq ToSet(d.run_list),
           conn'[r].live /\ stage' # "next" =>
                conn'[r].fd = conn[r].fd /\ conn[r].live /\ sock'[conn[r].fd].urgent = sock[conn[r].fd].urgent,
           \A x \in Conn \ {r} : /\ conn'[x] = conn[x]
                                 /\ conn[x].live => sock'[conn[x].fd] = sock[conn[x].fd]
    PROVE  Reports'
<1>1. \A c \in Conn : c \in ToSet(d.run_list) => conn[c].live
    BY DEF IInv, Linking, Joined
<1>2. Server # r /\ Server \notin Conn
    BY Constants
<1>3. (sel.accept /\ ToRun(Server) => backlog > 0)'
    BY <1>2 DEF IInv, Reports, ToRun
<1>4. ASSUME NEW c \in Conn
      PROVE  (ToRun(c) /\ conn[c].fd \in sel.r => HasInput(conn[c].fd))'
    <2> SUFFICES ASSUME ToRun(c)', conn'[c].fd \in sel.r PROVE HasInput(conn[c].fd)'
        OBVIOUS
    <2>1. c \in ToSet(d.run_list) /\ c # r
        BY DEF ToRun
    <2>2. conn'[c] = conn[c] /\ sock'[conn[c].fd] = sock[conn[c].fd] /\ HasInput(conn[c].fd)
        BY <1>1, <2>1 DEF IInv, Reports, ToRun
    <2> QED BY <2>2 DEF HasInput
<1>5. ASSUME NEW c \in Conn
      PROVE  (Ongoing(c) /\ conn[c].live /\ conn[c].fd \in sel.e => sock[conn[c].fd].urgent)'
    <2> SUFFICES ASSUME Ongoing(c)', conn'[c].live, conn'[c].fd \in sel.e
                 PROVE  sock'[conn'[c].fd].urgent
        OBVIOUS
    <2>1. CASE c # r
        <3>1. c \in ToSet(d.run_list)
            BY <2>1 DEF Ongoing
        <3>2. conn'[c] = conn[c] /\ sock'[conn[c].fd] = sock[conn[c].fd] /\ Ongoing(c) /\ conn[c].live
            BY <1>1, <2>1, <3>1 DEF Ongoing
        <3>3. conn[c].fd \in sel.e => sock[conn[c].fd].urgent
            BY <3>2 DEF IInv, Reports
        <3> QED BY <3>2, <3>3
    <2>2. CASE c = r
        <3>1. stage' # "next"
            BY <2>2 DEF Ongoing
        <3>2. conn'[c].fd = conn[c].fd /\ conn[c].live /\ sock'[conn[c].fd].urgent = sock[conn[c].fd].urgent
            BY <2>2, <3>1
        <3>3. Ongoing(c)
            BY <2>2 DEF Ongoing
        <3>4. conn[c].fd \in sel.e => sock[conn[c].fd].urgent
            BY <3>2, <3>3 DEF IInv, Reports
        <3> QED BY <3>2, <3>4
    <2> QED BY <2>1, <2>2
<1> QED
    BY <1>3, <1>4, <1>5 DEF Reports

\* Input for a connection, or its end.
LEMMA StreamRxKeeps ==
    ASSUME IInv, stage = "RX", cur \in Conn, conn[cur].fd \in sel.r, stream_rx(cur),
           UNCHANGED <<sel, cur, crashed>>
    PROVE  /\ IInv'
           /\ \A c \in Conn : conn[c].live /\ ~conn'[c].live =>
                    sock[conn[c].fd].peer # "open" \/ sock[conn[c].fd].urgent
<1> DEFINE f == conn[cur].fd
<1>1. /\ Types /\ Linking /\ Sockets /\ Queues /\ cur \notin ToSet(d.run_list) /\ conn[cur].live
      /\ sock \in [Fd -> Socket] /\ f \in Fd
    BY Running, ConnFields DEF IInv, Types
<1>2. HasInput(f)
    BY DEF IInv, Reports, ToRun
<1>3. CASE /\ sock[f].unread > 0 /\ sock' = [sock EXCEPT ![f].unread = @ - 1]
           /\ \E n \in 0 .. Writes : writer' = [to |-> cur, left |-> n]
           /\ stage' = "callback" /\ UNCHANGED <<d, conn, backlog>>
    <2> DEFINE s == [sock[f] EXCEPT !.unread = @ - 1]
    <2>1. sock[f] \in Socket
        BY <1>1
    <2>2. s \in Socket /\ s.open = sock[f].open /\ s.urgent = sock[f].urgent
        <3> HIDE DEF f
        <3> QED BY <1>3, <2>1, Constants DEF Socket
    <2>3. sock' = [sock EXCEPT ![f] = s]
        BY <1>1, <1>3
    <2> HIDE DEF s
    <2>4. /\ sock' \in [Fd -> Socket] /\ \A g \in Fd : sock'[g].open = sock[g].open
          /\ sock'[f].urgent = sock[f].urgent /\ \A g \in Fd \ {f} : sock'[g] = sock[g]
        <3> HIDE DEF f
        <3> QED BY <1>1, <2>2, <2>3
    <2>5. writer' \in [to : Conn, left : 0 .. Writes + 2] /\ writer'.to = cur
        BY <1>3, Constants
    <2>6. Types'
        BY <1>1, <1>3, <2>4, <2>5 DEF Types
    <2>7. Linking' /\ Stages' /\ Queues'
        BY <1>1, <1>3, <2>5 DEF Linking, Stages, Queues
    <2>8. \A c \in Conn : conn[c].fd \in Fd
        BY <1>1 DEF Types, Connection
    <2>9. Sockets'
        BY <1>1, <1>3, <2>4, <2>8 DEF Sockets
    <2>10. \A x \in Conn \ {cur} : conn'[x] = conn[x] /\ (conn[x].live => sock'[conn[x].fd] = sock[conn[x].fd])
        BY <1>1, <1>3, <2>4, <2>8 DEF Sockets
    <2>11. Reports'
        BY <1>1, <1>3, <2>4, <2>10, ReportsOthers
    <2> QED BY <1>3, <2>6, <2>7, <2>9, <2>11 DEF IInv
<1>4. CASE /\ sock[f].unread = 0 /\ dealloc_cli_connection(cur)
           /\ stage' = "TX" /\ UNCHANGED <<writer, backlog>>
    <2>1. /\ d' \in Driver /\ conn' \in [Conn -> Connection] /\ sock' \in [Fd -> Socket]
          /\ Linking' /\ Sockets' /\ Queues'
          /\ ToSet(d'.run_list) \subseteq ToSet(d.run_list) /\ cur \notin ToSet(d'.run_list)
          /\ conn'[cur].live = FALSE
          /\ \A x \in Conn \ {cur} : /\ conn'[x] = conn[x]
                                     /\ conn[x].live => sock'[conn[x].fd] = sock[conn[x].fd]
        BY <1>1, <1>4, EndKeeps
    <2>2. Types'
        BY <1>1, <1>4, <2>1 DEF Types
    <2>3. Stages'
        BY <1>4 DEF Stages
    <2>4. Reports'
        BY <1>4, <2>1, ReportsOthers
    <2>5. sock[f].peer # "open"
        BY <1>2, <1>4 DEF HasInput
    <2>6. \A c \in Conn : conn[c].live /\ ~conn'[c].live => c = cur
        BY <2>1
    <2> QED BY <2>1, <2>2, <2>3, <2>4, <2>5, <2>6 DEF IInv
<1> QED
    BY <1>3, <1>4 DEF stream_rx

\* A connection is accepted, or accept or malloc fails; none ends.
LEMMA AcceptKeeps ==
    ASSUME IInv, stage = "RX", cur = Server, sel.accept, tcp_server_ipv4_rx_event,
           UNCHANGED <<sel, cur, crashed>>
    PROVE  /\ IInv'
           /\ \A c \in Conn : conn[c].live => conn'[c].live
<1>1. /\ Types /\ Linking /\ Sockets /\ Queues
      /\ Server \notin ToSet(d.run_list) /\ Server \notin Conn
      /\ \A c \in Conn : c \in ToSet(d.run_list) => conn[c].live
    BY Running, Constants DEF IInv
<1>2. backlog \in 1 .. Backlog
    <2>1. ToRun(Server)
        BY DEF ToRun
    <2> QED BY <1>1, <2>1, Constants DEF IInv, Reports, Types
<1>3. backlog' \in 0 .. Backlog
    <2>1. backlog' \in {backlog, backlog - 1}
        BY DEF tcp_server_ipv4_rx_event
    <2> QED BY <1>2, <2>1, Constants
<1>4. CASE stage' = "TX" /\ UNCHANGED <<d, conn, writer, sock>>
    <2>1. Types'
        BY <1>1, <1>3, <1>4 DEF Types
    <2>2. Linking' /\ Stages' /\ Sockets' /\ Queues'
        BY <1>1, <1>4 DEF Linking, Stages, Sockets, Queues
    <2>3. Reports'
        <3>1. ~ToRun(Server)'
            BY <1>1, <1>4 DEF ToRun
        <3>2. \A c \in Conn : (ToRun(c)' => ToRun(c)) /\ (Ongoing(c)' => Ongoing(c))
            BY <1>4 DEF ToRun, Ongoing
        <3> QED BY <1>4, <3>1, <3>2 DEF IInv, Reports, HasInput
    <2> QED BY <1>4, <2>1, <2>2, <2>3 DEF IInv
<1>5. ASSUME NEW newsd \in Fd, ~sock[newsd].open, NEW c \in Conn, ~conn[c].live,
             NEW size \in {0, TX_BUF_SIZE}, Begins(newsd, c, size),
             writer' = [to |-> c, left |-> 2], stage' = "callback"
      PROVE  IInv' /\ \A x \in Conn : conn[x].live => conn'[x].live
    <2>1. /\ d' \in Driver /\ conn' \in [Conn -> Connection] /\ sock' \in [Fd -> Socket]
          /\ Linking' /\ Sockets' /\ Queues'
          /\ d'.run_list = d.run_list /\ c \notin ToSet(d.run_list)
          /\ conn'[c].live = TRUE
          /\ \A x \in Conn \ {c} : /\ conn'[x] = conn[x]
                                   /\ conn[x].live => sock'[conn[x].fd] = sock[conn[x].fd]
        BY <1>1, <1>5, BeginKeeps
    <2>2. writer' \in [to : Conn, left : 0 .. Writes + 2] /\ writer'.to = c
        BY <1>5, Constants
    <2>3. Types'
        BY <1>1, <1>3, <1>5, <2>1, <2>2 DEF Types
    <2>4. Stages'
        BY <1>5, <2>1, <2>2 DEF Stages
    <2>5. Reports'
        <3>1. ~ToRun(Server)'
            BY <1>1, <1>5, <2>1 DEF ToRun
        <3>2. ASSUME NEW x \in Conn, x \in ToSet(d.run_list)
              PROVE  /\ conn'[x] = conn[x] /\ sock'[conn[x].fd] = sock[conn[x].fd] /\ conn[x].live
                     /\ conn[x].fd \in sel.r => HasInput(conn[x].fd)
                     /\ conn[x].fd \in sel.e => sock[conn[x].fd].urgent
            BY <1>1, <2>1, <3>2 DEF IInv, Reports, ToRun, Ongoing
        <3>3. \A x \in Conn : (ToRun(x)' \/ Ongoing(x)') => x \in ToSet(d.run_list)
            BY <1>1, <2>1 DEF ToRun, Ongoing
        <3> QED BY <3>1, <3>2, <3>3 DEF Reports, HasInput
    <2> QED BY <2>1, <2>3, <2>4, <2>5 DEF IInv
<1>6. ASSUME NEW newsd \in Fd, ~sock[newsd].open, alloc_cli_connection(newsd)
      PROVE  IInv' /\ \A x \in Conn : conn[x].live => conn'[x].live
    <2>1. CASE sock' = sock /\ UNCHANGED <<d, conn, writer>> /\ stage' = "TX"
        BY <1>4, <2>1
    <2>2. CASE \E c \in {x \in Conn : ~conn[x].live}, size \in {0, TX_BUF_SIZE} :
                    /\ Begins(newsd, c, size)
                    /\ writer' = [to |-> c, left |-> 2] /\ stage' = "callback"
        BY <1>5, <1>6, <2>2
    <2> QED BY <1>6, <2>1, <2>2 DEF alloc_cli_connection, Begins
<1>7. CASE LET free == {f \in Fd : ~sock[f].open}
           IN  free # {} /\ alloc_cli_connection(CHOOSE f \in free : \A g \in free : f <= g)
    <2> DEFINE free == {f \in Fd : ~sock[f].open}
               newsd == CHOOSE f \in free : \A g \in free : f <= g
    <2>1. free # {} /\ free \subseteq Nat /\ alloc_cli_connection(newsd)
        BY <1>7, Constants
    <2>2. newsd \in free
        <3> HIDE DEF free
        <3>1. \E f \in free : \A g \in free : f <= g
            BY <2>1, LeastNumber
        <3> QED BY <3>1
    <2>3. newsd \in Fd /\ ~sock[newsd].open
        BY <2>2
    <2> HIDE DEF newsd
    <2> QED BY <1>6, <2>1, <2>3
<1> QED
    BY <1>4, <1>7 DEF tcp_server_ipv4_rx_event

\* A step that only goes on to the next stage.
LEMMA StageKeeps ==
    ASSUME IInv, UNCHANGED <<d, sel, cur, conn, writer, sock, backlog, crashed>>,
           \/ stage \in {"RX", "callback"} /\ stage' = "TX"
           \/ stage = "TX" /\ stage' = "EX"
           \/ stage = "EX" /\ stage' = "next"
    PROVE  IInv'
<1>1. Types' /\ Linking' /\ Stages' /\ Sockets' /\ Queues'
    BY DEF IInv, Types, Linking, Stages, Sockets, Queues
<1>2. \A w \in Watcher : (ToRun(w)' => ToRun(w)) /\ (Ongoing(w)' => Ongoing(w))
    BY DEF ToRun, Ongoing
<1>3. \A c \in Conn : /\ conn'[c].fd = conn[c].fd /\ conn'[c].live = conn[c].live
                      /\ HasInput(conn[c].fd) => HasInput(conn[c].fd)'
                      /\ sock[conn[c].fd].urgent => sock'[conn[c].fd].urgent
    BY DEF HasInput
<1>4. Reports'
    BY <1>2, <1>3, ReportsKept
<1> QED
    BY <1>1, <1>4 DEF IInv

\* The RX stage, whichever callback it runs.
LEMMA RxStageKeeps ==
    ASSUME IInv, RxStage
    PROVE  /\ IInv'
           /\ \A c \in Conn : conn[c].live /\ ~conn'[c].live =>
                    sock[conn[c].fd].peer # "open" \/ sock[conn[c].fd].urgent
<1>1. stage = "RX" /\ UNCHANGED <<sel, cur, crashed>> /\ (cur # Server => cur \in Conn)
    BY Constants DEF RxStage, IInv, Types
<1>2. CASE cur = Server /\ sel.accept /\ tcp_server_ipv4_rx_event
    BY <1>1, <1>2, AcceptKeeps
<1>3. CASE cur # Server /\ conn[cur].fd \in sel.r /\ stream_rx(cur)
    BY <1>1, <1>3, StreamRxKeeps
<1>4. CASE stage' = "TX" /\ UNCHANGED <<d, conn, writer, sock, backlog>>
    BY <1>1, <1>4, StageKeeps
<1> QED
    BY <1>2, <1>3, <1>4 DEF RxStage

\* A step that is a transfer keeps the invariant.
LEMMA TransferStep ==
    ASSUME IInv, Transfers, UNCHANGED <<sel, cur, backlog>>, crashed' \in BOOLEAN,
           writer' \in [to : Conn, left : 0 .. Writes + 2], writer'.to = writer.to,
           \/ stage = "callback" /\ stage' = "callback"
           \/ stage = "TX" /\ stage' = "EX"
    PROVE  IInv'
<1>1. /\ Linking' /\ Sockets' /\ Queues'
      /\ \A c \in Conn : /\ conn'[c].fd = conn[c].fd /\ conn[c].fd \in Fd
                         /\ conn'[c].live = conn[c].live
    BY TransfersKeep
<1>2. Types'
    BY DEF IInv, Types, Transfers
<1>3. Stages'
    <2>1. writer.to \in Conn
        BY DEF IInv, Types
    <2> QED BY <1>1, <2>1 DEF IInv, Stages
<1>4. \A w \in Watcher : (ToRun(w)' => ToRun(w)) /\ (Ongoing(w)' => Ongoing(w))
    BY DEF ToRun, Ongoing, Transfers
<1>5. \A c \in Conn : /\ HasInput(conn[c].fd) => HasInput(conn[c].fd)'
                      /\ sock[conn[c].fd].urgent => sock'[conn[c].fd].urgent
    BY <1>1 DEF HasInput, Transfers
<1>6. Reports'
    BY <1>1, <1>4, <1>5, ReportsKept
<1> QED
    BY <1>1, <1>2, <1>3, <1>6 DEF IInv

\* A message of the callback in progress, or its return.
LEMMA CallbackKeeps ==
    ASSUME IInv, Callback
    PROVE  IInv' /\ \A c \in Conn : conn'[c].live = conn[c].live
<1>1. stage = "callback" /\ UNCHANGED <<sel, cur, backlog, crashed>> /\ crashed \in BOOLEAN
    BY DEF Callback, IInv, Types
<1>2. CASE stage' = "TX" /\ UNCHANGED <<d, conn, writer, sock>>
    BY <1>1, <1>2, StageKeeps
<1>3. ASSUME NEW len \in Length, writer.left > 0, conn[writer.to].offered + len <= Offered,
             stream_write(writer.to, Message(writer.to, len)),
             writer' = [writer EXCEPT !.left = @ - 1], stage' = stage
      PROVE  IInv' /\ \A c \in Conn : conn'[c].live = conn[c].live
    <2> DEFINE c == writer.to
    <2>1. c \in Conn /\ conn[c].live /\ len \in Nat /\ Types /\ Linking /\ Queues
        BY <1>1, Constants DEF IInv, Stages, Types
    <2> HIDE DEF c
    <2>2. Transfers
        <3>1. conn[c].offered + len <= Offered /\ stream_write(c, Message(c, len))
            BY <1>3 DEF c
        <3> QED BY <2>1, <3>1, WriteQueuedTransfers, WriteNowTransfers DEF stream_write
    <2>3. writer' \in [to : Conn, left : 0 .. Writes + 2] /\ writer'.to = writer.to
        BY <1>3, Constants DEF IInv, Types
    <2>4. IInv'
        BY <1>1, <1>3, <2>2, <2>3, TransferStep
    <2> QED BY <2>2, <2>4 DEF Transfers
<1> QED
    BY <1>1, <1>2, <1>3 DEF Callback

\* The TX stage: the watcher of a freed connection listens to nothing.
LEMMA TxStageKeeps ==
    ASSUME IInv, TxStage
    PROVE  IInv' /\ \A c \in Conn : conn'[c].live = conn[c].live
<1>1. /\ stage = "TX" /\ stage' = "EX" /\ UNCHANGED <<sel, cur, writer, backlog>>
      /\ cur # Server => cur \in Conn
    BY Constants DEF TxStage, IInv, Types
<1>2. CASE UNCHANGED <<d, conn, sock, crashed>>
    BY <1>1, <1>2, StageKeeps
<1>3. CASE cur # Server /\ Listens("TX") /\ stream_handle_tx_event(cur)
    <2>1. cur \in Conn /\ conn[cur].live /\ Types /\ Linking /\ Queues
        BY <1>1, <1>3 DEF IInv, Linking, Listens
    <2>2. Transfers /\ crashed' \in BOOLEAN
        BY <1>3, <2>1, TxEventTransfers
    <2>3. writer' \in [to : Conn, left : 0 .. Writes + 2] /\ writer'.to = writer.to
        BY <1>1 DEF IInv, Types
    <2>4. IInv'
        BY <1>1, <2>2, <2>3, TransferStep
    <2> QED BY <2>2, <2>4 DEF Transfers
<1> QED
    BY <1>2, <1>3 DEF TxStage

\* The EX stage ends a connection with urgent data.
LEMMA ExStageKeeps ==
    ASSUME IInv, ExStage
    PROVE  /\ IInv'
           /\ \A c \in Conn : conn[c].live /\ ~conn'[c].live =>
                    sock[conn[c].fd].peer # "open" \/ sock[conn[c].fd].urgent
<1>1. /\ stage = "EX" /\ stage' = "next" /\ UNCHANGED <<sel, cur, writer, backlog, crashed>>
      /\ cur # Server => cur \in Conn
    BY Constants DEF ExStage, IInv, Types
<1>2. CASE UNCHANGED <<d, conn, sock>>
    BY <1>1, <1>2, StageKeeps
<1>3. CASE cur # Server /\ Listens("EX") /\ conn[cur].fd \in sel.e /\ dealloc_cli_connection(cur)
    <2>1. cur \in Conn /\ conn[cur].live /\ Types /\ Linking /\ Sockets /\ Queues
        BY <1>1, <1>3 DEF IInv, Linking, Listens
    <2>2. /\ d' \in Driver /\ conn' \in [Conn -> Connection] /\ sock' \in [Fd -> Socket]
          /\ Linking' /\ Sockets' /\ Queues'
          /\ ToSet(d'.run_list) \subseteq ToSet(d.run_list) /\ cur \notin ToSet(d'.run_list)
          /\ conn'[cur].live = FALSE
          /\ \A x \in Conn \ {cur} : /\ conn'[x] = conn[x]
                                     /\ conn[x].live => sock'[conn[x].fd] = sock[conn[x].fd]
        BY <1>3, <2>1, EndKeeps
    <2>3. Types'
        BY <1>1, <2>1, <2>2 DEF Types
    <2>4. Stages'
        BY <1>1 DEF Stages
    <2>5. Reports'
        BY <1>1, <2>1, <2>2, ReportsOthers
    <2>6. sock[conn[cur].fd].urgent
        BY <1>1, <1>3, <2>1 DEF IInv, Reports, Ongoing
    <2>7. \A c \in Conn : conn[c].live /\ ~conn'[c].live => c = cur
        BY <2>2
    <2> QED BY <2>2, <2>3, <2>4, <2>5, <2>6, <2>7 DEF IInv
<1> QED
    BY <1>2, <1>3 DEF ExStage

-----------------------------------------------------------------------------
(* The theorems *)

\* A step keeps the invariant, and ends no connection that its peer has not
\* closed or reset or sent urgent data on.
LEMMA StepKeeps ==
    ASSUME IInv, [Next]_vars
    PROVE  /\ IInv'
           /\ \A c \in Conn : conn[c].live /\ ~conn'[c].live =>
                    sock[conn[c].fd].peer # "open" \/ sock[conn[c].fd].urgent
<1>1. CASE Select
    <2>1. UNCHANGED conn
        BY <1>1 DEF Select
    <2> QED BY <1>1, <2>1, SelectKeeps
<1>2. CASE NextWatcher
    <2>1. UNCHANGED conn
        BY <1>2 DEF NextWatcher
    <2> QED BY <1>2, <2>1, NextWatcherKeeps
<1>3. CASE RxStage
    BY <1>3, RxStageKeeps
<1>4. CASE Callback
    BY <1>4, CallbackKeeps
<1>5. CASE TxStage
    BY <1>5, TxStageKeeps
<1>6. CASE ExStage
    BY <1>6, ExStageKeeps
<1>7. CASE Connect
    <2>1. UNCHANGED conn
        BY <1>7 DEF Connect
    <2> QED BY <1>7, <2>1, ConnectKeeps
<1>8. ASSUME NEW f \in Fd, PeerStep(f)
      PROVE  IInv' /\ UNCHANGED conn
    <2>1. UNCHANGED conn
        BY <1>8 DEF PeerStep
    <2> QED BY <1>8, <2>1, PeerKeeps
<1>9. CASE UNCHANGED vars
    BY <1>9 DEF vars, IInv, Types, Linking, Stages, Sockets, Reports, Queues, ToRun, Ongoing, HasInput
<1> QED
    BY <1>1, <1>2, <1>3, <1>4, <1>5, <1>6, <1>7, <1>8, <1>9 DEF Next, Loop

\* The invariant holds throughout.
LEMMA Inductive == Spec => []IInv
<1>1. Init => IInv
    BY InitInv
<1>2. IInv /\ [Next]_vars => IInv'
    BY StepKeeps
<1> QED
    BY <1>1, <1>2, PTL DEF Spec

\* The variables of the server keep their ranges, and a queue never holds more
\* than the memory its stream got (circ_buffer_put, stream.c).
THEOREM TypeCorrect == Spec => []TypeOK
<1>1. IInv => TypeOK
    <2> SUFFICES ASSUME IInv PROVE TypeOK
        OBVIOUS
    <2>1. /\ d.watchers \in Seq(Watcher) /\ d.run_list \in Seq(Watcher)
          /\ d.listening \in [Watcher -> SUBSET Event]
        BY DEF IInv, Types, Driver
    <2>2. \A c \in Conn :
            /\ conn[c].live \in BOOLEAN /\ conn[c].fd \in Fd /\ conn[c].offered \in 0 .. Offered
            /\ conn[c].size \in {0, TX_BUF_SIZE} /\ Len(conn[c].tx_buf) <= conn[c].size
        BY DEF IInv, Types, Connection, Queues, Queued
    <2>3. writer.to \in Conn /\ writer.left \in 0 .. Writes + 2
        BY DEF IInv, Types
    <2> QED BY <2>1, <2>2, <2>3 DEF IInv, Types, TypeOK, Socket
<1> QED
    BY <1>1, Inductive, PTL

\* A watcher is on exactly one of the driver's lists while it listens, and on
\* none otherwise, whatever callbacks do in the middle of a round
\* (io_driver.c:71-91).
THEOREM AlwaysLinked == Spec => []ListsConsistent
<1>1. IInv => ListsConsistent
    <2> SUFFICES ASSUME IInv PROVE ListsConsistent
        OBVIOUS
    <2>1. Linked(d)
        BY JoinedLinked DEF IInv, Types, Linking
    <2>2. \A c \in Conn : d.listening[c] # {} <=> conn[c].live
        BY DEF IInv, Linking
    <2> QED BY <2>1, <2>2 DEF ListsConsistent
<1> QED
    BY <1>1, Inductive, PTL

\* No descriptor leaks and none is shared: each open one belongs to exactly one
\* live connection, on all the error paths of accepting and ending connections.
THEOREM NoLeak == Spec => []DescriptorsOwned
<1>1. IInv => DescriptorsOwned
    <2> SUFFICES ASSUME IInv, NEW f \in Fd
                 PROVE  Cardinality({c \in Conn : conn[c].live /\ conn[c].fd = f})
                            = IF sock[f].open THEN 1 ELSE 0
        BY DEF DescriptorsOwned
    <2> DEFINE owners == {c \in Conn : conn[c].live /\ conn[c].fd = f}
    <2>1. CASE sock[f].open
        <3>1. PICK b \in Conn : conn[b].live /\ conn[b].fd = f
            BY <2>1 DEF IInv, Sockets
        <3>2. owners = {b}
            BY <3>1 DEF IInv, Sockets
        <3> HIDE DEF owners
        <3>3. Cardinality(owners) = 1
            BY <3>2, FS_Singleton
        <3> QED BY <2>1, <3>3 DEF owners
    <2>2. CASE ~sock[f].open
        <3>1. owners = {}
            BY <2>2 DEF IInv, Sockets
        <3> HIDE DEF owners
        <3>2. Cardinality(owners) = 0
            BY <3>1, FS_EmptySet
        <3> QED BY <2>2, <3>2 DEF owners
    <2> QED BY <2>1, <2>2
<1> QED
    BY <1>1, Inductive, PTL

\* A peer gets the bytes in the order the command line wrote them, none twice,
\* although three paths of stream.c lead to its socket.
THEOREM OutputKeepsOrder == Spec => []OutputInOrder
<1>1. IInv => OutputInOrder
    BY DEF IInv, Queues, Queued, Ordered, OutputInOrder
<1> QED
    BY <1>1, Inductive, PTL

\* No connection is ended by a stale event or one of an earlier connection with
\* the same descriptor: its own peer closed or reset it or sent urgent data.
THEOREM EndsForCause == Spec => NoInnocentDrop
<1>1. IInv /\ [Next]_vars =>
        [\A c \in Conn : conn[c].live /\ ~conn'[c].live =>
                sock[conn[c].fd].peer # "open" \/ sock[conn[c].fd].urgent]_vars
    BY StepKeeps
<1> QED
    BY <1>1, Inductive, PTL DEF Spec, NoInnocentDrop
=============================================================================
