----------------------------- MODULE ByteQueue -----------------------------
(***************************************************************************)
(* What circ_buffer.c promises: a bounded queue of bytes.  A call takes or *)
(* gives all the bytes it was asked for, or fails and changes nothing.     *)
(***************************************************************************)
EXTENDS Integers, Sequences

CONSTANTS Byte, Size, MaxCall

VARIABLES
    queue,   \* the bytes held, oldest first
    room,    \* bytes the queue can hold: Size, or 0 when it got no memory
    result   \* the last call: what was asked for, ret, and the bytes given out

\* A call is <<name>>, <<name, bytes>> or <<name, number of bytes>>.
Outcome(call, ret, out) == result' = [call |-> call, ret |-> ret, out |-> out]

Fail(call) == Outcome(call, -1, <<>>) /\ UNCHANGED <<queue, room>>

Open ==
    /\ room' \in {0, Size} /\ queue' = <<>>
    /\ Outcome(<<"init">>, IF room' = 0 THEN -1 ELSE 0, <<>>)

Close == queue' = <<>> /\ room' = 0 /\ UNCHANGED result

Reset == queue' = <<>> /\ UNCHANGED <<room, result>>

Put(data) ==
    \/ Len(queue) + Len(data) > room /\ Fail(<<"put", data>>)
    \/ /\ Len(queue) + Len(data) <= room
       /\ queue' = queue \o data
       /\ Outcome(<<"put", data>>, 0, <<>>) /\ UNCHANGED room

\* peek gives the oldest n bytes, advance removes them, get does both.
Take(op, n) ==
    \/ Len(queue) < n /\ Fail(<<op, n>>)
    \/ /\ Len(queue) >= n
       /\ queue' = IF op = "peek" THEN queue ELSE SubSeq(queue, n + 1, Len(queue))
       /\ Outcome(<<op, n>>, 0, IF op = "advance" THEN <<>> ELSE SubSeq(queue, 1, n))
       /\ UNCHANGED room

Init ==
    /\ queue = <<>> /\ room \in {0, Size}
    /\ result = [call |-> <<"init">>, ret |-> IF room = 0 THEN -1 ELSE 0, out |-> <<>>]

Next ==
    \/ Open \/ Close \/ Reset
    \/ \E k \in 0 .. MaxCall : \E data \in [1 .. k -> Byte] : Put(data)
    \/ \E op \in {"get", "peek", "advance"}, n \in 0 .. MaxCall : Take(op, n)

Spec == Init /\ [][Next]_<<queue, room, result>>
=============================================================================
