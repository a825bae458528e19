----------------------------- MODULE CircBuffer -----------------------------
(***************************************************************************)
(* The circular buffer of libutils (circ_buffer_t), which holds the output *)
(* a stream could not write to its socket: one action per function.        *)
(***************************************************************************)
EXTENDS Integers, Sequences

CONSTANTS
    Byte,
    Size,      \* the size asked for in circ_buffer_init
    MaxCall    \* bound: bytes one call moves

ASSUME BufferAssumption == Size \in Nat \ {0} /\ MaxCall \in Nat /\ Byte # {}

VARIABLES
    up,         \* between circ_buffer_init and circ_buffer_deinit
    buffer, size, data_size, begin, end,
    result      \* the last call: its arguments, ret, and the bytes copied to the caller

vars == <<up, buffer, size, data_size, begin, end, result>>

indices == <<begin, end, data_size>>

\* What malloc returns is not initialized; no memory is no index at all.
Memory(n) == [0 .. n - 1 -> Byte]

Outcome(call, ret, out) == result' = [call |-> call, ret |-> ret, out |-> out]

-----------------------------------------------------------------------------
circ_buffer_init ==
    /\ ~up /\ up' = TRUE
    /\ begin' = 0 /\ end' = 0 /\ data_size' = 0
    /\ size' \in {0, Size} /\ buffer' \in Memory(size')
    /\ Outcome(<<"init">>, IF size' = 0 THEN -1 ELSE 0, <<>>)

\* Only the memory goes; size, data_size and the indices stay as they are.
circ_buffer_deinit ==
    /\ up /\ up' = FALSE
    /\ buffer' = <<>> /\ UNCHANGED <<size, indices, result>>

\* Mutant: the write index is left where it was.
ResetKeepsEnd ==
    /\ up
    /\ begin' = 0 /\ data_size' = 0
    /\ UNCHANGED <<up, buffer, size, end, result>>

circ_buffer_reset ==
    /\ up
    /\ begin' = 0 /\ end' = 0 /\ data_size' = 0
    /\ UNCHANGED <<up, buffer, size, result>>

memcpy(to, at, data, from, n) ==
    [k \in DOMAIN to |-> IF k \in at .. at + n - 1 THEN data[from + k - at + 1] ELSE to[k]]

\* Mutant: the bytes that wrap around start again with the first one.
StoredFromStart(data) ==
    LET n == Len(data)  begin_len == size - end
    IN  IF end + n > size
        THEN memcpy(memcpy(buffer, end, data, 0, begin_len), 0, data, 0, n - begin_len)
        ELSE memcpy(buffer, end, data, 0, n)

Stored(data) ==
    LET n == Len(data)  begin_len == size - end
    IN  IF end + n > size
        THEN memcpy(memcpy(buffer, end, data, 0, begin_len), 0, data, begin_len, n - begin_len)
        ELSE memcpy(buffer, end, data, 0, n)

\* A call that moves no byte is never made on a buffer that got no memory: it
\* would divide by size = 0.
Moves(n) == up /\ (n > 0 \/ size > 0)

\* Mutant: a full buffer is refused only when it already overflows.
PutOneTooMany(data) ==
    /\ Moves(Len(data))
    /\ \/ data_size + Len(data) > size + 1 /\ Outcome(<<"put", data>>, -1, <<>>) /\ UNCHANGED <<buffer, indices>>
       \/ /\ data_size + Len(data) <= size + 1 /\ size > 0
          /\ buffer' = Stored(data)
          /\ end' = (end + Len(data)) % size
          /\ data_size' = data_size + Len(data)
          /\ Outcome(<<"put", data>>, 0, <<>>) /\ UNCHANGED begin
    /\ UNCHANGED <<up, size>>

circ_buffer_put(data) ==
    /\ Moves(Len(data))
    /\ \/ data_size + Len(data) > size /\ Outcome(<<"put", data>>, -1, <<>>) /\ UNCHANGED <<buffer, indices>>
       \/ /\ data_size + Len(data) <= size
          /\ buffer' = Stored(data)
          /\ end' = (end + Len(data)) % size
          /\ data_size' = data_size + Len(data)
          /\ Outcome(<<"put", data>>, 0, <<>>) /\ UNCHANGED begin
    /\ UNCHANGED <<up, size>>

Copied(n) ==
    LET begin_len == size - begin
    IN  IF begin + n <= size
        THEN [i \in 1 .. n |-> buffer[begin + i - 1]]
        ELSE [i \in 1 .. begin_len |-> buffer[begin + i - 1]]
                \o [i \in 1 .. n - begin_len |-> buffer[i - 1]]

Short(op, n) == data_size - n < 0 /\ Outcome(<<op, n>>, -1, <<>>) /\ UNCHANGED indices

Drop(n) == begin' = (begin + n) % size /\ data_size' = data_size - n /\ UNCHANGED end

circ_buffer_get(n) ==
    /\ Moves(n)
    /\ Short("get", n) \/ (data_size - n >= 0 /\ Outcome(<<"get", n>>, 0, Copied(n)) /\ Drop(n))
    /\ UNCHANGED <<up, buffer, size>>

circ_buffer_advance(n) ==
    /\ Moves(n)
    /\ Short("advance", n) \/ (data_size - n >= 0 /\ Outcome(<<"advance", n>>, 0, <<>>) /\ Drop(n))
    /\ UNCHANGED <<up, buffer, size>>

circ_buffer_peek(n) ==
    /\ Moves(n)
    /\ Short("peek", n) \/ (data_size - n >= 0 /\ Outcome(<<"peek", n>>, 0, Copied(n)) /\ UNCHANGED indices)
    /\ UNCHANGED <<up, buffer, size>>

Init ==
    /\ up = TRUE /\ size \in {0, Size} /\ buffer \in Memory(size)
    /\ begin = 0 /\ end = 0 /\ data_size = 0
    /\ result = [call |-> <<"init">>, ret |-> IF size = 0 THEN -1 ELSE 0, out |-> <<>>]

Next ==
    \/ circ_buffer_init \/ circ_buffer_deinit \/ circ_buffer_reset
    \/ \E k \in 0 .. MaxCall : \E data \in [1 .. k -> Byte] : circ_buffer_put(data)
    \/ \E n \in 0 .. MaxCall :
        circ_buffer_get(n) \/ circ_buffer_advance(n) \/ circ_buffer_peek(n)

Spec == Init /\ [][Next]_vars

-----------------------------------------------------------------------------
(* The fields of circ_buffer_t keep their ranges. *)
TypeOK ==
    /\ up \in BOOLEAN /\ size \in {0, Size}
    /\ data_size \in 0 .. size
    /\ begin \in 0 .. Size - 1 /\ end \in 0 .. Size - 1
    /\ buffer \in Memory(IF up THEN size ELSE 0)
    /\ result.ret \in {0, -1}

(* The write index is kept apart from the read index and the amount of     *)
(* data, and never disagrees with them, whatever calls failed or wrapped   *)
(* on the way (circ_buffer.c:79, 114, 137).                                *)
IndexAgree ==
    up /\ size > 0 => end = (begin + data_size) % size

Contents == [i \in 1 .. IF up THEN data_size ELSE 0 |-> buffer[(begin + i - 1) % size]]

Q == INSTANCE ByteQueue WITH queue <- Contents, room <- IF up THEN size ELSE 0

(* Every call behaves as the call of a bounded queue: bytes come out in    *)
(* the order they went in, none lost, none twice, also across the end of   *)
(* the memory; a call that fails changes nothing (the contract in the      *)
(* comments of circ_buffer.c).                                             *)
ImplementsByteQueue == Q!Spec
=============================================================================
