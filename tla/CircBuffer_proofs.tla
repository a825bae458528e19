------------------------- MODULE CircBuffer_proofs -------------------------
(***************************************************************************)
(* Proofs about CircBuffer for any size, any bytes and any amount moved by *)
(* a call: the indices agree, and the buffer implements ByteQueue.         *)
(***************************************************************************)
EXTENDS CircBuffer, Basics

IInv == TypeOK /\ IndexAgree

LEMMA Constants == Size \in Nat \ {0} /\ MaxCall \in Nat
BY BufferAssumption

\* What a call finds.
LEMMA State ==
    ASSUME IInv
    PROVE  /\ size \in Nat /\ data_size \in Nat /\ begin \in Nat /\ end \in Nat
           /\ data_size <= size
           /\ size > 0 => /\ size \in Nat \ {0} /\ begin \in 0 .. size - 1 /\ end \in 0 .. size - 1
                          /\ up => end = (begin + data_size) % size
BY Constants DEF IInv, TypeOK, IndexAgree

\* n octets more or less: the write index still follows from the other two.
LEMMA IndicesMove ==
    ASSUME IInv, up, size > 0, NEW n \in Nat
    PROVE  /\ (end + n) % size \in 0 .. size - 1 /\ (begin + n) % size \in 0 .. size - 1
           /\ (end + n) % size = (begin + (data_size + n)) % size
           /\ end = (((begin + n) % size) + (data_size - n)) % size
<1> DEFINE x == begin + data_size  y == begin + n  z == data_size - n  w == end + n
<1>1. /\ size \in Nat \ {0} /\ begin \in Int /\ end \in Int /\ data_size \in Int /\ n \in Int
      /\ end = x % size
    BY State
<1>2. x \in Int /\ y \in Int /\ z \in Int /\ w \in Int /\ y + z = x /\ x + n = begin + (data_size + n)
    BY <1>1
<1> HIDE DEF x, y, z
<1>3. size \in Nat \ {0} /\ {x, y, z, n} \subseteq Int
    BY <1>1, <1>2
<1>4. ((x % size) + n) % size = (x + n) % size
    BY <1>3, ModAdd
<1>5. ((y % size) + z) % size = (y + z) % size
    BY <1>3, ModAdd
<1>6. y % size \in 0 .. size - 1
    BY <1>1, <1>2, DivMod
<1>7. w % size \in 0 .. size - 1
    <2> HIDE DEF w
    <2> QED BY <1>1, <1>2, DivMod
<1> QED
    BY <1>1, <1>2, <1>4, <1>5, <1>6, <1>7 DEF y, z

\* The memory after a put, octet by octet.
LEMMA StoredAt ==
    ASSUME IInv, up, size > 0, NEW k \in Nat, NEW data \in [1 .. k -> Byte], data_size + k <= size
    PROVE  /\ Stored(data) \in Memory(size)
           /\ \A i \in 0 .. size - 1 :
                 Stored(data)[i] = IF (i - end) % size < k THEN data[((i - end) % size) + 1] ELSE buffer[i]
<1>1. /\ size \in Nat \ {0} /\ end \in 0 .. size - 1 /\ k <= size /\ Len(data) = k
      /\ buffer \in [0 .. size - 1 -> Byte]
    BY State DEF IInv, TypeOK, Memory
<1> DEFINE len == size - end
<1>2. len \in Nat /\ len = size - end
    BY <1>1
<1>3. \A i \in 0 .. size - 1 : (i - end) % size = IF i >= end THEN i - end ELSE i - end + size
    BY <1>1, ModAround
<1> HIDE DEF len
<1>4. CASE end + k > size
    <2> DEFINE first == memcpy(buffer, end, data, 0, len)
    <2>1. Stored(data) = memcpy(first, 0, data, len, k - len)
        BY <1>1, <1>4 DEF Stored, len
    <2>2. first = [i \in 0 .. size - 1 |-> IF i \in end .. end + len - 1 THEN data[0 + i - end + 1] ELSE buffer[i]]
        BY <1>1 DEF memcpy
    <2>3. /\ DOMAIN first = 0 .. size - 1
          /\ \A i \in 0 .. size - 1 : first[i] = IF i >= end THEN data[i - end + 1] ELSE buffer[i]
        <3> HIDE DEF first
        <3> QED BY <1>1, <1>2, <2>2
    <2> HIDE DEF first
    <2>4. Stored(data) =
            [i \in 0 .. size - 1 |-> IF i \in 0 .. 0 + (k - len) - 1 THEN data[len + i - 0 + 1] ELSE first[i]]
        BY <2>1, <2>3 DEF memcpy
    <2>5. ASSUME NEW i \in 0 .. size - 1
          PROVE  Stored(data)[i] = IF i < k - len THEN data[len + i + 1]
                                   ELSE IF i >= end THEN data[i - end + 1] ELSE buffer[i]
        <3>1. Stored(data)[i] = IF i \in 0 .. 0 + (k - len) - 1 THEN data[len + i - 0 + 1] ELSE first[i]
            BY <2>4
        <3>2. i \in 0 .. 0 + (k - len) - 1 <=> i < k - len
            BY <1>1, <1>2
        <3>3. len + i - 0 + 1 = len + i + 1
            BY <1>1, <1>2
        <3> QED BY <2>3, <3>1, <3>2, <3>3
    <2>6. ASSUME NEW i \in 0 .. size - 1
          PROVE  /\ Stored(data)[i] = IF (i - end) % size < k THEN data[((i - end) % size) + 1] ELSE buffer[i]
                 /\ Stored(data)[i] \in Byte
        <3>1. CASE i >= end
            <4>1. (i - end) % size = i - end /\ i - end < k /\ ~(i < k - len) /\ i - end + 1 \in 1 .. k
                BY <1>1, <1>2, <1>3, <1>4, <3>1
            <4> QED BY <2>5, <3>1, <4>1
        <3>2. CASE ~(i >= end) /\ i < k - len
            <4>1. /\ (i - end) % size = i - end + size /\ i - end + size < k /\ len + i + 1 \in 1 .. k
                  /\ len + i + 1 = i - end + size + 1
                BY <1>1, <1>2, <1>3, <3>2
            <4> QED BY <2>5, <3>2, <4>1
        <3>3. CASE ~(i >= end) /\ ~(i < k - len)
            <4>1. (i - end) % size = i - end + size /\ ~(i - end + size < k)
                BY <1>1, <1>2, <1>3, <3>3
            <4> QED BY <1>1, <2>5, <3>3, <4>1
        <3> QED BY <3>1, <3>2, <3>3
    <2>7. Stored(data) \in [0 .. size - 1 -> Byte]
        BY <2>4, <2>6
    <2> QED BY <2>6, <2>7 DEF Memory
<1>5. CASE ~(end + k > size)
    <2>1. Stored(data) =
            [i \in 0 .. size - 1 |-> IF i \in end .. end + k - 1 THEN data[0 + i - end + 1] ELSE buffer[i]]
        BY <1>1, <1>5 DEF Stored, memcpy
    <2>2. ASSUME NEW i \in 0 .. size - 1
          PROVE  /\ Stored(data)[i] = IF (i - end) % size < k THEN data[((i - end) % size) + 1] ELSE buffer[i]
                 /\ Stored(data)[i] \in Byte
        <3>1. Stored(data)[i] = IF i \in end .. end + k - 1 THEN data[0 + i - end + 1] ELSE buffer[i]
            BY <2>1
        <3>2. CASE i \in end .. end + k - 1
            <4>1. (i - end) % size = i - end /\ i - end < k /\ 0 + i - end + 1 = i - end + 1 /\ i - end + 1 \in 1 .. k
                BY <1>1, <1>3, <3>2
            <4> QED BY <3>1, <3>2, <4>1
        <3>3. CASE i \notin end .. end + k - 1
            <4>1. ~((i - end) % size < k)
                BY <1>1, <1>3, <1>5, <3>3
            <4> QED BY <1>1, <3>1, <3>3, <4>1
        <3> QED BY <3>2, <3>3
    <2>3. Stored(data) \in [0 .. size - 1 -> Byte]
        BY <2>1, <2>2
    <2> QED BY <2>2, <2>3 DEF Memory
<1> QED
    BY <1>4, <1>5

-----------------------------------------------------------------------------
LEMMA EmptyAgrees == Size \in Nat \ {0} => 0 = (0 + 0) % Size
<1> SUFFICES ASSUME Size \in Nat \ {0} PROVE 0 = (0 + 0) % Size
    OBVIOUS
<1>1. 0 + 0 = 0 /\ 0 \in 0 .. Size - 1
    OBVIOUS
<1> QED
    BY <1>1, ModSmall

LEMMA InitOK == Init => IInv
BY Constants, EmptyAgrees DEF Init, IInv, TypeOK, IndexAgree

LEMMA PutOK ==
    ASSUME IInv, NEW k \in 0 .. MaxCall, NEW data \in [1 .. k -> Byte], circ_buffer_put(data)
    PROVE  IInv'
<1>1. k \in Nat /\ Len(data) = k /\ up /\ up' = up /\ size' = size /\ (k > 0 \/ size > 0)
    BY Constants DEF circ_buffer_put, Moves
<1>2. size \in Nat /\ data_size \in Nat
    BY State
<1>3. CASE /\ data_size + k > size /\ Outcome(<<"put", data>>, -1, <<>>)
           /\ UNCHANGED <<buffer, indices>>
    BY <1>1, <1>3 DEF IInv, TypeOK, IndexAgree, Outcome, indices
<1>4. CASE /\ data_size + k <= size
           /\ buffer' = Stored(data)
           /\ end' = (end + k) % size
           /\ data_size' = data_size + k
           /\ Outcome(<<"put", data>>, 0, <<>>) /\ UNCHANGED begin
    <2>1. size > 0
        BY <1>1, <1>2, <1>4
    <2>2. Stored(data) \in Memory(size)
        BY <1>1, <1>4, <2>1, StoredAt
    <2>3. /\ end' \in 0 .. size - 1
          /\ end' = (begin' + data_size') % size'
        BY <1>1, <1>4, <2>1, IndicesMove
    <2>4. result'.ret \in {0, -1}
        BY <1>4 DEF Outcome
    <2>5. data_size' \in 0 .. size'
        BY <1>1, <1>2, <1>4
    <2>6. size \in {0, Size} /\ begin' \in 0 .. Size - 1 /\ end' \in 0 .. Size - 1
        BY <1>4, <2>1, <2>3, Constants DEF IInv, TypeOK
    <2> QED BY <1>1, <1>4, <2>2, <2>3, <2>4, <2>5, <2>6 DEF IInv, TypeOK, IndexAgree
<1> QED
    BY <1>1, <1>3, <1>4 DEF circ_buffer_put

LEMMA DropOK ==
    ASSUME IInv, NEW n \in Nat, up, n > 0 \/ size > 0, data_size - n >= 0, Drop(n),
           UNCHANGED <<up, buffer, size>>, result'.ret \in {0, -1}
    PROVE  IInv'
<1>1. size \in Nat /\ data_size \in Nat /\ data_size <= size
    BY State
<1>2. size > 0
    BY <1>1
<1>3. begin' = (begin + n) % size /\ data_size' = data_size - n /\ end' = end
    BY DEF Drop
<1>4. begin' \in 0 .. size - 1 /\ end = (((begin + n) % size) + (data_size - n)) % size
    BY <1>2, <1>3, IndicesMove
<1>5. begin' \in 0 .. Size - 1 /\ data_size' \in 0 .. size
    BY <1>1, <1>2, <1>3, <1>4, Constants DEF IInv, TypeOK
<1> QED
    BY <1>3, <1>4, <1>5 DEF IInv, TypeOK, IndexAgree

\* A call that fails, or only looks, keeps everything but the result.
LEMMA KeepOK ==
    ASSUME IInv, UNCHANGED <<up, buffer, size, indices>>, result'.ret \in {0, -1}
    PROVE  IInv'
BY DEF IInv, TypeOK, IndexAgree, indices

LEMMA TakeOK ==
    ASSUME IInv, NEW n \in 0 .. MaxCall,
           circ_buffer_get(n) \/ circ_buffer_advance(n) \/ circ_buffer_peek(n)
    PROVE  IInv'
<1>1. n \in Nat /\ up /\ (n > 0 \/ size > 0) /\ UNCHANGED <<up, buffer, size>>
    BY Constants DEF circ_buffer_get, circ_buffer_advance, circ_buffer_peek, Moves
<1>2. result'.ret \in {0, -1}
    BY DEF circ_buffer_get, circ_buffer_advance, circ_buffer_peek, Short, Outcome
<1>3. \/ UNCHANGED indices
      \/ data_size - n >= 0 /\ Drop(n)
    BY DEF circ_buffer_get, circ_buffer_advance, circ_buffer_peek, Short
<1>4. CASE UNCHANGED indices
    BY <1>1, <1>2, <1>4, KeepOK
<1>5. CASE data_size - n >= 0 /\ Drop(n)
    BY <1>1, <1>2, <1>5, DropOK
<1> QED
    BY <1>3, <1>4, <1>5

LEMMA Inductive == IInv /\ [Next]_vars => IInv'
<1> SUFFICES ASSUME IInv, [Next]_vars PROVE IInv'
    OBVIOUS
<1>1. CASE circ_buffer_init
    <2>1. up' /\ up' \in BOOLEAN /\ size' \in {0, Size} /\ begin' = 0 /\ end' = 0 /\ data_size' = 0
        BY <1>1 DEF circ_buffer_init
    <2>2. buffer' \in Memory(IF up' THEN size' ELSE 0)
        BY <1>1, <2>1 DEF circ_buffer_init
    <2>3. result'.ret \in {0, -1}
        BY <1>1 DEF circ_buffer_init, Outcome
    <2>4. TypeOK'
        BY <2>1, <2>2, <2>3, Constants DEF TypeOK
    <2>5. IndexAgree'
        <3>1. CASE size' = Size
            BY <2>1, <3>1, Constants, EmptyAgrees DEF IndexAgree
        <3>2. CASE size' = 0
            BY <3>2 DEF IndexAgree
        <3> QED BY <2>1, <3>1, <3>2
    <2> QED BY <2>4, <2>5 DEF IInv
<1>2. CASE circ_buffer_deinit
    <2>1. buffer' \in Memory(0)
        BY <1>2 DEF circ_buffer_deinit, Memory
    <2> QED BY <1>2, <2>1, Constants DEF circ_buffer_deinit, IInv, TypeOK, IndexAgree, indices
<1>3. CASE circ_buffer_reset
    BY <1>3, Constants, EmptyAgrees DEF circ_buffer_reset, IInv, TypeOK, IndexAgree
<1>4. ASSUME NEW k \in 0 .. MaxCall, NEW data \in [1 .. k -> Byte], circ_buffer_put(data)
      PROVE  IInv'
    BY <1>4, PutOK
<1>5. ASSUME NEW n \in 0 .. MaxCall,
             circ_buffer_get(n) \/ circ_buffer_advance(n) \/ circ_buffer_peek(n)
      PROVE  IInv'
    BY <1>5, TakeOK
<1>6. CASE UNCHANGED vars
    BY <1>6 DEF vars, IInv, TypeOK, IndexAgree
<1> QED
    BY <1>1, <1>2, <1>3, <1>4, <1>5, <1>6 DEF Next

LEMMA Invariance == Spec => []IInv
BY InitOK, Inductive, PTL DEF Spec

\* No call takes an index or the amount of data out of range, and nothing is
\* ever written beside the memory.
THEOREM TypeCorrect == Spec => []TypeOK
<1>1. IInv => TypeOK
    BY DEF IInv
<1> QED
    BY <1>1, Invariance, PTL

\* The write index never disagrees with the read index and the amount of data,
\* whatever calls failed or wrapped on the way.
THEOREM IndicesAgree == Spec => []IndexAgree
<1>1. IInv => IndexAgree
    BY DEF IInv
<1> QED
    BY <1>1, Invariance, PTL

-----------------------------------------------------------------------------
(***************************************************************************)
(* The refinement of ByteQueue: the octets from begin on, around the end   *)
(* of the memory, are the queue.                                           *)
(***************************************************************************)
At(i) == (begin + i - 1) % size

LEMMA Held ==
    ASSUME IInv, up
    PROVE  /\ Contents \in Seq(Byte) /\ Len(Contents) = data_size
           /\ \A i \in 1 .. data_size : At(i) \in 0 .. size - 1 /\ Contents[i] = buffer[At(i)]
<1>1. size \in Nat /\ data_size \in Nat /\ begin \in Nat /\ data_size <= size /\ buffer \in [0 .. size - 1 -> Byte]
    BY State DEF IInv, TypeOK, Memory
<1>2. ASSUME NEW i \in 1 .. data_size
      PROVE  At(i) \in 0 .. size - 1
    <2>1. size \in Nat \ {0} /\ begin + i - 1 \in Int
        BY <1>1
    <2> QED BY <2>1, DivMod DEF At
<1>3. Contents = [i \in 1 .. data_size |-> buffer[At(i)]]
    BY DEF Contents, At
<1>4. \A i \in 1 .. data_size : buffer[At(i)] \in Byte
    BY <1>1, <1>2
<1> QED
    BY <1>1, <1>2, <1>3, <1>4

\* What get and peek copy is the front of the queue.
LEMMA CopiedFront ==
    ASSUME IInv, up, NEW n \in Nat, n <= data_size, size > 0
    PROVE  Copied(n) = SubSeq(Contents, 1, n)
<1>1. size \in Nat \ {0} /\ data_size \in Nat /\ data_size <= size /\ begin \in 0 .. size - 1
    BY State
<1>2. \A i \in 1 .. n : At(i) = IF begin + i - 1 < size THEN begin + i - 1 ELSE begin + i - 1 - size
    <2> SUFFICES ASSUME NEW i \in 1 .. n
                 PROVE  At(i) = IF begin + i - 1 < size THEN begin + i - 1 ELSE begin + i - 1 - size
        OBVIOUS
    <2> DEFINE d == i - 1
    <2>1. d \in 0 .. size - 1 /\ begin \in Int /\ begin + i - 1 = begin + d
        BY <1>1
    <2>2. begin % size = begin
        BY <1>1, ModSmall
    <2> HIDE DEF d
    <2>3. (begin + d) % size = IF (begin % size) + d < size THEN (begin % size) + d ELSE (begin % size) + d - size
        BY <1>1, <2>1, ModShift
    <2>4. At(i) = (begin + d) % size
        BY <2>1 DEF At
    <2> QED BY <2>1, <2>2, <2>3, <2>4
<1>3. SubSeq(Contents, 1, n) = [i \in 1 .. n |-> buffer[At(i)]]
    <2>1. \A i \in 1 .. n : Contents[i] = buffer[At(i)]
        BY <1>1, Held
    <2>2. SubSeq(Contents, 1, n) = [i \in 1 .. n |-> Contents[i]]
        BY <1>1, Held
    <2> QED BY <2>1, <2>2
<1>4. CASE begin + n <= size
    <2>1. \A i \in 1 .. n : At(i) = begin + i - 1
        BY <1>1, <1>2, <1>4
    <2>2. Copied(n) = [i \in 1 .. n |-> buffer[begin + i - 1]]
        BY <1>4 DEF Copied
    <2> QED BY <1>3, <2>1, <2>2
<1>5. CASE ~(begin + n <= size)
    <2> DEFINE len == size - begin
               front == [i \in 1 .. len |-> buffer[begin + i - 1]]
               back  == [i \in 1 .. n - len |-> buffer[i - 1]]
    <2>1. Copied(n) = front \o back
        BY <1>5 DEF Copied
    <2>2. len \in Nat /\ n - len \in Nat /\ len = size - begin
        BY <1>1, <1>5
    <2>3. /\ front \in Seq(Byte) /\ Len(front) = len
          /\ back \in Seq(Byte) /\ Len(back) = n - len
        <3>1. buffer \in [0 .. size - 1 -> Byte]
            BY DEF IInv, TypeOK, Memory
        <3>2. /\ \A i \in 1 .. len : begin + i - 1 \in 0 .. size - 1
              /\ \A i \in 1 .. n - len : i - 1 \in 0 .. size - 1
            BY <1>1, <2>2
        <3> HIDE DEF len
        <3>3. /\ \A i \in 1 .. len : buffer[begin + i - 1] \in Byte
              /\ \A i \in 1 .. n - len : buffer[i - 1] \in Byte
            BY <3>1, <3>2
        <3>4. front \in Seq(Byte) /\ Len(front) = len
            BY <2>2, <3>3
        <3> DEFINE m == n - len
        <3>5. m \in Nat /\ \A i \in 1 .. m : buffer[i - 1] \in Byte
            BY <2>2, <3>3
        <3>6. back = [i \in 1 .. m |-> buffer[i - 1]]
            OBVIOUS
        <3> HIDE DEF m, back
        <3>7. back \in Seq(Byte) /\ Len(back) = m
            BY <3>5, <3>6
        <3> QED BY <3>4, <3>7 DEF m
    <2> HIDE DEF len
    <2>4. /\ \A i \in 1 .. len : front[i] = buffer[begin + i - 1]
          /\ \A i \in 1 .. n - len : back[i] = buffer[i - 1]
        OBVIOUS
    <2> HIDE DEF front, back
    <2>5. front \o back = [i \in 1 .. n |-> IF i <= len THEN front[i] ELSE back[i - len]]
        <3> DEFINE f == front \o back
        <3>1. /\ f \in Seq(Byte) /\ Len(f) = n
              /\ \A i \in 1 .. n : f[i] = IF i <= len THEN front[i] ELSE back[i - len]
            <4>1. len + (n - len) = n
                BY <2>2
            <4>2. /\ f \in Seq(Byte) /\ Len(f) = Len(front) + Len(back)
                  /\ \A i \in 1 .. Len(front) + Len(back) :
                        f[i] = IF i <= Len(front) THEN front[i] ELSE back[i - Len(front)]
                BY <2>3, ConcatProperties
            <4> HIDE DEF f
            <4> QED BY <2>3, <4>1, <4>2
        <3> HIDE DEF f
        <3>2. f = [i \in 1 .. n |-> f[i]]
            BY <3>1, LenProperties
        <3> QED BY <3>1, <3>2 DEF f
    <2>6. ASSUME NEW i \in 1 .. n
          PROVE  buffer[At(i)] = IF i <= len THEN front[i] ELSE back[i - len]
        <3>1. CASE i <= len
            <4>1. i \in 1 .. len /\ At(i) = begin + i - 1
                BY <1>1, <1>2, <2>2, <3>1
            <4> QED BY <2>4, <3>1, <4>1
        <3>2. CASE ~(i <= len)
            <4>1. i - len \in 1 .. n - len /\ At(i) = (i - len) - 1
                BY <1>1, <1>2, <2>2, <3>2
            <4> QED BY <2>4, <3>2, <4>1
        <3> QED BY <3>1, <3>2
    <2> QED BY <1>3, <2>1, <2>5, <2>6
<1> QED
    BY <1>4, <1>5

\* Taking n octets leaves the rest of the queue.
LEMMA DropRest ==
    ASSUME IInv, IInv', up, up', NEW n \in Nat, n <= data_size, size > 0, Drop(n),
           size' = size, buffer' = buffer
    PROVE  Contents' = SubSeq(Contents, n + 1, Len(Contents))
<1>1. size \in Nat \ {0} /\ data_size \in Nat /\ begin \in Nat
    BY State
<1>2. begin' = (begin + n) % size /\ data_size' = data_size - n
    BY DEF Drop
<1>3. Contents \in Seq(Byte) /\ Len(Contents) = data_size
      /\ \A i \in 1 .. data_size : Contents[i] = buffer[At(i)]
    BY Held
<1> DEFINE m == data_size - n
<1>4. m \in Nat /\ n + 1 \in Int /\ (data_size - (n + 1)) + 1 = m
    BY <1>1
<1>5. Contents' = [i \in 1 .. m |-> buffer[(((begin + n) % size) + i - 1) % size]]
    BY <1>2 DEF Contents
<1>6. ASSUME NEW i \in 1 .. m
      PROVE  (((begin + n) % size) + i - 1) % size = At(n + i)
    <2> DEFINE b == begin + n  d == i - 1
    <2>1. b \in Int /\ d \in Int /\ b % size \in Int
        <3>1. b \in Int /\ d \in Int
            BY <1>1, <1>4
        <3> HIDE DEF b
        <3> QED BY <1>1, <3>1, DivMod
    <2> HIDE DEF b, d
    <2>2. ((b % size) + d) % size = (b + d) % size
        BY <1>1, <2>1, ModAdd
    <2>3. (b % size) + d = (b % size) + i - 1
        BY <1>4, <2>1 DEF d
    <2>4. b + d = begin + (n + i) - 1
        BY <1>1, <1>4 DEF b, d
    <2> QED BY <2>2, <2>3, <2>4 DEF b, At
<1>7. SubSeq(Contents, n + 1, data_size) = [i \in 1 .. m |-> buffer[At(n + i)]]
    <2> DEFINE f == SubSeq(Contents, n + 1, data_size)
    <2>1. \A i \in n + 1 .. data_size : Contents[i] \in Byte
        BY <1>1, <1>3, ElementOfSeq
    <2>2. /\ f \in Seq(Byte)
          /\ Len(f) = IF n + 1 <= data_size THEN data_size - (n + 1) + 1 ELSE 0
          /\ \A i \in 1 .. data_size - (n + 1) + 1 : f[i] = Contents[(n + 1) + i - 1]
        BY <1>1, <1>4, <2>1, SubSeqProperties
    <2> HIDE DEF f
    <2>3. Len(f) = m
        BY <1>1, <2>2
    <2>4. ASSUME NEW i \in 1 .. m
          PROVE  f[i] = buffer[At(n + i)]
        <3>1. n + i \in 1 .. data_size /\ (n + 1) + i - 1 = n + i /\ i \in 1 .. data_size - (n + 1) + 1
            BY <1>1
        <3> QED BY <1>3, <2>2, <3>1
    <2>5. f = [i \in 1 .. m |-> f[i]]
        BY <2>2, <2>3, LenProperties
    <2> QED BY <2>4, <2>5 DEF f
<1> QED
    BY <1>3, <1>5, <1>6, <1>7

\* Putting octets appends them to the queue.
LEMMA PutAppends ==
    ASSUME IInv, IInv', up, up', size > 0, NEW k \in Nat, NEW data \in [1 .. k -> Byte],
           data_size + k <= size, buffer' = Stored(data), data_size' = data_size + k,
           begin' = begin, size' = size
    PROVE  Contents' = Contents \o data
<1>1. size \in Nat \ {0} /\ data_size \in Nat /\ begin \in Int /\ end = (begin + data_size) % size
    BY State
<1>2. Contents \in Seq(Byte) /\ Len(Contents) = data_size
      /\ \A i \in 1 .. data_size : At(i) \in 0 .. size - 1 /\ Contents[i] = buffer[At(i)]
    BY Held
<1>3. data \in Seq(Byte) /\ Len(data) = k
    OBVIOUS
<1> DEFINE m == data_size + k  f == Contents \o data
<1>4. Contents' = [i \in 1 .. m |-> Stored(data)[At(i)]]
    BY DEF Contents, At
<1>5. /\ f \in Seq(Byte) /\ Len(f) = m
      /\ \A i \in 1 .. m : f[i] = IF i <= data_size THEN Contents[i] ELSE data[i - data_size]
    BY <1>2, <1>3, ConcatProperties
<1>6. ASSUME NEW i \in 1 .. m
      PROVE  Stored(data)[At(i)] = f[i]
    <2> DEFINE x == begin + i - 1  y == begin + data_size  g == i - 1 - data_size
    <2>1. x \in Int /\ y \in Int /\ g \in Int /\ x - y = g
        BY <1>1
    <2>2. At(i) = x % size /\ end = y % size
        BY <1>1 DEF At
    <2>3. At(i) \in 0 .. size - 1
        <3> HIDE DEF x, y
        <3> QED BY <1>1, <2>1, <2>2, DivMod
    <2>4. (At(i) - end) % size = g % size
        <3> DEFINE r == x % size
        <3>1. r \in Int
            BY <2>2, <2>3
        <3> HIDE DEF r, x, y, g
        <3>2. (r - (y % size)) % size = (r - y) % size
            BY <1>1, <2>1, <3>1, ModAdd
        <3>3. ((x % size) - y) % size = (x - y) % size
            BY <1>1, <2>1, ModAdd
        <3> QED BY <2>1, <2>2, <3>2, <3>3 DEF r
    <2>5. Stored(data)[At(i)] =
            IF (At(i) - end) % size < k THEN data[((At(i) - end) % size) + 1] ELSE buffer[At(i)]
        BY <2>3, StoredAt
    <2>6. CASE i <= data_size
        <3> DEFINE h == g + size
        <3>1. h \in 0 .. size - 1 /\ ~(h < k)
            BY <1>1, <2>6
        <3>2. h % size = h /\ h % size = g % size
            <4> HIDE DEF g
            <4>1. (g + size) % size = g % size
                BY <1>1, <2>1, ModTurn
            <4> HIDE DEF h
            <4>2. h % size = h
                BY <1>1, <3>1, ModSmall
            <4> QED BY <4>1, <4>2 DEF h
        <3>3. Stored(data)[At(i)] = buffer[At(i)]
            <4> HIDE DEF g, h
            <4> QED BY <2>4, <2>5, <3>1, <3>2
        <3> QED BY <1>2, <1>5, <2>6, <3>3
    <2>7. CASE ~(i <= data_size)
        <3>1. g \in 0 .. size - 1 /\ g < k /\ g + 1 = i - data_size
            BY <1>1, <2>7
        <3> HIDE DEF g
        <3>2. g % size = g
            BY <1>1, <3>1, ModSmall
        <3>3. Stored(data)[At(i)] = data[g + 1]
            BY <2>4, <2>5, <3>1, <3>2
        <3> QED BY <1>5, <2>7, <3>1, <3>3
    <2> QED BY <2>6, <2>7
<1>7. f = [i \in 1 .. m |-> f[i]]
    <2> HIDE DEF f
    <2> QED BY <1>5, LenProperties
<1> QED
    BY <1>4, <1>6, <1>7

-----------------------------------------------------------------------------
\* The queue and its room, as Q sees them.
Room == IF up THEN size ELSE 0

LEMMA NothingHeld == (~up \/ data_size = 0) => Contents = <<>>
BY DEF Contents

LEMMA PutRefines ==
    ASSUME IInv, IInv', NEW k \in 0 .. MaxCall, NEW data \in [1 .. k -> Byte], circ_buffer_put(data)
    PROVE  Q!Put(data)
<1>1. k \in Nat /\ Len(data) = k /\ up /\ up' /\ size' = size /\ (k > 0 \/ size > 0)
    BY Constants DEF circ_buffer_put, Moves
<1>2. size \in Nat /\ data_size \in Nat /\ data_size <= size /\ Len(Contents) = data_size
    BY <1>1, State, Held
<1>3. CASE /\ data_size + k > size /\ Outcome(<<"put", data>>, -1, <<>>)
           /\ UNCHANGED <<buffer, indices>>
    <2>1. Contents' = Contents
        BY <1>1, <1>3 DEF Contents, indices
    <2> QED BY <1>1, <1>2, <1>3, <2>1 DEF Q!Put, Q!Fail, Q!Outcome, Outcome
<1>4. CASE /\ data_size + k <= size
           /\ buffer' = Stored(data)
           /\ end' = (end + k) % size
           /\ data_size' = data_size + k
           /\ Outcome(<<"put", data>>, 0, <<>>) /\ UNCHANGED begin
    <2>1. size > 0
        BY <1>1, <1>2, <1>4
    <2>2. Contents' = Contents \o data
        BY <1>1, <1>4, <2>1, PutAppends
    <2> QED BY <1>1, <1>2, <1>4, <2>2 DEF Q!Put, Q!Outcome, Outcome
<1> QED
    BY <1>1, <1>3, <1>4 DEF circ_buffer_put

LEMMA TakeRefines ==
    ASSUME IInv, IInv', NEW n \in 0 .. MaxCall
    PROVE  /\ circ_buffer_get(n) => Q!Take("get", n)
           /\ circ_buffer_advance(n) => Q!Take("advance", n)
           /\ circ_buffer_peek(n) => Q!Take("peek", n)
<1>1. n \in Nat /\ size \in Nat /\ data_size \in Nat /\ data_size <= size
    BY State, Constants
<1>2. up => Len(Contents) = data_size
    BY Held
<1>3. ASSUME NEW op \in {"get", "advance", "peek"}, up, up', UNCHANGED <<buffer, size>>, Short(op, n)
      PROVE  Q!Take(op, n)
    <2>1. Contents' = Contents
        BY <1>3 DEF Contents, Short, indices
    <2> QED BY <1>1, <1>2, <1>3, <2>1 DEF Q!Take, Q!Fail, Q!Outcome, Short, Outcome
<1>4. ASSUME circ_buffer_get(n)
      PROVE  Q!Take("get", n)
    <2>1. up /\ up' /\ UNCHANGED <<buffer, size>> /\ (n > 0 \/ size > 0)
        BY <1>4 DEF circ_buffer_get, Moves
    <2>2. CASE data_size - n >= 0 /\ Outcome(<<"get", n>>, 0, Copied(n)) /\ Drop(n)
        <3>1. size > 0 /\ n <= data_size
            BY <1>1, <2>1, <2>2
        <3>2. Contents' = SubSeq(Contents, n + 1, Len(Contents)) /\ Copied(n) = SubSeq(Contents, 1, n)
            BY <1>1, <2>1, <2>2, <3>1, DropRest, CopiedFront
        <3> QED BY <1>1, <1>2, <2>1, <2>2, <3>1, <3>2 DEF Q!Take, Q!Outcome, Outcome
    <2> QED BY <1>3, <1>4, <2>1, <2>2 DEF circ_buffer_get
<1>5. ASSUME circ_buffer_advance(n)
      PROVE  Q!Take("advance", n)
    <2>1. up /\ up' /\ UNCHANGED <<buffer, size>> /\ (n > 0 \/ size > 0)
        BY <1>5 DEF circ_buffer_advance, Moves
    <2>2. CASE data_size - n >= 0 /\ Outcome(<<"advance", n>>, 0, <<>>) /\ Drop(n)
        <3>1. size > 0 /\ n <= data_size
            BY <1>1, <2>1, <2>2
        <3>2. Contents' = SubSeq(Contents, n + 1, Len(Contents))
            BY <1>1, <2>1, <2>2, <3>1, DropRest
        <3> QED BY <1>1, <1>2, <2>1, <2>2, <3>1, <3>2 DEF Q!Take, Q!Outcome, Outcome
    <2> QED BY <1>3, <1>5, <2>1, <2>2 DEF circ_buffer_advance
<1>6. ASSUME circ_buffer_peek(n)
      PROVE  Q!Take("peek", n)
    <2>1. up /\ up' /\ UNCHANGED <<buffer, size>> /\ (n > 0 \/ size > 0)
        BY <1>6 DEF circ_buffer_peek, Moves
    <2>2. CASE data_size - n >= 0 /\ Outcome(<<"peek", n>>, 0, Copied(n)) /\ UNCHANGED indices
        <3>1. size > 0 /\ n <= data_size
            BY <1>1, <2>1, <2>2
        <3>2. Contents' = Contents /\ Copied(n) = SubSeq(Contents, 1, n)
            BY <1>1, <2>1, <2>2, <3>1, CopiedFront DEF Contents, indices
        <3> QED BY <1>1, <1>2, <2>1, <2>2, <3>1, <3>2 DEF Q!Take, Q!Outcome, Outcome
    <2> QED BY <1>3, <1>6, <2>1, <2>2 DEF circ_buffer_peek
<1> QED
    BY <1>4, <1>5, <1>6

\* Every call behaves as the call of a bounded queue: octets come out in the
\* order they went in, none lost, none twice, for every size of the memory and
\* wherever in it they lie; a call that fails changes nothing.
THEOREM Refinement == Spec => ImplementsByteQueue
<1>1. Init => Q!Init
    <2> SUFFICES ASSUME Init PROVE Q!Init
        OBVIOUS
    <2>1. Contents = <<>>
        BY NothingHeld DEF Init
    <2> QED BY <2>1 DEF Init, Q!Init
<1>2. IInv /\ IInv' /\ [Next]_vars => [Q!Next]_<<Contents, Room, result>>
    <2> SUFFICES ASSUME IInv, IInv', [Next]_vars
                 PROVE  Q!Next \/ UNCHANGED <<Contents, Room, result>>
        BY DEF Room
    <2>1. CASE circ_buffer_init
        <3>1. Contents' = <<>>
            BY <2>1 DEF circ_buffer_init, Contents
        <3>2. Q!Open
            BY <2>1, <3>1 DEF circ_buffer_init, Q!Open, Q!Outcome, Outcome
        <3> QED BY <3>2 DEF Q!Next
    <2>2. CASE circ_buffer_deinit
        <3>1. Contents' = <<>>
            BY <2>2 DEF circ_buffer_deinit, Contents
        <3>2. Q!Close
            BY <2>2, <3>1 DEF circ_buffer_deinit, Q!Close
        <3> QED BY <3>2 DEF Q!Next
    <2>3. CASE circ_buffer_reset
        <3>1. Contents' = <<>>
            BY <2>3 DEF circ_buffer_reset, Contents
        <3>2. Q!Reset
            BY <2>3, <3>1 DEF circ_buffer_reset, Q!Reset
        <3> QED BY <3>2 DEF Q!Next
    <2>4. ASSUME NEW k \in 0 .. MaxCall, NEW data \in [1 .. k -> Byte], circ_buffer_put(data)
          PROVE  Q!Next
        BY <2>4, PutRefines DEF Q!Next
    <2>5. ASSUME NEW n \in 0 .. MaxCall,
                 circ_buffer_get(n) \/ circ_buffer_advance(n) \/ circ_buffer_peek(n)
          PROVE  Q!Next
        BY <2>5, TakeRefines DEF Q!Next
    <2>6. CASE UNCHANGED vars
        BY <2>6 DEF vars, Contents, Room
    <2> QED BY <2>1, <2>2, <2>3, <2>4, <2>5, <2>6 DEF Next
<1> QED
    BY <1>1, <1>2, Invariance, PTL DEF Spec, ImplementsByteQueue, Q!Spec, Room
=============================================================================
