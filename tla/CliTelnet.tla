------------------------------ MODULE CliTelnet ------------------------------
(***************************************************************************)
(* The command line server of libutils: one thread that runs the I/O       *)
(* driver's loop (io_driver.c), the listening socket (tcp_server*.c), the  *)
(* connections (cli_telnet.c) and their streams (stream.c).  The peers and *)
(* the kernel take steps between any two callbacks and any two calls of    *)
(* write.  What a command prints is any few messages of Length bytes.      *)
(*                                                                         *)
(* The circular buffer of a stream is the queue CircBuffer implements.     *)
(* Bytes are numbered in the order the command line hands them to          *)
(* stream_write, so that what a peer sees can be compared with it.         *)
(***************************************************************************)
EXTENDS Integers, FiniteSets, IoDriver

CONSTANTS
    Conn,         \* addresses malloc may return for a cli_connection_t
    Server,       \* the watcher of the listening socket
    Fd,           \* descriptors accept may return
    Length,       \* lengths of the messages a command prints
    TX_BUF_SIZE,  \* 128, cli_telnet.c:86
    CHUNK,        \* 128, stream.c:12
    Fault,        \* what peers may do to a connection: close, reset, urgent
    Backlog, Unread, Room, Writes, Offered  \* bounds

ASSUME TelnetAssumption ==
    /\ Watcher = Conn \cup {Server} /\ Server \notin Conn
    /\ Length \subseteq Nat \ {0} /\ Fd \subseteq Nat /\ Fd # {}
    /\ {TX_BUF_SIZE, CHUNK, Backlog, Unread, Room, Writes, Offered} \subseteq Nat \ {0}
    /\ Fault \subseteq {"close", "reset", "urgent"}

VARIABLES
    d,        \* the driver
    sel,      \* r, w, e: descriptors the last select reported
    stage,    \* what postselect does next; "idle" outside of it
    cur,      \* the watcher it is at
    conn,     \* the connections, freed ones as free left them
    writer,   \* the connection a callback writes to, and its messages to come
    sock,     \* the accepted sockets in the kernel
    backlog,  \* connections waiting for accept
    crashed   \* CRASH() was executed

vars == <<d, sel, stage, cur, conn, writer, sock, backlog, crashed>>

NoSock == [open |-> FALSE, peer |-> "open", unread |-> 0, room |-> Room, urgent |-> FALSE]

\* Mutant: a set that is not empty is not passed to select, which leaves it the
\* way preselect built it.
Unfiltered(event, ready) ==
    {conn[c].fd : c \in {x \in Conn : event \in d.listening[x]}}

\* A set of preselect after select: the descriptors listened to that are ready.
Descriptors(event, ready) ==
    {conn[c].fd : c \in {x \in Conn : event \in d.listening[x] /\ ready[conn[x].fd]}}

Min2(a, b) == IF a < b THEN a ELSE b

NothingReported == [r |-> {}, w |-> {}, e |-> {}, accept |-> FALSE]

-----------------------------------------------------------------------------
(* The kernel and the peers. *)

Connect == backlog < Backlog /\ backlog' = backlog + 1 /\ UNCHANGED <<d, sel, stage, cur, conn, writer, sock, crashed>>

PeerStep(f) ==
    /\ sock[f].open
    /\ \/ /\ sock[f].peer = "open" /\ sock[f].unread < Unread
          /\ sock' = [sock EXCEPT ![f].unread = @ + 1]
       \/ /\ sock[f].peer # "reset" /\ sock[f].room < Room
          /\ sock' = [sock EXCEPT ![f].room = @ + 1]
       \/ /\ "close" \in Fault /\ sock[f].peer = "open"
          /\ sock' = [sock EXCEPT ![f].peer = "closed"]
       \/ /\ "reset" \in Fault /\ sock[f].peer # "reset"
          /\ sock' = [sock EXCEPT ![f].peer = "reset"]
       \/ /\ "urgent" \in Fault /\ sock[f].peer = "open" /\ ~sock[f].urgent
          /\ sock' = [sock EXCEPT ![f].urgent = TRUE]
    /\ UNCHANGED <<d, sel, stage, cur, conn, writer, backlog, crashed>>

Readable == [f \in Fd |-> sock[f].unread > 0 \/ sock[f].peer # "open"]

Writable == [f \in Fd |-> sock[f].room > 0 \/ sock[f].peer = "reset"]

Urgent == [f \in Fd |-> sock[f].urgent]

\* write(): the number of bytes taken, -1 for EWOULDBLOCK, -2 for another error.
write(f, len) ==
    IF sock[f].peer = "reset" THEN -2
    ELSE IF sock[f].room = 0 THEN -1 ELSE Min2(len, sock[f].room)

-----------------------------------------------------------------------------
(* stream.c *)

stream_init_with_fd(dr, c) == io_driver_watch(io_driver_watch(dr, c, "RX"), c, "EX")

\* Mutant: the socket is not closed.
DeinitLeaks(c) ==
    /\ d' = io_driver_no_watch(io_driver_no_watch(io_driver_no_watch(d, c, "RX"), c, "TX"), c, "EX")
    /\ UNCHANGED sock

\* circ_buffer_deinit, three times io_driver_no_watch, close
stream_deinit(c) ==
    /\ d' = io_driver_no_watch(io_driver_no_watch(io_driver_no_watch(d, c, "RX"), c, "TX"), c, "EX")
    /\ sock' = [sock EXCEPT ![conn[c].fd] = NoSock]

Message(c, len) == [i \in 1 .. len |-> conn[c].offered + i]

\* Mutant: the queue is not checked for room.
PutAlways(c, q, bytes) == TRUE

\* Whether the queue q takes the bytes.
circ_buffer_put(c, q, bytes) == Len(q) + Len(bytes) <= conn[c].size

\* A message for a stream with output queued up waits behind it, or is dropped.
WriteQueued(c, data) ==
    /\ conn[c].tx_buf # <<>>
    /\ conn' = [conn EXCEPT ![c].offered = @ + Len(data), ![c].tx_buf =
                    IF circ_buffer_put(c, @, data) THEN @ \o data ELSE @]
    /\ UNCHANGED <<d, sock>>

\* The test of circ_buffer_put at line 154 is the wrong way round: bytes that
\* were queued return FALSE and start no watcher, bytes that were not do.
WriteNow(c, data) ==
    LET ret  == write(conn[c].fd, Len(data))
        took == IF ret < 0 THEN 0 ELSE ret
        rest == SubSeq(data, took + 1, Len(data))
        full == ~circ_buffer_put(c, <<>>, rest)
    IN  /\ conn[c].tx_buf = <<>>
        /\ conn' = [conn EXCEPT ![c].offered = @ + Len(data),
                        ![c].sent = @ \o SubSeq(data, 1, took),
                        ![c].tx_buf = IF ret = -2 \/ full THEN <<>> ELSE rest]
        /\ sock' = [sock EXCEPT ![conn[c].fd].room = @ - took]
        /\ d' = IF ret # -2 /\ ret # Len(data) /\ full THEN io_driver_watch(d, c, "TX") ELSE d

\* Mutant: what is queued is overtaken by a message the socket has room for.
WriteOvertakes(c, data) ==
    LET took == Min2(Len(data), sock[conn[c].fd].room)
    IN  IF conn[c].tx_buf # <<>> /\ took = Len(data) /\ sock[conn[c].fd].peer # "reset"
        THEN /\ conn' = [conn EXCEPT ![c].offered = @ + Len(data), ![c].sent = @ \o data]
             /\ sock' = [sock EXCEPT ![conn[c].fd].room = @ - took]
             /\ UNCHANGED d
        ELSE WriteQueued(c, data) \/ WriteNow(c, data)

stream_write(c, data) == WriteQueued(c, data) \/ WriteNow(c, data)

stream_handle_tx_event(c) ==
    LET q   == conn[c].tx_buf
        ret == write(conn[c].fd, Min2(Len(q), CHUNK))
        rest == SubSeq(q, ret + 1, Len(q))
    IN  \/ /\ q = <<>>
           /\ d' = io_driver_no_watch(d, c, "TX")
           /\ UNCHANGED <<conn, sock, crashed>>
        \/ /\ q # <<>> /\ ret <= 0
           /\ d' = io_driver_no_watch(d, c, "TX") /\ crashed' = TRUE
           /\ UNCHANGED <<conn, sock>>
        \/ /\ q # <<>> /\ ret > 0
           /\ conn' = [conn EXCEPT ![c].sent = @ \o SubSeq(q, 1, ret), ![c].tx_buf = rest]
           /\ sock' = [sock EXCEPT ![conn[c].fd].room = @ - ret]
           /\ d' = IF rest = <<>> THEN io_driver_no_watch(d, c, "TX") ELSE d
           /\ UNCHANGED crashed

-----------------------------------------------------------------------------
(* cli_telnet.c: handle_stream_event and the life of a connection *)

\* Memory may be short for the connection or for its tx_buf; the latter goes
\* unnoticed (stream.c:96).  A new connection gets two messages: the telnet
\* options of init_telnet_session and the prompt.
alloc_cli_connection(newsd) ==
    \/ /\ sock' = sock /\ UNCHANGED <<d, conn, writer>> /\ stage' = "TX"
    \/ \E c \in {x \in Conn : ~conn[x].live}, size \in {0, TX_BUF_SIZE} :
        /\ conn' = [conn EXCEPT ![c] = [live |-> TRUE, fd |-> newsd, size |-> size,
                                        tx_buf |-> <<>>, sent |-> <<>>, offered |-> 0]]
        /\ d' = stream_init_with_fd(d, c)
        /\ sock' = [sock EXCEPT ![newsd].open = TRUE]
        /\ writer' = [to |-> c, left |-> 2] /\ stage' = "callback"

dealloc_cli_connection(c) ==
    /\ stream_deinit(c)
    /\ conn' = [conn EXCEPT ![c].live = FALSE, ![c].size = 0,
                            ![c].tx_buf = <<>>, ![c].sent = <<>>, ![c].offered = 0]

tcp_server_ipv4_rx_event ==
    LET free == {f \in Fd : ~sock[f].open}
    IN  \/ /\ backlog' \in {backlog, backlog - 1} \* accept() failed
           /\ backlog' < backlog \/ free = {}
           /\ stage' = "TX" /\ UNCHANGED <<d, conn, writer, sock>>
        \/ /\ free # {} /\ backlog' = backlog - 1
           /\ alloc_cli_connection(CHOOSE f \in free : \A g \in free : f <= g)

\* Mutant: the end of the input is taken for a read without data.
EofIgnored(c) ==
    LET s == sock[conn[c].fd]
    IN  \/ /\ s.unread > 0
           /\ sock' = [sock EXCEPT ![conn[c].fd].unread = @ - 1]
           /\ \E n \in 0 .. Writes : writer' = [to |-> c, left |-> n]
           /\ stage' = "callback" /\ UNCHANGED <<d, conn, backlog>>
        \/ /\ s.unread = 0 /\ s.peer = "reset"
           /\ dealloc_cli_connection(c)
           /\ stage' = "TX" /\ UNCHANGED <<writer, backlog>>
        \/ /\ s.unread = 0 /\ s.peer # "reset"
           /\ stage' = "TX" /\ UNCHANGED <<d, conn, sock, writer, backlog>>

\* Input goes to the command line, which answers; the end of input and an error
\* end the connection.
stream_rx(c) ==
    LET s == sock[conn[c].fd]
    IN  \/ /\ s.unread > 0
           /\ sock' = [sock EXCEPT ![conn[c].fd].unread = @ - 1]
           /\ \E n \in 0 .. Writes : writer' = [to |-> c, left |-> n]
           /\ stage' = "callback" /\ UNCHANGED <<d, conn, backlog>>
        \/ /\ s.unread = 0
           /\ dealloc_cli_connection(c)
           /\ stage' = "TX" /\ UNCHANGED <<writer, backlog>>

-----------------------------------------------------------------------------
(* io_driver_run: preselect, select and the stages of postselect *)

Listens(event) == event \in d.listening[cur]

Select ==
    LET r == Descriptors("RX", Readable)
        w == Descriptors("TX", Writable)
        e == Descriptors("EX", Urgent)
        accepts == backlog > 0 /\ "RX" \in d.listening[Server]
    IN  /\ stage = "idle" /\ ~crashed
        /\ IF r \cup w \cup e = {} /\ ~accepts
           THEN UNCHANGED <<d, sel, stage>>
           ELSE /\ sel' = [r |-> r, w |-> w, e |-> e, accept |-> accepts]
                /\ d' = splice(d) /\ stage' = "next"
        /\ UNCHANGED <<cur, conn, writer, sock, backlog, crashed>>

NextWatcher ==
    /\ stage = "next" /\ ~crashed
    /\ \/ /\ d.run_list = <<>> /\ stage' = "idle"
          /\ cur' = Server /\ sel' = NothingReported /\ UNCHANGED d
       \/ /\ d.run_list # <<>> /\ stage' = "RX"
          /\ cur' = Head(d.run_list) /\ d' = move_first(d) /\ UNCHANGED sel
    /\ UNCHANGED <<conn, writer, sock, backlog, crashed>>

RxStage ==
    /\ stage = "RX" /\ ~crashed
    /\ \/ cur = Server /\ Listens("RX") /\ sel.accept /\ tcp_server_ipv4_rx_event
       \/ cur # Server /\ Listens("RX") /\ conn[cur].fd \in sel.r /\ stream_rx(cur)
       \/ /\ ~(Listens("RX") /\ IF cur = Server THEN sel.accept ELSE conn[cur].fd \in sel.r)
          /\ stage' = "TX" /\ UNCHANGED <<d, conn, writer, sock, backlog>>
    /\ UNCHANGED <<sel, cur, crashed>>

\* One message of the callback in progress; without any left, or when the bound
\* on the bytes offered is reached, the callback returns.
Callback ==
    /\ stage = "callback" /\ ~crashed
    /\ \/ \E len \in Length :
            /\ writer.left > 0 /\ conn[writer.to].offered + len <= Offered
            /\ stream_write(writer.to, Message(writer.to, len))
            /\ writer' = [writer EXCEPT !.left = @ - 1]
            /\ UNCHANGED stage
       \/ /\ writer.left = 0 \/ \A len \in Length : conn[writer.to].offered + len > Offered
          /\ stage' = "TX" /\ UNCHANGED <<d, conn, writer, sock>>
    /\ UNCHANGED <<sel, cur, backlog, crashed>>

\* Lines 111 and 116 look at the watcher even when its own callback has freed
\* the connection it is part of: what is read is what stream_deinit left there.
TxStage ==
    /\ stage = "TX" /\ ~crashed /\ stage' = "EX"
    /\ \/ cur # Server /\ Listens("TX") /\ conn[cur].fd \in sel.w /\ stream_handle_tx_event(cur)
       \/ /\ ~(cur # Server /\ Listens("TX") /\ conn[cur].fd \in sel.w)
          /\ UNCHANGED <<d, conn, sock, crashed>>
    /\ UNCHANGED <<sel, cur, writer, backlog>>

ExStage ==
    /\ stage = "EX" /\ ~crashed /\ stage' = "next"
    /\ \/ cur # Server /\ Listens("EX") /\ conn[cur].fd \in sel.e /\ dealloc_cli_connection(cur)
       \/ /\ ~(cur # Server /\ Listens("EX") /\ conn[cur].fd \in sel.e)
          /\ UNCHANGED <<d, conn, sock>>
    /\ UNCHANGED <<sel, cur, writer, backlog, crashed>>

Init ==
    /\ d = io_driver_watch(io_driver_init, Server, "RX")
    /\ sel = NothingReported
    /\ stage = "idle" /\ cur = Server
    /\ conn = [c \in Conn |-> [live |-> FALSE, fd |-> CHOOSE f \in Fd : TRUE, size |-> 0,
                               tx_buf |-> <<>>, sent |-> <<>>, offered |-> 0]]
    /\ writer \in [to : Conn, left : {0}]
    /\ sock = [f \in Fd |-> NoSock]
    /\ backlog = 0 /\ crashed = FALSE

Loop == Select \/ NextWatcher \/ RxStage \/ Callback \/ TxStage \/ ExStage

Next == Loop \/ Connect \/ \E f \in Fd : PeerStep(f)

Spec == Init /\ [][Next]_vars

\* main() runs the loop forever; nothing is assumed of the peers.
FairSpec == Spec /\ WF_vars(Loop)

-----------------------------------------------------------------------------
Increasing(q) == \A i, j \in 1 .. Len(q) : i < j => q[i] < q[j]

(* The variables keep their ranges; a queue never holds more than the      *)
(* memory its stream got.                                                  *)
TypeOK ==
    /\ d.watchers \in Seq(Watcher) /\ d.run_list \in Seq(Watcher)
    /\ d.listening \in [Watcher -> SUBSET Event]
    /\ sel \in [r : SUBSET Fd, w : SUBSET Fd, e : SUBSET Fd, accept : BOOLEAN]
    /\ stage \in {"idle", "next", "RX", "callback", "TX", "EX"} /\ cur \in Watcher
    /\ \A c \in Conn :
        /\ conn[c].live \in BOOLEAN /\ conn[c].fd \in Fd /\ conn[c].offered \in 0 .. Offered
        /\ conn[c].size \in {0, TX_BUF_SIZE} /\ Len(conn[c].tx_buf) <= conn[c].size
    /\ writer.to \in Conn /\ writer.left \in 0 .. Writes + 2
    /\ sock \in [Fd -> [open : BOOLEAN, peer : {"open", "closed", "reset"},
                        unread : 0 .. Unread, room : 0 .. Room, urgent : BOOLEAN]]
    /\ backlog \in 0 .. Backlog /\ crashed \in BOOLEAN

(* While callbacks accept and end connections in the middle of a round, a  *)
(* watcher is on exactly one of the driver's two lists, once, if it        *)
(* listens to anything, and on neither if not (io_driver.c:71-91); only    *)
(* the server and live connections listen.                                 *)
ListsConsistent ==
    /\ Linked(d)
    /\ \A c \in Conn : d.listening[c] # {} <=> conn[c].live

(* Every descriptor accept returned is either closed or belongs to exactly *)
(* one live connection: none leaks and none is shared, on all error paths. *)
DescriptorsOwned ==
    \A f \in Fd : Cardinality({c \in Conn : conn[c].live /\ conn[c].fd = f})
                    = IF sock[f].open THEN 1 ELSE 0

(* A connection is ended only if its peer closed or reset it or sent       *)
(* urgent data: as a read without data counts as an error (stream.c:74),   *)
(* an event that is stale when its callback runs, or belongs to an earlier *)
(* connection with the same descriptor, would end a healthy connection.    *)
NoInnocentDrop ==
    [][\A c \in Conn : conn[c].live /\ ~conn'[c].live =>
            sock[conn[c].fd].peer # "open" \/ sock[conn[c].fd].urgent]_vars

(* What the peer has been sent, followed by what waits in the circular     *)
(* buffer, is in the order the command line wrote it, no byte twice, while *)
(* direct writes, the queue and the TX event all feed the same socket.     *)
OutputInOrder == \A c \in Conn : Increasing(conn[c].sent \o conn[c].tx_buf)

(* A connection whose peer has closed or reset it is ended and its memory  *)
(* freed, unless the process crashes.                                      *)
DeadPeerReaped ==
    \A c \in Conn :
        (conn[c].live /\ sock[conn[c].fd].peer # "open") ~> (~conn[c].live \/ crashed)

(* stream.c:131: "something got queued up due to socket buffer full / tx   *)
(* watcher is alreadt started in this case".                               *)
QueuedIsWatched == \A c \in Conn : conn[c].tx_buf # <<>> => "TX" \in d.listening[c]

(* stream.c:38: "XXXXXXXX this should not happen", before CRASH().         *)
NoCrash == ~crashed

(* io_driver.c:79: "callbacks should be able to delete itself": when they  *)
(* do, postselect does not go on looking at the watcher.                   *)
NoFreedWatcherRead == stage \in {"TX", "EX"} /\ cur # Server => conn[cur].live
=============================================================================
