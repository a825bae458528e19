# Verification of prtp

TLA+ models of prtp, a single-threaded RTP/RTCP library (RFC 3550) in C, the
TLC runs that check them on small instances, and TLAPS proofs of what matters
most. Paths below are relative to the repository root, of which `src/src/` is
written `src/` in comments of the modules (`rtcp.c:393` is `src/rtcp.c`).

## The system

The host owns sockets, threads and clocks. It calls `rtp_session_rx_rtp`,
`rtp_session_rx_rtcp`, `rtp_session_tx` and, every 100 ms,
`rtp_session_timer_tick`; the library calls back to send packets and to report
what it received. Nothing in the library runs concurrently: what is hard is the
number of orders in which packets, timeouts and application calls can come, what
happens inside one call that loops (CSRC lists, compound RTCP packets, several
timers expiring in one tick), and arithmetic that wraps.

| Component | State | Operations | Correct when |
|---|---|---|---|
| Session, `rtp_session.c`, `rtp.c`, `rtcp.c`, `rtp_timers.c` | members, flags, addresses, three timers per member, `rtcp_control_var_t` | RTP and RTCP reception, BYE, transmission, three timeouts, init and deinit | counters equal the table; timers fit the states; BYE is final; nobody takes over an identity; members that fall silent go |
| Member table, `rtp_member_table.c` | used and free entries | alloc, free, lookup, new random SSRC | SSRCs are unique; a free entry has no running timer |
| Conflict list, `rtp_source_conflict.c` | addresses with timers | lookup (restarts the timer), add, expiry | an address self collided with is remembered |
| Soft timer, `soft_timer.c` | tick, 8 buckets, list of expired timers | add, del, tick, callbacks | a timer expires at its tick, once, unless stopped |
| RTCP interval, `rtcp.c` | `tp`, `tn`, counters, timer | draw, schedule, reconsider, reverse reconsider, send | reports neither starve nor burst |
| Source, `rtp.c`, `rtcp.c` | `rtp_source_t` | init, update, report | extended numbers are true; intervals are exact; validity follows sequences |
| Encoder and reader of RTCP, `rtcp_encoder.c`, `rtcp.c` | buffer, write position, the reader's pointers | begin, add, end; check, SR, RR, SDES, BYE | what is written is read back; no overrun; a report block tells the losses of its source |
| Transmission and header check, `rtp.c` | sequence number, counts, padding | `rtp_tx`, `rtp_header_validity_check` | sent packets are accepted as sent; no gap where nothing was lost |
| Circular buffer, `libutils/circ_buffer.c` | memory, `begin`, `end`, `data_size` | put, get, peek, advance, reset | a bounded queue of bytes |
| I/O driver, `libutils/io_driver.c` | the list of watchers, the list of the round in progress | watch, unwatch, one round of select and callbacks | lists stay consistent while callbacks change them; an event reaches the watcher it is about |
| Telnet reader and command line, `libutils/telnet_reader.c`, `cli.c` | reader's state, line buffer | feed, edit, execute | keys and nothing else reach the line; a return runs this line |
| Streams and telnet connections, `libutils/stream.c`, `cli_telnet.c`, `tcp_server*.c` | queue of unsent output, descriptor, memory of a connection | accept, read, write, TX event, end of a connection | output in order; nothing leaks; connections of dead peers end |

The session calls the timers, the table, the conflict list and the interval;
timers call back into the session, and those callbacks start and stop timers.
The demo runs everything, the command line included, from the driver's loop;
its callbacks add, end and free watchers while the driver walks its lists.

## Modules

**`RtpSession`** is the core. One variable per field (`used`, `ssrc`, `flags`,
`rtp_addr`, `rtcp_addr`, `member_te`, `sender_te`, `leave_te`, `conflict`, and
`members`, `senders`, `pmembers`, `we_sent`). A soft timer is the number of
ticks left, `Off`, or 0 when it is on the list of the tick that is running.
`RtpRx` and `RtcpRx` are the start of a reception call; `RtpCsrc`, `RtcpPart`
and `RtcpBye` are one iteration of its loop each, `RxEnd` its end; in between
nothing else is enabled (`rx`). The ways out of `rtp_handle_ssrc` and
`rtcp_handle_ssrc` are one definition each (`RtpNewMember`, `RtpFirstHeard`,
`RtpHeard`, `RtpOwnSsrc`, `RtpDropped`, ...). `TimerTick` advances the timers,
`TimerCallback` runs one callback that is due, in any order. `Close` and
`Reopen` are deinit and init on the same memory. Whether `rtp_update_seq`
accepts a packet is a choice here; `RtpSource` is about that choice. The two
addresses of an event (RTP and RTCP port) come from one set `Addr`.

A BYE may name any SSRC, the session's own included, from whatever address:
`rtcp_handle_bye` has no test for self. Self's entry is then marked, leaves the table
with its leave timer and can be given to a peer, while `sess->self` goes on pointing
to it. The properties say what still holds then: `MemberCount`, `UniqueSsrc`,
`TimersMatchState` and `ByeIsFinal` always, `SenderCount` and `NoTakeover` until the
entry has another owner (`OwnEntry`). Two things are cut off. After the entry left
the table `rtp_tx` still starts its sender timer (the exception in `NoStrayTimer`),
and an allocation would then initialise a list node that hangs in a bucket of the
wheel, which undoes the wheel; `alloc_member` waits until that timer ran out. And as
a peer in self's entry and the session share a sender timer, one of the two is never
taken out of `senders` again, which could so rise without end: `MAX_SENDERS` is
the bound, in the guard of `RtpTx`. The constant `OwnEcho` is FALSE for a network that
does not return the session's own packets to it from its own address.

**`TimerService`** says what users of timers rely on; **`SoftTimer`** is the
wheel with its buckets as sequences, and `ImplementsTimerService` is the
refinement (`left` is computed from the tick a timer expires at, across the wrap
of the tick counter; the history variable `wanted` makes a call of
`soft_timer_del` visible to the service even when it should change nothing else).
`RtpSession` uses its timers the way `TimerService`
describes them.

**`RtcpInterval`** is the scheduling of reports: `rtcp_interval_calc` (integers
for the doubles; the random draw and the average packet size are choices),
`schedule`, `rtcp_interval_timeout` with its two outcomes, and the events that
change the counters. `silence`, the time since a report last went out, and `waiting`,
the part of it during which reports fitted the encoder's buffer (`KeepWaiting`), are
not in the code. Here and in `RtcpReport` no BYE names the session itself. The conversion in `cal_delta_in_ms` of a value that does not fit is
undefined in C; the model chooses between truncation and saturation.

**`RtpSource`** is one source: `rtp_init_seq`, `rtp_update_seq`, and the figures
of a report block. The true numbers of packets (`sent`), what the last report
covered (`since`) and the last run of consecutive numbers (`trail`) are not in
the code; every 16-bit number that may arrive is taken to be the packet less
than `MAX_MISORDER` late or at most that much short of a cycle ahead, so all
packets are covered.

**`ByteQueue`** is what the comments of `circ_buffer.c` promise, **`CircBuffer`**
the code, one action per function; `ImplementsByteQueue` is the refinement.

**`Lists`** has the walk along a linked list that timers and driver share;
**`IoDriver`** has the driver's lists and the operators on them; **`CliTelnet`**
composes them with the stages of `io_driver_run` (`Select`, `NextWatcher`,
`RxStage`, `TxStage`, `ExStage`), `stream.c` and the connections. One call of
`stream_write` inside a callback is one step (`Callback`), so that peers and
kernel act between any two of them. A stream's buffer is the queue of
`ByteQueue`; bytes are numbered as they are offered. A connection is its address
in memory, which is used again after `free`; accept returns the lowest free
descriptor. What a freed connection holds stays as `stream_deinit` left it, which
is what reading it returns with the C library's allocator (only the first words
of a freed block, the connection's list links, are overwritten).

**`RtcpEncoder`** has every function of `rtcp_encoder.c` as an operator on the
encoder: a buffer whose cells are the fields that begin at an octet, `write_ndx`,
the packet and the chunk under way, and what the call returned. **`RtcpReport`**
composes it with `rtcp_send_report` (one step per call, so that any call may be
the one that finds the buffer full), with `rtcp_check_pkt` and the handlers of a
peer (one step per packet, chunk and item; its table is taken to accept the
session), and with the member table the blocks come from. An entry's
`rtp_source_t` is the source it counts (`of`), its losses, and how many of them
are closed (`prior`); `told` is a history of what peers were told. The flag `more` stands for a program that uses the rest of
the encoder: several chunks, chunks without an item, BYE with and without a
reason.

**`RtpTx`** is `rtp_tx` on one side and the header check and counts of `rtp_rx`
on the other, with an instance of `RtpSource` for the receiver and a network
that loses nothing, so that every gap is the sender's. A packet is its header,
its length and its last octet. The number of CSRCs is any, as `rtp_tx` does not look
at it; what the field `cc` holds of it is a remainder. Other programs' headers are
arbitrary (`Stray`).
`left`, the packets that left, is not in the code.

**`LineEditor`** is what a user is promised, **`CliInput`** the telnet reader
(one action per state), the callback between, `cli_handle_rx` and
`cli_execute_command` with `strtok_r` on a buffer that keeps its old contents.
The client sends pieces of a telnet stream, of which every stream of octets is made
up; one step takes one octet, so that reads may cut a piece anywhere. A
subnegotiation that the reader leaves before its end, at an IAC inside it or with its
buffer full, is a piece up to there, and the rest of it is the keys and commands that
the reader takes it for. `ImplementsLineEditor` is the refinement: a
piece is one step of the editor, taken with its last octet, and the octets
before it are stutters. `Words` of the editor is the reference for `Tokens`.

**`RtpConfig`** has the two sizes of `rtp_config.h` that both `RtcpInterval` and the
encoder depend on.

`MC*.tla` instantiate the modules for TLC. A module `X_proofs` extends `X` and
holds its theorems; `Rtcp_proofs` holds those of `RtcpInterval` and `RtcpReport`
(whose specification is called `ReportSpec` for that reason). `Basics` has what they share:
facts about remainders, induction over the natural numbers and walks along lists.

## Runs

| Run | Question | Result |
|---|---|---|
| `session` | `MemberCount`, `SenderCount`, `TimersMatchState`, `NoStrayTimer`, `UniqueSsrc`, `SelfStays`, `ByeIsFinal`, `NoTakeover` | hold |
| `session_live` | `ByeIsCompleted`, `SilenceEmptiesTable` | hold |
| `soft_timer` | `ImplementsTimerService`, `LinkedOnce`, `TickEnds` | hold |
| `interval` | `BoundedSilence`, `Paced` | hold |
| `source` | `Unwrapped`, `IntervalExact`, `ValidAfterRun`, `ValidAgain` | hold |
| `report` | `RoundTrip`, `LossesTold`, `BlocksAboutSource` | hold |
| `rtp_tx` | `PayloadInside`, `AcceptedAsSent`, `NoPhantomLoss` | hold |
| `cli_input` | `ImplementsLineEditor` | holds |
| `circ_buffer` | `ImplementsByteQueue`, `IndexAgree` | hold |
| `telnet` | `ListsConsistent`, `DescriptorsOwned`, `NoInnocentDrop` | hold |
| `telnet_stream` | `OutputInOrder`, `DeadPeerReaped` | hold |
| `telnet_queued` | is the TX event watched whenever output is queued, as the code's comment says? | no: finding |

The modules' type invariants are checked as well (that of `CliTelnet` in
`telnet_stream`; `RtpTx` and `CliInput` have none: every value that could leave
its range shows in their properties). `PROJECT.json` lists for each property a plausible change of the code
that breaks it, and the findings with the lines they contradict.

### Other deviations

These are not runs of the project, but TLC shows each of them with the change of
a configuration that is given here.

- `SelfNotTimedOut` (`RtpSession`, constants of `RtpSession.cfg`) fails with
  `OwnEcho = TRUE`: packets of the session that come back from its own address start
  the member timer of its own entry, which nothing restarts; it expires and self
  leaves the table (`rtp.c:317`; `rtp_timers.c:14` speaks of "any other session
  member").
- `PmembersFollows` (`RtcpInterval`, constants of `RtcpInterval.cfg`) fails: the
  timer callback never assigns `pmembers`, although its comment (`rtcp.c:159`)
  says it is "responsible for updating the pmembers".
- `LostIsSigned` (`RtpSource`, with `RTP_SEQ_MOD = 16`, `MAX_DROPOUT = 6`,
  `MAX_MISORDER = 3`, `WORD = 65536`, `LOST_MOD = 256`, `LAST = 12`,
  `ACCEPTED = 8`) fails: a negative loss is masked with 0x800000, which leaves the
  sign bit only (`rtcp.c:502`; `rfc3550.h:118`, "signed!").
- `LossesAlwaysTold` (`RtcpReport`) fails with the constants of `RtcpReport.cfg`:
  a report that is given up has already closed the intervals of the members
  before (`rtcp.c:505`), and their losses are never told.
- `NoForeignBlock` (`RtcpReport`) fails: a member known from RTCP alone is reported
  on with the counts of whoever had its entry before (`rtcp.c:495`;
  `rfc3550.h:115`, "data source being reported").
- `CountsSent` (`RtpTx`) fails: packets that `rtp_tx` refuses are counted in the
  sender reports (`rtp.c:424`; `rfc3550.h:150`, "packets sent"). A packet that needs
  one to three octets of padding is refused unless there is room for four
  (`rtp.c:467`). More than 15 CSRCs do not fit the field `cc` and are sent all the
  same (`rtp.c:444`): the receiver takes those that are not counted for the beginning
  of the payload, which `AcceptedAsSent` says.
- A subnegotiation with an escaped IAC in it, or with at least two octets more than
  the reader's buffer, is not kept off the line: the reader is back in its first state
  inside it and the rest is typed into the line (`telnet_reader.c:41`, "could be buggy
  but who cares"). `ImplementsLineEditor` says from where on. A line feed after a
  return is a key like any other and begins the next line; on a full line the
  erasing keys are dead (`cli.c:197`), which `LineEditor` says, too.
- `rtcp_handle_sdes` reads the length of its packet in network order
  (`rtcp.c:794`), so that its end lies far behind the packet; on well-formed
  packets the walk ends by the count and the null octets all the same, which is
  what `RoundTrip` shows.
- `silence <= LongestDraw` (constants of `RtcpInterval.cfg`) fails: a report
  that outgrows the encoder's buffer (256 octets, about nine peers) is given up
  and counted as sent (`rtcp.c:200`, `562`), so that nothing is heard of a session
  in a large group. `BoundedSilence` is about the time during which reports fit.
- A BYE that names the session's SSRC, from whatever address, takes self out of its own
  table (`rtcp.c:836`), which no comment or test speaks of. `SelfStays` says that
  nothing else does.
- `BoundedSilence` fails with `TIME_MOD = 16`: when the millisecond clock wraps
  (49.7 days), `tp` lies in the future and no report is sent until the clock
  passes it again (`soft_timer.h:90`).
- `ConflictIsListed` (`RtpSession`) fails with a third address: a full conflict
  list does not remember the address, and self changes its SSRC for every looped
  packet (`rtp.c:303`).
- `NoLossNoFraction` (`RtpSource`) fails with the constants
  given for `LostIsSigned`: `lost_interval` is unsigned, so `lost_interval <= 0` does
  not catch an interval with a duplicate (`rtcp.c:525`).
- `NoCrash` (`CliTelnet`, constants of `CliTelnetQueued.cfg`) fails: with TX
  watched and nothing queued (an overflow leaves a stream like that), an answer
  written by the RX callback fills the socket, the next one is queued, and the TX
  stage of the same round, acting on what select had reported, executes the
  `CRASH()` of `stream.c:39`.
- `NoFreedWatcherRead` (same constants) fails: the RX callback ends and frees its
  connection, and `io_driver.c:111` and `116` then read the watcher in it.

### Bounds

- `session`: two entries, three identifiers (one more than entries, so that a fresh
  one always exists and a full table is reached), two addresses, timeouts of two
  ticks, a conflict list of one. Two ticks let timers be out of step and expire
  together. A BYE that names self frees its entry, so that two peers meet in this
  table, too, and both entries change owners; the theorems cover tables of any size.
  `MAX_SENDERS = 3` is one more than two entries can make up, so the leak described
  above happens. Symmetry is over the entries other than self and over identifiers.
- `session_live`: two entries and two identifiers; no symmetry, which would be
  unsound for liveness.
- `soft_timer`: three timers, two buckets and six ticks, so that delays of up to
  five ticks go round the wheel twice and the counter wraps.
- `interval`: three members, `HORIZON` 20 ticks (the model has no ticks after
  that, hence no deadlock check), a minimum interval of five ticks, averages
  below and above the point where the minimum stops to matter. `TIME_MOD` is
  beyond the horizon. In a buffer of 80 octets the largest reports do not fit, so
  that reports are given up and fit again.
- `source`: numbers modulo 6, words modulo 12, up to number 17, 13 packets
  between two starts: both wraps happen.
- `report`: two peers in a table of three (an entry is reused by another member),
  counts modulo three (the largest number of blocks, chunks and sources is
  reached), texts of zero to three octets (every padding), and six sizes of the
  buffer: one with room for everything, and five at which the beginning of a
  report, a block, a chunk, a name or the padding is the first call to fail.
- `rtp_tx`: sequence numbers modulo four and nine packets under one identifier,
  so that the number wraps twice; packets of up to 24 octets with every remainder,
  the largest size and one octet more; up to two CSRCs, where the header counts one; last octets below, at and above every
  length that is left. With a network in order one packet in flight is enough.
- `cli_input`: lines of three keys and one argument (every kind of answer, and a
  full line), a reader's buffer of two octets; subnegotiations of every length
  up to the octet that finds it full, ended by IAC and any octet, with anything
  behind. Keys are a letter, a separator, NUL, return, both erasing keys, IAC and
  an octet that is a telnet command elsewhere.
- `circ_buffer`: three bytes of memory, calls of up to four.
- `telnet`: two connections and two descriptors, so that both are reused while
  another connection is in the same round; hardly any output. CRASH() ends the
  process, hence no deadlock check in the `telnet` runs.
- `telnet_stream`: one connection; messages of one to three bytes against two
  bytes of socket room and two of queue, so that messages fit, are split, just
  fit the queue or overflow it; six bytes offered in the life of a connection
  are enough to overflow, queue and drain.

### Fairness

`session_live`: calls return (weak fairness of `RxEnd` and `TimerCallback`) and
the host keeps calling `rtp_session_timer_tick` (strong fairness of `TimerTick`,
as packets may come between any two ticks); this is the timing service the
README of the library asks for. Nothing is assumed of packets. `soft_timer`:
callbacks return and the loop over them continues. `telnet_stream`: the main
loop runs for ever (weak fairness of `Loop`); nothing is assumed of the peers.

## Proofs

Each theorem has the form `Spec => []Inv` (or `Spec => A` for an action property
or a refinement) and holds for every value of the constants its module's named
assumption allows. In each module `IInv` is the inductive invariant; TLC checked
every one of them on the constants of the module's run, and on others, before it
was proved (of `ReportInv` the parts `Scalars`, `Members` and `Accounts`; `Layout` and
`Followup` quantify over the places of chunks, and TLC checked what follows from them).

`RtpSession_proofs`, for any finite sets of entries and addresses, any
identifiers, any timeouts and any size of the conflict list, and for networks
without echo of own packets (`~OwnEcho`): `TypeOK` (so the unsigned counters never
wrap below zero), `MemberCount`, `SenderCount`, `TimersMatchState`,
`NoStrayTimer`, `UniqueSsrc`, and the action properties `SelfStays`, `ByeIsFinal`
and `NoTakeover`. A BYE that names the session is among the steps of all of them.
`IInv` is the conjunction of the state properties, "packets are handled only while
the session is open", and what is left of self's state and of the counter after
such a BYE: `SelfEntry` (no other entry is marked self, and while self's entry is its
own it is as configured), `SendersCovered` (`senders` is never less than what it
counts, so subtracting does not wrap) and `SelfTimerCounted` (while the timer of self's
entry runs, the session or the peer in it is counted). None of them is inductive
alone. The counters need `TimersMatchState`: a timeout subtracts one from
`members` or `senders` because its timer runs, so the timer must imply that the
member is counted. The timers need `SelfEntry`, because self has other timers
than its peers, and `NoStrayTimer`, because a reused entry must start clean.
`SelfStays` needs `UniqueSsrc`, because `rtcp_handle_ssrc` recognises self by
its identifier. There is one lemma per way out of a handler and per callback;
`NextInv` puts them together. `ByeStep` and `SenderStep` derive the action
properties.

`SoftTimer_proofs`: `TypeOK`, `LinkedOnce` and `ImplementsTimerService`, for any
timers, buckets, tick rate and width of the tick counter; a delay must not be
longer than the counter counts, which holds as both are `int`s. `IInv` adds that
nothing is due while the host runs. `LinkedOnce` carries the refinement: a tick
finds all timers that expire now because each hangs in the bucket of its tick,
and a timer that is stopped or called is gone because it hung there once. Each
action of the wheel is one action of the service (`AddOK`, `DelOK`, `TickOK`,
`RunOK`, `ReturnOK`, `DoneOK`); `Ahead` and `Nearer` are the arithmetic of the
counter's wrap, `Ticks` the rounding of a delay. What a walk along a list
leaves in it (`KeptElements` of `Basics`) is proved by induction: `SetInduction`
is induction for a set of numbers, from the well-foundedness of `<`, and `Walk`
shows that the recursive function of `Kept` exists.

`RtpSource_proofs`: `TypeOK`, `Unwrapped`, `IntervalExact`, `ValidAgain` and
`ValidAfterRun`, for every modulus of the sequence numbers that divides the word,
every `MAX_DROPOUT` and `MAX_MISORDER` that fit it together, and every
`MIN_SEQUENTIAL` of at least two. `Unwrapped` needs `Tracks`: the counts and their
last reported values are those of the true numbers, modulo a word. `ValidAgain`
needs `RunCounted` and `RunShort` (how long a run can have lasted in each state of
probation) and `LastPlaced` (a valid source saw its last packet at or behind
`max_seq`, or remembers it as `bad_seq`). The bound of `ValidAgain` comes from the
proof: a run may first confirm a jump, then be cut by the wrap just before it
would have been long enough, so that it takes `2 * MIN_SEQUENTIAL + 1` packets.

`Rtcp_proofs`, first part, about `RtcpInterval`: `TypeOK`, `Paced` and `BoundedSilence` for any number of
members, any bandwidths with a largest one, any average size and any draws. For
`Paced`, `LastRead` says that `tp` was read from the clock no earlier than the
last report that went out; it holds across the wrap of the clock.
`BoundedSilence` has one hypothesis, without which the code does not provide it
(see the deviations): the clock does not wrap within the horizon (`ClockLasts`, true
of 49 days). It holds for any size of table and buffer, those of `rtp_config.h`
included: reports that are given up count as attempts. `Scheduled` is its
invariant: `tp` is the time of the last attempt, the waiting began no earlier, and the
timer ends before the longest draw since then.

`Rtcp_proofs`, second part, about `RtcpReport`: `ReportTypeOK`, `RoundTrip`,
`LossesTold` and `BlocksAboutSource`, for any number of members whose blocks the
field `count` can hold, any lengths of the texts up to 255, any number of chunks and
of leaving sources, and any buffers of at most 1024 octets. `EncoderAssumption` asks
for a buffer of at least one header and for a count of at least two values.
`ReportAssumption` asks for `MAX_MEMBERS <= COUNT_MOD` (32 and 32 in the code: 31 peers
at most) and for the 1024 octets (256 in the code): up to there the length that
`rtcp_handle_sdes` reads in the wrong order of bytes is never less than the true one
(`EndBehind` is where the proof needs it), and beyond it chunks could be skipped.

The inductive invariant `ReportInv` has six parts.
- `Scalars` and `Written`: the ranges, and the encoder `Sound` (its indices inside
  `buf_len`). Each function of the encoder has a lemma that says which octets it
  changes and what it leaves there, or that it finds no room and stays inside.
- `Layout`: for every place the writer can be at, which part of `meant` lies at
  which octet: blocks 24 octets apart behind the header, chunk `j` at octet `b[j]` and
  from element `f[j]` on, the null octet of each at the place from which the next word is
  the beginning of the next chunk, sources of BYE a word apart, and every header
  that was ended leading to the next. The round trip is not inductive without it, as
  the reader's first step would not know what it finds. The functions `b` and `f` are
  quantified, so no recursion over the chunks is needed: a chunk that is completed
  extends them by one.
- `Followup`: the reader is at one of these octets, and what it has given to the
  callbacks is what was meant up to there. The writer and the reader compute the end
  of a chunk by different rules; `ChunkSize` and `Padding` show them to agree for every length.
- `Members`: self is first, identifiers are unique, a member that is heard has a
  source of its own. Uniqueness is what makes a block's identifier name one entry.
- `Accounts`: a block that is written and not yet read holds exactly what `prior` is
  ahead of `told`; an entry without one is even. It ties the step that closes an
  interval to the later one that tells it.

There is one lemma `...Step` per action for `Layout` or `Followup` and one `...Keeps`
for the whole invariant.

Two theorems say when `LossesTold` lacks its exception. `GivenUpForRoom`: a report is
given up only if `TooLong`, that is, a block for every peer, and a chunk with the
session's name, do not fit `buf_len`; no call fails earlier, although the null octet and
the padding are only asked for at the end of the chunk. (`Budget`, how far each call
has come, is the invariant.) This is the condition under which `RtcpInterval` lets a
report go out. `AllLossesTold`: in every behaviour in which `TooLong` is never true,
`LossesAlwaysTold` holds. It is a condition on the session and not on the sizes: with
the 32 members and 256 octets of `rtp_config.h` it is met as long as there are no more
than nine members and the name has at most 24 octets, and a larger group meets the
deviation above.

`CircBuffer_proofs`: `TypeOK`, `IndexAgree` and `ImplementsByteQueue`, for every
size of the memory and of the calls. `IndexAgree` is inductive together with
`TypeOK` and is what makes the octets between `begin` and `end` the queue.

`RtpTx_proofs`: `PayloadInside`, `AcceptedAsSent` and `NoPhantomLoss`, for every
size of packet and payload below the range of a length, every width of the numbers
and any number of packets under way. `OnWire` says what packets can be under
way, `InOrder` that they are numbered without gaps, `Received` (with `UpTo`) that the
receiver knows the number before the one that is due and, once valid, has got as
many as it expects. The steps of the receiver are the lemmas of
`RtpSource_proofs`, through an instance of it.

`CliTelnet_proofs`: `TypeOK`, `ListsConsistent`, `DescriptorsOwned`,
`OutputInOrder` and `NoInnocentDrop`, for any connections and descriptors and every
size of messages, queues, chunks, socket buffers and backlog. `IInv` has one part
for each reason a callback is safe. `Linking`: a live connection listens to RX and
EX, so that losing TX never unlinks it, and a freed one to nothing, so that
looking at its watcher runs no callback. `Stages`: the round is empty when select
runs, the watcher at its RX stage is no longer in the round, a callback writes to
a live connection. `Sockets`: live connections and open descriptors correspond one
to one. `Reports`: what select reported of a watcher that is still to be run is
still so, which is what `NoInnocentDrop` follows from: only its own callback takes
input from a socket, and a connection accepted during a round is not part of it,
even with a descriptor that was reported for another. `Queues`: sent and queued
bytes are in order and among those offered. The driver's operations have a lemma
each (`WatchKeeps`, `NoWatchKeeps`, `SpliceKeeps`, `MoveFirstKeeps`), as do a
transfer of output, the end and the beginning of a connection (`Transfers`,
`EndKeeps`, `BeginKeeps`).

Model-checked only: liveness (`ByeIsCompleted`, `SilenceEmptiesTable`, `TickEnds`,
`DeadPeerReaped`), which depends on fairness and is out of the prover's reach; and
`ImplementsLineEditor` of `CliInput`, which compares two recursive definitions of the
words of a line, and would need an induction over lines.

## What the models leave out

Payloads, time stamps and callbacks to the application; the flags `VALIDATED` and
`CSRC` and the contents of sender reports, which nothing in the library reads
back into its control flow; jitter, a filter in floating point that only a report
shows; malformed RTCP, which the handlers follow wherever its lengths lead;
`md5.c`, `rtp_random.c`, `ntp_ts.c` (any value is possible);
`generic_list.h`, the kernel's macros, of which the program uses a dozen lines;
`telnet.h`, a table of constants; opening sockets; what the commands of the
command line print; `demo/`, an example of a host: its one select loop is what
the models assume of hosts. SIGPIPE, which the demo does not handle, is left out: a write to a
reset connection returns an error. What becomes of the timer wheel when self's
entry is allocated again with its sender timer running, after a BYE that named the
session, is left out (see `RtpSession` above). `rtcp_interval_tx_bye` and `rtp_timers_leave_restart` have no callers.

`pmembers` never rises (see the deviations), so the branch of
`rtcp_interval_handle_rtcp_event` that moves `tn` and `tp` closer is taken only when
the last member is counted out, which takes a BYE that names the session;
`RtpSession` has it, and `RtcpInterval` keeps it although it is not met there.

## State

The control of the library and of the command line is modelled. Every invariant,
action property and refinement that a run checks is proved, other than
`ImplementsLineEditor` and liveness. When the code changes, the runs show first
what is affected; a change of `rtcp_encoder.c` or of a handler of RTCP must keep
`Layout` and `Followup`, one of `rtp_source_t` `Accounts`.
