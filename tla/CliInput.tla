------------------------------ MODULE CliInput ------------------------------
(***************************************************************************)
(* The way of an octet from a telnet client to a command: the reader that  *)
(* takes telnet commands out of the stream (telnet_reader.c), the callback *)
(* between (cli_telnet.c), the line and its execution (cli.c).             *)
(*                                                                         *)
(* One step takes one octet, so that a read may end anywhere in a telnet   *)
(* command.  The client sends pieces of a telnet stream; every stream of   *)
(* octets is a sequence of such pieces.  Where the reader leaves a         *)
(* subnegotiation before its end, at an IAC that is escaped in it or with  *)
(* its buffer full, the piece ends, too, and what is left of the           *)
(* subnegotiation is sent as the pieces that the reader takes it for.      *)
(* The octets of a subnegotiation, command and opt are stored by the       *)
(* reader and read by nobody; they are left out.                           *)
(***************************************************************************)
EXTENDS Integers, Sequences, FiniteSetsExt

CONSTANTS
    Octet, Data, Option, Other,  \* all octets, those a client sends as data, as
                                 \* options, and as commands without an argument
    IAC, SB, SE, Negotiation,    \* Negotiation is WILL, WONT, DO and DONT
    NUL, CR, BS, DEL, Separator,
    Command,                     \* _core_commands and _user_commands
    TELNET_READER_BUFFER_SIZE, CLI_MAX_COMMAND_LEN, CLI_COMMAND_MAX_ARGS,
    Idle, NoKey                  \* no input under way; input that is no key

ASSUME InputAssumption ==
    /\ {IAC, SB, SE, NUL, CR, BS, DEL} \cup Negotiation \cup Separator
            \cup Data \cup Option \cup Other \subseteq Octet
    /\ {Idle, NoKey} \cap Octet = {}
    /\ IAC \notin Data /\ Other \cap ({IAC, SB} \cup Negotiation) = {}
    /\ Separator \cap {NUL, CR, BS, DEL, IAC} = {}
    /\ {TELNET_READER_BUFFER_SIZE, CLI_MAX_COMMAND_LEN, CLI_COMMAND_MAX_ARGS}
            \subseteq Nat \ {0}

VARIABLES
    key,             \* what the client means by the octets it is sending
    rest,            \* the ones not read yet
    state, buf_ndx,  \* the telnet reader
    cmd_buffer,      \* with the octet of padding behind it
    cmd_buffer_ndx,
    written          \* what was put into the stream last

cli  == <<cmd_buffer, cmd_buffer_ndx, written>>
vars == <<key, rest, state, buf_ndx, cli>>

-----------------------------------------------------------------------------
(* cli_execute_command *)

\* strtok_r on a buffer t.cmd whose scan has come to t.at.
strtok_r(t) ==
    LET s == Min({i \in DOMAIN t.cmd : i >= t.at /\ t.cmd[i] \notin Separator})
        e == Min({i \in DOMAIN t.cmd : i >= s /\ t.cmd[i] \in Separator \cup {NUL}})
    IN  IF t.cmd[s] = NUL THEN [t EXCEPT !.at = s, !.found = FALSE]
        ELSE [cmd |-> [t.cmd EXCEPT ![e] = NUL], found |-> TRUE,
              at |-> IF t.cmd[e] = NUL THEN e ELSE e + 1,
              argv |-> Append(t.argv, s)]

\* The buffer after n calls, the last ones of which may find nothing.
Tokens(cmd) ==
    LET after[n \in 0 .. CLI_COMMAND_MAX_ARGS + 1] ==
            IF n = 0 THEN [cmd |-> cmd, at |-> 0, found |-> TRUE, argv |-> <<>>]
            ELSE IF after[n - 1].found THEN strtok_r(after[n - 1]) ELSE after[n - 1]
    IN  after[CLI_COMMAND_MAX_ARGS + 1]

\* The string that begins at s.
String(cmd, s) ==
    LET e == Min({i \in DOMAIN cmd : i >= s /\ cmd[i] = NUL})
    IN  [i \in 1 .. e - s |-> cmd[s + i - 1]]

\* What it prints for the tokens t.
cli_execute_command(t) ==
    LET argc == Len(t.argv)
        name == String(t.cmd, t.argv[1])
    IN  IF argc > CLI_COMMAND_MAX_ARGS THEN <<"too many arguments">>
        ELSE IF argc = 0 THEN <<>>
        ELSE IF name \in Command THEN <<"executing", name, argc>>
        ELSE <<"unknown command", name>>

-----------------------------------------------------------------------------
(* cli_handle_rx, one octet *)

Edit(b) ==
    /\ b # CR /\ cmd_buffer_ndx < CLI_MAX_COMMAND_LEN
    /\ IF b \in {BS, DEL}
       THEN /\ UNCHANGED cmd_buffer
            /\ IF cmd_buffer_ndx > 0
               THEN cmd_buffer_ndx' = cmd_buffer_ndx - 1 /\ written' = <<"rubout">>
               ELSE UNCHANGED <<cmd_buffer_ndx, written>>
       ELSE /\ cmd_buffer' = [cmd_buffer EXCEPT ![cmd_buffer_ndx] = b]
            /\ cmd_buffer_ndx' = cmd_buffer_ndx + 1
            /\ written' = <<"echo", b>>

NoRoom(b) == b # CR /\ cmd_buffer_ndx >= CLI_MAX_COMMAND_LEN /\ UNCHANGED cli

Execute(b) ==
    LET t == Tokens([cmd_buffer EXCEPT ![cmd_buffer_ndx] = NUL])
    IN  /\ b = CR
        /\ cmd_buffer' = t.cmd
        /\ cmd_buffer_ndx' = 0
        /\ written' = Append(cli_execute_command(t), "prompt")

cli_handle_rx(b) == Edit(b) \/ NoRoom(b) \/ Execute(b)

\* Octets of zero are not data.
telnet_rx_databack(b) == IF b = NUL THEN UNCHANGED cli ELSE cli_handle_rx(b)

-----------------------------------------------------------------------------
(* telnet_reader_state_machine; cmdback does nothing *)

Start(b) ==
    /\ state = "start"
    /\ IF b = IAC THEN state' = "rx_iac" /\ UNCHANGED cli
       ELSE UNCHANGED state /\ telnet_rx_databack(b)
    /\ UNCHANGED buf_ndx

\* Mutant: a subnegotiation is taken for a command without an argument.
NoSubnegotiation(b) ==
    /\ state' = IF b \in Negotiation THEN "rx_do_dont_will_wont" ELSE "start"
    /\ UNCHANGED <<buf_ndx, cli>>

telnet_reader_handle_command(b) ==
    /\ state' = IF b \in Negotiation THEN "rx_do_dont_will_wont"
                ELSE IF b = SB THEN "rx_sb" ELSE "start"
    /\ buf_ndx' = IF b = SB THEN 0 ELSE buf_ndx
    /\ UNCHANGED cli

RxIac(b) ==
    /\ state = "rx_iac"
    /\ IF b = IAC THEN state' = "start" /\ telnet_rx_databack(IAC) /\ UNCHANGED buf_ndx
       ELSE telnet_reader_handle_command(b)

RxDoDontWillWont(b) ==
    state = "rx_do_dont_will_wont" /\ state' = "start" /\ UNCHANGED <<buf_ndx, cli>>

telnet_reader_handle_subcommand(b) ==
    /\ state = "rx_sb"
    /\ UNCHANGED cli
    /\ \/ b = IAC /\ state' = "wait_for_se" /\ UNCHANGED buf_ndx
       \/ /\ b # IAC /\ buf_ndx < TELNET_READER_BUFFER_SIZE
          /\ buf_ndx' = buf_ndx + 1 /\ UNCHANGED state
       \/ /\ b # IAC /\ buf_ndx >= TELNET_READER_BUFFER_SIZE
          /\ state' = "start" /\ UNCHANGED buf_ndx

WaitForSe(b) == state = "wait_for_se" /\ state' = "start" /\ UNCHANGED <<buf_ndx, cli>>

telnet_reader_state_machine(b) ==
    \/ Start(b) \/ RxIac(b) \/ RxDoDontWillWont(b)
    \/ telnet_reader_handle_subcommand(b) \/ WaitForSe(b)

-----------------------------------------------------------------------------
(***************************************************************************)
(* The connection and the client.                                          *)
(***************************************************************************)
\* alloc_cli_connection, up to the return that shows the prompt.  The memory
\* for the line is as malloc found it.
Opened(memory) ==
    /\ key' = Idle /\ rest' = <<>>
    /\ state' = "start" /\ buf_ndx' = 0
    /\ cmd_buffer' = [memory EXCEPT ![0] = NUL] /\ cmd_buffer_ndx' = 0
    /\ written' = <<"prompt">>

Init ==
    /\ key = Idle /\ rest = <<>>
    /\ state = "start" /\ buf_ndx = 0
    /\ \E o \in Octet : cmd_buffer = [i \in 0 .. CLI_MAX_COMMAND_LEN |-> IF i = 0 THEN NUL ELSE o]
    /\ cmd_buffer_ndx = 0 /\ written = <<"prompt">>

\* The connection is lost, maybe in the middle of a telnet command, and the
\* next one gets its memory.
Reconnect == Opened(cmd_buffer)

Sends(k, octets) ==
    /\ rest = <<>>
    /\ key' = k /\ rest' = octets
    /\ UNCHANGED <<state, buf_ndx, cli>>

\* A key, an escaped IAC, an option, another command or a subnegotiation, as far
\* as the reader takes it for one: up to the first IAC and the octet behind it,
\* which is an SE or not, or up to the octet that finds the buffer full.
Client ==
    \/ \E b \in Data : Sends(b, <<b>>)
    \/ Sends(IAC, <<IAC, IAC>>)
    \/ \E n \in Negotiation, b \in Option : Sends(NoKey, <<IAC, n, b>>)
    \/ \E b \in Other : Sends(NoKey, <<IAC, b>>)
    \/ \E n \in 0 .. TELNET_READER_BUFFER_SIZE, b \in Option :
          \E p \in [1 .. n -> Option \ {IAC}] : Sends(NoKey, <<IAC, SB>> \o p \o <<IAC, b>>)
    \/ \E p \in [1 .. TELNET_READER_BUFFER_SIZE + 1 -> Option \ {IAC}] :
          Sends(NoKey, <<IAC, SB>> \o p)

telnet_reader_feed ==
    /\ rest # <<>>
    /\ rest' = Tail(rest)
    /\ key' = IF rest' = <<>> THEN Idle ELSE key
    /\ telnet_reader_state_machine(Head(rest))

Next == Client \/ telnet_reader_feed \/ Reconnect

Spec == Init /\ [][Next]_vars

-----------------------------------------------------------------------------
Editor == INSTANCE LineEditor WITH
    Key <- Data \cup {IAC}, input <- key, shown <- written,
    line <- [i \in 1 .. cmd_buffer_ndx |-> cmd_buffer[i - 1]]

\* Wherever the reads cut the stream and whatever earlier lines and connections
\* left in memory, the user has a line editor: every key and every escaped IAC
\* acts on the line once, options and commands never do although their octets
\* include returns and keys, and a return runs the words of this line and no
\* other.  A subnegotiation stays off the line as far as the reader takes it for
\* one: whole if it has no IAC inside and no more octets than the buffer; else
\* what follows its first IAC pair, or the octet that finds the buffer full, is
\* typed into the line, every octet once.
ImplementsLineEditor == Editor!Spec
=============================================================================
