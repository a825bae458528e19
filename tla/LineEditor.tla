----------------------------- MODULE LineEditor -----------------------------
(***************************************************************************)
(* What a user of the command line is promised: a line edited key by key   *)
(* and run on return.  Nothing else a telnet client sends is seen.         *)
(***************************************************************************)
EXTENDS Integers, Sequences, FiniteSetsExt

CONSTANTS
    Key,                  \* octets that are data
    NUL, CR, BS, DEL,     \* keys with a meaning; NUL has none and is dropped
    Separator,            \* the keys between the words of a command
    Command,              \* the words that are commands, as sequences of keys
    CLI_MAX_COMMAND_LEN, CLI_COMMAND_MAX_ARGS,
    Idle, NoKey           \* no input, and input without a key

VARIABLES
    input,   \* what is to be handled next: a key, NoKey, or Idle
    line,    \* the line so far
    shown    \* what was written last

\* The words of a text, as the places of their first and last keys.
Words(text) ==
    {w \in (1 .. Len(text)) \X (1 .. Len(text)) :
        /\ w[1] <= w[2]
        /\ \A i \in w[1] .. w[2] : text[i] \notin Separator
        /\ w[1] > 1 => text[w[1] - 1] \in Separator
        /\ w[2] < Len(text) => text[w[2] + 1] \in Separator}

FirstWord(text) ==
    LET w == CHOOSE x \in Words(text) : \A y \in Words(text) : x[1] <= y[1]
    IN  SubSeq(text, w[1], w[2])

Answer(text) ==
    LET argc == Cardinality(Words(text)) IN
    IF argc = 0 THEN <<"prompt">>
    ELSE IF argc > CLI_COMMAND_MAX_ARGS THEN <<"too many arguments", "prompt">>
    ELSE IF FirstWord(text) \in Command
         THEN <<"executing", FirstWord(text), argc, "prompt">>
         ELSE <<"unknown command", FirstWord(text), "prompt">>

Start == line = <<>> /\ shown = <<"prompt">> /\ input = Idle

Type == input = Idle /\ input' \in Key \cup {NoKey} /\ UNCHANGED <<line, shown>>

\* A full line takes no key but return, not even the ones that erase.
Full == Len(line) >= CLI_MAX_COMMAND_LEN

Ignored ==
    /\ \/ input \in {NoKey, NUL}
       \/ input \in {BS, DEL} /\ line = <<>>
       \/ input \in Key \ {CR} /\ Full
    /\ UNCHANGED <<line, shown>>

Erase ==
    /\ input \in {BS, DEL} /\ line # <<>> /\ ~Full
    /\ line' = SubSeq(line, 1, Len(line) - 1)
    /\ shown' = <<"rubout">>

Insert ==
    /\ input \in Key \ {NUL, CR, BS, DEL} /\ ~Full
    /\ line' = Append(line, input)
    /\ shown' = <<"echo", input>>

Run == input = CR /\ line' = <<>> /\ shown' = Answer(line)

Handle == input' = Idle /\ (Ignored \/ Erase \/ Insert \/ Run)

\* A new connection, whatever was under way on the old one.
Connect == input' = Idle /\ line' = <<>> /\ shown' = <<"prompt">>

Spec == Start /\ [][Type \/ Handle \/ Connect]_<<input, line, shown>>
=============================================================================
