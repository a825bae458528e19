------------------------------ MODULE IoDriver ------------------------------
(***************************************************************************)
(* The lists of the select-based I/O driver of libutils (io_driver.c).  A  *)
(* driver d is a record: the list watchers, the list run_list of the       *)
(* postselect round in progress (empty outside of one) and listening, the  *)
(* set event_listening of every watcher.                                   *)
(***************************************************************************)
EXTENDS Naturals, Sequences, Lists

CONSTANT Watcher

Event == {"RX", "TX", "EX"}

io_driver_init ==
    [watchers |-> <<>>, run_list |-> <<>>, listening |-> [w \in Watcher |-> {}]]

\* list_del_init unlinks the watcher from whichever list holds it.
list_del_init(d, w) ==
    LET others == Watcher \ {w}
    IN  [d EXCEPT !.watchers = Kept(@, others), !.run_list = Kept(@, others)]

io_driver_watch(d, w, event) ==
    LET listens == [d EXCEPT !.listening[w] = @ \cup {event}]
    IN  IF d.listening[w] = {} THEN [listens EXCEPT !.watchers = Append(@, w)] ELSE listens

\* Mutant: the last event of a watcher leaves it on its list.
NoWatchStaysLinked(d, w, event) ==
    [d EXCEPT !.listening[w] = @ \ {event}]

io_driver_no_watch(d, w, event) ==
    LET deaf == [d EXCEPT !.listening[w] = @ \ {event}]
    IN  IF d.listening[w] # {} /\ deaf.listening[w] = {} THEN list_del_init(deaf, w) ELSE deaf

\* list_splice_init: the watchers become the round to run.
splice(d) == [d EXCEPT !.run_list = d.watchers, !.watchers = <<>>]

\* The next watcher of the round goes back to the tail of the list at once.
move_first(d) ==
    [d EXCEPT !.run_list = Tail(@), !.watchers = Append(@, Head(d.run_list))]

\* The lists as they must be: a watcher is linked once if it listens to
\* something, and not at all if it does not.
Linked(d) ==
    LET all == d.watchers \o d.run_list
    IN  /\ \A i, j \in 1 .. Len(all) : all[i] = all[j] => i = j
        /\ {all[i] : i \in 1 .. Len(all)} = {w \in Watcher : d.listening[w] # {}}
=============================================================================
