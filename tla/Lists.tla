------------------------------- MODULE Lists -------------------------------
(***************************************************************************)
(* The doubly linked lists of generic_list.h are sequences.                *)
(***************************************************************************)
EXTENDS Naturals, Sequences

\* A walk along list s (list_for_each_entry_safe) that keeps the elements of S
\* and unlinks the others.  (SelectSeq, as a recursive function that can be
\* proved about.)
Kept(s, S) ==
    LET kept[n \in 0 .. Len(s)] ==
            IF n = 0 THEN <<>>
            ELSE IF s[n] \in S THEN Append(kept[n - 1], s[n]) ELSE kept[n - 1]
    IN  kept[Len(s)]
=============================================================================
