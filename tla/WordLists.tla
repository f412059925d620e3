------------------------------ MODULE WordLists ------------------------------
(***************************************************************************)
(* What domain/matcher.py and command_runtime.py do to tuples of words.    *)
(***************************************************************************)
EXTENDS Naturals, Sequences

(* The words of a tuple that a comprehension keeps. *)
Only(list, wanted) ==
    LET kept[n \in 0 .. Len(list)] ==
            IF n = 0 THEN <<>>
            ELSE IF list[n] \in wanted THEN Append(kept[n - 1], list[n]) ELSE kept[n - 1]
    IN  kept[Len(list)]
==============================================================================
