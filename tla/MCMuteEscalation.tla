--------------------------- MODULE MCMuteEscalation ---------------------------
(* Instances of MuteEscalation for TLC. *)
EXTENDS MuteEscalation, TLC

CONSTANTS t1, t2, u1, u2

(* A steep policy that forgets soon, a flat one that remembers, and one that no
   command may set.                                                          *)
MCRequests == {[multiplier |-> 3, reset |-> 1], [multiplier |-> 1, reset |-> 2],
               [multiplier |-> 0, reset |-> 1]}

Interchangeable == Permutations({t1, t2}) \cup Permutations({u1, u2})
=============================================================================
