------------------------- MODULE MCViolationPipeline -------------------------
(* Instances of ViolationPipeline for TLC. *)
EXTENDS ViolationPipeline, TLC

CONSTANTS k1, k2, t1, t2, t3, p1, p2

(* Two workers in the first instance and one in the second; one key on each platform. *)
MCTeamOf == [t \in Task |-> IF t = t3 THEN 2 ELSE 1]

MCTwoPlatforms == [k \in Key |-> IF k = k1 THEN p1 ELSE p2]

Workers == Permutations({t1, t2})
=============================================================================
