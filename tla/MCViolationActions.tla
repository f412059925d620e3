------------------------- MODULE MCViolationActions -------------------------
(* Instances of ViolationActions for TLC. *)
EXTENDS ViolationActions, TLC

CONSTANTS g1, g2

(* Strict with and without forward, and audit. *)
MCPolicies == {p \in Policy : /\ p.mute /\ p.recall
                              /\ p.mode = "strict" \/ p.forward}

MCAuditOnly == {p \in Policy : p.mode = "audit" /\ p.mute /\ p.recall /\ p.forward}

PushGroups == Permutations(PushGroup)
=============================================================================
