---------------------------- MODULE MCPolicyStore ----------------------------
(* Instances of PolicyStore for TLC. *)
EXTENDS PolicyStore, TLC

CONSTANTS g1, w1, w2, t1, t2

MCWordLength == [w \in {w1, w2} |-> IF w = w1 THEN 1 ELSE 2]

(* Room for both words, for one, and for the short one only. *)
MCSettings == {[count |-> 2, length |-> 2], [count |-> 1, length |-> 2],
               [count |-> 2, length |-> 1]}

MCRequests == {[op |-> "set", group |-> g1, flag |-> "enabled", value |-> "on"],
               [op |-> "set", group |-> g1, flag |-> "admin_exempt", value |-> "off"],
               [op |-> "add", group |-> g1, list |-> "custom", words |-> <<w1, w2>>],
               [op |-> "add", group |-> g1, list |-> "bypass", words |-> <<w2>>],
               [op |-> "remove", group |-> g1, list |-> "custom", words |-> <<w2>>]}

Listed(custom, bypass) ==
    [g \in {g1} |-> [NewPolicy EXCEPT !.flags["enabled"] = "on",
                                      !.words = [custom |-> custom, bypass |-> bypass]]]

MCFiles == {[kind |-> "none", groups |-> NoPolicies],
            [kind |-> "unreadable", groups |-> NoPolicies],
            [kind |-> "policies", groups |-> Listed(<<w1, w1, w2>>, <<>>)]}

MCDatabases == {[rows |-> NoPolicies, written |-> FALSE],
                [rows |-> Listed(<<w2, w1>>, <<w1>>), written |-> TRUE],
                [rows |-> Listed(<<w2>>, <<>>), written |-> TRUE]}
=============================================================================
