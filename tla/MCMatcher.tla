----------------------------- MODULE MCMatcher -----------------------------
(* Instances of Matcher for TLC. *)
EXTENDS Matcher

MCFold == [l \in Letter |-> IF l = "A" THEN "a" ELSE l]

Number(n) == [kind |-> "number", n |-> n]
Flag(b) == [kind |-> "bool", b |-> b]
Absent == [kind |-> "absent"]

MCConfig ==
    {[max_word_count |-> count, max_word_length |-> Number(4), case_sensitive |-> sensitive,
      obfuscated_word_matching_enabled |-> obfuscated, obfuscated_word_max_gap |-> gap] :
        <<count, sensitive, obfuscated, gap>> \in
            {<<Absent, Absent, Absent, Number(1)>>, <<Number(0), Flag(FALSE), Flag(TRUE), Absent>>,
             <<Number(2), Flag(TRUE), Absent, Number(2)>>,
             <<Flag(TRUE), Absent, Flag(FALSE), Number(1)>>,
             <<Number(9999), Number(1), Absent, Number(-1)>>}}

Row(type, core, form, position, enabled) ==
    [type |-> type, pattern |-> [core |-> core, form |-> form], position |-> position,
     enabled |-> enabled]

MCLong == {<<"long">>}
MCRisky == {<<"risky">>}
MCBroken == {<<"broken">>}

ab == <<"a", "b">>
aba == <<"a", "b", "a">>

(* A table with little in it, and one with everything that goes wrong. *)
MCTable ==
    {<<Row("word", aba, 1, 1, TRUE), Row("word", ab, 1, 0, FALSE), Row("regex", <<"x">>, 1, 0, TRUE)>>,
     <<Row("word", <<"b", "b">>, 1, 2, TRUE), Row("word", <<"A", "b">>, 1, 1, TRUE),
       Row("word", <<"a", "a", "a", "a", "a">>, 1, 0, TRUE), Row("word", <<"A", "b">>, 2, 1, TRUE),
       Row("word", << >>, 1, 3, TRUE),
       Row("regex", <<"broken">>, 1, 0, TRUE), Row("regex", <<"x">>, 2, 1, TRUE),
       Row("regex", <<"x">>, 1, 1, TRUE), Row("regex", <<"risky">>, 1, 0, TRUE),
       Row("regex", <<"broken">>, 2, 2, TRUE), Row("regex", <<"y">>, 1, 3, FALSE),
       Row("regex", <<"z">>, 1, 4, TRUE), Row("regex", <<"w">>, 1, 5, TRUE),
       Row("regex", <<"long">>, 1, 4, TRUE)>>}

GroupPolicy(inherit, custom, bypass) ==
    [enabled |-> TRUE, inherit_global |-> inherit, admin_exempt_enabled |-> TRUE,
     manager |-> FALSE, custom_words |-> custom, bypass_global_words |-> bypass]

MCPolicy == {GroupPolicy(TRUE, << >>, << >>), GroupPolicy(FALSE, <<aba>>, << >>),
             GroupPolicy(TRUE, <<<<"b">>, ab>>, <<ab, <<"b">>>>),
             GroupPolicy(TRUE, << >>, <<aba, <<"A", "b">>>>),
             [GroupPolicy(TRUE, << >>, << >>) EXCEPT !.manager = TRUE],
             [GroupPolicy(TRUE, <<aba>>, << >>) EXCEPT !.manager = TRUE, !.admin_exempt_enabled = FALSE],
             [GroupPolicy(TRUE, << >>, << >>) EXCEPT !.enabled = FALSE]}

(* All short texts of two letters, and some with another one or beyond the limit. *)
MCMessage == UNION {[1 .. n -> {"a", "b"}] : n \in 0 .. 5}
             \cup {<<"A", "b">>, <<"b", "A", "a">>, <<"b", "b", "b", "b", "a", "b">>,
                   <<"a", "b", "b", "b", "b", "a">>}
=============================================================================
