------------------------------ MODULE Matcher ------------------------------
(***************************************************************************)
(* domain/matcher.py, detect: whether a message of a group violates its    *)
(* rules, and which rule.  The words of all groups without those the group *)
(* bypasses, then its own, are searched for (WordSearch); if none is found *)
(* the regular expressions are tried, and a match counts unless a bypassed *)
(* word is found in it by the same search.                                 *)
(*                                                                         *)
(* The rules come from RuleSnapshot.  The regular expression engine is     *)
(* external: what it finds are any pieces of the text, one after another.  *)
(***************************************************************************)
EXTENDS WordSearch, RuleSnapshot, WordLists

CONSTANTS
    Message,       \* the texts of messages
    Policy,        \* policies of the group, with a flag for a sender who is a manager
    MaxMatches,    \* bound: matches of one expression in one text
    MaxSearched    \* bound: length of the texts expressions match in

ASSUME MatcherAssumption ==
    /\ \A rows \in Table : \A i \in DOMAIN rows :
           rows[i].type = "word" => rows[i].pattern.core \in Text
    /\ Message \subseteq Text
    /\ Policy # {}
    /\ \A p \in Policy : p.custom_words \in Seq(Word) /\ p.bypass_global_words \in Seq(Word)
    /\ MaxMatches \in Nat
    /\ MaxSearched \in Nat

VARIABLES
    text,        \* message.text
    policy,      \* GroupPolicy
    matches,     \* matches[r]: what expression r has matched, once it was tried
    stage,       \* where detect is
    at,          \* the next match of the last expression tried
    result       \* the MatchResult

matchVars == <<text, policy, matches, at>>
matcherVars == <<rulesVars, search, matchVars, stage, result>>

Nothing == [kind |-> "none"]

Init == /\ RulesInit
        /\ SearchInit
        /\ text = << >> /\ policy = CHOOSE p \in Policy : TRUE
        /\ matches = << >> /\ at = 1
        /\ stage = "load"
        /\ result = Nothing

-----------------------------------------------------------------------------
(* _effective_words *)

(* The words of all groups that this one does not bypass *)
Inherited == Only(words, ToSet(words) \ ToSet(policy.bypass_global_words))

(* Mutant: the group's own words are bypassed as well. *)
EffectiveWordsLess ==
    LET all == IF policy.inherit_global THEN words \o policy.custom_words ELSE policy.custom_words
    IN  Only(all, ToSet(all) \ ToSet(policy.bypass_global_words))

(* Mutant: the group's own words come first. *)
EffectiveWordsOwnFirst ==
    IF policy.inherit_global THEN policy.custom_words \o Inherited ELSE policy.custom_words

EffectiveWords ==
    IF policy.inherit_global THEN Inherited \o policy.custom_words ELSE policy.custom_words

EffectiveRegexes == IF policy.inherit_global THEN regexes ELSE << >>

Checked == /\ text # << >>
           /\ policy.enabled
           /\ ~(policy.admin_exempt_enabled /\ policy.manager)
           /\ EffectiveWords # << >> \/ EffectiveRegexes # << >>

-----------------------------------------------------------------------------
(* detect *)

Load == /\ stage = "load"
        /\ TakeRow
        /\ UNCHANGED <<search, matchVars, stage, result>>

Receive == /\ Loaded /\ stage \in {"load", "done"}
           /\ text' \in Message
           /\ policy' \in Policy
           /\ matches' = << >> /\ at' = 1
           /\ result' = Nothing
           /\ stage' = "detect"
           /\ UNCHANGED <<rulesVars, search>>

Ignore == /\ stage = "detect" /\ ~Checked
          /\ stage' = "done"
          /\ UNCHANGED <<rulesVars, search, matchVars, result>>

DetectWords ==
    /\ stage = "detect" /\ Checked
    /\ Begin(text, EffectiveWords, settings.case_sensitive, settings.obfuscated, settings.max_gap)
    /\ stage' = "words"
    /\ UNCHANGED <<rulesVars, matchVars, result>>

Search == /\ stage \in {"words", "bypass"}
          /\ SearchStep
          /\ UNCHANGED <<rulesVars, matchVars, stage, result>>

WordFound == /\ stage = "words" /\ search.pc = "found"
             /\ result' = [kind |-> "word", word |-> EffectiveWords[search.k]]
             /\ stage' = "done"
             /\ Return
             /\ UNCHANGED <<rulesVars, matchVars>>

WordsMissed == /\ stage = "words" /\ search.pc = "missed"
               /\ stage' = "regexes"
               /\ Return
               /\ UNCHANGED <<rulesVars, matchVars, result>>

(* Pieces of the text, each after the one before; a piece may be empty. *)
Pieces == LET target == Truncated(text)
              spans == {s \in (1 .. Len(target) + 1) \X (0 .. Len(target)) : s[1] <= s[2] + 1}
          IN  {found \in UNION {[1 .. n -> spans] : n \in 0 .. MaxMatches} :
                  \A n \in 2 .. Len(found) : found[n - 1][2] < found[n][1]}

(* compiled.finditer(target) of the next expression *)
TryRegex ==
    /\ stage = "regexes" /\ Len(matches) < Len(EffectiveRegexes)
    /\ \E found \in Pieces :
           /\ Len(text) > MaxSearched => found = << >>
           /\ matches' = Append(matches, [n \in 1 .. Len(found) |->
                                             SubSeq(Truncated(text), found[n][1], found[n][2])])
    /\ at' = 1
    /\ stage' = "matches"
    /\ UNCHANGED <<rulesVars, search, text, policy, result>>

RegexesMissed == /\ stage = "regexes" /\ Len(matches) = Len(EffectiveRegexes)
                 /\ stage' = "done"
                 /\ UNCHANGED <<rulesVars, search, matchVars, result>>

tried == Last(matches)

RegexMissed == /\ stage = "matches" /\ at > Len(tried)
               /\ stage' = "regexes"
               /\ UNCHANGED <<rulesVars, search, matchVars, result>>

Report == /\ result' = [kind |-> "regex", r |-> Len(matches)]
          /\ stage' = "done"

(* _regex_match_is_bypassed *)
RegexFound == /\ stage = "matches" /\ at <= Len(tried)
              /\ tried[at] = << >> \/ policy.bypass_global_words = << >>
              /\ Report
              /\ UNCHANGED <<rulesVars, search, matchVars>>

AskBypass ==
    /\ stage = "matches" /\ at <= Len(tried)
    /\ tried[at] # << >> /\ policy.bypass_global_words # << >>
    /\ Begin(tried[at], policy.bypass_global_words, settings.case_sensitive,
             settings.obfuscated, settings.max_gap)
    /\ stage' = "bypass"
    /\ UNCHANGED <<rulesVars, matchVars, result>>

NotBypassed == /\ stage = "bypass" /\ search.pc = "missed"
               /\ Report
               /\ Return
               /\ UNCHANGED <<rulesVars, matchVars>>

(* Mutant: one bypassed match ends the expression. *)
BypassedLeaves == /\ stage = "bypass" /\ search.pc = "found"
                  /\ stage' = "regexes"
                  /\ Return
                  /\ UNCHANGED <<rulesVars, matchVars, result>>

Bypassed == /\ stage = "bypass" /\ search.pc = "found"
            /\ at' = at + 1
            /\ stage' = "matches"
            /\ Return
            /\ UNCHANGED <<rulesVars, text, policy, matches, result>>

Detect == \/ Ignore \/ DetectWords \/ Search \/ WordFound \/ WordsMissed
          \/ TryRegex \/ RegexesMissed \/ RegexMissed \/ RegexFound \/ AskBypass
          \/ NotBypassed \/ Bypassed

Next == Load \/ Receive \/ Detect

(* detect runs to its end once it is called; nobody has to send a message. *)
Spec == Init /\ [][Next]_matcherVars /\ WF_matcherVars(Detect)

-----------------------------------------------------------------------------
(* Properties *)

Done == stage = "done"

AsCased(s) == Cased(s, settings.case_sensitive)

Gap == IF settings.obfuscated THEN settings.max_gap ELSE 0

(* The words a policy leaves in force, each by its place among those of all groups
   and then those of the group.  Bypassed are words exactly as they are written. *)
AllWords == words \o policy.custom_words

InForce(i) ==
    \/ i > Len(words)
    \/ policy.inherit_global /\ ~Contains(policy.bypass_global_words, words[i])

(* The word that is reported is in force and in the message, and it is the first of
   those that are there as they are; one found with gaps is only reported when no
   word is there as it is.                                                   *)
ReportedWordIsRight ==
    result.kind = "word" =>
        \E i \in 1 .. Len(AllWords) :
            /\ InForce(i) /\ result.word = AllWords[i]
            /\ Contained(AsCased(result.word), AsCased(text), Gap)
            /\ \A j \in 1 .. Len(AllWords) :
                   InForce(j) /\ Occurs(AsCased(AllWords[j]), AsCased(text)) =>
                       i <= j /\ Occurs(AsCased(result.word), AsCased(text))

(* A message of a group that is filtered reports a word if it contains one in force,
   but for a word that is spelled with gaps over an earlier place of one of its
   letters.                                                                  *)
UnreportedWordIsAbsent ==
    /\ Done /\ result.kind # "word"
    /\ policy.enabled /\ ~(policy.admin_exempt_enabled /\ policy.manager)
    =>
        \A i \in 1 .. Len(AllWords) :
            InForce(i) => ~Overlooked(AsCased(AllWords[i]), AsCased(text), Gap)

HoldsBypassed(piece) ==
    \E i \in 1 .. Len(policy.bypass_global_words) :
        Contained(AsCased(policy.bypass_global_words[i]), AsCased(piece), Gap)

(* A regular expression is reported for a match that holds no bypassed word (but for
   one that may be overlooked), and none is passed over for a match that holds
   none: all the matches of those before it hold bypassed words.             *)
ReportedRegexIsRight ==
    Done /\ result.kind # "word" /\ Checked =>
        /\ \A r \in 1 .. Len(matches) :
               \A n \in 1 .. Len(matches[r]) :
                   \/ HoldsBypassed(matches[r][n])
                   \/ result.kind = "regex" /\ r = result.r
        /\ result.kind = "none" => Len(matches) = Len(EffectiveRegexes)
        /\ result.kind = "regex" =>
               \E n \in 1 .. Len(matches[result.r]) :
                   \A i \in 1 .. Len(policy.bypass_global_words) :
                       ~Overlooked(AsCased(policy.bypass_global_words[i]),
                                   AsCased(matches[result.r][n]), Gap)

(* Every message is decided on: no search goes on for ever. *)
Decides == stage = "detect" ~> Done
=============================================================================
