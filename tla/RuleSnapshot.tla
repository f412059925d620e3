---------------------------- MODULE RuleSnapshot ----------------------------
(***************************************************************************)
(* The rules of every group, read once at the start: domain/settings.py    *)
(* (the limits, from a configuration in which anything may stand),         *)
(* persistence/repository_rules.py (the table global_rules) and            *)
(* domain/rule_snapshot.py (what becomes of each row).                     *)
(*                                                                         *)
(* One step is one row.  The pattern of a row has a core, what is left of  *)
(* it without blanks and with {{GAP}} expanded, and the form it is written *)
(* in: two rows may come to the same core though no two patterns are the   *)
(* same.                                                                   *)
(***************************************************************************)
EXTENDS Integers, SequencesExt

CONSTANTS
    Config,       \* the values the plugin's configuration may have
    Table,        \* the tables global_rules may be
    MaxRegexes,   \* DEFAULT_MAX_REGEX_RULE_COUNT
    Long,         \* expressions beyond DEFAULT_MAX_REGEX_RULE_LENGTH
    Risky,        \* expressions that _looks_like_high_risk_regex knows
    Broken        \* expressions that re.compile refuses

VARIABLES
    settings,     \* ChatFilterSettings
    table,        \* global_rules: the rows by id
    todo,         \* ids of the enabled rows from_rules has yet to look at
    words,        \* global_words
    regexes,      \* global_regex_rules
    skips         \* global_regex_rule_skips

rulesVars == <<settings, table, todo, words, regexes, skips>>

-----------------------------------------------------------------------------
(* settings.py *)

(* A number is an int or a str that reads as one; a bool is none.  Anything else is as
   good as absent.                                                           *)
ConfigValue == [kind: {"number"}, n: Int] \cup [kind: {"bool"}, b: BOOLEAN]
               \cup [kind: {"absent"}]

BoundedInt(value, default, minimum, maximum) ==
    IF value.kind # "number" THEN default
    ELSE IF value.n < minimum THEN minimum
    ELSE IF value.n > maximum THEN maximum ELSE value.n

AsBool(value, default) == IF value.kind = "bool" THEN value.b ELSE default

FromConfig(config) ==
    [max_word_count  |-> BoundedInt(config.max_word_count, 500, 1, 5000),
     max_word_length |-> BoundedInt(config.max_word_length, 64, 1, 512),
     case_sensitive  |-> AsBool(config.case_sensitive, FALSE),
     obfuscated      |-> AsBool(config.obfuscated_word_matching_enabled, TRUE),
     max_gap         |-> BoundedInt(config.obfuscated_word_max_gap, 4, 0, 64)]

-----------------------------------------------------------------------------
(* repository_rules.py *)

(* CHECK (rule_type IN ('word', 'regex')), UNIQUE (rule_type, pattern) *)
IsTable(rows) ==
    /\ Len(rows) \in Nat /\ DOMAIN rows = 1 .. Len(rows)
    /\ \A i \in DOMAIN rows : /\ rows[i].type \in {"word", "regex"}
                             /\ rows[i].position \in Int
                             /\ rows[i].enabled \in BOOLEAN
    /\ \A i, j \in DOMAIN rows :
           rows[i].type = rows[j].type /\ rows[i].pattern = rows[j].pattern => i = j

ASSUME RulesAssumption == /\ Config \subseteq [max_word_count: ConfigValue,
                                               max_word_length: ConfigValue,
                                               case_sensitive: ConfigValue,
                                               obfuscated_word_matching_enabled: ConfigValue,
                                               obfuscated_word_max_gap: ConfigValue]
                          /\ \A rows \in Table : IsTable(rows)
                          /\ MaxRegexes \in Nat

(* ORDER BY position, id *)
Precedes(i, j) == \/ table[i].position < table[j].position
                  \/ table[i].position = table[j].position /\ i <= j

RulesInit ==
    /\ settings \in {FromConfig(config) : config \in Config}
    /\ table \in Table
    /\ todo = {i \in DOMAIN table : table[i].enabled}
    /\ words = << >> /\ regexes = << >> /\ skips = << >>

-----------------------------------------------------------------------------
(* rule_snapshot.py, normalize_words and normalize_regex_rules_with_diagnostics *)

IsNext(type, i) == /\ i \in todo /\ table[i].type = type
                   /\ \A j \in todo : table[j].type = type => Precedes(i, j)

TakeWord(i) ==
    LET word == table[i].pattern.core
    IN  /\ IsNext("word", i)
        /\ todo' = todo \ {i}
        /\ words' = IF \/ word = << >> \/ Len(word) > settings.max_word_length
                       \/ Contains(words, word)
                       \/ Len(words) >= settings.max_word_count
                    THEN words ELSE Append(words, word)
        /\ UNCHANGED <<settings, table, regexes, skips>>

(* Mutant: an expression counts as seen although it was skipped. *)
SkipReasonSeen(core) ==
    IF core = << >>                THEN "empty"
    ELSE IF core \in Long          THEN "too_long"
    ELSE IF \/ Contains(regexes, core)
            \/ \E n \in 1 .. Len(skips) : table[skips[n].id].pattern.core = core
                                   THEN "duplicate"
    ELSE IF Len(regexes) >= MaxRegexes THEN "max_count"
    ELSE IF core \in Risky         THEN "high_risk"
    ELSE IF core \in Broken        THEN "compile_error"
    ELSE "none"

(* Mutant: skipped expressions count towards the limit. *)
SkipReasonAll(core) ==
    IF core = << >>                THEN "empty"
    ELSE IF core \in Long          THEN "too_long"
    ELSE IF Contains(regexes, core) THEN "duplicate"
    ELSE IF Len(regexes) + Len(skips) >= MaxRegexes THEN "max_count"
    ELSE IF core \in Risky         THEN "high_risk"
    ELSE IF core \in Broken        THEN "compile_error"
    ELSE "none"

(* The first reason there is, in the order in which the code looks for them. *)
SkipReason(core) ==
    IF core = << >>                THEN "empty"
    ELSE IF core \in Long          THEN "too_long"
    ELSE IF Contains(regexes, core) THEN "duplicate"
    ELSE IF Len(regexes) >= MaxRegexes THEN "max_count"
    ELSE IF core \in Risky         THEN "high_risk"
    ELSE IF core \in Broken        THEN "compile_error"
    ELSE "none"

TakeRegex(i) ==
    LET core == table[i].pattern.core
        reason == SkipReason(core)
    IN  /\ \A j \in todo : table[j].type = "regex"
        /\ IsNext("regex", i)
        /\ todo' = todo \ {i}
        /\ IF reason = "none"
           THEN regexes' = Append(regexes, core) /\ UNCHANGED skips
           ELSE skips' = Append(skips, [id |-> i, reason |-> reason]) /\ UNCHANGED regexes
        /\ UNCHANGED <<settings, table, words>>

TakeRow == \E i \in todo : TakeWord(i) \/ TakeRegex(i)

Loaded == todo = {}

-----------------------------------------------------------------------------
(* What a snapshot is: of the rows that could be rules, each pattern once, at the
   place where it comes first, up to the limit.                              *)

MayBeWord(i) ==
    /\ table[i].enabled /\ table[i].type = "word"
    /\ Len(table[i].pattern.core) \in 1 .. settings.max_word_length

MayBeRegex(i) ==
    /\ table[i].enabled /\ table[i].type = "regex"
    /\ table[i].pattern.core \notin {<< >>} \cup Long \cup Risky \cup Broken

FirstOf(ids) ==
    {i \in ids : \A j \in ids : table[j].pattern.core = table[i].pattern.core => Precedes(i, j)}

IsSelection(chosen, ids, limit) ==
    LET firsts == FirstOf(ids)
        rank(i) == Cardinality({j \in firsts : Precedes(j, i)})
    IN  /\ Len(chosen) = IF Cardinality(firsts) > limit THEN limit ELSE Cardinality(firsts)
        /\ \A i \in firsts : rank(i) <= limit => chosen[rank(i)] = table[i].pattern.core

(* What is read from the table is this selection, whatever else stands in it and in
   whatever order: a row that cannot be a rule neither takes the place of one nor
   hides a later one.                                                        *)
SnapshotIsSelection ==
    Loaded => /\ IsSelection(words, {i \in DOMAIN table : MayBeWord(i)}, settings.max_word_count)
              /\ IsSelection(regexes, {i \in DOMAIN table : MayBeRegex(i)}, MaxRegexes)

(* Every row of a regular expression that is no rule is reported, once and with the
   reason: .cf regex-skips is the only way to learn of it.                   *)
SkipsAreExact ==
    Loaded =>
        /\ \A i \in DOMAIN table :
               table[i].enabled /\ table[i].type = "regex" =>
                   LET reports == {n \in 1 .. Len(skips) : skips[n].id = i}
                       core == table[i].pattern.core
                       earlier == {j \in DOMAIN table : MayBeRegex(j) /\ j # i /\ Precedes(j, i)}
                   IN  /\ Cardinality(reports) <= 1
                       /\ reports = {} => MayBeRegex(i) /\ Contains(regexes, core)
                       /\ \A n \in reports :
                              CASE skips[n].reason = "duplicate" ->
                                       \E j \in earlier : table[j].pattern.core = core
                                [] skips[n].reason = "max_count" ->
                                       /\ Len(regexes) = MaxRegexes
                                       /\ ~Contains(regexes, core)
                                [] OTHER -> ~MayBeRegex(i)

=============================================================================
