----------------------------- MODULE WordSearch -----------------------------
(***************************************************************************)
(* domain/matcher.py, _detect_word: which of several words a text          *)
(* contains.  First every word is looked for as it is; then, if that is    *)
(* switched on, every word of two letters or more with up to `gap' other   *)
(* letters between any two of its own.                                     *)
(*                                                                         *)
(* The second search takes the first place of the next letter within reach *)
(* and does not go back when the rest cannot be found from there.  One     *)
(* step is one find of a text.  Places count from 1, and 0 stands before   *)
(* the text.                                                               *)
(***************************************************************************)
EXTENDS Integers, Sequences

CONSTANTS
    Letter,
    Fold,       \* casefold, of single letters
    MaxText     \* MAX_OBFUSCATED_WORD_MATCH_TEXT_LENGTH, MAX_REGEX_MATCH_TEXT_LENGTH

ASSUME SearchAssumption == /\ Fold \in [Letter -> Letter]
                           /\ MaxText \in Nat

VARIABLE search      \* the locals of _detect_word and _has_gapped_word_match

Text == Seq(Letter)
Word == Seq(Letter) \ {<< >>}

Cased(text, sensitive) == IF sensitive THEN text ELSE [i \in 1 .. Len(text) |-> Fold[text[i]]]

Truncated(text) == IF Len(text) > MaxText THEN SubSeq(text, 1, MaxText) ELSE text

(* needle in haystack *)
Occurs(word, text) ==
    \E at \in 0 .. Len(text) - Len(word) :
        \A i \in 1 .. Len(word) : text[at + i] = word[i]

(* text.find(letter, low, high) gives the first of these places. *)
Places(text, letter, low, high) ==
    {p \in low .. high : p \in 1 .. Len(text) /\ text[p] = letter}

IsFirst(p, places) == p \in places /\ \A q \in places : p <= q

-----------------------------------------------------------------------------
Idle == [pc |-> "idle"]

Locals == [pc: {"literal", "gapped", "letters", "found", "missed"}, text: Text,
           words: Seq(Word), gap: Nat, k: Nat \ {0}, start: Nat, place: Nat, letter: Nat \ {0}]

(* text and words have their letters folded; found words are known by number. *)
Call(pc, text, words, gap) == [pc |-> pc, text |-> text, words |-> words, gap |-> gap,
                               k |-> 1, start |-> 0, place |-> 0, letter |-> 2]

needle == search.words[search.k]

SearchInit == search = Idle

Begin(text, words, sensitive, obfuscated, gap) ==
    search' = Call(IF words = << >> THEN "missed" ELSE "literal",
                   Cased(text, sensitive),
                   [i \in 1 .. Len(words) |-> Cased(words[i], sensitive)],
                   IF obfuscated THEN gap ELSE 0)

Return == search' = Idle

LiteralMiss ==
    IF search.k < Len(search.words) THEN search' = [search EXCEPT !.k = @ + 1]
    ELSE IF search.gap > 0
    THEN search' = Call("gapped", Truncated(search.text), search.words, search.gap)
    ELSE search' = [search EXCEPT !.pc = "missed"]

Literal ==
    /\ search.pc = "literal"
    /\ IF Occurs(needle, search.text) THEN search' = [search EXCEPT !.pc = "found"]
                                      ELSE LiteralMiss

(* _has_gapped_word_match returns False. *)
NextWord ==
    search' = IF search.k < Len(search.words)
              THEN [search EXCEPT !.k = @ + 1, !.pc = "gapped", !.start = 0]
              ELSE [search EXCEPT !.pc = "missed"]

(* Mutant: the search for another start begins at the last one. *)
StartsAgain == Places(search.text, needle[1], search.start, Len(search.text))

Starts == Places(search.text, needle[1], search.start + 1, Len(search.text))

Start ==
    /\ search.pc = "gapped"
    /\ IF Len(needle) < 2 \/ Starts = {} THEN NextWord
       ELSE \E p \in Starts : /\ IsFirst(p, Starts)
                              /\ search' = [search EXCEPT !.pc = "letters", !.start = p,
                                                          !.place = p, !.letter = 2]

(* Mutant: the gap counts from the letter after the last. *)
NextPlacesTooFar ==
    Places(search.text, needle[search.letter], search.place + 1, search.place + search.gap + 2)

NextPlaces ==
    Places(search.text, needle[search.letter], search.place + 1, search.place + search.gap + 1)

NextLetter ==
    /\ search.pc = "letters"
    /\ \/ /\ NextPlaces = {}
          /\ search' = [search EXCEPT !.pc = "gapped"]
       \/ \E p \in NextPlaces :
              /\ IsFirst(p, NextPlaces)
              /\ search' = IF search.letter = Len(needle) THEN [search EXCEPT !.pc = "found"]
                           ELSE [search EXCEPT !.place = p, !.letter = @ + 1]

SearchStep == Literal \/ Start \/ NextLetter

(* The search by itself, whatever it is called for. *)
SearchNext ==
    \/ /\ search = Idle
       /\ \E text \in Text, words \in Seq(Word), sensitive \in BOOLEAN,
             obfuscated \in BOOLEAN, gap \in Nat :
              Begin(text, words, sensitive, obfuscated, gap)
    \/ SearchStep
    \/ search.pc \in {"found", "missed"} /\ Return

SearchSpec == SearchInit /\ [][SearchNext]_search

-----------------------------------------------------------------------------
(* What the search is for. *)

(* Places at which a text spells a word with gaps of limited width. *)
Spellings(word, text, gap) ==
    {f \in [1 .. Len(word) -> 1 .. Len(text)] :
        /\ \A i \in 1 .. Len(word) : text[f[i]] = word[i]
        /\ \A i \in 1 .. Len(word) - 1 : f[i] < f[i + 1] /\ f[i + 1] <= f[i] + gap + 1}

(* Such places pass over no earlier place of an inner letter. *)
PassesOverNone(f, word, text) ==
    \A i \in 2 .. Len(word) - 1 : \A q \in f[i - 1] + 1 .. f[i] - 1 : text[q] # word[i]

Contained(word, text, gap) ==
    \/ Occurs(word, text)
    \/ gap > 0 /\ Len(word) >= 2 /\ Spellings(word, text, gap) # {}

(* A word is not overlooked unless all its spellings pass over an earlier place of
   one of its inner letters; a word of two letters has none.                 *)
Overlooked(word, text, gap) ==
    \/ Occurs(word, text)
    \/ /\ gap > 0 /\ Len(word) >= 2
       /\ \E f \in Spellings(word, Truncated(text), gap) :
              PassesOverNone(f, word, Truncated(text))

(* What a search has found is in the text, as it is or spelled with gaps no wider
   than allowed.                                                             *)
FoundIsContained ==
    search.pc = "found" => Contained(needle, search.text, search.gap)

(* What a search has missed is nowhere in the text, but for what it may overlook:
   the rows of letters in which the code does not go back.                   *)
MissedIsAbsent ==
    search.pc = "missed" =>
        \A i \in 1 .. Len(search.words) : ~Overlooked(search.words[i], search.text, search.gap)

(* A search tells exactly whether its words are in the text, but for what it may
   overlook.                                                                 *)
SearchIsRight == FoundIsContained /\ MissedIsAbsent
=============================================================================
