---------------------------- MODULE MatcherProofs ----------------------------
(***************************************************************************)
(* Theorems about WordSearch, RuleSnapshot and Matcher, for every set of   *)
(* letters and folding, every configuration, table, message and policy and *)
(* every limit, checked by TLAPS: what a search finds and misses, what     *)
(* becomes of the rows of rules, and what detect reports.                  *)
(***************************************************************************)
EXTENDS Matcher, InductionLemmas, SequenceTheorems

USE SearchAssumption

-----------------------------------------------------------------------------
(* The search by itself. *)

(* Where the search is, and that all its words have a letter. *)
Shape ==
    \/ search = Idle
    \/ /\ search \in Locals
       /\ search.pc # "missed" => search.k \in 1 .. Len(search.words)
       /\ search.pc \in {"gapped", "letters"} => search.gap > 0
       /\ search.pc = "letters" => search.letter \in 2 .. Len(needle)

(* The letters found so far are the beginning of a spelling. *)
BeginsSpelling(f, word, target, gap, n) ==
    /\ f \in [1 .. n -> 1 .. Len(target)]
    /\ \A i \in 1 .. n : target[f[i]] = word[i]
    /\ \A i \in 1 .. n - 1 : f[i] < f[i + 1] /\ f[i + 1] <= f[i] + gap + 1

HasBegun ==
    search.pc = "letters" =>
        \E f : /\ BeginsSpelling(f, needle, search.text, search.gap, search.letter - 1)
               /\ f[search.letter - 1] = search.place

FoundInv == Shape /\ HasBegun /\ FoundIsContained

-----------------------------------------------------------------------------
(* Folding the case keeps the type and the length. *)
LEMMA CasedText ==
    ASSUME NEW target \in Text, NEW sensitive \in BOOLEAN
    PROVE  Cased(target, sensitive) \in Text /\ Len(Cased(target, sensitive)) = Len(target)
BY DEF Cased, Text

(* Truncation keeps the letters up to the limit. *)
LEMMA TruncatedText ==
    ASSUME NEW target \in Text
    PROVE  /\ Truncated(target) \in Text
           /\ Len(Truncated(target)) <= MaxText
           /\ Len(Truncated(target)) <= Len(target)
           /\ \A i \in 1 .. Len(Truncated(target)) : Truncated(target)[i] = target[i]
BY DEF Truncated, Text

(* The search's locals at the start of a loop. *)
LEMMA CallShape ==
    ASSUME NEW pc \in {"literal", "gapped", "missed"}, NEW target \in Text,
           NEW wanted \in Seq(Word), NEW gap \in Nat
    PROVE  /\ Call(pc, target, wanted, gap) \in Locals
           /\ Call(pc, target, wanted, gap).pc = pc
           /\ Call(pc, target, wanted, gap).text = target
           /\ Call(pc, target, wanted, gap).words = wanted
           /\ Call(pc, target, wanted, gap).gap = gap
           /\ Call(pc, target, wanted, gap).k = 1
           /\ Call(pc, target, wanted, gap).start = 0
BY DEF Call, Locals

(* A search begins with the first word, or misses when there is none. *)
LEMMA BeginShape ==
    ASSUME NEW target \in Text, NEW wanted \in Seq(Word), NEW sensitive \in BOOLEAN,
           NEW obfuscated \in BOOLEAN, NEW gap \in Nat,
           Begin(target, wanted, sensitive, obfuscated, gap)
    PROVE  /\ search' \in Locals
           /\ search'.k = 1
           /\ search'.pc = IF Len(search'.words) = 0 THEN "missed" ELSE "literal"
<1> DEFINE folded == [i \in 1 .. Len(wanted) |-> Cased(wanted[i], sensitive)]
<1>1. \A i \in 1 .. Len(wanted) : wanted[i] \in Word
    OBVIOUS
<1>2. ASSUME NEW i \in 1 .. Len(wanted)
      PROVE  Cased(wanted[i], sensitive) \in Word
    <2>1. wanted[i] \in Text /\ Len(wanted[i]) # 0
        BY <1>1 DEF Word, Text
    <2>2. Cased(wanted[i], sensitive) \in Text /\ Len(Cased(wanted[i], sensitive)) # 0
        BY <2>1, CasedText
    <2> QED BY <2>2 DEF Word, Text
<1>3. folded \in Seq(Word) /\ Len(folded) = Len(wanted)
    BY <1>2
<1>4. (IF obfuscated THEN gap ELSE 0) \in Nat
    OBVIOUS
<1>5. wanted = << >> <=> Len(wanted) = 0
    OBVIOUS
<1> DEFINE pc == IF wanted = << >> THEN "missed" ELSE "literal"
           g == IF obfuscated THEN gap ELSE 0
           t == Cased(target, sensitive)
<1>6. search' = Call(pc, t, folded, g)
    BY DEF Begin
<1>7. /\ pc \in {"literal", "gapped", "missed"}
      /\ pc = IF Len(folded) = 0 THEN "missed" ELSE "literal"
      /\ g \in Nat /\ t \in Text
    BY <1>3, <1>4, <1>5, CasedText
<1> HIDE DEF folded, pc, g, t
<1> QED BY <1>3, <1>6, <1>7, CallShape

(* What the first search has missed is not in a shorter text either. *)
LEMMA OccursInTruncated ==
    ASSUME NEW word \in Word, NEW target \in Text, Occurs(word, Truncated(target))
    PROVE  Occurs(word, target)
<1> DEFINE t == Truncated(target)
<1>1. /\ t \in Text /\ Len(t) <= Len(target) /\ Len(t) \in Nat /\ Len(target) \in Nat
      /\ \A i \in 1 .. Len(t) : t[i] = target[i]
    BY TruncatedText DEF Text
<1>2. Len(word) \in Nat
    BY DEF Word
<1> HIDE DEF t
<1>3. PICK before \in 0 .. Len(t) - Len(word) : \A i \in 1 .. Len(word) : t[before + i] = word[i]
    BY DEF Occurs, t
<1>4. before \in 0 .. Len(target) - Len(word)
    BY <1>1, <1>2, <1>3
<1>5. \A i \in 1 .. Len(word) : target[before + i] = word[i]
    <2> SUFFICES ASSUME NEW i \in 1 .. Len(word)
                 PROVE  target[before + i] = word[i]
        OBVIOUS
    <2>1. before + i \in 1 .. Len(t)
        BY <1>1, <1>2, <1>3
    <2> QED BY <1>1, <1>3, <2>1
<1> QED BY <1>4, <1>5 DEF Occurs

-----------------------------------------------------------------------------
(* What is found is there *)

(* After a literal miss: the next word, the gapped search, or the end. *)
LEMMA LiteralMissShape ==
    ASSUME search \in Locals, search.pc = "literal", search.k \in 1 .. Len(search.words),
           LiteralMiss
    PROVE  /\ search' \in Locals /\ search'.words = search.words /\ search'.gap = search.gap
           /\ \/ /\ search'.pc = "literal" /\ search'.text = search.text
                 /\ search'.k = search.k + 1 /\ search'.k <= Len(search.words)
              \/ /\ search'.pc = "gapped" /\ search'.text = Truncated(search.text)
                 /\ search'.k = 1 /\ search'.start = 0 /\ search.gap > 0
                 /\ search.k = Len(search.words)
              \/ /\ search'.pc = "missed" /\ search'.text = search.text
                 /\ search.gap = 0 /\ search.k = Len(search.words)
<1>1. CASE search.k < Len(search.words)
    BY <1>1 DEF LiteralMiss, Locals
<1>2. CASE search.k = Len(search.words) /\ search.gap > 0
    <2>1. search' = Call("gapped", Truncated(search.text), search.words, search.gap)
        BY <1>2 DEF LiteralMiss
    <2>2. search.text \in Text /\ search.words \in Seq(Word) /\ search.gap \in Nat
        BY DEF Locals
    <2> QED BY <1>2, <2>1, <2>2, TruncatedText, CallShape
<1>3. CASE search.k = Len(search.words) /\ search.gap = 0
    BY <1>3 DEF LiteralMiss, Locals
<1>4. search.gap \in Nat /\ search.words \in Seq(Word)
    BY DEF Locals
<1> QED BY <1>1, <1>2, <1>3, <1>4

(* After a gapped miss: the next word or the end. *)
LEMMA NextWordShape ==
    ASSUME search \in Locals, search.pc = "gapped", search.k \in 1 .. Len(search.words), NextWord
    PROVE  /\ search' \in Locals /\ search'.words = search.words /\ search'.gap = search.gap
           /\ search'.text = search.text
           /\ \/ /\ search'.pc = "gapped" /\ search'.start = 0
                 /\ search'.k = search.k + 1 /\ search'.k <= Len(search.words)
              \/ search'.pc = "missed" /\ search.k = Len(search.words)
<1>1. search.words \in Seq(Word) /\ search.k \in Nat \ {0} /\ Len(search.words) \in Nat
    BY DEF Locals
<1>2. CASE search.k < Len(search.words)
    <2>1. search' = [search EXCEPT !.k = search.k + 1, !.pc = "gapped", !.start = 0]
        BY <1>2 DEF NextWord
    <2>2. search.k + 1 \in Nat \ {0} /\ search.k + 1 <= Len(search.words)
        BY <1>1, <1>2
    <2>3. search' \in Locals
        BY <2>1, <2>2 DEF Locals
    <2>4. /\ search'.words = search.words /\ search'.gap = search.gap
          /\ search'.text = search.text /\ search'.pc = "gapped" /\ search'.start = 0
          /\ search'.k = search.k + 1
        BY <2>1 DEF Locals
    <2> QED BY <2>2, <2>3, <2>4
<1>3. CASE ~(search.k < Len(search.words))
    <2>1. search' = [search EXCEPT !.pc = "missed"]
        BY <1>3 DEF NextWord
    <2> QED BY <1>1, <1>3, <2>1 DEF Locals
<1> QED BY <1>2, <1>3

(* What the steps of the second search have to work with. *)
LEMMA GappedFacts ==
    ASSUME Shape, search.pc \in {"gapped", "letters"}
    PROVE  /\ search \in Locals
           /\ search.k \in 1 .. Len(search.words)
           /\ needle \in Word /\ Len(needle) \in Nat \ {0}
           /\ search.text \in Text /\ Len(search.text) \in Nat
           /\ search.gap \in Nat \ {0}
<1>1. search \in Locals /\ search.k \in 1 .. Len(search.words) /\ search.gap > 0
    BY DEF Shape, Idle
<1>2. search.words \in Seq(Word) /\ search.text \in Text /\ search.gap \in Nat
    BY <1>1 DEF Locals
<1>3. needle \in Word
    BY <1>1, <1>2 DEF needle
<1>4. Len(needle) \in Nat \ {0}
    BY <1>3 DEF Word
<1> QED BY <1>1, <1>2, <1>3, <1>4 DEF Text

(* The letter sought is one of the word's, and not its first. *)
LEMMA LetterFacts ==
    ASSUME Shape, search.pc = "letters"
    PROVE  search.letter \in 2 .. Len(needle)
BY DEF Shape, Idle

(* A gapped search that starts begins at the first place of the first letter. *)
LEMMA StartShape ==
    ASSUME Shape, Start, ~(Len(needle) < 2 \/ Starts = {})
    PROVE  \E p \in Starts :
               /\ IsFirst(p, Starts) /\ p \in 1 .. Len(search.text) /\ search.text[p] = needle[1]
               /\ search' \in Locals /\ search'.pc = "letters" /\ search'.start = p
               /\ search'.place = p /\ search'.letter = 2 /\ search'.k = search.k
               /\ search'.words = search.words /\ search'.text = search.text
               /\ search'.gap = search.gap /\ Len(needle) >= 2
<1>1. PICK p \in Starts :
          /\ IsFirst(p, Starts)
          /\ search' = [search EXCEPT !.pc = "letters", !.start = p, !.place = p, !.letter = 2]
    BY DEF Start
<1>2. p \in 1 .. Len(search.text) /\ search.text[p] = needle[1]
    BY DEF Starts, Places
<1>3. search \in Locals /\ Len(search.text) \in Nat /\ Len(needle) \in Nat
    BY GappedFacts DEF Start
<1>4. p \in Nat
    BY <1>2, <1>3
<1>5. search' \in Locals
    <2> DEFINE s1 == [search EXCEPT !.pc = "letters", !.start = p]
               s2 == [s1 EXCEPT !.place = p]
    <2>1. s1 \in Locals
        BY <1>3, <1>4 DEF Locals
    <2>2. search' = [s2 EXCEPT !.letter = 2]
        BY <1>1, <1>3 DEF Locals
    <2> HIDE DEF s1
    <2>3. s2 \in Locals
        BY <1>4, <2>1 DEF Locals
    <2> HIDE DEF s2
    <2>4. 2 \in Nat \ {0}
        OBVIOUS
    <2> QED BY <2>2, <2>3, <2>4 DEF Locals
<1>6. /\ search'.pc = "letters" /\ search'.start = p /\ search'.place = p /\ search'.letter = 2
      /\ search'.k = search.k /\ search'.words = search.words
      /\ search'.text = search.text /\ search'.gap = search.gap
    BY <1>1, <1>3 DEF Locals
<1> QED BY <1>1, <1>2, <1>3, <1>5, <1>6

(* A gapped search goes on at the next letter's first place, or gives up. *)
LEMMA NextLetterShape ==
    ASSUME Shape, NextLetter
    PROVE  \/ /\ NextPlaces = {} /\ search' = [search EXCEPT !.pc = "gapped"]
              /\ search' \in Locals
           \/ \E p \in NextPlaces :
                 /\ IsFirst(p, NextPlaces) /\ search' \in Locals
                 /\ p \in 1 .. Len(search.text) /\ search.text[p] = needle[search.letter]
                 /\ p > search.place /\ p <= search.place + search.gap + 1
                 /\ search'.k = search.k /\ search'.words = search.words
                 /\ search'.text = search.text /\ search'.gap = search.gap
                 /\ search'.start = search.start
                 /\ \/ search.letter = Len(needle) /\ search'.pc = "found"
                    \/ /\ search.letter # Len(needle) /\ search'.pc = "letters"
                       /\ search'.place = p /\ search'.letter = search.letter + 1
<1>1. search \in Locals /\ Len(search.text) \in Nat
    BY GappedFacts DEF NextLetter
<1>2. search.place \in Nat /\ search.letter \in Nat \ {0} /\ search.gap \in Nat
    BY <1>1 DEF Locals
<1>3. CASE NextPlaces = {} /\ search' = [search EXCEPT !.pc = "gapped"]
    BY <1>1, <1>3 DEF Locals
<1>4. ASSUME NEW p \in NextPlaces, IsFirst(p, NextPlaces),
             search' = IF search.letter = Len(needle) THEN [search EXCEPT !.pc = "found"]
                       ELSE [search EXCEPT !.place = p, !.letter = @ + 1]
      PROVE  /\ search' \in Locals
             /\ p \in 1 .. Len(search.text) /\ search.text[p] = needle[search.letter]
             /\ p > search.place /\ p <= search.place + search.gap + 1
             /\ search'.k = search.k /\ search'.words = search.words
             /\ search'.text = search.text /\ search'.gap = search.gap
             /\ search'.start = search.start
             /\ \/ search.letter = Len(needle) /\ search'.pc = "found"
                \/ /\ search.letter # Len(needle) /\ search'.pc = "letters"
                   /\ search'.place = p /\ search'.letter = search.letter + 1
    <2>1. /\ p \in 1 .. Len(search.text) /\ search.text[p] = needle[search.letter]
          /\ p \in search.place + 1 .. search.place + search.gap + 1
        BY DEF NextPlaces, Places
    <2>2. p \in Nat /\ p > search.place /\ p <= search.place + search.gap + 1
        BY <1>1, <1>2, <2>1
    <2>3. CASE search.letter = Len(needle)
        <3>1. search' = [search EXCEPT !.pc = "found"]
            BY <1>4, <2>3
        <3> QED BY <1>1, <2>1, <2>2, <2>3, <3>1 DEF Locals
    <2>4. CASE search.letter # Len(needle)
        <3>1. search' = [search EXCEPT !.place = p, !.letter = search.letter + 1]
            BY <1>4, <2>4
        <3>2. search.letter + 1 \in Nat \ {0}
            BY <1>2
        <3>3. search' \in Locals
            BY <1>1, <2>2, <3>1, <3>2 DEF Locals
        <3>4. /\ search'.k = search.k /\ search'.words = search.words
              /\ search'.text = search.text /\ search'.gap = search.gap
              /\ search'.start = search.start /\ search'.pc = search.pc
              /\ search'.place = p /\ search'.letter = search.letter + 1
            BY <1>1, <3>1 DEF Locals
        <3> QED BY <2>1, <2>2, <2>4, <3>3, <3>4 DEF NextLetter
    <2> QED BY <2>3, <2>4
<1> QED BY <1>1, <1>3, <1>4 DEF NextLetter

(* One letter more. *)
LEMMA SpellingGrows ==
    ASSUME NEW word \in Word, NEW target \in Text, NEW gap \in Nat, NEW n \in Nat \ {0},
           NEW f, BeginsSpelling(f, word, target, gap, n),
           NEW p \in 1 .. Len(target), target[p] = word[n + 1],
           p > f[n], p <= f[n] + gap + 1
    PROVE  \E g : BeginsSpelling(g, word, target, gap, n + 1) /\ g[n + 1] = p
<1> DEFINE g == [i \in 1 .. n + 1 |-> IF i = n + 1 THEN p ELSE f[i]]
<1>1. f \in [1 .. n -> 1 .. Len(target)]
    BY DEF BeginsSpelling
<1>2. \A i \in 1 .. n : g[i] = f[i] /\ f[i] \in 1 .. Len(target)
    BY <1>1
<1>3. g[n + 1] = p
    OBVIOUS
<1>4. \A i \in 1 .. n + 1 : i \in 1 .. n \/ i = n + 1
    OBVIOUS
<1>5. g \in [1 .. n + 1 -> 1 .. Len(target)]
    BY <1>1
<1> HIDE DEF g
<1>6. \A i \in 1 .. n + 1 : target[g[i]] = word[i]
    BY <1>2, <1>3, <1>4 DEF BeginsSpelling
<1>7. \A i \in 1 .. n : g[i] < g[i + 1] /\ g[i + 1] <= g[i] + gap + 1
    <2> SUFFICES ASSUME NEW i \in 1 .. n
                 PROVE  g[i] < g[i + 1] /\ g[i + 1] <= g[i] + gap + 1
        OBVIOUS
    <2>1. CASE i = n
        BY <1>2, <1>3, <2>1
    <2>2. CASE i # n
        <3>1. i \in 1 .. n - 1 /\ i + 1 \in 1 .. n
            BY <2>2
        <3> QED BY <1>2, <3>1 DEF BeginsSpelling
    <2> QED BY <2>1, <2>2
<1>8. (n + 1) - 1 = n
    OBVIOUS
<1> QED BY <1>3, <1>5, <1>6, <1>7, <1>8 DEF BeginsSpelling

(* A spelling of the whole word is a gapped occurrence. *)
LEMMA WholeSpelling ==
    ASSUME NEW word \in Word, NEW target, NEW gap \in Nat \ {0}, Len(word) >= 2,
           NEW f, BeginsSpelling(f, word, target, gap, Len(word))
    PROVE  Contained(word, target, gap)
<1>1. f \in Spellings(word, target, gap)
    BY DEF BeginsSpelling, Spellings
<1>2. gap > 0
    OBVIOUS
<1> QED BY <1>1, <1>2 DEF Contained

(* A place of the first letter begins a spelling. *)
LEMMA OneLetter ==
    ASSUME NEW word, NEW target \in Text, NEW gap \in Nat, NEW p \in 1 .. Len(target),
           target[p] = word[1]
    PROVE  \E f : BeginsSpelling(f, word, target, gap, 1) /\ f[1] = p
<1>1. BeginsSpelling([i \in 1 .. 1 |-> p], word, target, gap, 1)
    BY DEF BeginsSpelling
<1> QED BY <1>1

(* The invariant of what is found holds at first. *)
LEMMA InitFound == SearchInit => FoundInv
BY DEF SearchInit, FoundInv, Shape, HasBegun, FoundIsContained, Idle

(* Each step of a search keeps it. *)
LEMMA StepFound ==
    ASSUME FoundInv, SearchStep
    PROVE  FoundInv'
<1> USE DEF FoundInv
<1>1. CASE Literal
    <2>1. search \in Locals /\ search.pc = "literal" /\ search.k \in 1 .. Len(search.words)
        BY <1>1 DEF Literal, Shape, Idle
    <2>2. search.words \in Seq(Word)
        BY <2>1 DEF Locals
    <2>3. CASE Occurs(needle, search.text) /\ search' = [search EXCEPT !.pc = "found"]
        <3>1. /\ search' \in Locals /\ search'.pc = "found" /\ search'.k = search.k
              /\ search'.words = search.words /\ search'.text = search.text
            BY <2>1, <2>3 DEF Locals
        <3>2. needle' = needle
            BY <3>1 DEF needle
        <3> QED BY <2>1, <2>3, <3>1, <3>2 DEF Shape, HasBegun, FoundIsContained, Contained
    <2>4. CASE LiteralMiss
        <3>1. Len(search.words) \in Nat
            BY <2>2
        <3> QED BY <2>1, <2>4, <3>1, LiteralMissShape DEF Shape, HasBegun, FoundIsContained
    <2> QED BY <1>1, <2>3, <2>4 DEF Literal
<1>2. CASE Start /\ (Len(needle) < 2 \/ Starts = {})
    <2>1. /\ search \in Locals /\ search.pc = "gapped" /\ search.k \in 1 .. Len(search.words)
          /\ NextWord
        BY <1>2, GappedFacts DEF Start
    <2>2. search.gap > 0 /\ Len(search.words) \in Nat
        BY <2>1 DEF Shape, Idle, Locals
    <2> QED BY <2>1, <2>2, NextWordShape DEF Shape, HasBegun, FoundIsContained
<1>3. CASE Start /\ ~(Len(needle) < 2 \/ Starts = {})
    <2>1. /\ needle \in Word /\ Len(needle) \in Nat \ {0} /\ search.text \in Text
          /\ search.gap \in Nat \ {0} /\ search.k \in 1 .. Len(search.words)
        BY <1>3, GappedFacts DEF Start
    <2>2. PICK p \in Starts :
              /\ p \in 1 .. Len(search.text) /\ search.text[p] = needle[1]
              /\ search' \in Locals /\ search'.pc = "letters"
              /\ search'.place = p /\ search'.letter = 2 /\ search'.k = search.k
              /\ search'.words = search.words /\ search'.text = search.text
              /\ search'.gap = search.gap /\ Len(needle) >= 2
        BY <1>3, StartShape
    <2>3. needle' = needle
        BY <2>2 DEF needle
    <2>4. Shape'
        BY <2>1, <2>2, <2>3 DEF Shape
    <2>5. \E f : BeginsSpelling(f, needle, search.text, search.gap, 1) /\ f[1] = p
        BY <2>1, <2>2, OneLetter
    <2>6. HasBegun'
        BY <2>2, <2>3, <2>5 DEF HasBegun
    <2> QED BY <2>2, <2>4, <2>6 DEF FoundIsContained
<1>4. CASE NextLetter /\ search' = [search EXCEPT !.pc = "gapped"]
    <2>1. search \in Locals /\ search.k \in 1 .. Len(search.words) /\ search.gap \in Nat \ {0}
        BY <1>4, GappedFacts DEF NextLetter
    <2> QED BY <1>4, <2>1 DEF Locals, Shape, HasBegun, FoundIsContained
<1>5. ASSUME NEW p \in 1 .. Len(search.text), NextLetter,
             search.text[p] = needle[search.letter],
             p > search.place, p <= search.place + search.gap + 1,
             search' \in Locals,
             search'.k = search.k, search'.words = search.words,
             search'.text = search.text, search'.gap = search.gap,
             \/ search.letter = Len(needle) /\ search'.pc = "found"
             \/ /\ search.letter # Len(needle) /\ search'.pc = "letters"
                /\ search'.place = p /\ search'.letter = search.letter + 1
      PROVE  FoundInv'
    <2>1. /\ needle \in Word /\ Len(needle) \in Nat \ {0} /\ search.text \in Text
          /\ search.gap \in Nat \ {0} /\ search.k \in 1 .. Len(search.words)
        BY <1>5, GappedFacts DEF NextLetter
    <2>2. search.pc = "letters" /\ search.letter \in 2 .. Len(needle)
        BY <1>5, LetterFacts DEF NextLetter
    <2>3. PICK f : /\ BeginsSpelling(f, needle, search.text, search.gap, search.letter - 1)
                   /\ f[search.letter - 1] = search.place
        BY <2>2 DEF HasBegun
    <2>4. PICK n \in Nat \ {0} : n = search.letter - 1 /\ n + 1 = search.letter
        BY <2>1, <2>2
    <2>5. \E g : BeginsSpelling(g, needle, search.text, search.gap, n + 1) /\ g[n + 1] = p
        <3>1. BeginsSpelling(f, needle, search.text, search.gap, n) /\ f[n] = search.place
            BY <2>3, <2>4
        <3>2. /\ search.text[p] = needle[n + 1] /\ search.gap \in Nat
              /\ p > f[n] /\ p <= f[n] + search.gap + 1
            BY <1>5, <2>1, <2>4, <3>1
        <3>3. p \in 1 .. Len(search.text)
            BY <1>5
        <3> HIDE DEF FoundInv
        <3> QED BY <2>1, <3>1, <3>2, <3>3, SpellingGrows
    <2>6. needle' = needle
        BY <1>5 DEF needle
    <2>7. CASE search.letter = Len(needle) /\ search'.pc = "found"
        <3>1. Contained(needle, search.text, search.gap)
            BY <2>1, <2>2, <2>4, <2>5, <2>7, WholeSpelling
        <3> QED BY <1>5, <2>1, <2>6, <2>7, <3>1 DEF Shape, HasBegun, FoundIsContained
    <2>8. CASE search.letter # Len(needle) /\ search'.pc = "letters"
        <3>1. search'.place = p /\ search'.letter = search.letter + 1
            BY <1>5, <2>8
        <3>2. search'.letter \in 2 .. Len(needle) /\ search'.letter - 1 = n + 1
            BY <2>1, <2>2, <2>4, <2>8, <3>1
        <3>3. HasBegun'
            BY <1>5, <2>5, <2>6, <3>1, <3>2 DEF HasBegun
        <3>4. Shape'
            BY <1>5, <2>1, <2>6, <2>8, <3>2 DEF Shape
        <3> QED BY <2>8, <3>3, <3>4 DEF FoundIsContained
    <2> QED BY <1>5, <2>7, <2>8
<1>6. CASE NextLetter
    BY <1>4, <1>5, <1>6, NextLetterShape
<1> QED BY <1>1, <1>2, <1>3, <1>6 DEF SearchStep

(* Each step, of the search or not, keeps it. *)
LEMMA NextFound ==
    ASSUME FoundInv, [SearchNext]_search
    PROVE  FoundInv'
<1>1. CASE UNCHANGED search
    BY <1>1 DEF FoundInv, Shape, HasBegun, FoundIsContained, needle
<1>2. ASSUME NEW target \in Text, NEW wanted \in Seq(Word), NEW sensitive \in BOOLEAN,
             NEW obfuscated \in BOOLEAN, NEW gap \in Nat,
             Begin(target, wanted, sensitive, obfuscated, gap)
      PROVE  FoundInv'
    <2>1. /\ search' \in Locals /\ search'.k = 1
          /\ search'.pc = IF Len(search'.words) = 0 THEN "missed" ELSE "literal"
        BY <1>2, BeginShape
    <2>2. Len(search'.words) \in Nat
        BY <2>1 DEF Locals
    <2> QED BY <2>1, <2>2 DEF FoundInv, Shape, HasBegun, FoundIsContained
<1>3. CASE SearchStep
    BY <1>3, StepFound
<1>4. CASE Return
    BY <1>4 DEF Return, FoundInv, Shape, HasBegun, FoundIsContained, Idle
<1> QED BY <1>1, <1>2, <1>3, <1>4 DEF SearchNext

(* The search never takes a text for a match that does not contain the word, whether
   as it is or with gaps of the allowed width.                              *)
THEOREM FoundWordsAreContained == SearchSpec => []FoundIsContained
<1>1. SearchInit => FoundInv
    BY InitFound
<1>2. FoundInv /\ [SearchNext]_search => FoundInv'
    BY NextFound
<1>3. FoundInv => FoundIsContained
    BY DEF FoundInv
<1> QED BY <1>1, <1>2, <1>3, PTL DEF SearchSpec

-----------------------------------------------------------------------------
(* What is missed is not there *)

Clean(f, word, target, gap) ==
    f \in Spellings(word, target, gap) /\ PassesOverNone(f, word, target)

IsClear(word, target, gap) == Len(word) >= 2 => \A f : ~Clean(f, word, target, gap)

(* The words before the one being searched have been searched. *)
LiteralsAbsent ==
    /\ search.pc = "literal" =>
           \A i \in 1 .. search.k - 1 : ~Occurs(search.words[i], search.text)
    /\ search.pc \in {"gapped", "letters"} =>
           /\ Len(search.text) <= MaxText
           /\ \A i \in 1 .. Len(search.words) : ~Occurs(search.words[i], search.text)
           /\ \A i \in 1 .. search.k - 1 : IsClear(search.words[i], search.text, search.gap)

(* A spelling that is still to be found starts later, or goes through the last place. *)
IsAhead ==
    /\ search.pc = "gapped" /\ Len(needle) >= 2 =>
           \A f : Clean(f, needle, search.text, search.gap) => f[1] > search.start
    /\ search.pc = "letters" =>
           \A f : Clean(f, needle, search.text, search.gap) =>
               /\ f[1] >= search.start
               /\ f[1] = search.start => f[search.letter - 1] = search.place

MissedInv == Shape /\ LiteralsAbsent /\ IsAhead /\ MissedIsAbsent

(* The places of a clean spelling are in the text, in order and near. *)
LEMMA CleanPlaces ==
    ASSUME NEW word \in Word, NEW target \in Text, NEW gap \in Nat, NEW f,
           Clean(f, word, target, gap), NEW i \in 1 .. Len(word)
    PROVE  /\ f[i] \in 1 .. Len(target) /\ f[i] \in Nat /\ target[f[i]] = word[i]
           /\ i > 1 => f[i - 1] < f[i] /\ f[i] <= f[i - 1] + gap + 1
<1>1. /\ f \in [1 .. Len(word) -> 1 .. Len(target)]
      /\ \A j \in 1 .. Len(word) : target[f[j]] = word[j]
      /\ \A j \in 1 .. Len(word) - 1 : f[j] < f[j + 1] /\ f[j + 1] <= f[j] + gap + 1
    BY DEF Clean, Spellings
<1>2. f[i] \in 1 .. Len(target) /\ f[i] \in Nat /\ target[f[i]] = word[i]
    BY <1>1 DEF Text
<1>3. ASSUME i > 1
      PROVE  f[i - 1] < f[i] /\ f[i] <= f[i - 1] + gap + 1
    <2>1. i - 1 \in 1 .. Len(word) - 1 /\ (i - 1) + 1 = i
        BY <1>3 DEF Word
    <2> QED BY <1>1, <2>1
<1> QED BY <1>2, <1>3

(* A word without a start has no spelling that is still to be found. *)
LEMMA NoStartIsClear ==
    ASSUME Shape, search.pc = "gapped", IsAhead, Len(needle) < 2 \/ Starts = {}
    PROVE  IsClear(needle, search.text, search.gap)
<1>1. /\ search \in Locals /\ needle \in Word /\ Len(needle) \in Nat \ {0}
      /\ search.text \in Text /\ Len(search.text) \in Nat /\ search.gap \in Nat
    BY GappedFacts
<1>2. search.start \in Nat
    BY <1>1 DEF Locals
<1> SUFFICES ASSUME Len(needle) >= 2, NEW f, Clean(f, needle, search.text, search.gap)
             PROVE  FALSE
    BY DEF IsClear
<1>3. f[1] \in 1 .. Len(search.text) /\ search.text[f[1]] = needle[1]
    BY <1>1, CleanPlaces
<1>4. f[1] > search.start
    BY DEF IsAhead
<1>5. f[1] \in Starts
    BY <1>1, <1>2, <1>3, <1>4 DEF Starts, Places
<1> QED BY <1>1, <1>5

(* Giving up a word that cannot begin keeps the misses right. *)
LEMMA NextWordMissed ==
    ASSUME MissedInv, Start, Len(needle) < 2 \/ Starts = {}
    PROVE  MissedInv'
<1> DEFINE t == search.text
           ws == search.words
           g == search.gap
<1>1. /\ search.pc = "gapped" /\ NextWord /\ Shape
      /\ search \in Locals /\ search.k \in 1 .. Len(ws)
    BY GappedFacts DEF Start, MissedInv
<1>2. /\ ws \in Seq(Word) /\ Len(ws) \in Nat /\ t \in Text /\ g \in Nat /\ g > 0
      /\ search.k \in Nat \ {0}
    BY <1>1, GappedFacts DEF Locals
<1>3. IsClear(needle, t, g)
    BY <1>1, NoStartIsClear DEF MissedInv
<1>4. \A i \in 1 .. search.k : IsClear(ws[i], t, g)
    <2>1. \A i \in 1 .. search.k - 1 : IsClear(ws[i], t, g)
        BY <1>1 DEF MissedInv, LiteralsAbsent
    <2>2. \A i \in 1 .. search.k : i \in 1 .. search.k - 1 \/ i = search.k
        BY <1>2
    <2> QED BY <1>3, <2>1, <2>2 DEF needle
<1>5. Len(t) <= MaxText /\ \A i \in 1 .. Len(ws) : ~Occurs(ws[i], t)
    BY <1>1 DEF MissedInv, LiteralsAbsent
<1>6. search' \in Locals /\ search'.words = ws /\ search'.gap = g /\ search'.text = t
    BY <1>1, NextWordShape
<1>7. CASE /\ search'.pc = "gapped" /\ search'.start = 0
           /\ search'.k = search.k + 1 /\ search'.k <= Len(ws)
    <2>1. Shape'
        BY <1>2, <1>6, <1>7 DEF Shape
    <2>2. LiteralsAbsent'
        <3>1. search'.k - 1 = search.k
            BY <1>2, <1>7
        <3> QED BY <1>4, <1>5, <1>6, <1>7, <3>1 DEF LiteralsAbsent
    <2>3. ASSUME NEW f, NEW word \in Word, Clean(f, word, t, g)
          PROVE  f[1] > 0
        <3>1. 1 \in 1 .. Len(word)
            BY DEF Word
        <3>2. f[1] \in 1 .. Len(t)
            BY <1>2, <2>3, <3>1, CleanPlaces
        <3> QED BY <1>2, <3>2 DEF Text
    <2>4. IsAhead'
        <3>1. needle' \in Word
            BY <1>2, <1>6, <1>7 DEF needle
        <3> QED BY <1>6, <1>7, <2>3, <3>1 DEF IsAhead
    <2> QED BY <1>7, <2>1, <2>2, <2>4 DEF MissedInv, MissedIsAbsent
<1>8. CASE search'.pc = "missed" /\ search.k = Len(ws)
    <2>1. Truncated(t) = t
        BY <1>2, <1>5 DEF Truncated, Text
    <2>2. \A i \in 1 .. Len(ws) : ~Overlooked(ws[i], t, g)
        BY <1>4, <1>5, <1>8, <2>1 DEF Overlooked, IsClear, Clean
    <2> QED BY <1>6, <1>8, <2>2 DEF MissedInv, Shape, LiteralsAbsent, IsAhead, MissedIsAbsent
<1> QED BY <1>1, <1>7, <1>8, NextWordShape

(* A literal step keeps the misses right. *)
LEMMA LiteralMissed ==
    ASSUME MissedInv, Literal
    PROVE  MissedInv'
<1> DEFINE t == search.text
           ws == search.words
<1>1. /\ search \in Locals /\ search.pc = "literal" /\ search.k \in 1 .. Len(ws)
    BY DEF Literal, MissedInv, Shape, Idle
<1>2. ws \in Seq(Word) /\ Len(ws) \in Nat /\ t \in Text /\ search.gap \in Nat
    BY <1>1 DEF Locals
<1>3. CASE search' = [search EXCEPT !.pc = "found"]
    <2>1. search' \in Locals /\ search'.pc = "found" /\ search'.k = search.k /\ search'.words = ws
        BY <1>1, <1>3 DEF Locals
    <2> QED BY <1>1, <2>1 DEF MissedInv, Shape, LiteralsAbsent, IsAhead, MissedIsAbsent
<1>4. CASE ~Occurs(needle, t) /\ LiteralMiss
    <2>1. \A i \in 1 .. search.k : ~Occurs(ws[i], t)
        <3>1. \A i \in 1 .. search.k - 1 : ~Occurs(ws[i], t)
            BY <1>1 DEF MissedInv, LiteralsAbsent
        <3>2. \A i \in 1 .. search.k : i \in 1 .. search.k - 1 \/ i = search.k
            BY <1>1, <1>2
        <3> QED BY <1>4, <3>1, <3>2 DEF needle
    <2>2. search' \in Locals /\ search'.words = ws /\ search'.gap = search.gap
        BY <1>1, <1>4, LiteralMissShape
    <2>3. CASE /\ search'.pc = "literal" /\ search'.text = t
               /\ search'.k = search.k + 1 /\ search'.k <= Len(ws)
        <3>1. search'.k - 1 = search.k /\ search'.k \in 1 .. Len(ws)
            BY <1>1, <1>2, <2>3
        <3> QED BY <2>1, <2>2, <2>3, <3>1
                DEF MissedInv, Shape, LiteralsAbsent, IsAhead, MissedIsAbsent
    <2>4. CASE /\ search'.pc = "gapped" /\ search'.text = Truncated(t)
               /\ search'.k = 1 /\ search'.start = 0 /\ search.gap > 0
               /\ search.k = Len(ws)
        <3>1. search'.text \in Text /\ Len(search'.text) <= MaxText /\ Len(search'.text) \in Nat
            BY <1>2, <2>4, TruncatedText DEF Text
        <3>2. \A i \in 1 .. Len(ws) : ws[i] \in Word /\ ~Occurs(ws[i], search'.text)
            <4>1. \A i \in 1 .. Len(ws) : ws[i] \in Word
                BY <1>2
            <4> QED BY <1>2, <2>1, <2>4, <4>1, OccursInTruncated
        <3>3. Shape' /\ LiteralsAbsent'
            BY <1>1, <1>2, <2>2, <2>4, <3>1, <3>2 DEF Shape, LiteralsAbsent
        <3>4. needle' \in Word /\ search'.gap \in Nat
            BY <1>1, <1>2, <2>2, <2>4, <3>2 DEF needle
        <3>5. ASSUME NEW f, Clean(f, needle', search'.text, search'.gap)
              PROVE  f[1] > 0
            <4>1. 1 \in 1 .. Len(needle')
                BY <3>4 DEF Word
            <4> DEFINE w == needle'
                       u == search'.text
                       g == search'.gap
            <4>2. w \in Word /\ u \in Text /\ g \in Nat /\ Clean(f, w, u, g) /\ 1 \in 1 .. Len(w)
                BY <3>1, <3>4, <3>5, <4>1
            <4>3. Len(u) \in Nat
                BY <3>1
            <4> HIDE DEF w, u, g
            <4>4. f[1] \in 1 .. Len(u)
                BY <4>2, CleanPlaces
            <4> QED BY <4>3, <4>4
        <3>6. IsAhead'
            BY <2>4, <3>5 DEF IsAhead
        <3> QED BY <2>4, <3>3, <3>6 DEF MissedInv, MissedIsAbsent
    <2>5. CASE /\ search'.pc = "missed" /\ search'.text = t
               /\ search.gap = 0 /\ search.k = Len(ws)
        BY <2>1, <2>2, <2>5
           DEF MissedInv, Shape, LiteralsAbsent, IsAhead, MissedIsAbsent, Overlooked
    <2> QED BY <1>1, <1>4, <2>3, <2>4, <2>5, LiteralMissShape
<1> QED BY <1>3, <1>4 DEF Literal

(* Starting a gapped search keeps the misses right. *)
LEMMA StartMissed ==
    ASSUME MissedInv, Start, ~(Len(needle) < 2 \/ Starts = {})
    PROVE  MissedInv'
<1>1. /\ needle \in Word /\ Len(needle) \in Nat \ {0} /\ search.text \in Text
      /\ Len(search.text) \in Nat /\ search \in Locals
      /\ search.gap \in Nat \ {0} /\ search.k \in 1 .. Len(search.words)
      /\ search.pc = "gapped" /\ Shape
    BY GappedFacts DEF Start, MissedInv
<1>2. PICK p \in Starts :
          /\ IsFirst(p, Starts) /\ p \in 1 .. Len(search.text)
          /\ search' \in Locals /\ search'.pc = "letters" /\ search'.start = p
          /\ search'.place = p /\ search'.letter = 2 /\ search'.k = search.k
          /\ search'.words = search.words /\ search'.text = search.text
          /\ search'.gap = search.gap /\ Len(needle) >= 2
    BY <1>1, StartShape
<1>3. needle' = needle
    BY <1>2 DEF needle
<1>4. Shape' /\ LiteralsAbsent'
    BY <1>1, <1>2, <1>3 DEF MissedInv, Shape, LiteralsAbsent
<1>5. ASSUME NEW f, Clean(f, needle, search.text, search.gap)
      PROVE  f[1] >= p
    <2>1. /\ f[1] \in 1 .. Len(search.text) /\ search.text[f[1]] = needle[1]
        BY <1>1, <1>5, CleanPlaces
    <2>2. f[1] > search.start
        BY <1>1, <1>2, <1>5 DEF MissedInv, IsAhead
    <2>3. search.start \in Nat
        BY <1>1 DEF Locals
    <2>4. f[1] \in Starts
        BY <1>1, <2>1, <2>2, <2>3 DEF Starts, Places
    <2>5. p <= f[1]
        BY <1>2, <2>4 DEF IsFirst
    <2> QED BY <1>1, <1>2, <2>1, <2>5
<1>6. IsAhead'
    BY <1>2, <1>3, <1>5 DEF IsAhead
<1> QED BY <1>2, <1>4, <1>6 DEF MissedInv, MissedIsAbsent

(* The place of the next letter in a spelling through the last one is among those the
   search takes the first of.                                               *)
LEMMA CleanIsNext ==
    ASSUME Shape, search.pc = "letters", NEW f,
           Clean(f, needle, search.text, search.gap), f[search.letter - 1] = search.place
    PROVE  f[search.letter] \in NextPlaces
<1>1. /\ needle \in Word /\ Len(needle) \in Nat /\ search.text \in Text
      /\ Len(search.text) \in Nat /\ search.gap \in Nat /\ search \in Locals
    BY GappedFacts
<1>2. search.letter \in 1 .. Len(needle) /\ search.letter > 1 /\ search.place \in Nat
    BY <1>1, LetterFacts DEF Locals
<1>3. /\ f[search.letter] \in 1 .. Len(search.text) /\ f[search.letter] \in Nat
      /\ search.text[f[search.letter]] = needle[search.letter]
      /\ search.place < f[search.letter] /\ f[search.letter] <= search.place + search.gap + 1
    BY <1>1, <1>2, CleanPlaces
<1> QED BY <1>1, <1>2, <1>3 DEF NextPlaces, Places

(* A gapped search's step keeps the misses right. *)
LEMMA NextLetterMissed ==
    ASSUME MissedInv, NextLetter
    PROVE  MissedInv'
<1>1. /\ needle \in Word /\ Len(needle) \in Nat /\ search.text \in Text
      /\ Len(search.text) \in Nat /\ search.gap \in Nat \ {0} /\ search \in Locals
      /\ search.k \in 1 .. Len(search.words) /\ search.pc = "letters" /\ Shape
    BY GappedFacts DEF NextLetter, MissedInv
<1>2. /\ search.letter \in 2 .. Len(needle) /\ search.start \in Nat /\ search.place \in Nat
    BY <1>1, LetterFacts DEF Locals
<1>3. ASSUME NEW f, Clean(f, needle, search.text, search.gap)
      PROVE  /\ f[1] \in Nat /\ f[1] >= search.start
             /\ f[1] = search.start => f[search.letter - 1] = search.place
    <2>1. 1 \in 1 .. Len(needle) /\ search.gap \in Nat
        BY <1>1, <1>2
    <2> QED BY <1>1, <1>3, <2>1, CleanPlaces DEF MissedInv, IsAhead
<1>4. CASE NextPlaces = {} /\ search' = [search EXCEPT !.pc = "gapped"]
    <2>1. /\ search' \in Locals /\ search'.pc = "gapped" /\ search'.k = search.k
          /\ search'.words = search.words /\ search'.text = search.text
          /\ search'.gap = search.gap /\ search'.start = search.start
        BY <1>1, <1>4 DEF Locals
    <2>2. needle' = needle
        BY <2>1 DEF needle
    <2>3. ASSUME NEW f, Clean(f, needle, search.text, search.gap)
          PROVE  f[1] > search.start
        BY <1>1, <1>2, <1>3, <1>4, <2>3, CleanIsNext
    <2>4. Shape' /\ LiteralsAbsent'
        BY <1>1, <2>1, <2>2 DEF MissedInv, Shape, LiteralsAbsent
    <2>5. IsAhead'
        BY <2>1, <2>2, <2>3 DEF IsAhead
    <2> QED BY <2>1, <2>4, <2>5 DEF MissedInv, MissedIsAbsent
<1>5. ASSUME NEW p \in NextPlaces, IsFirst(p, NextPlaces), search' \in Locals,
             p \in 1 .. Len(search.text), search.text[p] = needle[search.letter],
             p > search.place,
             search'.k = search.k, search'.words = search.words,
             search'.text = search.text, search'.gap = search.gap,
             search'.start = search.start,
             \/ search.letter = Len(needle) /\ search'.pc = "found"
             \/ /\ search.letter # Len(needle) /\ search'.pc = "letters"
                /\ search'.place = p /\ search'.letter = search.letter + 1
      PROVE  MissedInv'
    <2>1. needle' = needle
        BY <1>5 DEF needle
    <2>2. CASE search'.pc = "found"
        BY <1>1, <1>5, <2>2 DEF MissedInv, Shape, LiteralsAbsent, IsAhead, MissedIsAbsent
    <2>3. CASE /\ search.letter # Len(needle) /\ search'.pc = "letters"
               /\ search'.place = p /\ search'.letter = search.letter + 1
        <3>1. search'.letter \in 2 .. Len(needle) /\ search'.letter - 1 = search.letter
            BY <1>1, <1>2, <2>3
        <3>2. Shape' /\ LiteralsAbsent'
            BY <1>1, <1>5, <2>1, <2>3, <3>1 DEF MissedInv, Shape, LiteralsAbsent
        <3>3. ASSUME NEW f, Clean(f, needle, search.text, search.gap), f[1] = search.start
              PROVE  f[search.letter] = p
            <4>1. f[search.letter - 1] = search.place
                BY <1>3, <3>3
            <4>2. f[search.letter] \in NextPlaces
                BY <1>1, <3>3, <4>1, CleanIsNext
            <4>3. p <= f[search.letter]
                BY <1>5, <4>2 DEF IsFirst
            <4>4. search.letter \in 2 .. Len(needle) - 1
                BY <1>1, <1>2, <2>3
            <4>5. \A q \in search.place + 1 .. f[search.letter] - 1 :
                      search.text[q] # needle[search.letter]
                BY <3>3, <4>1, <4>4 DEF Clean, PassesOverNone
            <4>6. f[search.letter] \in Nat /\ p \in Nat
                BY <1>1, <1>5, <4>2 DEF NextPlaces, Places
            <4> QED BY <1>2, <1>5, <4>3, <4>5, <4>6
        <3>4. IsAhead'
            BY <1>3, <1>5, <2>1, <2>3, <3>1, <3>3 DEF IsAhead
        <3> QED BY <2>3, <3>2, <3>4 DEF MissedInv, MissedIsAbsent
    <2> QED BY <1>5, <2>2, <2>3
<1> QED BY <1>1, <1>4, <1>5, NextLetterShape

(* Each step keeps the misses right. *)
LEMMA NextMissed ==
    ASSUME MissedInv, [SearchNext]_search
    PROVE  MissedInv'
<1>1. CASE UNCHANGED search
    BY <1>1 DEF MissedInv, Shape, LiteralsAbsent, IsAhead, MissedIsAbsent, needle
<1>2. ASSUME NEW target \in Text, NEW wanted \in Seq(Word), NEW sensitive \in BOOLEAN,
             NEW obfuscated \in BOOLEAN, NEW gap \in Nat,
             Begin(target, wanted, sensitive, obfuscated, gap)
      PROVE  MissedInv'
    <2>1. /\ search' \in Locals /\ search'.k = 1
          /\ search'.pc = IF Len(search'.words) = 0 THEN "missed" ELSE "literal"
        BY <1>2, BeginShape
    <2>2. Len(search'.words) \in Nat
        BY <2>1 DEF Locals
    <2> QED BY <2>1, <2>2 DEF MissedInv, Shape, LiteralsAbsent, IsAhead, MissedIsAbsent
<1>3. CASE Start
    BY <1>3, NextWordMissed, StartMissed
<1>4. CASE Return
    BY <1>4 DEF Return, MissedInv, Shape, LiteralsAbsent, IsAhead, MissedIsAbsent, Idle
<1> QED BY <1>1, <1>2, <1>3, <1>4, LiteralMissed, NextLetterMissed DEF SearchNext, SearchStep

(* A search that ends without a match has missed nothing that is there as it is, and
   overlooks a word with gaps only where it does not go back.               *)
THEOREM MissedWordsAreAbsent == SearchSpec => []MissedIsAbsent
<1>1. SearchInit => MissedInv
    BY DEF SearchInit, MissedInv, Shape, LiteralsAbsent, IsAhead, MissedIsAbsent, Idle
<1>2. MissedInv /\ [SearchNext]_search => MissedInv'
    BY NextMissed
<1>3. MissedInv => MissedIsAbsent
    BY DEF MissedInv
<1> QED BY <1>1, <1>2, <1>3, PTL DEF SearchSpec

(* Both, for any letters, texts, words, gaps and limits. *)
THEOREM SearchIsSound == SearchSpec => []SearchIsRight
<1>1. FoundIsContained /\ MissedIsAbsent => SearchIsRight
    BY DEF SearchIsRight
<1> QED BY <1>1, FoundWordsAreContained, MissedWordsAreAbsent, PTL
-----------------------------------------------------------------------------
(* The rules. *)

(* Before, Firsts, Rank and Selection say of given rows what Precedes, FirstOf and
   IsSelection say of the table.                                             *)
Core(rows, i) == rows[i].pattern.core

Before(rows, i, j) == \/ rows[i].position < rows[j].position
                      \/ rows[i].position = rows[j].position /\ i <= j

Firsts(rows, ids) ==
    {i \in ids : \A j \in ids : Core(rows, j) = Core(rows, i) => Before(rows, i, j)}

Rank(rows, ids, i) == Cardinality({j \in Firsts(rows, ids) : Before(rows, j, i)})

(* What has been chosen of some ids: the selection, which holds nothing else and
   leaves nothing out while there is room.                                   *)
Selection(rows, chosen, ids, limit) ==
    /\ Len(chosen) = IF Cardinality(Firsts(rows, ids)) > limit
                     THEN limit ELSE Cardinality(Firsts(rows, ids))
    /\ \A i \in Firsts(rows, ids) :
           Rank(rows, ids, i) <= limit => chosen[Rank(rows, ids, i)] = Core(rows, i)
    /\ \A n \in 1 .. Len(chosen) : \E i \in ids : Core(rows, i) = chosen[n]
    /\ Len(chosen) < limit =>
           \A i \in ids : \E n \in 1 .. Len(chosen) : chosen[n] = Core(rows, i)

(* The rows of a table are in an order in which no two have the same place. *)
LEMMA BeforeOrder ==
    ASSUME NEW rows, IsTable(rows), NEW i \in DOMAIN rows, NEW j \in DOMAIN rows
    PROVE  /\ Before(rows, i, i)
           /\ Before(rows, i, j) /\ Before(rows, j, i) => i = j
BY DEF Before, IsTable

(* A sequence with one element more. *)
LEMMA AppendedOne ==
    ASSUME NEW V, NEW s \in Seq(V), NEW v \in V
    PROVE  /\ Append(s, v) \in Seq(V) /\ Len(Append(s, v)) = Len(s) + 1 /\ Len(s) \in Nat
           /\ \A n \in 1 .. Len(s) : Append(s, v)[n] = s[n]
           /\ Append(s, v)[Len(s) + 1] = v
OBVIOUS

(* A row whose core has come before is first of nothing. *)
LEMMA FirstsStay ==
    ASSUME NEW rows, IsTable(rows), NEW ids \in SUBSET DOMAIN rows,
           NEW i \in DOMAIN rows, i \notin ids, \A j \in ids : Before(rows, j, i),
           NEW k \in ids, Core(rows, k) = Core(rows, i)
    PROVE  Firsts(rows, ids \cup {i}) = Firsts(rows, ids)
<1>1. i \notin Firsts(rows, ids \cup {i})
    <2>1. k \in DOMAIN rows /\ k # i /\ Before(rows, k, i)
        OBVIOUS
    <2>2. ~Before(rows, i, k)
        BY <2>1, BeforeOrder
    <2> QED BY <2>2 DEF Firsts
<1> QED BY <1>1 DEF Firsts

(* A row with a core of its own is the first with it. *)
LEMMA FirstsGrow ==
    ASSUME NEW rows, IsTable(rows), NEW ids \in SUBSET DOMAIN rows,
           NEW i \in DOMAIN rows, i \notin ids, \A j \in ids : Before(rows, j, i),
           \A k \in ids : Core(rows, k) # Core(rows, i)
    PROVE  /\ Firsts(rows, ids \cup {i}) = Firsts(rows, ids) \cup {i}
           /\ Rank(rows, ids \cup {i}, i) = Cardinality(Firsts(rows, ids)) + 1
           /\ \A j \in Firsts(rows, ids) : Rank(rows, ids \cup {i}, j) = Rank(rows, ids, j)
<1> DEFINE F == Firsts(rows, ids)
           G == Firsts(rows, ids \cup {i})
<1>1. F \subseteq ids /\ F \subseteq DOMAIN rows
    BY DEF Firsts
<1>2. Before(rows, i, i)
    BY BeforeOrder
<1>3. G = F \cup {i}
    BY <1>2 DEF Firsts
<1>4. IsFiniteSet(F)
    <2>1. IsFiniteSet(1 .. Len(rows))
        BY FS_Interval DEF IsTable
    <2> QED BY <1>1, <2>1, FS_Subset DEF IsTable
<1> HIDE DEF F, G
<1>5. {j \in G : Before(rows, j, i)} = F \cup {i}
    BY <1>1, <1>2, <1>3
<1>6. Cardinality(F \cup {i}) = Cardinality(F) + 1
    BY <1>1, <1>4, FS_AddElement
<1>7. ASSUME NEW j \in F
      PROVE  {k \in G : Before(rows, k, j)} = {k \in F : Before(rows, k, j)}
    <2>1. j \in DOMAIN rows /\ j # i /\ Before(rows, j, i)
        BY <1>1
    <2>2. ~Before(rows, i, j)
        BY <2>1, BeforeOrder
    <2> QED BY <1>3, <2>2
<1> QED BY <1>3, <1>5, <1>6, <1>7 DEF Rank, F, G

(* Firsts and ranks are counted. *)
LEMMA Counted ==
    ASSUME NEW rows, IsTable(rows), NEW ids \in SUBSET DOMAIN rows
    PROVE  /\ Cardinality(Firsts(rows, ids)) \in Nat
           /\ \A i \in Firsts(rows, ids) : /\ Rank(rows, ids, i) \in Nat \ {0}
                                           /\ Rank(rows, ids, i) <= Cardinality(Firsts(rows, ids))
<1> DEFINE F == Firsts(rows, ids)
<1>1. F \subseteq DOMAIN rows
    BY DEF Firsts
<1>2. IsFiniteSet(F)
    <2>1. IsFiniteSet(1 .. Len(rows))
        BY FS_Interval DEF IsTable
    <2> QED BY <1>1, <2>1, FS_Subset DEF IsTable
<1> HIDE DEF F
<1>3. Cardinality(F) \in Nat
    BY <1>2, FS_CardinalityType
<1>4. ASSUME NEW i \in F
      PROVE  Rank(rows, ids, i) \in Nat \ {0} /\ Rank(rows, ids, i) <= Cardinality(F)
    <2> DEFINE R == {j \in F : Before(rows, j, i)}
    <2>1. i \in R
        BY <1>1, BeforeOrder
    <2>2. R \subseteq F
        OBVIOUS
    <2> HIDE DEF R
    <2>3. IsFiniteSet(R) /\ Cardinality(R) <= Cardinality(F)
        BY <1>2, <2>2, FS_Subset
    <2>4. Cardinality(R) \in Nat /\ Cardinality(R) # 0
        BY <2>1, <2>3, FS_CardinalityType, FS_EmptySet
    <2> QED BY <2>3, <2>4 DEF Rank, R, F
<1> QED BY <1>3, <1>4 DEF F

(* Nothing is chosen of nothing. *)
LEMMA SelectionOfNone ==
    ASSUME NEW rows, NEW limit \in Nat
    PROVE  Selection(rows, << >>, {}, limit)
<1>1. PICK firsts : firsts = Firsts(rows, {})
    OBVIOUS
<1>2. firsts = {} /\ Cardinality(firsts) = 0 /\ ~(Cardinality(firsts) > limit)
    BY <1>1, FS_EmptySet DEF Firsts
<1>3. PICK none : none = << >>
    OBVIOUS
<1>4. Len(none) = 0 /\ 1 .. Len(none) = {}
    BY <1>3
<1>5. Selection(rows, none, {}, limit)
    BY <1>1, <1>2, <1>4 DEF Selection
<1> QED BY <1>3, <1>5

(* Choosing one row more, in order, as normalize_words and the regular expressions'
   loop do: it is left out when its core is there or when there is no room.  *)
LEMMA SelectionGrows ==
    ASSUME NEW rows, IsTable(rows), NEW ids \in SUBSET DOMAIN rows,
           NEW i \in DOMAIN rows, i \notin ids, \A j \in ids : Before(rows, j, i),
           NEW V, Core(rows, i) \in V, NEW chosen \in Seq(V), NEW limit \in Nat,
           Selection(rows, chosen, ids, limit),
           NEW next,
           next = IF Contains(chosen, Core(rows, i)) \/ Len(chosen) >= limit
                  THEN chosen ELSE Append(chosen, Core(rows, i))
    PROVE  Selection(rows, next, ids \cup {i}, limit)
<1> DEFINE F == Firsts(rows, ids)
           G == Firsts(rows, ids \cup {i})
           c == Core(rows, i)
<1>1. /\ Cardinality(F) \in Nat /\ Len(chosen) \in Nat
      /\ \A j \in F : /\ Rank(rows, ids, j) \in Nat \ {0}
                      /\ Rank(rows, ids, j) <= Cardinality(F)
    BY Counted
<1>2. /\ Len(chosen) = IF Cardinality(F) > limit THEN limit ELSE Cardinality(F)
      /\ \A j \in F : Rank(rows, ids, j) <= limit => chosen[Rank(rows, ids, j)] = Core(rows, j)
      /\ \A n \in 1 .. Len(chosen) : \E j \in ids : Core(rows, j) = chosen[n]
      /\ Len(chosen) < limit =>
             \A j \in ids : \E n \in 1 .. Len(chosen) : chosen[n] = Core(rows, j)
    BY DEF Selection
<1>3. CASE \E k \in ids : Core(rows, k) = c
    <2>1. G = F
        BY <1>3, FirstsStay
    <2>2. Contains(chosen, c) \/ Len(chosen) >= limit
        BY <1>1, <1>2, <1>3 DEF Contains
    <2>3. next = chosen
        BY <2>2
    <2>4. \A j \in F : Rank(rows, ids \cup {i}, j) = Rank(rows, ids, j)
        BY <2>1 DEF Rank
    <2>5. Len(chosen) < limit =>
              \A j \in ids \cup {i} : \E n \in 1 .. Len(chosen) : chosen[n] = Core(rows, j)
        BY <1>2, <1>3
    <2> QED BY <1>2, <2>1, <2>3, <2>4, <2>5 DEF Selection
<1>4. CASE \A k \in ids : Core(rows, k) # c
    <2>1. /\ G = F \cup {i}
          /\ Rank(rows, ids \cup {i}, i) = Cardinality(F) + 1
          /\ \A j \in F : Rank(rows, ids \cup {i}, j) = Rank(rows, ids, j)
        BY <1>4, FirstsGrow
    <2>2. ~Contains(chosen, c)
        BY <1>2, <1>4 DEF Contains
    <2>3. Cardinality(G) = Cardinality(F) + 1
        <3>1. F \subseteq ids /\ IsFiniteSet(1 .. Len(rows)) /\ DOMAIN rows = 1 .. Len(rows)
            BY FS_Interval DEF IsTable, Firsts
        <3>2. IsFiniteSet(F) /\ i \notin F
            BY <3>1, FS_Subset
        <3> QED BY <2>1, <3>2, FS_AddElement
    <2>4. CASE Len(chosen) >= limit
        <3>1. next = chosen /\ Len(chosen) = limit /\ Cardinality(F) >= limit
            BY <1>1, <1>2, <2>4
        <3>2. Len(chosen) = IF Cardinality(G) > limit THEN limit ELSE Cardinality(G)
            BY <1>1, <2>3, <3>1
        <3>3. \A j \in G : Rank(rows, ids \cup {i}, j) <= limit =>
                               chosen[Rank(rows, ids \cup {i}, j)] = Core(rows, j)
            <4>1. ~(Rank(rows, ids \cup {i}, i) <= limit)
                BY <1>1, <2>1, <3>1
            <4>2. \A j \in F : Rank(rows, ids \cup {i}, j) <= limit =>
                                  chosen[Rank(rows, ids \cup {i}, j)] = Core(rows, j)
                BY <1>2, <2>1
            <4> QED BY <2>1, <4>1, <4>2
        <3>4. \A n \in 1 .. Len(next) : \E j \in ids \cup {i} : Core(rows, j) = next[n]
            BY <1>2, <3>1
        <3>5. ~(Len(next) < limit)
            BY <3>1
        <3> QED BY <3>1, <3>2, <3>3, <3>4, <3>5 DEF Selection
    <2>5. CASE Len(chosen) < limit
        <3>1. next = Append(chosen, c) /\ Len(chosen) = Cardinality(F)
            BY <1>1, <1>2, <2>2, <2>5
        <3>2. /\ Len(next) = Len(chosen) + 1 /\ next[Len(chosen) + 1] = c
              /\ \A n \in 1 .. Len(chosen) : next[n] = chosen[n]
            BY <3>1, AppendedOne
        <3>3. Len(next) = IF Cardinality(G) > limit THEN limit ELSE Cardinality(G)
            BY <1>1, <2>3, <2>5, <3>1, <3>2
        <3>4. \A j \in G : Rank(rows, ids \cup {i}, j) <= limit =>
                               next[Rank(rows, ids \cup {i}, j)] = Core(rows, j)
            <4>1. ASSUME NEW j \in F
                  PROVE  next[Rank(rows, ids \cup {i}, j)] = Core(rows, j)
                <5>1. Rank(rows, ids, j) \in 1 .. Len(chosen) /\ Rank(rows, ids, j) <= limit
                    BY <1>1, <2>5, <3>1
                <5> QED BY <1>2, <2>1, <3>2, <5>1
            <4>2. next[Rank(rows, ids \cup {i}, i)] = c
                BY <2>1, <3>1, <3>2
            <4> QED BY <2>1, <4>1, <4>2
        <3>5. \A n \in 1 .. Len(next) : \E j \in ids \cup {i} : Core(rows, j) = next[n]
            <4>1. \A n \in 1 .. Len(next) : n \in 1 .. Len(chosen) \/ n = Len(chosen) + 1
                BY <1>1, <3>2
            <4> QED BY <1>2, <3>2, <4>1
        <3>6. \A j \in ids \cup {i} : \E n \in 1 .. Len(next) : next[n] = Core(rows, j)
            <4>1. /\ Len(chosen) + 1 \in 1 .. Len(next)
                  /\ \A n \in 1 .. Len(chosen) : n \in 1 .. Len(next)
                BY <1>1, <3>2
            <4> QED BY <1>2, <2>5, <3>2, <4>1
        <3> QED BY <3>3, <3>4, <3>5, <3>6 DEF Selection
    <2> QED BY <1>1, <2>4, <2>5
<1> QED BY <1>3, <1>4

-----------------------------------------------------------------------------
(* From the table to the snapshot *)

(* The rows that from_rules has looked at. *)
Taken == {i \in DOMAIN table : table[i].enabled /\ i \notin todo}

TakenWords   == {i \in Taken : MayBeWord(i)}
TakenRegexes == {i \in Taken : MayBeRegex(i)}

Cores == {Core(table, i) : i \in DOMAIN table}

Reasons == {"empty", "too_long", "duplicate", "max_count", "high_risk", "compile_error", "none"}

RulesShape ==
    /\ table \in Table
    /\ settings \in {FromConfig(config) : config \in Config}
    /\ todo \subseteq {i \in DOMAIN table : table[i].enabled}
    /\ words \in Seq(Word)
    /\ regexes \in Seq(Cores)
    /\ skips \in Seq([id: Nat, reason: Reasons])

TakenInOrder ==
    \A i \in Taken, j \in todo : table[i].type = table[j].type => Before(table, i, j)

WordsSelected   == Selection(table, words, TakenWords, settings.max_word_count)
RegexesSelected == Selection(table, regexes, TakenRegexes, MaxRegexes)

(* Why a row of a regular expression was skipped. *)
IsReason(i, reason) ==
    CASE reason = "duplicate" -> \E j \in TakenRegexes : /\ j # i /\ Before(table, j, i)
                                                         /\ Core(table, j) = Core(table, i)
      [] reason = "max_count" -> /\ Len(regexes) = MaxRegexes
                                 /\ ~Contains(regexes, Core(table, i))
      [] OTHER -> ~MayBeRegex(i)

SkipsJustified ==
    \A n \in 1 .. Len(skips) : skips[n].id \in Taken /\ IsReason(skips[n].id, skips[n].reason)

SkippedOnce == \A m, n \in 1 .. Len(skips) : skips[m].id = skips[n].id => m = n

NoneUnreported ==
    \A i \in Taken : table[i].type = "regex" =>
        \/ \E n \in 1 .. Len(skips) : skips[n].id = i
        \/ MayBeRegex(i) /\ Contains(regexes, Core(table, i))

RulesInv == /\ RulesShape /\ TakenInOrder /\ WordsSelected /\ RegexesSelected
            /\ SkipsJustified /\ SkippedOnce /\ NoneUnreported

(* Whatever stands in the configuration, the limits and flags are of their types. *)
LEMMA SettingsType ==
    ASSUME NEW config \in Config, NEW s, s = FromConfig(config)
    PROVE  /\ s.max_word_count \in Nat /\ s.max_word_length \in Nat /\ s.max_gap \in Nat
           /\ s.case_sensitive \in BOOLEAN /\ s.obfuscated \in BOOLEAN
<1>1. /\ config.max_word_count \in ConfigValue /\ config.max_word_length \in ConfigValue
      /\ config.case_sensitive \in ConfigValue /\ config.obfuscated_word_max_gap \in ConfigValue
      /\ config.obfuscated_word_matching_enabled \in ConfigValue
    BY RulesAssumption
<1>2. \A v \in ConfigValue : /\ v.kind = "number" => v.n \in Int
                             /\ v.kind = "bool" => v.b \in BOOLEAN
    BY DEF ConfigValue
<1>3. /\ s.max_word_count = BoundedInt(config.max_word_count, 500, 1, 5000)
      /\ s.max_word_length = BoundedInt(config.max_word_length, 64, 1, 512)
      /\ s.max_gap = BoundedInt(config.obfuscated_word_max_gap, 4, 0, 64)
      /\ s.case_sensitive = AsBool(config.case_sensitive, FALSE)
      /\ s.obfuscated = AsBool(config.obfuscated_word_matching_enabled, TRUE)
    BY DEF FromConfig
<1>4. s.max_word_count \in Nat
    BY <1>1, <1>2, <1>3 DEF BoundedInt
<1>5. s.max_word_length \in Nat
    BY <1>1, <1>2, <1>3 DEF BoundedInt
<1>6. s.max_gap \in Nat
    BY <1>1, <1>2, <1>3 DEF BoundedInt
<1>7. s.case_sensitive \in BOOLEAN
    <2>1. CASE config.case_sensitive.kind = "bool"
        BY <1>1, <1>2, <1>3, <2>1 DEF AsBool
    <2>2. CASE config.case_sensitive.kind # "bool"
        BY <1>3, <2>2 DEF AsBool
    <2> QED BY <2>1, <2>2
<1>8. s.obfuscated \in BOOLEAN
    <2>1. CASE config.obfuscated_word_matching_enabled.kind = "bool"
        BY <1>1, <1>2, <1>3, <2>1 DEF AsBool
    <2>2. CASE config.obfuscated_word_matching_enabled.kind # "bool"
        BY <1>3, <2>2 DEF AsBool
    <2> QED BY <2>1, <2>2
<1> QED BY <1>4, <1>5, <1>6, <1>7, <1>8

(* The settings and the table an instance runs with. *)
LEMMA RulesTypes ==
    ASSUME RulesShape
    PROVE  /\ settings.max_word_count \in Nat /\ settings.max_word_length \in Nat
           /\ settings.max_gap \in Nat
           /\ settings.case_sensitive \in BOOLEAN /\ settings.obfuscated \in BOOLEAN
           /\ IsTable(table)
           /\ \A i \in DOMAIN table : table[i].type = "word" => Core(table, i) \in Text
<1>1. PICK config \in Config : settings = FromConfig(config)
    BY DEF RulesShape
<1>2. table \in Table
    BY DEF RulesShape
<1>3. IsTable(table)
    BY <1>2, RulesAssumption
<1>4. \A i \in DOMAIN table : table[i].type = "word" => Core(table, i) \in Text
    BY <1>2, MatcherAssumption DEF Core
<1> QED BY <1>1, <1>3, <1>4, SettingsType

(* The invariant of the rules holds before the first row. *)
LEMMA InitRules == RulesInit => RulesInv
<1> SUFFICES ASSUME RulesInit PROVE RulesInv
    OBVIOUS
<1>1. Taken = {} /\ TakenWords = {} /\ TakenRegexes = {}
    BY DEF RulesInit, Taken, TakenWords, TakenRegexes
<1>2. RulesShape
    BY DEF RulesInit, RulesShape
<1>3. WordsSelected /\ RegexesSelected
    <2>1. settings.max_word_count \in Nat /\ MaxRegexes \in Nat
        BY <1>2, RulesTypes, RulesAssumption
    <2> QED BY <1>1, <2>1, SelectionOfNone DEF RulesInit, WordsSelected, RegexesSelected
<1>4. TakenInOrder /\ SkipsJustified /\ SkippedOnce /\ NoneUnreported
    BY <1>1 DEF RulesInit, TakenInOrder, SkipsJustified, SkippedOnce, NoneUnreported
<1> QED BY <1>2, <1>3, <1>4 DEF RulesInv

(* What a step of from_rules does to the rows that have been looked at. *)
LEMMA RowTaken ==
    ASSUME RulesInv, NEW i \in todo, todo' = todo \ {i}, UNCHANGED <<settings, table>>,
           NEW type, IsNext(type, i)
    PROVE  /\ i \in DOMAIN table /\ i \notin Taken /\ Taken' = Taken \cup {i}
           /\ table[i].enabled /\ table[i].type = type
           /\ \A j \in Taken : table[j].type = type => Before(table, j, i)
           /\ TakenWords' = TakenWords \cup {j \in {i} : MayBeWord(j)}
           /\ TakenRegexes' = TakenRegexes \cup {j \in {i} : MayBeRegex(j)}
           /\ \A j : (MayBeRegex(j) <=> MayBeRegex(j)')
           /\ TakenInOrder'
<1>1. /\ todo \subseteq {j \in DOMAIN table : table[j].enabled}
      /\ table' = table /\ settings' = settings
    BY DEF RulesInv, RulesShape
<1>2. i \in DOMAIN table /\ i \notin Taken /\ table[i].enabled /\ table[i].type = type
    BY <1>1 DEF Taken, IsNext
<1>3. Taken' = Taken \cup {i}
    BY <1>1, <1>2 DEF Taken
<1>4. \A j : (MayBeWord(j) <=> MayBeWord(j)') /\ (MayBeRegex(j) <=> MayBeRegex(j)')
    BY <1>1 DEF MayBeWord, MayBeRegex
<1>5. /\ TakenWords' = TakenWords \cup {j \in {i} : MayBeWord(j)}
      /\ TakenRegexes' = TakenRegexes \cup {j \in {i} : MayBeRegex(j)}
    BY <1>3, <1>4 DEF TakenWords, TakenRegexes
<1>6. \A j \in Taken : table[j].type = type => Before(table, j, i)
    BY <1>2 DEF RulesInv, TakenInOrder
<1>7. \A j \in todo : table[j].type = type => Before(table, i, j)
    BY <1>1 DEF IsNext, Precedes, Before
<1>8. TakenInOrder'
    BY <1>1, <1>2, <1>3, <1>7 DEF RulesInv, TakenInOrder
<1> QED BY <1>2, <1>3, <1>4, <1>5, <1>6, <1>8

(* A step of normalize_words chooses as the selection does. *)
LEMMA WordTaken ==
    ASSUME RulesInv, NEW i \in todo, TakeWord(i)
    PROVE  RulesInv'
<1>1. /\ todo' = todo \ {i} /\ UNCHANGED <<settings, table>> /\ IsNext("word", i)
      /\ regexes' = regexes /\ skips' = skips /\ RulesShape
    BY DEF TakeWord, RulesInv
<1>2. /\ i \in DOMAIN table /\ i \notin Taken /\ Taken' = Taken \cup {i}
      /\ table[i].enabled /\ table[i].type = "word"
      /\ \A j \in Taken : table[j].type = "word" => Before(table, j, i)
      /\ TakenWords' = TakenWords \cup {j \in {i} : MayBeWord(j)}
      /\ TakenRegexes' = TakenRegexes \cup {j \in {i} : MayBeRegex(j)}
      /\ \A j : (MayBeRegex(j) <=> MayBeRegex(j)')
      /\ TakenInOrder'
    <2>1. PICK type : type = "word"
        OBVIOUS
    <2>2. IsNext(type, i)
        BY <1>1, <2>1
    <2> QED BY <1>1, <2>1, <2>2, RowTaken
<1>3. TakenRegexes' = TakenRegexes
    BY <1>2 DEF MayBeRegex
<1>4. /\ IsTable(table) /\ settings.max_word_count \in Nat /\ settings.max_word_length \in Nat
      /\ Core(table, i) \in Text /\ Len(Core(table, i)) \in Nat
    BY <1>1, <1>2, RulesTypes DEF Text
<1> DEFINE c == Core(table, i)
           limit == settings.max_word_count
<1>5. words' = IF \/ c = << >> \/ Len(c) > settings.max_word_length
                  \/ Contains(words, c) \/ Len(words) >= limit
               THEN words ELSE Append(words, c)
    BY DEF TakeWord, Core
<1>6. words \in Seq(Word) /\ Selection(table, words, TakenWords, limit)
    BY DEF RulesInv, RulesShape, WordsSelected
<1>7. MayBeWord(i) <=> ~(c = << >> \/ Len(c) > settings.max_word_length)
    <2>1. c = << >> <=> Len(c) = 0
        BY <1>4 DEF Text
    <2>2. MayBeWord(i) <=> Len(c) \in 1 .. settings.max_word_length
        BY <1>2 DEF MayBeWord, Core
    <2> QED BY <1>4, <2>1, <2>2
<1> HIDE DEF c, limit
<1>8. Selection(table, words', TakenWords', limit) /\ words' \in Seq(Word)
    <2>1. CASE MayBeWord(i)
        <3>1. c \in Word
            BY <1>4, <1>7, <2>1 DEF c, Text, Word
        <3>2. words' = IF Contains(words, c) \/ Len(words) >= limit
                       THEN words ELSE Append(words, c)
            BY <1>5, <1>7, <2>1
        <3>3. TakenWords' = TakenWords \cup {i}
            BY <1>2, <2>1
        <3>4. /\ TakenWords \in SUBSET DOMAIN table /\ i \notin TakenWords
              /\ \A j \in TakenWords : Before(table, j, i)
            BY <1>2 DEF TakenWords, Taken, MayBeWord
        <3>5. PICK rows, ids, next : rows = table /\ ids = TakenWords /\ next = words'
            OBVIOUS
        <3>6. limit \in Nat
            BY <1>4 DEF limit
        <3>7. Selection(rows, next, ids \cup {i}, limit)
            BY <1>2, <1>4, <1>6, <3>1, <3>2, <3>4, <3>5, <3>6, SelectionGrows DEF c
        <3>8. words' \in Seq(Word)
            BY <1>6, <3>1, <3>2
        <3> QED BY <3>3, <3>5, <3>7, <3>8
    <2>2. CASE ~MayBeWord(i)
        <3>1. words' = words
            BY <1>5, <1>7, <2>2
        <3>2. TakenWords' = TakenWords
            BY <1>2, <2>2
        <3> QED BY <1>6, <3>1, <3>2
    <2> QED BY <2>1, <2>2
<1>9. WordsSelected'
    BY <1>1, <1>8 DEF WordsSelected, limit
<1>10. RegexesSelected'
    BY <1>1, <1>3 DEF RulesInv, RegexesSelected
<1>11. RulesShape'
    <2>1. Cores' = Cores
        BY <1>1 DEF Cores
    <2> QED BY <1>1, <1>8, <2>1 DEF RulesShape
<1>12. ASSUME NEW j \in Taken, NEW reason, IsReason(j, reason)
       PROVE  IsReason(j, reason)'
    BY <1>1, <1>2, <1>3, <1>12 DEF IsReason
<1>13. SkipsJustified' /\ SkippedOnce'
    BY <1>1, <1>2, <1>12 DEF RulesInv, SkipsJustified, SkippedOnce
<1>14. NoneUnreported'
    BY <1>1, <1>2 DEF RulesInv, NoneUnreported
<1> QED BY <1>2, <1>9, <1>10, <1>11, <1>13, <1>14 DEF RulesInv

(* What the reason for skipping a row tells of the row. *)
LEMMA ReasonFacts ==
    ASSUME NEW core, NEW reason, reason = SkipReason(core)
    PROVE  /\ reason \in Reasons
           /\ reason = "duplicate" => Contains(regexes, core)
           /\ reason = "max_count" => ~Contains(regexes, core) /\ Len(regexes) >= MaxRegexes
           /\ reason \notin {"duplicate", "max_count", "none"} =>
                  core \in {<< >>} \cup Long \cup Risky \cup Broken
           /\ core \notin {<< >>} \cup Long \cup Risky \cup Broken =>
                  reason \in {"duplicate", "max_count", "none"}
           /\ reason = "none" =>
                  /\ core \notin {<< >>} \cup Long \cup Risky \cup Broken
                  /\ ~Contains(regexes, core) /\ ~(Len(regexes) >= MaxRegexes)
<1>1. \/ reason = "empty" /\ core = << >>
      \/ reason = "too_long" /\ core \in Long
      \/ reason = "duplicate" /\ Contains(regexes, core)
      \/ reason = "max_count" /\ ~Contains(regexes, core) /\ Len(regexes) >= MaxRegexes
      \/ reason = "high_risk" /\ core \in Risky
      \/ reason = "compile_error" /\ core \in Broken
      \/ /\ reason = "none" /\ core # << >> /\ core \notin Long \cup Risky \cup Broken
         /\ ~Contains(regexes, core) /\ ~(Len(regexes) >= MaxRegexes)
    BY Zenon DEF SkipReason
<1>2. reason \in Reasons
    BY <1>1 DEF Reasons
<1>3. reason = "duplicate" => Contains(regexes, core)
    BY <1>1
<1>4. reason = "max_count" => ~Contains(regexes, core) /\ Len(regexes) >= MaxRegexes
    BY <1>1
<1>5. reason \notin {"duplicate", "max_count", "none"} =>
          core \in {<< >>} \cup Long \cup Risky \cup Broken
    BY <1>1
<1>6. core \notin {<< >>} \cup Long \cup Risky \cup Broken =>
          reason \in {"duplicate", "max_count", "none"}
    BY <1>1
<1>7. reason = "none" => /\ core \notin {<< >>} \cup Long \cup Risky \cup Broken
                         /\ ~Contains(regexes, core) /\ ~(Len(regexes) >= MaxRegexes)
    BY <1>1
<1> QED BY <1>2, <1>3, <1>4, <1>5, <1>6, <1>7

(* A step of the regular expressions' loop chooses as the selection does and reports
   what it does not choose.                                                  *)
LEMMA RegexTaken ==
    ASSUME RulesInv, NEW i \in todo, TakeRegex(i)
    PROVE  RulesInv'
<1> DEFINE c == Core(table, i)
           reason == SkipReason(c)
<1>1. /\ todo' = todo \ {i} /\ UNCHANGED <<settings, table>> /\ IsNext("regex", i)
      /\ words' = words /\ RulesShape
    BY DEF TakeRegex, RulesInv
<1>2. /\ i \in DOMAIN table /\ i \notin Taken /\ Taken' = Taken \cup {i}
      /\ table[i].enabled /\ table[i].type = "regex"
      /\ \A j \in Taken : table[j].type = "regex" => Before(table, j, i)
      /\ TakenWords' = TakenWords \cup {j \in {i} : MayBeWord(j)}
      /\ TakenRegexes' = TakenRegexes \cup {j \in {i} : MayBeRegex(j)}
      /\ \A j : (MayBeRegex(j) <=> MayBeRegex(j)')
      /\ TakenInOrder'
    <2>1. PICK type : type = "regex"
        OBVIOUS
    <2>2. IsNext(type, i)
        BY <1>1, <2>1
    <2> QED BY <1>1, <2>1, <2>2, RowTaken
<1>3. TakenWords' = TakenWords
    BY <1>2 DEF MayBeWord
<1>4. IsTable(table) /\ MaxRegexes \in Nat
    BY <1>1, RulesTypes, RulesAssumption
<1>5. IF reason = "none"
      THEN regexes' = Append(regexes, c) /\ skips' = skips
      ELSE skips' = Append(skips, [id |-> i, reason |-> reason]) /\ regexes' = regexes
    BY DEF TakeRegex, Core
<1>6. /\ reason \in Reasons
      /\ reason = "duplicate" => Contains(regexes, c)
      /\ reason = "max_count" => ~Contains(regexes, c) /\ Len(regexes) >= MaxRegexes
      /\ reason \notin {"duplicate", "max_count", "none"} =>
             c \in {<< >>} \cup Long \cup Risky \cup Broken
      /\ c \notin {<< >>} \cup Long \cup Risky \cup Broken =>
             reason \in {"duplicate", "max_count", "none"}
      /\ reason = "none" => /\ c \notin {<< >>} \cup Long \cup Risky \cup Broken
                            /\ ~Contains(regexes, c) /\ ~(Len(regexes) >= MaxRegexes)
    BY ReasonFacts
<1>7. MayBeRegex(i) <=> c \notin {<< >>} \cup Long \cup Risky \cup Broken
    BY <1>2 DEF MayBeRegex, Core
<1>8. /\ regexes \in Seq(Cores) /\ c \in Cores /\ Len(regexes) \in Nat
      /\ skips \in Seq([id: Nat, reason: Reasons]) /\ Len(skips) \in Nat
      /\ Selection(table, regexes, TakenRegexes, MaxRegexes)
    BY <1>2 DEF RulesInv, RulesShape, RegexesSelected, Cores
<1> HIDE DEF c, reason
<1>9. Selection(table, regexes', TakenRegexes', MaxRegexes) /\ regexes' \in Seq(Cores)
    <2>1. CASE MayBeRegex(i)
        <3>1. regexes' = IF Contains(regexes, c) \/ Len(regexes) >= MaxRegexes
                         THEN regexes ELSE Append(regexes, c)
            BY <1>5, <1>6, <1>7, <2>1
        <3>2. TakenRegexes' = TakenRegexes \cup {i}
            BY <1>2, <2>1
        <3>3. /\ TakenRegexes \in SUBSET DOMAIN table /\ i \notin TakenRegexes
              /\ \A j \in TakenRegexes : Before(table, j, i)
            BY <1>2 DEF TakenRegexes, Taken, MayBeRegex
        <3>4. PICK rows, ids, next : rows = table /\ ids = TakenRegexes /\ next = regexes'
            OBVIOUS
        <3>5. Selection(rows, next, ids \cup {i}, MaxRegexes)
            BY <1>2, <1>4, <1>8, <3>1, <3>3, <3>4, SelectionGrows DEF c
        <3>6. regexes' \in Seq(Cores)
            BY <1>8, <3>1
        <3> QED BY <3>2, <3>4, <3>5, <3>6
    <2>2. CASE ~MayBeRegex(i)
        <3>1. regexes' = regexes
            BY <1>5, <1>6, <1>7, <2>2
        <3>2. TakenRegexes' = TakenRegexes
            BY <1>2, <2>2
        <3> QED BY <1>8, <3>1, <3>2
    <2> QED BY <2>1, <2>2
<1>10. RegexesSelected'
    BY <1>1, <1>9 DEF RegexesSelected
<1>11. WordsSelected'
    BY <1>1, <1>3 DEF RulesInv, WordsSelected
<1>12. i \in Nat
    BY <1>2, <1>4 DEF IsTable
<1>13. RulesShape'
    <2>1. Cores' = Cores
        BY <1>1 DEF Cores
    <2>2. skips' \in Seq([id: Nat, reason: Reasons])
        <3>1. PICK S, report : /\ S = [id: Nat, reason: Reasons]
                               /\ report = [id |-> i, reason |-> reason]
            OBVIOUS
        <3>2. report \in S /\ skips \in Seq(S)
            BY <1>6, <1>8, <1>12, <3>1
        <3>3. Append(skips, report) \in Seq(S)
            BY <3>2, AppendedOne
        <3>4. skips' = skips \/ skips' = Append(skips, report)
            BY <1>5, <3>1
        <3> QED BY <3>1, <3>2, <3>3, <3>4
    <2> QED BY <1>1, <1>9, <2>1, <2>2 DEF RulesShape
<1>14. /\ \A e : Contains(regexes, e) => Contains(regexes', e)
       /\ reason = "none" => Contains(regexes', c)
    <2>1. CASE reason = "none"
        <3>1. /\ Len(regexes') = Len(regexes) + 1 /\ regexes'[Len(regexes) + 1] = c
              /\ \A n \in 1 .. Len(regexes) : regexes'[n] = regexes[n]
            BY <1>5, <1>8, <2>1, AppendedOne
        <3>2. Len(regexes) + 1 \in 1 .. Len(regexes')
              /\ \A n \in 1 .. Len(regexes) : n \in 1 .. Len(regexes')
            BY <1>8, <3>1
        <3> QED BY <3>1, <3>2 DEF Contains
    <2>2. CASE reason # "none"
        BY <1>5, <2>2
    <2> QED BY <2>1, <2>2
<1>15. Len(regexes) <= MaxRegexes
    <2>1. Cardinality(Firsts(table, TakenRegexes)) \in Nat
        BY <1>4, Counted DEF TakenRegexes, Taken
    <2> QED BY <1>4, <1>8, <2>1 DEF Selection
<1>16. ASSUME NEW j \in Taken, NEW why, IsReason(j, why)
       PROVE  IsReason(j, why)'
    <2>1. CASE why = "duplicate"
        BY <1>1, <1>2, <1>16, <2>1 DEF IsReason
    <2>2. CASE why = "max_count"
        <3>1. Len(regexes) = MaxRegexes /\ ~Contains(regexes, Core(table, j))
            BY <1>16, <2>2 DEF IsReason
        <3>2. regexes' = regexes
            BY <1>4, <1>5, <1>6, <3>1
        <3> QED BY <1>1, <2>2, <3>1, <3>2 DEF IsReason
    <2>3. CASE why \notin {"duplicate", "max_count"}
        BY <1>2, <1>16, <2>3 DEF IsReason
    <2> QED BY <2>1, <2>2, <2>3
<1>17. CASE reason = "none"
    <2>1. skips' = skips
        BY <1>5, <1>17
    <2>2. SkipsJustified' /\ SkippedOnce'
        BY <1>2, <1>16, <2>1 DEF RulesInv, SkipsJustified, SkippedOnce
    <2>3. NoneUnreported'
        <3>1. MayBeRegex(i)' /\ Contains(regexes', c)
            BY <1>2, <1>6, <1>7, <1>14, <1>17
        <3> QED BY <1>1, <1>2, <1>14, <2>1, <3>1 DEF RulesInv, NoneUnreported, c
    <2> QED BY <1>2, <1>10, <1>11, <1>13, <2>2, <2>3 DEF RulesInv
<1>18. CASE reason # "none"
    <2> DEFINE report == [id |-> i, reason |-> reason]
               last == Len(skips) + 1
    <2>1. regexes' = regexes /\ skips' = Append(skips, report)
        BY <1>5, <1>18
    <2>2. report.id = i /\ report.reason = reason /\ report \in [id: Nat, reason: Reasons]
        BY <1>6, <1>12
    <2>3. /\ Len(skips') = last /\ skips'[last] = report
          /\ \A n \in 1 .. Len(skips) : skips'[n] = skips[n]
        <3> HIDE DEF report
        <3> QED BY <1>8, <2>1, <2>2, AppendedOne
    <2> HIDE DEF report, last
    <2>4. \A n \in 1 .. Len(skips') : n \in 1 .. Len(skips) \/ n = last
        BY <1>8, <2>3 DEF last
    <2>5. last \in 1 .. Len(skips') /\ \A n \in 1 .. Len(skips) : n \in 1 .. Len(skips')
        BY <1>8, <2>3 DEF last
    <2>6. ASSUME NEW why, why = reason
          PROVE  IsReason(i, why)'
        <3>1. CASE why = "duplicate"
            <4>1. PICK n \in 1 .. Len(regexes) : regexes[n] = c
                BY <1>6, <2>6, <3>1 DEF Contains
            <4>2. PICK j \in TakenRegexes : Core(table, j) = c
                BY <1>8, <4>1 DEF Selection
            <4>3. j # i /\ Before(table, j, i) /\ j \in TakenRegexes'
                BY <1>2, <4>2 DEF TakenRegexes, MayBeRegex
            <4>4. Core(table, j) = Core(table, i) /\ table' = table
                BY <1>1, <4>2 DEF c
            <4> QED BY <3>1, <4>3, <4>4 DEF IsReason
        <3>2. CASE why = "max_count"
            <4>1. Len(regexes) = MaxRegexes /\ ~Contains(regexes, c)
                BY <1>4, <1>6, <1>8, <1>15, <2>6, <3>2
            <4>2. ~Contains(regexes, Core(table, i)) /\ table' = table
                BY <1>1, <4>1 DEF c
            <4> QED BY <2>1, <3>2, <4>1, <4>2 DEF IsReason
        <3>3. CASE why \notin {"duplicate", "max_count"}
            <4>1. ~MayBeRegex(i)'
                BY <1>2, <1>6, <1>7, <1>18, <2>6, <3>3
            <4> QED BY <3>3, <4>1 DEF IsReason
        <3> QED BY <3>1, <3>2, <3>3
    <2>7. SkipsJustified'
        <3> SUFFICES ASSUME NEW n \in 1 .. Len(skips')
                     PROVE  skips'[n].id \in Taken' /\ IsReason(skips[n].id, skips[n].reason)'
            BY DEF SkipsJustified
        <3>1. CASE n \in 1 .. Len(skips)
            <4>1. skips[n].id \in Taken /\ IsReason(skips[n].id, skips[n].reason)
                BY <3>1 DEF RulesInv, SkipsJustified
            <4>2. PICK id, why : id = skips[n].id /\ why = skips[n].reason
                OBVIOUS
            <4>3. IsReason(id, why)'
                BY <1>16, <4>1, <4>2
            <4>4. skips'[n].id = id /\ skips'[n].reason = why
                BY <2>3, <3>1, <4>2
            <4> QED BY <1>2, <4>1, <4>2, <4>3, <4>4
        <3>2. CASE n = last
            <4>1. skips'[n].id = i /\ skips'[n].reason = reason
                BY <2>2, <2>3, <3>2
            <4>2. PICK why : why = reason
                OBVIOUS
            <4>3. IsReason(i, why)'
                BY <2>6, <4>2
            <4> QED BY <1>2, <4>1, <4>2, <4>3
        <3> QED BY <2>4, <3>1, <3>2
    <2>8. SkippedOnce'
        <3>1. \A n \in 1 .. Len(skips) : skips'[n].id # i /\ skips'[n] = skips[n]
            BY <1>2, <2>3 DEF RulesInv, SkipsJustified
        <3>2. skips'[last].id = i
            BY <2>2, <2>3
        <3> QED BY <2>4, <3>1, <3>2 DEF RulesInv, SkippedOnce
    <2>9. NoneUnreported'
        <3>1. skips'[last].id = i
            BY <2>2, <2>3
        <3> QED BY <1>1, <1>2, <2>1, <2>3, <2>5, <3>1 DEF RulesInv, NoneUnreported
    <2> QED BY <1>2, <1>10, <1>11, <1>13, <2>7, <2>8, <2>9 DEF RulesInv
<1> QED BY <1>17, <1>18

(* Every step of from_rules keeps the invariant, and nothing else touches the rules. *)
LEMMA RulesStep == RulesInv /\ (TakeRow \/ UNCHANGED rulesVars) => RulesInv'
<1> SUFFICES ASSUME RulesInv, TakeRow \/ UNCHANGED rulesVars PROVE RulesInv'
    OBVIOUS
<1>1. CASE TakeRow
    BY <1>1, WordTaken, RegexTaken DEF TakeRow
<1>2. CASE UNCHANGED rulesVars
    <2>1. Taken' = Taken /\ TakenWords' = TakenWords /\ TakenRegexes' = TakenRegexes
          /\ Cores' = Cores
        BY <1>2 DEF rulesVars, Taken, TakenWords, TakenRegexes, MayBeWord, MayBeRegex, Cores
    <2>2. \A i, reason : IsReason(i, reason) => IsReason(i, reason)'
        BY <1>2, <2>1 DEF rulesVars, IsReason, MayBeRegex
    <2>3. \A i : MayBeRegex(i) => MayBeRegex(i)'
        BY <1>2 DEF rulesVars, MayBeRegex
    <2>4. RulesShape' /\ TakenInOrder' /\ WordsSelected' /\ RegexesSelected'
        BY <1>2, <2>1 DEF rulesVars, RulesInv, RulesShape, TakenInOrder, WordsSelected,
                          RegexesSelected
    <2>5. SkipsJustified' /\ SkippedOnce' /\ NoneUnreported'
        BY <1>2, <2>1, <2>2, <2>3 DEF rulesVars, RulesInv, SkipsJustified, SkippedOnce,
                                      NoneUnreported
    <2> QED BY <2>4, <2>5 DEF RulesInv
<1> QED BY <1>1, <1>2

(* What the selection says of the table is what the snapshot is to be. *)
LEMMA SelectionMeans ==
    ASSUME NEW chosen, NEW ids, NEW limit, Selection(table, chosen, ids, limit)
    PROVE  IsSelection(chosen, ids, limit)
<1>1. \A i, j : Precedes(i, j) <=> Before(table, i, j)
    BY DEF Precedes, Before
<1>2. FirstOf(ids) = Firsts(table, ids)
    BY <1>1 DEF FirstOf, Firsts, Core
<1>3. \A i : Cardinality({j \in FirstOf(ids) : Precedes(j, i)}) = Rank(table, ids, i)
    BY <1>1, <1>2 DEF Rank
<1>4. \A i : Core(table, i) = table[i].pattern.core
    BY DEF Core
<1> QED BY <1>2, <1>3, <1>4 DEF Selection, IsSelection

(* Once every row has been looked at, the snapshot is what it is to be. *)
LEMMA RulesSelected == RulesInv => SnapshotIsSelection
<1> SUFFICES ASSUME RulesInv, Loaded PROVE SnapshotIsSelection
    BY DEF SnapshotIsSelection
<1>1. TakenWords = {i \in DOMAIN table : MayBeWord(i)}
    BY DEF TakenWords, Taken, Loaded, MayBeWord
<1>2. TakenRegexes = {i \in DOMAIN table : MayBeRegex(i)}
    BY DEF TakenRegexes, Taken, Loaded, MayBeRegex
<1>3. Selection(table, words, TakenWords, settings.max_word_count)
    BY DEF RulesInv, WordsSelected
<1>4. Selection(table, regexes, TakenRegexes, MaxRegexes)
    BY DEF RulesInv, RegexesSelected
<1>5. IsSelection(words, TakenWords, settings.max_word_count)
    BY <1>3, SelectionMeans
<1>6. IsSelection(regexes, TakenRegexes, MaxRegexes)
    BY <1>4, SelectionMeans
<1> QED BY <1>1, <1>2, <1>5, <1>6 DEF SnapshotIsSelection

(* At most one report of a row. *)
LEMMA AtMostOne ==
    ASSUME NEW S, \A m, n \in S : m = n
    PROVE  Cardinality(S) <= 1
<1>1. CASE S = {}
    BY <1>1, FS_EmptySet
<1>2. ASSUME NEW n \in S PROVE Cardinality(S) <= 1
    <2>1. S = {n}
        BY <1>2
    <2> QED BY <2>1, FS_Singleton
<1> QED BY <1>1, <1>2

(* And the reports of what was skipped are what they are to be. *)
LEMMA RulesReported == RulesInv => SkipsAreExact
<1> SUFFICES ASSUME RulesInv, Loaded, NEW i \in DOMAIN table,
                    table[i].enabled, table[i].type = "regex"
             PROVE  LET reports == {n \in 1 .. Len(skips) : skips[n].id = i}
                        core == table[i].pattern.core
                        earlier == {j \in DOMAIN table : MayBeRegex(j) /\ j # i /\ Precedes(j, i)}
                    IN  /\ Cardinality(reports) <= 1
                        /\ reports = {} => MayBeRegex(i) /\ Contains(regexes, core)
                        /\ \A n \in reports :
                               CASE skips[n].reason = "duplicate" ->
                                        \E j \in earlier : table[j].pattern.core = core
                                 [] skips[n].reason = "max_count" ->
                                        /\ Len(regexes) = MaxRegexes
                                        /\ ~Contains(regexes, core)
                                 [] OTHER -> ~MayBeRegex(i)
    BY DEF SkipsAreExact
<1> DEFINE reports == {n \in 1 .. Len(skips) : skips[n].id = i}
           core == table[i].pattern.core
           earlier == {j \in DOMAIN table : MayBeRegex(j) /\ j # i /\ Precedes(j, i)}
<1>1. i \in Taken
    BY DEF Taken, Loaded
<1>2. Cardinality(reports) <= 1
    <2>1. \A m, n \in reports : m = n
        BY DEF RulesInv, SkippedOnce
    <2> HIDE DEF reports
    <2> QED BY <2>1, AtMostOne
<1>3. reports = {} => MayBeRegex(i) /\ Contains(regexes, core)
    BY <1>1 DEF RulesInv, NoneUnreported, Core
<1>4. ASSUME NEW n \in reports
      PROVE  CASE skips[n].reason = "duplicate" -> \E j \in earlier : table[j].pattern.core = core
               [] skips[n].reason = "max_count" -> /\ Len(regexes) = MaxRegexes
                                                   /\ ~Contains(regexes, core)
               [] OTHER -> ~MayBeRegex(i)
    <2>1. IsReason(i, skips[n].reason)
        BY DEF RulesInv, SkipsJustified
    <2>2. CASE skips[n].reason = "duplicate"
        <3>1. PICK j \in TakenRegexes : /\ j # i /\ Before(table, j, i)
                                        /\ Core(table, j) = Core(table, i)
            BY <2>1, <2>2 DEF IsReason
        <3>2. j \in earlier /\ table[j].pattern.core = core
            BY <3>1 DEF TakenRegexes, Taken, Before, Precedes, Core
        <3> HIDE DEF earlier, core
        <3> QED BY <2>2, <3>2
    <2>3. CASE skips[n].reason = "max_count"
        <3>1. Len(regexes) = MaxRegexes /\ ~Contains(regexes, core)
            BY <2>1, <2>3 DEF IsReason, Core
        <3> HIDE DEF core
        <3> QED BY <2>3, <3>1
    <2>4. CASE skips[n].reason \notin {"duplicate", "max_count"}
        <3>1. ~MayBeRegex(i)
            BY <2>1, <2>4 DEF IsReason
        <3> HIDE DEF earlier, core
        <3> QED BY <2>4, <3>1
    <2> QED BY <2>2, <2>3, <2>4
<1> QED BY <1>2, <1>3, <1>4

(* Only from_rules touches the rules; the matcher reads them. *)
LEMMA MatcherKeepsRules == [Next]_matcherVars => TakeRow \/ UNCHANGED rulesVars
BY DEF Next, Load, Receive, Detect, Ignore, DetectWords, Search, WordFound, WordsMissed,
       TryRegex, RegexesMissed, RegexMissed, RegexFound, AskBypass, NotBypassed, Bypassed,
       matcherVars

-----------------------------------------------------------------------------
(* The words in force. *)

(* Two tuples of words, one after the other. *)
LEMMA Joined ==
    ASSUME NEW W, NEW s \in Seq(W), NEW t \in Seq(W)
    PROVE  /\ s \o t \in Seq(W) /\ Len(s \o t) = Len(s) + Len(t)
           /\ Len(s) \in Nat /\ Len(t) \in Nat
           /\ \A k \in 1 .. Len(s) : (s \o t)[k] = s[k]
           /\ \A k \in 1 .. Len(t) : (s \o t)[Len(s) + k] = t[k]
OBVIOUS

(* The words of one tuple, in their order, stand at these places of another. *)
StandAt(p, inner, outer, wanted) ==
    /\ p \in [1 .. Len(inner) -> 1 .. Len(outer)]
    /\ \A k \in 1 .. Len(inner) : outer[p[k]] = inner[k] /\ p[k] \in wanted
    /\ \A k, l \in 1 .. Len(inner) : k < l => p[k] < p[l]
    /\ \A i \in 1 .. Len(outer) : i \in wanted => \E k \in 1 .. Len(inner) : p[k] = i

(* What follows both tuples keeps its place. *)
LEMMA StandBefore ==
    ASSUME NEW W, NEW inner \in Seq(W), NEW outer \in Seq(W), NEW own \in Seq(W),
           NEW wanted, NEW p,
           StandAt(p, inner, outer, wanted),
           NEW more \in Seq(W), more = inner \o own, NEW all \in Seq(W), all = outer \o own
    PROVE  \E q : StandAt(q, more, all,
                          (wanted \cap 1 .. Len(outer)) \cup (Len(outer) + 1 .. Len(all)))
<1> DEFINE m == Len(inner)
           n == Len(outer)
           o == Len(own)
           q == [k \in 1 .. m + o |-> IF k <= m THEN p[k] ELSE n + (k - m)]
           W2 == (wanted \cap 1 .. n) \cup (n + 1 .. n + o)
<1>1. /\ m \in Nat /\ n \in Nat /\ o \in Nat /\ Len(more) = m + o /\ Len(all) = n + o
      /\ \A k \in 1 .. m : more[k] = inner[k]
      /\ \A k \in 1 .. o : more[m + k] = own[k]
      /\ \A k \in 1 .. n : all[k] = outer[k]
      /\ \A k \in 1 .. o : all[n + k] = own[k]
    BY Joined
<1>2. /\ p \in [1 .. m -> 1 .. n]
      /\ \A k \in 1 .. m : outer[p[k]] = inner[k] /\ p[k] \in wanted
      /\ \A k, l \in 1 .. m : k < l => p[k] < p[l]
      /\ \A i \in 1 .. n : i \in wanted => \E k \in 1 .. m : p[k] = i
    BY DEF StandAt
<1> HIDE DEF m, n, o
<1>3. \A k \in 1 .. m : k \in 1 .. m + o /\ q[k] = p[k] /\ p[k] \in 1 .. n
    BY <1>1, <1>2
<1>4. \A k \in 1 .. o : m + k \in 1 .. m + o /\ q[m + k] = n + k
    BY <1>1
<1>5. ASSUME NEW k \in 1 .. m + o
      PROVE  k \in 1 .. m \/ \E l \in 1 .. o : k = m + l
    <2>1. CASE k <= m
        BY <1>1, <2>1
    <2>2. CASE k > m
        <3>1. k - m \in 1 .. o /\ k = m + (k - m)
            BY <1>1, <2>2
        <3> QED BY <3>1
    <2> QED BY <1>1, <2>1, <2>2
<1>6. DOMAIN q = 1 .. m + o /\ q = [k \in 1 .. m + o |-> q[k]]
    OBVIOUS
<1> HIDE DEF q
<1>7. \A k \in 1 .. m + o : q[k] \in 1 .. n + o /\ all[q[k]] = more[k] /\ q[k] \in W2
    <2>1. ASSUME NEW k \in 1 .. m
          PROVE  q[k] \in 1 .. n + o /\ all[q[k]] = more[k] /\ q[k] \in W2
        <3>1. q[k] = p[k] /\ p[k] \in 1 .. n /\ p[k] \in wanted /\ outer[p[k]] = inner[k]
            BY <1>2, <1>3
        <3>2. q[k] \in W2
            BY <3>1
        <3>3. q[k] \in 1 .. n + o
            <4>1. \A i \in 1 .. n : i \in 1 .. n + o
                BY <1>1
            <4> QED BY <3>1, <4>1
        <3>4. all[q[k]] = more[k]
            <4>1. all[p[k]] = outer[p[k]] /\ more[k] = inner[k]
                BY <1>1, <3>1
            <4> QED BY <3>1, <4>1
        <3> QED BY <3>2, <3>3, <3>4
    <2>2. ASSUME NEW l \in 1 .. o
          PROVE  q[m + l] \in 1 .. n + o /\ all[q[m + l]] = more[m + l] /\ q[m + l] \in W2
        <3>1. n + l \in n + 1 .. n + o /\ n + l \in 1 .. n + o
            BY <1>1
        <3> QED BY <1>1, <1>4, <3>1
    <2> QED BY <1>5, <2>1, <2>2
<1>8. ASSUME NEW k \in 1 .. m + o, NEW l \in 1 .. m + o, k < l
      PROVE  q[k] < q[l]
    <2>1. CASE l \in 1 .. m
        <3>1. k \in 1 .. m
            BY <1>1, <1>8, <2>1
        <3> QED BY <1>2, <1>3, <1>8, <2>1, <3>1
    <2>2. ASSUME NEW b \in 1 .. o, l = m + b
          PROVE  q[k] < q[l]
        <3>1. CASE k \in 1 .. m
            <4>1. q[k] \in 1 .. n /\ q[l] = n + b
                BY <1>3, <1>4, <2>2, <3>1
            <4> QED BY <1>1, <4>1
        <3>2. ASSUME NEW a \in 1 .. o, k = m + a
              PROVE  q[k] < q[l]
            <4>1. q[k] = n + a /\ q[l] = n + b
                BY <1>4, <2>2, <3>2
            <4>2. a < b
                BY <1>1, <1>8, <2>2, <3>2
            <4> QED BY <1>1, <4>1, <4>2
        <3> QED BY <1>5, <3>1, <3>2
    <2> QED BY <1>5, <2>1, <2>2
<1>9. ASSUME NEW i \in 1 .. n + o, i \in W2
      PROVE  \E k \in 1 .. m + o : q[k] = i
    <2>1. CASE i \in 1 .. n
        <3>1. i \in wanted
            BY <1>1, <1>9, <2>1
        <3> QED BY <1>2, <1>3, <2>1, <3>1
    <2>2. CASE i \notin 1 .. n
        <3>1. i - n \in 1 .. o /\ i = n + (i - n)
            BY <1>1, <2>2
        <3> QED BY <1>4, <3>1
    <2> QED BY <2>1, <2>2
<1>10. q \in [1 .. Len(more) -> 1 .. Len(all)]
    BY <1>1, <1>6, <1>7
<1> HIDE DEF W2
<1>11. StandAt(q, more, all, W2)
    BY <1>1, <1>7, <1>8, <1>9, <1>10 DEF StandAt
<1> QED BY <1>1, <1>11 DEF W2, n

(* What the group does not bypass, in the order of the words of all groups. *)
LEMMA InheritedPlaces ==
    ASSUME words \in Seq(Word), policy.bypass_global_words \in Seq(Word)
    PROVE  /\ Inherited \in Seq(Word)
           /\ \E p : StandAt(p, Inherited, words,
                             {i \in 1 .. Len(words) :
                                 ~Contains(policy.bypass_global_words, words[i])})
<1> DEFINE wanted == ToSet(words) \ ToSet(policy.bypass_global_words)
<1>1. PICK list, kept : list = words /\ kept = Inherited
    OBVIOUS
<1>2. kept = Only(list, wanted)
    BY <1>1 DEF Inherited
<1>3. \A i \in 1 .. Len(list) :
          list[i] \in wanted <=> ~Contains(policy.bypass_global_words, list[i])
    <2>1. \A i \in 1 .. Len(list) : list[i] \in ToSet(words)
        BY <1>1 DEF ToSet
    <2>2. \A w :
              w \in ToSet(policy.bypass_global_words) <=> Contains(policy.bypass_global_words, w)
        BY DEF ToSet, Contains
    <2> QED BY <2>1, <2>2
<1> HIDE DEF wanted
<1>4. PICK p : KeptFrom(p, list, wanted, kept, Len(list))
    BY <1>1, <1>2, OnlyOrder
<1>5. kept \in Seq(Word)
    BY <1>1, <1>2, OnlyOrder
<1>6. StandAt(p, kept, list,
              {i \in 1 .. Len(list) : ~Contains(policy.bypass_global_words, list[i])})
    BY <1>3, <1>4 DEF KeptFrom, StandAt
<1> QED BY <1>1, <1>5, <1>6

(* The words that are searched for are those in force, in their order. *)
LEMMA EffectivePlaces ==
    ASSUME words \in Seq(Word), policy.bypass_global_words \in Seq(Word),
           policy.custom_words \in Seq(Word)
    PROVE  /\ EffectiveWords \in Seq(Word) /\ AllWords \in Seq(Word)
           /\ \E p : StandAt(p, EffectiveWords, AllWords, {i \in 1 .. Len(AllWords) : InForce(i)})
<1>1. PICK list, own, all, bypassed, inner :
          /\ list = words /\ own = policy.custom_words /\ all = AllWords
          /\ bypassed = policy.bypass_global_words /\ inner = EffectiveWords
    OBVIOUS
<1>2. /\ all = list \o own /\ list \in Seq(Word) /\ own \in Seq(Word) /\ all \in Seq(Word)
      /\ Len(all) = Len(list) + Len(own) /\ Len(list) \in Nat /\ Len(own) \in Nat
      /\ \A k \in 1 .. Len(list) : all[k] = list[k]
    BY <1>1, Joined DEF AllWords
<1>3. CASE policy.inherit_global
    <2>1. PICK kept, p, wanted :
              /\ kept = Inherited /\ kept \in Seq(Word)
              /\ wanted = {i \in 1 .. Len(list) : ~Contains(bypassed, list[i])}
              /\ StandAt(p, kept, list, wanted)
        BY <1>1, InheritedPlaces
    <2>2. inner = kept \o own
        BY <1>1, <1>3, <2>1 DEF EffectiveWords
    <2>3. inner \in Seq(Word)
        BY <1>2, <2>1, <2>2, Joined
    <2>4. PICK q : StandAt(q, inner, all,
                           (wanted \cap 1 .. Len(list)) \cup (Len(list) + 1 .. Len(all)))
        BY <1>2, <2>1, <2>2, <2>3, StandBefore
    <2>5. (wanted \cap 1 .. Len(list)) \cup (Len(list) + 1 .. Len(all))
              = {i \in 1 .. Len(all) : InForce(i)}
        <3>1. \A i \in 1 .. Len(all) : InForce(i) <=> i > Len(list) \/ ~Contains(bypassed, list[i])
            BY <1>1, <1>3 DEF InForce
        <3> QED BY <1>2, <2>1, <3>1
    <2> QED BY <1>1, <1>2, <2>3, <2>4, <2>5
<1>4. CASE ~policy.inherit_global
    <2>1. inner = own
        BY <1>1, <1>4 DEF EffectiveWords
    <2> DEFINE p == [k \in 1 .. Len(own) |-> Len(list) + k]
    <2>2. \A k \in 1 .. Len(own) : all[Len(list) + k] = own[k]
        BY <1>2, Joined
    <2>3. \A i \in 1 .. Len(all) : InForce(i) <=> i > Len(list)
        BY <1>1, <1>4 DEF InForce
    <2>4. StandAt(p, inner, all, {i \in 1 .. Len(all) : InForce(i)})
        <3>1. p \in [1 .. Len(own) -> 1 .. Len(all)]
            BY <1>2
        <3>2. \A k \in 1 .. Len(own) : p[k] \in 1 .. Len(all) /\ p[k] > Len(list)
            BY <1>2
        <3>3. ASSUME NEW i \in 1 .. Len(all), InForce(i)
              PROVE  \E k \in 1 .. Len(own) : p[k] = i
            <4>1. i - Len(list) \in 1 .. Len(own)
                BY <1>2, <2>3, <3>3
            <4>2. p[i - Len(list)] = i
                BY <1>2, <4>1
            <4> QED BY <4>1, <4>2
        <3>4. \A k \in 1 .. Len(own) : all[p[k]] = own[k]
            BY <2>2
        <3>5. \A k, l \in 1 .. Len(own) : k < l => p[k] < p[l]
            BY <1>2
        <3> HIDE DEF p
        <3> QED BY <2>1, <2>3, <3>1, <3>2, <3>3, <3>4, <3>5 DEF StandAt
    <2> QED BY <1>1, <1>2, <2>1, <2>4
<1> QED BY <1>3, <1>4

-----------------------------------------------------------------------------
(* What a whole search tells of the text it began with. *)

(* _detect_word looks in all of the text for each word as it is, and only then, in
   the beginning of it, for those with gaps.                                 *)
LiteralsOf(target) ==
    /\ search.pc = "literal" =>
           search.text = target /\ \A i \in 1 .. search.k - 1 : ~Occurs(search.words[i], target)
    /\ search.pc \in {"gapped", "letters", "missed"} =>
           \A i \in 1 .. Len(search.words) : ~Occurs(search.words[i], target)
    /\ search.pc = "found" =>
           \/ /\ Occurs(needle, target)
              /\ \A i \in 1 .. search.k - 1 : ~Occurs(search.words[i], target)
           \/ \A i \in 1 .. Len(search.words) : ~Occurs(search.words[i], target)
    /\ search.pc \in {"gapped", "letters", "missed", "found"} =>
           search.text \in {target, Truncated(target)}

(* It begins so. *)
LEMMA LiteralsBegin ==
    ASSUME NEW target \in Text, NEW wanted \in Seq(Word), NEW sensitive \in BOOLEAN,
           NEW obfuscated \in BOOLEAN, NEW gap \in Nat,
           Begin(target, wanted, sensitive, obfuscated, gap),
           NEW folded, folded = Cased(target, sensitive)
    PROVE  /\ LiteralsOf(folded)'
           /\ search' # Idle
           /\ search'.words = [i \in 1 .. Len(wanted) |-> Cased(wanted[i], sensitive)]
           /\ search'.gap = IF obfuscated THEN gap ELSE 0
<1>1. /\ search' \in Locals
      /\ search'.k = 1
      /\ search'.pc = IF Len(search'.words) = 0 THEN "missed" ELSE "literal"
    BY BeginShape
<1>2. /\ search'.text = folded
      /\ search'.words = [i \in 1 .. Len(wanted) |-> Cased(wanted[i], sensitive)]
      /\ search'.gap = IF obfuscated THEN gap ELSE 0
    BY DEF Begin, Call
<1>3. search' # Idle
    BY <1>1 DEF Idle, Locals
<1>4. CASE search'.pc = "missed"
    <2>1. 1 .. Len(search'.words) = {}
        BY <1>1, <1>4
    <2> QED BY <1>2, <1>3, <1>4, <2>1 DEF LiteralsOf
<1>5. CASE search'.pc = "literal"
    <2>1. 1 .. search'.k - 1 = {}
        BY <1>1
    <2> QED BY <1>2, <1>3, <1>5, <2>1 DEF LiteralsOf
<1> QED BY <1>1, <1>4, <1>5

(* And goes on so. *)
LEMMA LiteralsStep ==
    ASSUME Shape, SearchStep, NEW target \in Text, LiteralsOf(target)
    PROVE  /\ LiteralsOf(target)'
           /\ search # Idle /\ search' # Idle
           /\ search'.words = search.words /\ search'.gap = search.gap
<1>1. CASE Literal
    <2>1. /\ search \in Locals /\ search.pc = "literal" /\ search.k \in 1 .. Len(search.words)
          /\ search # Idle
        BY <1>1 DEF Literal, Shape, Idle
    <2>2. /\ search.text = target
          /\ \A i \in 1 .. search.k - 1 : ~Occurs(search.words[i], target)
        BY <2>1 DEF LiteralsOf
    <2>3. CASE Occurs(needle, search.text) /\ search' = [search EXCEPT !.pc = "found"]
        <3>1. /\ search' \in Locals /\ search'.pc = "found" /\ search'.k = search.k
              /\ search'.words = search.words /\ search'.text = search.text
              /\ search'.gap = search.gap
            BY <2>1, <2>3 DEF Locals
        <3>2. needle' = needle /\ search' # Idle
            BY <3>1 DEF needle, Idle
        <3> QED BY <2>1, <2>2, <2>3, <3>1, <3>2 DEF LiteralsOf
    <2>4. CASE ~Occurs(needle, search.text) /\ LiteralMiss
        <3>1. Len(search.words) \in Nat
            BY <2>1 DEF Locals
        <3>2. \A i \in 1 .. search.k : ~Occurs(search.words[i], target)
            <4>1. \A i \in 1 .. search.k : i \in 1 .. search.k - 1 \/ i = search.k
                BY <2>1, <3>1
            <4> QED BY <2>2, <2>4, <4>1 DEF needle
        <3>3. /\ search' \in Locals /\ search'.words = search.words /\ search'.gap = search.gap
              /\ \/ /\ search'.pc = "literal" /\ search'.text = search.text
                    /\ search'.k = search.k + 1 /\ search'.k <= Len(search.words)
                 \/ /\ search'.pc = "gapped" /\ search'.text = Truncated(search.text)
                    /\ search.k = Len(search.words)
                 \/ /\ search'.pc = "missed" /\ search'.text = search.text
                    /\ search.k = Len(search.words)
            <4>1. search.k \in Nat
                BY <2>1, <3>1
            <4> QED BY <2>1, <2>4, <3>1, <4>1, LiteralMissShape
        <3>4. search' # Idle
            BY <3>3 DEF Idle, Locals
        <3>5. CASE search'.pc = "literal" /\ search'.text = target /\ search'.k = search.k + 1
            <4>1. search'.k - 1 = search.k
                BY <2>1, <3>1, <3>5
            <4> QED BY <2>1, <3>2, <3>3, <3>4, <3>5, <4>1 DEF LiteralsOf
        <3>6. CASE /\ search'.pc \in {"gapped", "missed"} /\ search.k = Len(search.words)
                   /\ search'.text \in {target, Truncated(target)}
            BY <2>1, <3>2, <3>3, <3>4, <3>6 DEF LiteralsOf
        <3> QED BY <2>2, <3>3, <3>5, <3>6
    <2> QED BY <1>1, <2>3, <2>4 DEF Literal
<1>2. CASE Start \/ NextLetter
    <2>1. /\ search \in Locals /\ search.pc \in {"gapped", "letters"}
          /\ search # Idle
        <3>1. search.pc \in {"gapped", "letters"}
            BY <1>2 DEF Start, NextLetter
        <3>2. search # Idle
            BY <3>1 DEF Idle
        <3> QED BY <3>1, <3>2 DEF Shape
    <2>2. /\ \A i \in 1 .. Len(search.words) : ~Occurs(search.words[i], target)
          /\ search.text \in {target, Truncated(target)}
        BY <2>1 DEF LiteralsOf
    <2>3. /\ search'.words = search.words /\ search'.gap = search.gap
          /\ search'.text = search.text
          /\ search'.pc \in {"gapped", "letters", "missed", "found"}
        <3>1. CASE Start
            BY <2>1, <3>1 DEF Start, NextWord, Locals
        <3>2. CASE NextLetter
            BY <2>1, <3>2 DEF NextLetter, Locals
        <3> QED BY <1>2, <3>1, <3>2
    <2>4. search' # Idle
        BY <2>3 DEF Idle
    <2> QED BY <2>1, <2>2, <2>3, <2>4 DEF LiteralsOf
<1> QED BY <1>1, <1>2 DEF SearchStep

(* A spelling in the beginning of a text is one in the text. *)
LEMMA ContainedInTruncated ==
    ASSUME NEW word \in Word, NEW target \in Text, NEW gap \in Nat,
           Contained(word, Truncated(target), gap)
    PROVE  Contained(word, target, gap)
<1> DEFINE t == Truncated(target)
<1>1. /\ t \in Text /\ Len(t) <= Len(target) /\ Len(t) \in Nat /\ Len(target) \in Nat
      /\ \A i \in 1 .. Len(t) : t[i] = target[i]
    BY TruncatedText DEF Text
<1>2. CASE Occurs(word, Truncated(target))
    BY <1>2, OccursInTruncated DEF Contained
<1>3. CASE gap > 0 /\ Len(word) >= 2 /\ Spellings(word, t, gap) # {}
    <2>1. PICK f \in Spellings(word, t, gap) : TRUE
        BY <1>3
    <2> HIDE DEF t
    <2>2. f \in [1 .. Len(word) -> 1 .. Len(t)] /\ 1 .. Len(t) \subseteq 1 .. Len(target)
        BY <1>1, <2>1 DEF Spellings
    <2>3. f \in [1 .. Len(word) -> 1 .. Len(target)]
        BY <2>2
    <2>4. \A i \in 1 .. Len(word) : target[f[i]] = word[i]
        BY <1>1, <2>1, <2>2 DEF Spellings
    <2>5. f \in Spellings(word, target, gap)
        BY <2>1, <2>3, <2>4 DEF Spellings
    <2> QED BY <1>3, <2>5 DEF Contained
<1> QED BY <1>2, <1>3 DEF Contained

(* The word that is found is the first of those that are there as they are, and with
   gaps only when none is.                                                   *)
LEMMA FoundMeans ==
    ASSUME FoundInv, search # Idle, search.pc = "found", NEW target \in Text, LiteralsOf(target)
    PROVE  /\ search.k \in 1 .. Len(search.words)
           /\ Contained(search.words[search.k], target, search.gap)
           /\ \A j \in 1 .. Len(search.words) :
                  Occurs(search.words[j], target) =>
                      search.k <= j /\ Occurs(search.words[search.k], target)
<1>1. /\ search \in Locals /\ search.k \in 1 .. Len(search.words)
      /\ search.words \in Seq(Word) /\ Len(search.words) \in Nat /\ search.gap \in Nat
      /\ search.words[search.k] \in Word
    <2>1. search \in Locals /\ search.k \in 1 .. Len(search.words)
        BY DEF FoundInv, Shape
    <2>2. search.words \in Seq(Word) /\ search.gap \in Nat
        BY <2>1 DEF Locals
    <2> QED BY <2>1, <2>2
<1>2. CASE /\ Occurs(search.words[search.k], target)
           /\ \A i \in 1 .. search.k - 1 : ~Occurs(search.words[i], target)
    <2>1. \A j \in 1 .. Len(search.words) : search.k <= j \/ j \in 1 .. search.k - 1
        BY <1>1
    <2> QED BY <1>1, <1>2, <2>1 DEF Contained
<1>3. CASE \A i \in 1 .. Len(search.words) : ~Occurs(search.words[i], target)
    <2>1. Contained(search.words[search.k], search.text, search.gap)
        BY DEF FoundInv, FoundIsContained, needle
    <2>2. search.text \in {target, Truncated(target)}
        BY DEF LiteralsOf
    <2>3. PICK word, gap : word = search.words[search.k] /\ gap = search.gap
        OBVIOUS
    <2>4. Contained(word, target, gap)
        BY <1>1, <2>1, <2>2, <2>3, ContainedInTruncated
    <2> QED BY <1>1, <1>3, <2>3, <2>4
<1> QED BY <1>2, <1>3 DEF LiteralsOf, needle

(* No word that is missed is there, but for what may be overlooked. *)
LEMMA MissedMeans ==
    ASSUME MissedInv, search.pc = "missed", NEW target \in Text, LiteralsOf(target)
    PROVE  \A i \in 1 .. Len(search.words) : ~Overlooked(search.words[i], target, search.gap)
<1> SUFFICES ASSUME NEW i \in 1 .. Len(search.words), NEW word, word = search.words[i],
                    NEW gap, gap = search.gap, Overlooked(word, target, gap)
             PROVE  FALSE
    OBVIOUS
<1>1. ~Occurs(word, target) /\ search.text \in {target, Truncated(target)}
    BY DEF LiteralsOf
<1>2. ~Overlooked(word, search.text, gap)
    BY DEF MissedInv, MissedIsAbsent
<1>3. Truncated(Truncated(target)) = Truncated(target)
    <2>1. Len(Truncated(target)) <= MaxText /\ Truncated(target) \in Text
        BY TruncatedText
    <2>2. PICK t : t = Truncated(target)
        OBVIOUS
    <2>3. Truncated(t) = t
        BY <2>1, <2>2 DEF Truncated, Text
    <2> QED BY <2>2, <2>3
<1> QED BY <1>1, <1>2, <1>3 DEF Overlooked

-----------------------------------------------------------------------------
(* detect *)

(* The search that is going on is the one detect asked for. *)
Searched(target, wanted) ==
    /\ search # Idle
    /\ search.gap = Gap
    /\ search.words = [i \in 1 .. Len(wanted) |-> AsCased(wanted[i])]
    /\ LiteralsOf(AsCased(target))

Linked ==
    /\ stage = "words" => Searched(text, EffectiveWords)
    /\ stage = "bypass" => Searched(tried[at], policy.bypass_global_words)
    /\ stage \notin {"words", "bypass"} => search = Idle

(* Where detect is and what it has come to. *)
DetectShape ==
    /\ stage \in {"load", "detect", "words", "regexes", "matches", "bypass", "done"}
    /\ text \in Text /\ policy \in Policy
    /\ matches \in Seq(Seq(Text)) /\ at \in Nat \ {0}
    /\ result.kind \in {"none", "word", "regex"}
    /\ stage # "done" => result = Nothing
    /\ stage \in {"detect", "words"} => matches = << >>
    /\ stage \in {"words", "regexes", "matches", "bypass"} => Checked
    /\ stage \in {"matches", "bypass"} => Len(matches) > 0
    /\ stage = "bypass" => at <= Len(tried)

NoneIn(target, wanted) ==
    \A i \in 1 .. Len(wanted) : ~Overlooked(AsCased(wanted[i]), AsCased(target), Gap)

(* Expressions are tried once the words have been missed. *)
WordsAbsent ==
    \/ stage \in {"regexes", "matches", "bypass"}
    \/ stage = "done" /\ result.kind # "word" /\ Checked
    => NoneIn(text, EffectiveWords)

(* The matches that have been passed over hold bypassed words. *)
MatchesPassed ==
    stage \in {"regexes", "matches", "bypass"} =>
        \A r \in 1 .. Len(matches) : \A n \in 1 .. Len(matches[r]) :
            stage = "regexes" \/ r < Len(matches) \/ n < at => HoldsBypassed(matches[r][n])

SearchInv == FoundInv /\ MissedInv

DetectInv == /\ RulesShape /\ SearchInv /\ DetectShape /\ Linked
             /\ WordsAbsent /\ MatchesPassed /\ ReportedWordIsRight /\ ReportedRegexIsRight

(* The types of what detect reads. *)
LEMMA DetectTypes ==
    ASSUME RulesShape, DetectShape
    PROVE  /\ settings.case_sensitive \in BOOLEAN /\ settings.obfuscated \in BOOLEAN
           /\ settings.max_gap \in Nat /\ Gap \in Nat
           /\ words \in Seq(Word) /\ policy.bypass_global_words \in Seq(Word)
           /\ policy.custom_words \in Seq(Word)
           /\ EffectiveWords \in Seq(Word) /\ AllWords \in Seq(Word)
           /\ \A s \in Text : AsCased(s) \in Text /\ Len(AsCased(s)) = Len(s)
           /\ \A s \in Word : AsCased(s) \in Word /\ s \in Text
<1>1. /\ settings.case_sensitive \in BOOLEAN /\ settings.obfuscated \in BOOLEAN
      /\ settings.max_gap \in Nat
    BY RulesTypes
<1>2. Gap \in Nat
    BY <1>1 DEF Gap
<1>3. /\ words \in Seq(Word) /\ policy.bypass_global_words \in Seq(Word)
      /\ policy.custom_words \in Seq(Word)
    BY MatcherAssumption DEF RulesShape, DetectShape
<1>4. EffectiveWords \in Seq(Word) /\ AllWords \in Seq(Word)
    BY <1>3, EffectivePlaces
<1>5. \A s \in Text : AsCased(s) \in Text /\ Len(AsCased(s)) = Len(s)
    BY <1>1, CasedText DEF AsCased
<1>6. ASSUME NEW s \in Word
      PROVE  AsCased(s) \in Word /\ s \in Text
    <2>1. s \in Text /\ Len(s) # 0
        BY DEF Word, Text
    <2>2. AsCased(s) \in Text /\ Len(AsCased(s)) # 0
        BY <1>5, <2>1
    <2> QED BY <2>1, <2>2 DEF Word, Text
<1> QED BY <1>1, <1>2, <1>3, <1>4, <1>5, <1>6

(* What the call of a search says of the text and the words it was called with. *)
LEMMA SearchedFound ==
    ASSUME DetectInv, NEW target \in Text, NEW wanted \in Seq(Word), Searched(target, wanted),
           search.pc = "found"
    PROVE  /\ search.k \in 1 .. Len(wanted)
           /\ Contained(AsCased(wanted[search.k]), AsCased(target), Gap)
           /\ \A j \in 1 .. Len(wanted) :
                  Occurs(AsCased(wanted[j]), AsCased(target)) =>
                      search.k <= j /\ Occurs(AsCased(wanted[search.k]), AsCased(target))
<1>1. PICK folded, cased : /\ folded = AsCased(target)
                           /\ cased = [i \in 1 .. Len(wanted) |-> AsCased(wanted[i])]
    OBVIOUS
<1>2. folded \in Text
    BY <1>1, DetectTypes DEF DetectInv
<1>3. /\ search.words = cased /\ search.gap = Gap /\ search # Idle /\ LiteralsOf(folded)
    BY <1>1 DEF Searched
<1>4. /\ search.k \in 1 .. Len(cased)
      /\ Contained(cased[search.k], folded, Gap)
      /\ \A j \in 1 .. Len(cased) :
             Occurs(cased[j], folded) => search.k <= j /\ Occurs(cased[search.k], folded)
    BY <1>2, <1>3, FoundMeans DEF DetectInv, SearchInv
<1>5. Len(cased) = Len(wanted) /\ \A i \in 1 .. Len(wanted) : cased[i] = AsCased(wanted[i])
    BY <1>1
<1> QED BY <1>1, <1>4, <1>5

(* And what its failure says. *)
LEMMA SearchedMissed ==
    ASSUME DetectInv, NEW target \in Text, NEW wanted \in Seq(Word), Searched(target, wanted),
           search.pc = "missed"
    PROVE  NoneIn(target, wanted)
<1>1. PICK folded, cased : /\ folded = AsCased(target)
                           /\ cased = [i \in 1 .. Len(wanted) |-> AsCased(wanted[i])]
    OBVIOUS
<1>2. folded \in Text
    BY <1>1, DetectTypes DEF DetectInv
<1>3. /\ search.words = cased /\ search.gap = Gap /\ LiteralsOf(folded)
    BY <1>1 DEF Searched
<1>4. \A i \in 1 .. Len(cased) : ~Overlooked(cased[i], folded, Gap)
    BY <1>2, <1>3, MissedMeans DEF DetectInv, SearchInv
<1>5. Len(cased) = Len(wanted) /\ \A i \in 1 .. Len(wanted) : cased[i] = AsCased(wanted[i])
    BY <1>1
<1> QED BY <1>1, <1>4, <1>5 DEF NoneIn

(* The text of the match that is looked at. *)
LEMMA TriedPiece ==
    ASSUME DetectInv, stage \in {"matches", "bypass"}, at <= Len(tried)
    PROVE  /\ Len(matches) \in Nat \ {0} /\ tried = matches[Len(matches)]
           /\ at \in 1 .. Len(tried) /\ tried[at] \in Text
<1>1. matches \in Seq(Seq(Text)) /\ Len(matches) > 0 /\ at \in Nat \ {0}
    BY DEF DetectInv, DetectShape
<1>2. tried = matches[Len(matches)]
    BY DEF tried, Last
<1>3. tried \in Seq(Text)
    BY <1>1, <1>2
<1> QED BY <1>1, <1>2, <1>3

(* A search that is called for is about its text and its words. *)
LEMMA SearchedBegins ==
    ASSUME DetectInv, NEW target \in Text, NEW wanted \in Seq(Word),
           Begin(target, wanted, settings.case_sensitive, settings.obfuscated, settings.max_gap),
           settings' = settings
    PROVE  Searched(target, wanted)' /\ SearchInv'
<1>1. PICK sensitive, obfuscated, gap, folded :
          /\ sensitive = settings.case_sensitive /\ obfuscated = settings.obfuscated
          /\ gap = settings.max_gap /\ folded = AsCased(target)
    OBVIOUS
<1>2. sensitive \in BOOLEAN /\ obfuscated \in BOOLEAN /\ gap \in Nat
    BY <1>1, DetectTypes DEF DetectInv
<1>3. Begin(target, wanted, sensitive, obfuscated, gap)
    BY <1>1
<1>4. folded = Cased(target, sensitive)
    BY <1>1 DEF AsCased
<1>5. /\ LiteralsOf(folded)'
      /\ search' # Idle
      /\ search'.words = [i \in 1 .. Len(wanted) |-> Cased(wanted[i], sensitive)]
      /\ search'.gap = IF obfuscated THEN gap ELSE 0
    BY <1>2, <1>3, <1>4, LiteralsBegin
<1>6. settings'.case_sensitive = sensitive /\ Cased(target, settings'.case_sensitive) = folded
    BY <1>1, <1>4
<1>7. Gap' = IF obfuscated THEN gap ELSE 0
    BY <1>1 DEF Gap
<1>8. Searched(target, wanted)'
    BY <1>5, <1>6, <1>7 DEF Searched, AsCased
<1>9. /\ search' \in Locals /\ search'.k = 1
      /\ search'.pc = IF Len(search'.words) = 0 THEN "missed" ELSE "literal"
    BY <1>2, <1>3, BeginShape
<1>10. Len(search'.words) \in Nat
    BY <1>9 DEF Locals
<1>11. FoundInv'
    BY <1>9, <1>10 DEF FoundInv, Shape, HasBegun, FoundIsContained
<1>12. MissedInv'
    BY <1>9, <1>10 DEF MissedInv, Shape, LiteralsAbsent, IsAhead, MissedIsAbsent
<1> QED BY <1>8, <1>11, <1>12 DEF SearchInv

(* It goes on so. *)
LEMMA SearchedStep ==
    ASSUME DetectInv, NEW target \in Text, NEW wanted, Searched(target, wanted), SearchStep,
           settings' = settings
    PROVE  Searched(target, wanted)'
<1>1. PICK folded : folded = AsCased(target)
    OBVIOUS
<1>2. folded \in Text
    BY <1>1, DetectTypes DEF DetectInv
<1>3. Shape /\ LiteralsOf(folded)
    BY <1>1 DEF DetectInv, SearchInv, FoundInv, Searched
<1>4. /\ LiteralsOf(folded)' /\ search' # Idle
      /\ search'.words = search.words /\ search'.gap = search.gap
    BY <1>2, <1>3, LiteralsStep
<1>5. Gap' = Gap /\ Cased(target, settings'.case_sensitive) = folded
    BY <1>1 DEF Gap, AsCased
<1>6. search.words = [i \in 1 .. Len(wanted) |-> Cased(wanted[i], settings'.case_sensitive)]
    BY DEF Searched, AsCased
<1>7. search.gap = Gap
    BY DEF Searched
<1> QED BY <1>4, <1>5, <1>6, <1>7 DEF Searched, AsCased

(* A search is over when it is returned from. *)
LEMMA SearchReturns ==
    ASSUME Return
    PROVE  SearchInv' /\ search' = Idle
BY DEF Return, SearchInv, FoundInv, MissedInv, Shape, HasBegun, FoundIsContained, LiteralsAbsent,
       IsAhead, MissedIsAbsent, Idle

(* While the rules, the message and the policy stay, so does what is derived of them. *)
LEMMA SameMessage ==
    ASSUME DetectInv, UNCHANGED <<rulesVars, text, policy>>
    PROVE  /\ RulesShape'
           /\ EffectiveWords' = EffectiveWords /\ EffectiveRegexes' = EffectiveRegexes
           /\ Checked <=> Checked'
           /\ settings' = settings /\ text' = text /\ policy' = policy
           /\ Gap' = Gap /\ \A s : AsCased(s)' = AsCased(s)
           /\ NoneIn(text, EffectiveWords) => NoneIn(text, EffectiveWords)'
           /\ \A s : HoldsBypassed(s) => HoldsBypassed(s)'
<1>1. /\ settings' = settings /\ text' = text /\ policy' = policy
      /\ words' = words /\ regexes' = regexes
    BY DEF rulesVars
<1>2. RulesShape'
    <2>1. Cores' = Cores
        BY DEF rulesVars, Cores
    <2> QED BY <2>1 DEF DetectInv, RulesShape, rulesVars
<1>3. EffectiveWords' = EffectiveWords /\ EffectiveRegexes' = EffectiveRegexes
    BY <1>1 DEF EffectiveWords, EffectiveRegexes, Inherited
<1>4. Checked <=> Checked'
    BY <1>1, <1>3 DEF Checked
<1>5. Gap' = Gap /\ \A s : AsCased(s)' = AsCased(s)
    BY <1>1 DEF Gap, AsCased
<1>6. NoneIn(text, EffectiveWords) => NoneIn(text, EffectiveWords)'
    BY <1>1, <1>3 DEF NoneIn, Gap, AsCased
<1>7. \A s : HoldsBypassed(s) => HoldsBypassed(s)'
    BY <1>1 DEF HoldsBypassed, Gap, AsCased
<1> QED BY <1>1, <1>2, <1>3, <1>4, <1>5, <1>6, <1>7

(* Nothing is reported before the end. *)
LEMMA NotYet ==
    ASSUME stage' # "done", result' = Nothing
    PROVE  ReportedWordIsRight' /\ ReportedRegexIsRight'
BY DEF ReportedWordIsRight, ReportedRegexIsRight, Done, Nothing

(* The rules are read before the first message. *)
LEMMA LoadStep ==
    ASSUME DetectInv, Load, RulesShape'
    PROVE  DetectInv'
<1>1. /\ stage = "load" /\ stage' = "load" /\ search' = search /\ result' = result
      /\ text' = text /\ policy' = policy /\ matches' = matches /\ at' = at
    BY DEF Load, matchVars
<1>2. result = Nothing
    BY <1>1 DEF DetectInv, DetectShape
<1>3. SearchInv'
    <2>1. search = Idle
        BY <1>1 DEF DetectInv, Linked
    <2> QED BY <1>1, <2>1, SearchReturns DEF Return
<1>4. DetectShape' /\ Linked' /\ WordsAbsent' /\ MatchesPassed'
    BY <1>1 DEF DetectInv, DetectShape, Linked, WordsAbsent, MatchesPassed
<1> QED BY <1>1, <1>2, <1>3, <1>4, NotYet DEF DetectInv

(* A message is received when nothing is being searched. *)
LEMMA ReceiveStep ==
    ASSUME DetectInv, Receive
    PROVE  DetectInv'
<1>1. /\ stage \in {"load", "done"} /\ stage' = "detect" /\ search' = search
      /\ result' = Nothing /\ matches' = << >> /\ at' = 1
      /\ text' \in Text /\ policy' \in Policy /\ UNCHANGED rulesVars
    BY MatcherAssumption DEF Receive
<1>2. search = Idle
    BY <1>1 DEF DetectInv, Linked
<1>3. SearchInv'
    BY <1>1, <1>2, SearchReturns DEF Return
<1>4. RulesShape'
    <2>1. Cores' = Cores
        BY <1>1 DEF rulesVars, Cores
    <2> QED BY <1>1, <2>1 DEF DetectInv, RulesShape, rulesVars
<1>5. matches' \in Seq(Seq(Text)) /\ result'.kind = "none"
    BY <1>1 DEF Nothing
<1>6. DetectShape'
    BY <1>1, <1>5 DEF DetectShape
<1>7. Linked' /\ WordsAbsent' /\ MatchesPassed'
    BY <1>1, <1>2 DEF Linked, WordsAbsent, MatchesPassed
<1> QED BY <1>1, <1>3, <1>4, <1>6, <1>7, NotYet DEF DetectInv

(* What is not looked at is not reported. *)
LEMMA IgnoreStep ==
    ASSUME DetectInv, Ignore
    PROVE  DetectInv'
<1>1. /\ stage = "detect" /\ stage' = "done" /\ ~Checked /\ search' = search
      /\ result' = result /\ matches' = matches /\ at' = at
      /\ UNCHANGED <<rulesVars, text, policy>>
    BY DEF Ignore, matchVars
<1>2. result = Nothing /\ search = Idle
    BY <1>1 DEF DetectInv, DetectShape, Linked
<1>3. RulesShape' /\ ~Checked' /\ text' = text /\ policy' = policy
    BY <1>1, SameMessage
<1>4. SearchInv'
    BY <1>1, <1>2, SearchReturns DEF Return
<1>5. DetectShape' /\ Linked' /\ WordsAbsent' /\ MatchesPassed'
    BY <1>1, <1>2, <1>3 DEF DetectInv, DetectShape, Linked, WordsAbsent, MatchesPassed
<1>6. ReportedWordIsRight' /\ ReportedRegexIsRight'
    BY <1>1, <1>2, <1>3 DEF ReportedWordIsRight, ReportedRegexIsRight, Nothing
<1> QED BY <1>3, <1>4, <1>5, <1>6 DEF DetectInv

(* The words are searched for in the message. *)
LEMMA DetectWordsStep ==
    ASSUME DetectInv, DetectWords
    PROVE  DetectInv'
<1>1. /\ stage = "detect" /\ stage' = "words" /\ Checked
      /\ result' = result /\ matches' = matches /\ at' = at
      /\ UNCHANGED <<rulesVars, text, policy>>
    BY DEF DetectWords, matchVars
<1>2. /\ RulesShape' /\ Checked' /\ text' = text /\ policy' = policy /\ settings' = settings
      /\ EffectiveWords' = EffectiveWords
    BY <1>1, SameMessage
<1>3. result = Nothing /\ matches = << >> /\ text \in Text
    BY <1>1 DEF DetectInv, DetectShape
<1>4. PICK target, wanted : target = text /\ wanted = EffectiveWords
    OBVIOUS
<1>5. wanted \in Seq(Word) /\ target \in Text
    BY <1>3, <1>4, DetectTypes DEF DetectInv
<1>6. Begin(target, wanted, settings.case_sensitive, settings.obfuscated, settings.max_gap)
    BY <1>4 DEF DetectWords
<1>7. Searched(target, wanted)' /\ SearchInv'
    BY <1>2, <1>5, <1>6, SearchedBegins
<1>8. Searched(text, EffectiveWords)'
    BY <1>2, <1>4, <1>7 DEF Searched
<1>9. DetectShape'
    BY <1>1, <1>2 DEF DetectInv, DetectShape
<1>10. Linked' /\ WordsAbsent' /\ MatchesPassed'
    BY <1>1, <1>8 DEF Linked, WordsAbsent, MatchesPassed
<1> QED BY <1>1, <1>2, <1>3, <1>7, <1>9, <1>10, NotYet DEF DetectInv

(* The search goes on. *)
LEMMA GoesOnStep ==
    ASSUME DetectInv, Search
    PROVE  DetectInv'
<1>1. /\ stage \in {"words", "bypass"} /\ SearchStep /\ stage' = stage
      /\ result' = result /\ matches' = matches /\ at' = at
      /\ UNCHANGED <<rulesVars, text, policy>>
    BY DEF Search, matchVars
<1>2. /\ RulesShape' /\ (Checked <=> Checked') /\ text' = text /\ policy' = policy
      /\ settings' = settings /\ EffectiveWords' = EffectiveWords
      /\ \A s : HoldsBypassed(s) => HoldsBypassed(s)'
    BY <1>1, SameMessage
<1>3. tried' = tried
    BY <1>1 DEF tried
<1>4. SearchInv'
    <2>1. [SearchNext]_search
        BY <1>1 DEF SearchNext
    <2> QED BY <2>1, NextFound, NextMissed DEF DetectInv, SearchInv
<1>5. Linked'
    <2>1. CASE stage = "words"
        <3>1. PICK target, wanted : target = text /\ wanted = EffectiveWords
            OBVIOUS
        <3>2. target \in Text /\ Searched(target, wanted)
            BY <2>1, <3>1 DEF DetectInv, DetectShape, Linked
        <3>3. Searched(target, wanted)'
            BY <1>1, <1>2, <3>2, SearchedStep
        <3> QED BY <1>1, <1>2, <2>1, <3>1, <3>3 DEF Linked
    <2>2. CASE stage = "bypass"
        <3>1. PICK target, wanted : target = tried[at] /\ wanted = policy.bypass_global_words
            OBVIOUS
        <3>2. at <= Len(tried) /\ Searched(target, wanted)
            BY <2>2, <3>1 DEF DetectInv, DetectShape, Linked
        <3>3. target \in Text
            BY <2>2, <3>1, <3>2, TriedPiece
        <3>4. Searched(target, wanted)'
            BY <1>1, <1>2, <3>2, <3>3, SearchedStep
        <3> QED BY <1>1, <1>2, <1>3, <2>2, <3>1, <3>4 DEF Linked
    <2> QED BY <1>1, <2>1, <2>2
<1>6. DetectShape'
    BY <1>1, <1>2, <1>3 DEF DetectInv, DetectShape
<1>7. WordsAbsent'
    <2>1. CASE stage = "words"
        BY <1>1, <2>1 DEF WordsAbsent
    <2>2. CASE stage = "bypass"
        <3>1. NoneIn(text, EffectiveWords)
            BY <2>2 DEF DetectInv, WordsAbsent
        <3>2. NoneIn(text, EffectiveWords)'
            BY <1>1, <3>1, SameMessage
        <3> QED BY <3>2 DEF WordsAbsent
    <2> QED BY <1>1, <2>1, <2>2
<1>8. MatchesPassed'
    BY <1>1, <1>2 DEF DetectInv, MatchesPassed
<1>9. stage' # "done" /\ result' = Nothing
    BY <1>1 DEF DetectInv, DetectShape
<1> QED BY <1>2, <1>4, <1>5, <1>6, <1>7, <1>8, <1>9, NotYet DEF DetectInv

(* A word that is found is reported. *)
LEMMA WordFoundStep ==
    ASSUME DetectInv, WordFound
    PROVE  DetectInv'
<1>1. /\ stage = "words" /\ search.pc = "found" /\ stage' = "done" /\ Return
      /\ result' = [kind |-> "word", word |-> EffectiveWords[search.k]]
      /\ matches' = matches /\ at' = at
      /\ UNCHANGED <<rulesVars, text, policy>>
    BY DEF WordFound, matchVars
<1>2. RulesShape' /\ text' = text /\ policy' = policy /\ words' = words /\ settings' = settings
    BY <1>1, SameMessage DEF rulesVars
<1>3. result'.kind = "word" /\ result'.word = EffectiveWords[search.k]
    BY <1>1
<1>4. SearchInv' /\ search' = Idle
    BY <1>1, SearchReturns
<1>5. DetectShape' /\ Linked' /\ WordsAbsent' /\ MatchesPassed' /\ ReportedRegexIsRight'
    BY <1>1, <1>2, <1>3, <1>4 DEF DetectInv, DetectShape, Linked, WordsAbsent, MatchesPassed,
                                  ReportedRegexIsRight
<1>6. ReportedWordIsRight'
    <2>1. PICK target, wanted, all, k :
              target = text /\ wanted = EffectiveWords /\ all = AllWords /\ k = search.k
        OBVIOUS
    <2>2. target \in Text /\ wanted \in Seq(Word) /\ Searched(target, wanted)
        <3>1. wanted \in Seq(Word)
            BY <2>1, DetectTypes DEF DetectInv
        <3> QED BY <1>1, <2>1, <3>1 DEF DetectInv, DetectShape, Linked
    <2>3. /\ k \in 1 .. Len(wanted)
          /\ Contained(AsCased(wanted[k]), AsCased(target), Gap)
          /\ \A j \in 1 .. Len(wanted) :
                 Occurs(AsCased(wanted[j]), AsCased(target)) =>
                     k <= j /\ Occurs(AsCased(wanted[k]), AsCased(target))
        BY <1>1, <2>1, <2>2, SearchedFound
    <2>4. PICK p : StandAt(p, wanted, all, {i \in 1 .. Len(all) : InForce(i)})
        BY <2>1, DetectTypes, EffectivePlaces DEF DetectInv
    <2>5. p[k] \in 1 .. Len(all) /\ InForce(p[k]) /\ all[p[k]] = wanted[k]
        BY <2>3, <2>4 DEF StandAt
    <2>6. ASSUME NEW j \in 1 .. Len(all), InForce(j), Occurs(AsCased(all[j]), AsCased(target))
          PROVE  p[k] <= j /\ Occurs(AsCased(wanted[k]), AsCased(target))
        <3>1. PICK l \in 1 .. Len(wanted) : p[l] = j /\ all[j] = wanted[l]
            BY <2>4, <2>6 DEF StandAt
        <3>2. k <= l /\ Occurs(AsCased(wanted[k]), AsCased(target))
            BY <2>3, <2>6, <3>1
        <3>3. p[k] <= p[l]
            <4>1. CASE k = l
                BY <2>5, <4>1
            <4>2. CASE k < l
                <5>1. p[k] < p[l]
                    BY <2>3, <2>4, <4>2 DEF StandAt
                <5> QED BY <2>5, <3>1, <5>1
            <4>3. k \in Nat /\ l \in Nat
                BY <2>2, <2>3
            <4> QED BY <3>2, <4>1, <4>2, <4>3
        <3> QED BY <3>1, <3>2, <3>3
    <2>7. /\ AllWords' = all /\ Gap' = Gap /\ text' = target
          /\ \A s : AsCased(s)' = AsCased(s)
          /\ \A i : InForce(i)' <=> InForce(i)
        BY <1>2, <2>1 DEF AllWords, Gap, AsCased, InForce
    <2>8. PICK word, i : word = wanted[k] /\ i = p[k]
        OBVIOUS
    <2>9. /\ i \in 1 .. Len(all) /\ InForce(i)' /\ word = all[i]
          /\ Contained(Cased(word, settings'.case_sensitive),
                       Cased(target, settings'.case_sensitive), Gap')
          /\ \A j \in 1 .. Len(all) :
                 InForce(j)' /\ Occurs(Cased(all[j], settings'.case_sensitive),
                                       Cased(target, settings'.case_sensitive)) =>
                     i <= j /\ Occurs(Cased(word, settings'.case_sensitive),
                                      Cased(target, settings'.case_sensitive))
        BY <1>2, <2>3, <2>5, <2>6, <2>7, <2>8 DEF AsCased
    <2>10. result'.word = word
        BY <1>3, <2>1, <2>8
    <2> QED BY <2>7, <2>9, <2>10 DEF ReportedWordIsRight, AsCased
<1> QED BY <1>2, <1>4, <1>5, <1>6 DEF DetectInv

(* When no word is found the expressions are tried. *)
LEMMA WordsMissedStep ==
    ASSUME DetectInv, WordsMissed
    PROVE  DetectInv'
<1>1. /\ stage = "words" /\ search.pc = "missed" /\ stage' = "regexes" /\ Return
      /\ result' = result /\ matches' = matches /\ at' = at
      /\ UNCHANGED <<rulesVars, text, policy>>
    BY DEF WordsMissed, matchVars
<1>2. RulesShape' /\ (Checked <=> Checked') /\ text' = text /\ policy' = policy
    BY <1>1, SameMessage
<1>3. result = Nothing /\ matches = << >> /\ text \in Text
    BY <1>1 DEF DetectInv, DetectShape
<1>4. SearchInv' /\ search' = Idle
    BY <1>1, SearchReturns
<1>5. NoneIn(text, EffectiveWords)
    <2>1. PICK target, wanted : target = text /\ wanted = EffectiveWords
        OBVIOUS
    <2>2. wanted \in Seq(Word) /\ Searched(target, wanted)
        <3>1. wanted \in Seq(Word)
            BY <2>1, DetectTypes DEF DetectInv
        <3> QED BY <1>1, <2>1, <3>1 DEF DetectInv, Linked
    <2> QED BY <1>1, <1>3, <2>1, <2>2, SearchedMissed
<1>6. NoneIn(text, EffectiveWords)'
    BY <1>1, <1>5, SameMessage
<1>7. MatchesPassed'
    <2>1. PICK none : none = << >>
        OBVIOUS
    <2>2. Len(none) = 0 /\ matches' = none
        BY <1>1, <1>3, <2>1
    <2>3. 1 .. Len(matches') = {}
        BY <2>2
    <2> QED BY <2>3 DEF MatchesPassed
<1>8. DetectShape' /\ Linked' /\ WordsAbsent'
    BY <1>1, <1>2, <1>4, <1>6 DEF DetectInv, DetectShape, Linked, WordsAbsent
<1> QED BY <1>1, <1>2, <1>3, <1>4, <1>7, <1>8, NotYet DEF DetectInv

(* What an expression has matched are texts. *)
LEMMA PieceTexts ==
    ASSUME NEW target \in Text, NEW n \in Nat,
           NEW found \in [1 .. n -> (1 .. Len(target) + 1) \X (0 .. Len(target))],
           NEW pieces, pieces = [m \in 1 .. n |-> SubSeq(target, found[m][1], found[m][2])]
    PROVE  pieces \in Seq(Text)
<1>1. ASSUME NEW m \in 1 .. n
      PROVE  SubSeq(target, found[m][1], found[m][2]) \in Text
    <2>1. found[m][1] \in 1 .. Len(target) + 1 /\ found[m][2] \in 0 .. Len(target)
        OBVIOUS
    <2>2. PICK low, high : low = found[m][1] /\ high = found[m][2]
        OBVIOUS
    <2>3. \A i \in low .. high : target[i] \in Letter
        BY <2>1, <2>2 DEF Text
    <2>4. SubSeq(target, low, high) \in Seq(Letter)
        BY <2>1, <2>2, <2>3 DEF Text
    <2> QED BY <2>2, <2>4 DEF Text
<1> QED BY <1>1

(* An expression is tried, and none of its matches has been looked at. *)
LEMMA TryRegexStep ==
    ASSUME DetectInv, TryRegex
    PROVE  DetectInv'
<1>1. /\ stage = "regexes" /\ stage' = "matches" /\ search' = search
      /\ result' = result /\ at' = 1
      /\ UNCHANGED <<rulesVars, text, policy>>
    BY DEF TryRegex
<1>2. /\ RulesShape' /\ (Checked <=> Checked') /\ text' = text /\ policy' = policy
      /\ \A s : HoldsBypassed(s) => HoldsBypassed(s)'
      /\ NoneIn(text, EffectiveWords) => NoneIn(text, EffectiveWords)'
    BY <1>1, SameMessage
<1>3. /\ result = Nothing /\ text \in Text /\ policy \in Policy /\ Checked /\ search = Idle
      /\ matches \in Seq(Seq(Text)) /\ Len(matches) \in Nat
      /\ NoneIn(text, EffectiveWords)
    BY <1>1 DEF DetectInv, DetectShape, Linked, WordsAbsent
<1>4. SearchInv'
    BY <1>1, <1>3, SearchReturns DEF Return
<1>5. PICK pieces \in Seq(Text) : matches' = Append(matches, pieces)
    <2>1. PICK found \in Pieces :
              matches' = Append(matches, [m \in 1 .. Len(found) |->
                                             SubSeq(Truncated(text), found[m][1], found[m][2])])
        BY DEF TryRegex
    <2>2. PICK target : target = Truncated(text)
        OBVIOUS
    <2>3. target \in Text
        BY <1>3, <2>2, TruncatedText
    <2>4. PICK n \in Nat : found \in [1 .. n -> (1 .. Len(target) + 1) \X (0 .. Len(target))]
        BY <2>2, MatcherAssumption DEF Pieces
    <2>5. Len(found) = n
        BY <2>4
    <2>6. PICK pieces : pieces = [m \in 1 .. n |-> SubSeq(target, found[m][1], found[m][2])]
        OBVIOUS
    <2>7. pieces \in Seq(Text)
        BY <2>3, <2>4, <2>6, PieceTexts
    <2> QED BY <2>1, <2>2, <2>5, <2>6, <2>7
<1>6. PICK V : V = Seq(Text)
    OBVIOUS
<1>7. /\ matches' \in Seq(Seq(Text)) /\ Len(matches') = Len(matches) + 1
      /\ \A r \in 1 .. Len(matches) : matches'[r] = matches[r]
    BY <1>3, <1>5, <1>6, AppendedOne
<1>8. DetectShape'
    <2>1. result'.kind = "none" /\ Len(matches') > 0 /\ at' \in Nat \ {0}
        BY <1>1, <1>3, <1>7 DEF Nothing
    <2> QED BY <1>1, <1>2, <1>3, <1>7, <2>1 DEF DetectShape
<1>9. MatchesPassed'
    <2>1. SUFFICES ASSUME NEW r \in 1 .. Len(matches'), NEW n \in 1 .. Len(matches'[r]),
                          r < Len(matches') \/ n < 1
                   PROVE  HoldsBypassed(matches[r][n])'
        BY <1>1 DEF MatchesPassed
    <2>2. r \in 1 .. Len(matches) /\ matches'[r] = matches[r]
        BY <1>3, <1>7, <2>1
    <2>3. HoldsBypassed(matches[r][n])
        BY <1>1, <2>2 DEF DetectInv, MatchesPassed
    <2>4. PICK s : s = matches[r][n]
        OBVIOUS
    <2>5. HoldsBypassed(s)'
        BY <1>2, <2>3, <2>4
    <2>6. s = matches'[r][n]
        BY <2>2, <2>4
    <2> QED BY <2>5, <2>6 DEF HoldsBypassed, AsCased
<1>10. Linked' /\ WordsAbsent'
    BY <1>1, <1>2, <1>3 DEF Linked, WordsAbsent
<1> QED BY <1>1, <1>2, <1>3, <1>4, <1>8, <1>9, <1>10, NotYet DEF DetectInv

(* A step between two calls of the search that leaves what has been matched. *)
LEMMA BetweenSearches ==
    ASSUME DetectInv, stage \in {"regexes", "matches", "bypass"},
           UNCHANGED <<rulesVars, text, policy>>, matches' = matches, search' = Idle
    PROVE  /\ RulesShape' /\ Checked /\ Checked' /\ text' = text /\ policy' = policy
           /\ SearchInv' /\ result = Nothing
           /\ text \in Text /\ policy \in Policy /\ at \in Nat \ {0}
           /\ matches \in Seq(Seq(Text)) /\ Len(matches) \in Nat
           /\ tried' = tried /\ tried = matches[Len(matches)]
           /\ NoneIn(text, EffectiveWords)'
           /\ EffectiveRegexes' = EffectiveRegexes
           /\ \A r, n : HoldsBypassed(matches[r][n]) => HoldsBypassed(matches[r][n])'
<1>1. /\ RulesShape' /\ (Checked <=> Checked') /\ text' = text /\ policy' = policy
      /\ EffectiveRegexes' = EffectiveRegexes
      /\ NoneIn(text, EffectiveWords) => NoneIn(text, EffectiveWords)'
      /\ \A s : HoldsBypassed(s) => HoldsBypassed(s)'
    BY SameMessage
<1>2. SearchInv'
    BY SearchReturns DEF Return
<1>3. /\ result = Nothing /\ Checked /\ text \in Text /\ policy \in Policy
      /\ matches \in Seq(Seq(Text)) /\ Len(matches) \in Nat /\ at \in Nat \ {0}
    BY DEF DetectInv, DetectShape
<1>4. NoneIn(text, EffectiveWords)
    BY DEF DetectInv, WordsAbsent
<1>5. tried' = tried /\ tried = matches[Len(matches)]
    BY DEF tried, Last
<1>6. ASSUME NEW r, NEW n, HoldsBypassed(matches[r][n])
      PROVE  HoldsBypassed(matches[r][n])'
    <2>1. PICK s : s = matches[r][n]
        OBVIOUS
    <2>2. HoldsBypassed(s)'
        BY <1>1, <1>6, <2>1
    <2>3. s = matches'[r][n]
        BY <2>1
    <2> QED BY <2>2, <2>3 DEF HoldsBypassed, AsCased
<1> QED BY <1>1, <1>2, <1>3, <1>4, <1>5, <1>6

(* When all expressions have been tried, nothing is reported. *)
LEMMA RegexesMissedStep ==
    ASSUME DetectInv, RegexesMissed
    PROVE  DetectInv'
<1>1. /\ stage = "regexes" /\ stage' = "done" /\ Len(matches) = Len(EffectiveRegexes)
      /\ search' = search /\ result' = result /\ matches' = matches /\ at' = at
      /\ UNCHANGED <<rulesVars, text, policy>>
    BY DEF RegexesMissed, matchVars
<1>2. search' = Idle
    BY <1>1 DEF DetectInv, Linked
<1>3. /\ RulesShape' /\ Checked' /\ text' = text /\ policy' = policy /\ SearchInv'
      /\ result = Nothing /\ NoneIn(text, EffectiveWords)'
      /\ EffectiveRegexes' = EffectiveRegexes
      /\ \A r, n : HoldsBypassed(matches[r][n]) => HoldsBypassed(matches[r][n])'
    BY <1>1, <1>2, BetweenSearches
<1>4. DetectShape' /\ Linked' /\ WordsAbsent' /\ MatchesPassed'
    BY <1>1, <1>2, <1>3 DEF DetectInv, DetectShape, Linked, WordsAbsent, MatchesPassed
<1>5. result'.kind = "none"
    BY <1>1, <1>3 DEF Nothing
<1>6. \A r \in 1 .. Len(matches) : \A n \in 1 .. Len(matches[r]) : HoldsBypassed(matches[r][n])'
    BY <1>1, <1>3 DEF DetectInv, MatchesPassed
<1>7. ReportedWordIsRight' /\ ReportedRegexIsRight'
    BY <1>1, <1>3, <1>5, <1>6 DEF ReportedWordIsRight, ReportedRegexIsRight
<1> QED BY <1>3, <1>4, <1>7 DEF DetectInv

(* When all its matches hold bypassed words, the next expression is tried. *)
LEMMA RegexMissedStep ==
    ASSUME DetectInv, RegexMissed
    PROVE  DetectInv'
<1>1. /\ stage = "matches" /\ stage' = "regexes" /\ at > Len(tried)
      /\ search' = search /\ result' = result /\ matches' = matches /\ at' = at
      /\ UNCHANGED <<rulesVars, text, policy>>
    BY DEF RegexMissed, matchVars
<1>2. search' = Idle
    BY <1>1 DEF DetectInv, Linked
<1>3. /\ RulesShape' /\ Checked' /\ text' = text /\ policy' = policy /\ SearchInv'
      /\ result = Nothing /\ NoneIn(text, EffectiveWords)'
      /\ matches \in Seq(Seq(Text)) /\ Len(matches) \in Nat /\ at \in Nat
      /\ tried = matches[Len(matches)]
      /\ \A r, n : HoldsBypassed(matches[r][n]) => HoldsBypassed(matches[r][n])'
    BY <1>1, <1>2, BetweenSearches
<1>4. DetectShape' /\ Linked' /\ WordsAbsent'
    BY <1>1, <1>2, <1>3 DEF DetectInv, DetectShape, Linked, WordsAbsent
<1>5. MatchesPassed'
    <2>1. ASSUME NEW r \in 1 .. Len(matches), NEW n \in 1 .. Len(matches[r])
          PROVE  r < Len(matches) \/ n < at
        <3>1. matches[r] \in Seq(Text) /\ Len(matches[r]) \in Nat
            BY <1>3
        <3> QED BY <1>1, <1>3, <3>1
    <2>2. \A r \in 1 .. Len(matches) : \A n \in 1 .. Len(matches[r]) : HoldsBypassed(matches[r][n])
        BY <1>1, <2>1 DEF DetectInv, MatchesPassed
    <2> QED BY <1>1, <1>3, <2>2 DEF MatchesPassed
<1> QED BY <1>1, <1>3, <1>4, <1>5, NotYet DEF DetectInv

(* No word is overlooked in the empty text. *)
LEMMA EmptyHoldsNothing ==
    ASSUME NEW word \in Word, NEW target \in Text, target = << >>, NEW gap \in Nat
    PROVE  ~Overlooked(word, target, gap)
<1>1. Len(word) \in Nat \ {0} /\ Len(target) = 0
    BY DEF Word
<1>2. ~Occurs(word, target)
    <2>1. 0 .. Len(target) - Len(word) = {}
        BY <1>1
    <2> QED BY <2>1 DEF Occurs
<1>3. PICK t : t = Truncated(target)
    OBVIOUS
<1>4. t \in Text /\ Len(t) = 0
    <2>1. t \in Text /\ Len(t) <= Len(target)
        BY <1>3, TruncatedText
    <2> QED BY <1>1, <2>1 DEF Text
<1>5. Spellings(word, t, gap) = {}
    <2>1. ASSUME NEW f \in [1 .. Len(word) -> 1 .. Len(t)] PROVE FALSE
        <3>1. f[1] \in 1 .. Len(t)
            BY <1>1
        <3> QED BY <1>4, <3>1
    <2> QED BY <2>1 DEF Spellings
<1> QED BY <1>2, <1>3, <1>5 DEF Overlooked

(* An expression is reported for the match that holds no bypassed word. *)
LEMMA ReportStep ==
    ASSUME DetectInv, stage \in {"matches", "bypass"}, at <= Len(tried), Report, search' = Idle,
           UNCHANGED <<rulesVars, matchVars>>, NoneIn(tried[at], policy.bypass_global_words)
    PROVE  DetectInv'
<1>1. /\ stage' = "done" /\ result' = [kind |-> "regex", r |-> Len(matches)]
      /\ matches' = matches /\ at' = at /\ UNCHANGED <<rulesVars, text, policy>>
      /\ settings' = settings
    BY DEF Report, matchVars, rulesVars
<1>2. /\ RulesShape' /\ Checked' /\ text' = text /\ policy' = policy /\ SearchInv'
      /\ NoneIn(text, EffectiveWords)' /\ at \in Nat \ {0}
      /\ text \in Text /\ policy \in Policy
      /\ matches \in Seq(Seq(Text)) /\ Len(matches) \in Nat
      /\ \A r, n : HoldsBypassed(matches[r][n]) => HoldsBypassed(matches[r][n])'
    BY <1>1, BetweenSearches
<1>3. result'.kind = "regex" /\ result'.r = Len(matches)
    BY <1>1
<1>4. /\ Len(matches) \in Nat \ {0} /\ tried = matches[Len(matches)] /\ at \in 1 .. Len(tried)
    BY TriedPiece
<1>5. DetectShape' /\ Linked' /\ WordsAbsent' /\ MatchesPassed'
    BY <1>1, <1>2, <1>3 DEF DetectInv, DetectShape, Linked, WordsAbsent, MatchesPassed
<1>6. ReportedWordIsRight'
    BY <1>3 DEF ReportedWordIsRight
<1>7. ASSUME NEW r \in 1 .. Len(matches), NEW n \in 1 .. Len(matches[r])
      PROVE  HoldsBypassed(matches[r][n])' \/ r = Len(matches)
    <2>1. CASE r < Len(matches)
        <3>1. HoldsBypassed(matches[r][n])
            BY <2>1 DEF DetectInv, MatchesPassed
        <3> QED BY <1>2, <3>1
    <2> QED BY <1>2, <2>1
<1>8. \A i \in 1 .. Len(policy.bypass_global_words) :
          ~Overlooked(AsCased(policy.bypass_global_words[i]),
                      AsCased(matches[Len(matches)][at]), Gap)
    BY <1>4 DEF NoneIn
<1>9. ReportedRegexIsRight'
    <2>1. PICK last, bypassed, piece :
              /\ last = Len(matches) /\ bypassed = policy.bypass_global_words
              /\ piece = matches[last][at]
        OBVIOUS
    <2>2. at \in 1 .. Len(matches[last]) /\ result'.r = last
        BY <1>3, <1>4, <2>1
    <2>3. \A i \in 1 .. Len(bypassed) :
              ~Overlooked(Cased(bypassed[i], settings'.case_sensitive),
                          Cased(piece, settings'.case_sensitive), Gap')
        BY <1>1, <1>8, <2>1 DEF AsCased, Gap
    <2> QED BY <1>1, <1>2, <1>3, <1>7, <2>1, <2>2, <2>3 DEF ReportedRegexIsRight, AsCased
<1> QED BY <1>2, <1>5, <1>6, <1>9 DEF DetectInv

(* No bypassed word can be in an empty match, and there may be none. *)
LEMMA RegexFoundStep ==
    ASSUME DetectInv, RegexFound
    PROVE  DetectInv'
<1>1. /\ stage = "matches" /\ at <= Len(tried) /\ Report
      /\ UNCHANGED <<rulesVars, matchVars>> /\ search' = search
      /\ tried[at] = << >> \/ policy.bypass_global_words = << >>
    BY DEF RegexFound
<1>2. search' = Idle
    BY <1>1 DEF DetectInv, Linked
<1>3. PICK piece, bypassed : piece = tried[at] /\ bypassed = policy.bypass_global_words
    OBVIOUS
<1>4. piece \in Text
    BY <1>1, <1>3, TriedPiece
<1>5. NoneIn(piece, bypassed)
    <2>1. CASE bypassed = << >>
        <3>1. 1 .. Len(bypassed) = {}
            BY <2>1
        <3> QED BY <3>1 DEF NoneIn
    <2>2. CASE piece = << >>
        <3>1. /\ bypassed \in Seq(Word) /\ Gap \in Nat
              /\ AsCased(piece) \in Text /\ Len(AsCased(piece)) = Len(piece)
              /\ \A s \in Word : AsCased(s) \in Word
            BY <1>3, <1>4, DetectTypes DEF DetectInv
        <3>2. PICK folded, gap : folded = AsCased(piece) /\ gap = Gap
            OBVIOUS
        <3>3. Len(piece) = 0
            BY <2>2
        <3>4. folded \in Text /\ folded = << >> /\ gap \in Nat
            BY <3>1, <3>2, <3>3 DEF Text
        <3>5. ASSUME NEW i \in 1 .. Len(bypassed), NEW word, word = AsCased(bypassed[i])
              PROVE  ~Overlooked(word, folded, gap)
            <4>1. word \in Word
                BY <3>1, <3>5
            <4> QED BY <3>4, <4>1, EmptyHoldsNothing
        <3> QED BY <3>2, <3>5 DEF NoneIn
    <2> QED BY <1>1, <1>3, <2>1, <2>2
<1> QED BY <1>1, <1>2, <1>3, <1>5, ReportStep

(* The search for bypassed words has missed. *)
LEMMA NotBypassedStep ==
    ASSUME DetectInv, NotBypassed
    PROVE  DetectInv'
<1>1. /\ stage = "bypass" /\ search.pc = "missed" /\ Report /\ Return
      /\ UNCHANGED <<rulesVars, matchVars>>
    BY DEF NotBypassed
<1>2. /\ search' = Idle /\ at <= Len(tried)
      /\ Searched(tried[at], policy.bypass_global_words)
    BY <1>1 DEF DetectInv, DetectShape, Linked, Return
<1>3. PICK piece, bypassed : piece = tried[at] /\ bypassed = policy.bypass_global_words
    OBVIOUS
<1>4. piece \in Text /\ bypassed \in Seq(Word)
    <2>1. piece \in Text
        BY <1>1, <1>2, <1>3, TriedPiece
    <2>2. bypassed \in Seq(Word)
        BY <1>3, DetectTypes DEF DetectInv
    <2> QED BY <2>1, <2>2
<1>5. NoneIn(piece, bypassed)
    BY <1>1, <1>2, <1>3, <1>4, SearchedMissed
<1> QED BY <1>1, <1>2, <1>3, <1>5, ReportStep

(* A match is looked at for bypassed words. *)
LEMMA AskBypassStep ==
    ASSUME DetectInv, AskBypass
    PROVE  DetectInv'
<1>1. /\ stage = "matches" /\ stage' = "bypass" /\ at <= Len(tried)
      /\ result' = result /\ matches' = matches /\ at' = at
      /\ UNCHANGED <<rulesVars, text, policy>>
    BY DEF AskBypass, matchVars
<1>2. /\ RulesShape' /\ (Checked <=> Checked') /\ text' = text /\ policy' = policy
      /\ settings' = settings
      /\ \A s : HoldsBypassed(s) => HoldsBypassed(s)'
      /\ NoneIn(text, EffectiveWords) => NoneIn(text, EffectiveWords)'
    BY <1>1, SameMessage
<1>3. PICK piece, bypassed : piece = tried[at] /\ bypassed = policy.bypass_global_words
    OBVIOUS
<1>4. piece \in Text /\ bypassed \in Seq(Word)
    <2>1. piece \in Text
        BY <1>1, <1>3, TriedPiece
    <2>2. bypassed \in Seq(Word)
        BY <1>3, DetectTypes DEF DetectInv
    <2> QED BY <2>1, <2>2
<1>5. Begin(piece, bypassed, settings.case_sensitive, settings.obfuscated, settings.max_gap)
    BY <1>3 DEF AskBypass
<1>6. Searched(piece, bypassed)' /\ SearchInv'
    BY <1>2, <1>4, <1>5, SearchedBegins
<1>7. tried' = tried
    BY <1>1 DEF tried
<1>8. Linked'
    BY <1>1, <1>2, <1>3, <1>6, <1>7 DEF Linked
<1>9. DetectShape'
    BY <1>1, <1>2, <1>7 DEF DetectInv, DetectShape
<1>10. WordsAbsent' /\ MatchesPassed'
    BY <1>1, <1>2 DEF DetectInv, WordsAbsent, MatchesPassed
<1>11. stage' # "done" /\ result' = Nothing
    BY <1>1 DEF DetectInv, DetectShape
<1> QED BY <1>2, <1>6, <1>8, <1>9, <1>10, <1>11, NotYet DEF DetectInv

(* A match with a bypassed word is passed over. *)
LEMMA BypassedStep ==
    ASSUME DetectInv, Bypassed
    PROVE  DetectInv'
<1>1. /\ stage = "bypass" /\ search.pc = "found" /\ stage' = "matches" /\ at' = at + 1 /\ Return
      /\ result' = result /\ matches' = matches /\ UNCHANGED <<rulesVars, text, policy>>
    BY DEF Bypassed
<1>2. /\ search' = Idle /\ at <= Len(tried)
      /\ Searched(tried[at], policy.bypass_global_words)
    BY <1>1 DEF DetectInv, DetectShape, Linked, Return
<1>3. /\ RulesShape' /\ Checked' /\ text' = text /\ policy' = policy /\ SearchInv'
      /\ result = Nothing /\ NoneIn(text, EffectiveWords)'
      /\ matches \in Seq(Seq(Text)) /\ Len(matches) \in Nat /\ at \in Nat \ {0}
      /\ tried = matches[Len(matches)]
      /\ \A r, n : HoldsBypassed(matches[r][n]) => HoldsBypassed(matches[r][n])'
    BY <1>1, <1>2, BetweenSearches
<1>4. DetectShape' /\ Linked' /\ WordsAbsent'
    <2>1. at' \in Nat \ {0}
        BY <1>1, <1>3
    <2> QED BY <1>1, <1>2, <1>3, <2>1 DEF DetectInv, DetectShape, Linked, WordsAbsent
<1>5. HoldsBypassed(tried[at])
    <2>1. PICK piece, bypassed : piece = tried[at] /\ bypassed = policy.bypass_global_words
        OBVIOUS
    <2>2. piece \in Text
        BY <1>1, <1>2, <2>1, TriedPiece
    <2>3. bypassed \in Seq(Word)
        BY <2>1, DetectTypes DEF DetectInv
    <2>4. /\ search.k \in 1 .. Len(bypassed)
          /\ Contained(AsCased(bypassed[search.k]), AsCased(piece), Gap)
        BY <1>1, <1>2, <2>1, <2>2, <2>3, SearchedFound
    <2> QED BY <2>1, <2>4 DEF HoldsBypassed
<1>6. MatchesPassed'
    <2>1. ASSUME NEW r \in 1 .. Len(matches), NEW n \in 1 .. Len(matches[r]),
                 r < Len(matches) \/ n < at + 1
          PROVE  HoldsBypassed(matches[r][n])
        <3>1. CASE r < Len(matches) \/ n < at
            BY <1>1, <3>1 DEF DetectInv, MatchesPassed
        <3>2. CASE r = Len(matches) /\ n = at
            BY <1>3, <1>5, <3>2
        <3>3. Len(matches[r]) \in Nat
            BY <1>3
        <3> QED BY <1>3, <2>1, <3>1, <3>2, <3>3
    <2>2. ASSUME NEW r \in 1 .. Len(matches), NEW n \in 1 .. Len(matches[r]),
                 r < Len(matches) \/ n < at + 1
          PROVE  HoldsBypassed(matches[r][n])'
        BY <1>3, <2>1, <2>2
    <2> QED BY <1>1, <2>2 DEF MatchesPassed
<1> QED BY <1>1, <1>3, <1>4, <1>6, NotYet DEF DetectInv

-----------------------------------------------------------------------------
(* The inductive invariant of the matcher, and what follows from it. *)
MatcherInv == RulesInv /\ DetectInv

(* It holds at first. *)
LEMMA InitMatcher == Init => MatcherInv
<1> SUFFICES ASSUME Init PROVE MatcherInv
    OBVIOUS
<1>1. RulesInv
    BY InitRules DEF Init
<1>2. SearchInv /\ search = Idle
    BY DEF Init, SearchInit, SearchInv, FoundInv, MissedInv, Shape, HasBegun, FoundIsContained,
           LiteralsAbsent, IsAhead, MissedIsAbsent, Idle
<1>3. policy \in Policy
    BY MatcherAssumption DEF Init
<1>4. << >> \in Text /\ << >> \in Seq(Seq(Text)) /\ Nothing.kind = "none"
    BY DEF Text, Nothing
<1>5. DetectShape
    BY <1>3, <1>4 DEF Init, DetectShape
<1>6. Linked /\ WordsAbsent /\ MatchesPassed /\ ReportedWordIsRight /\ ReportedRegexIsRight
    BY <1>2, <1>4 DEF Init, Linked, WordsAbsent, MatchesPassed, ReportedWordIsRight,
                      ReportedRegexIsRight, Done
<1> QED BY <1>1, <1>2, <1>5, <1>6 DEF MatcherInv, DetectInv, RulesInv

(* Every step keeps it. *)
LEMMA NextMatcher == MatcherInv /\ [Next]_matcherVars => MatcherInv'
<1> SUFFICES ASSUME MatcherInv, [Next]_matcherVars PROVE MatcherInv'
    OBVIOUS
<1>1. RulesInv /\ DetectInv
    BY DEF MatcherInv
<1>2. RulesInv'
    BY <1>1, MatcherKeepsRules, RulesStep
<1>3. RulesShape'
    BY <1>2 DEF RulesInv
<1>4. CASE Load
    BY <1>1, <1>2, <1>3, <1>4, LoadStep DEF MatcherInv
<1>5. CASE Receive
    BY <1>1, <1>2, <1>5, ReceiveStep DEF MatcherInv
<1>6. CASE Detect
    BY <1>1, <1>2, <1>6, IgnoreStep, DetectWordsStep, GoesOnStep, WordFoundStep, WordsMissedStep,
       TryRegexStep, RegexesMissedStep, RegexMissedStep, RegexFoundStep, AskBypassStep,
       NotBypassedStep, BypassedStep DEF Detect, MatcherInv
<1>7. CASE UNCHANGED matcherVars
    <2>1. /\ stage' = stage /\ search' = search /\ result' = result /\ matches' = matches
          /\ at' = at /\ UNCHANGED <<rulesVars, text, policy>>
        BY <1>7 DEF matcherVars, matchVars
    <2>2. SearchInv'
        <3>1. [SearchNext]_search
            BY <2>1
        <3> QED BY <1>1, <3>1, NextFound, NextMissed DEF DetectInv, SearchInv
    <2>3. /\ (Checked <=> Checked') /\ EffectiveWords' = EffectiveWords
          /\ EffectiveRegexes' = EffectiveRegexes /\ tried' = tried
        BY <1>1, <2>1, SameMessage DEF tried
    <2>4. DetectShape' /\ Linked' /\ WordsAbsent' /\ MatchesPassed'
        <3>1. DetectShape'
            BY <1>1, <2>1, <2>3 DEF DetectInv, DetectShape
        <3>2. Linked'
            BY <1>1, <2>1, <2>3 DEF DetectInv, Linked, Searched, LiteralsOf, needle, Gap, AsCased,
                                    rulesVars
        <3>3. WordsAbsent'
            BY <1>1, <2>1, <2>3 DEF DetectInv, WordsAbsent, NoneIn, Gap, AsCased, rulesVars
        <3>4. MatchesPassed'
            BY <1>1, <2>1 DEF DetectInv, MatchesPassed, HoldsBypassed, Gap, AsCased, rulesVars
        <3> QED BY <3>1, <3>2, <3>3, <3>4
    <2>5. ReportedWordIsRight'
        BY <1>1, <2>1 DEF DetectInv, ReportedWordIsRight, AllWords, InForce, Gap, AsCased,
                          rulesVars
    <2>6. ReportedRegexIsRight'
        BY <1>1, <2>1, <2>3 DEF DetectInv, ReportedRegexIsRight, HoldsBypassed, Gap, AsCased, Done,
                                rulesVars
    <2> QED BY <1>2, <1>3, <2>2, <2>4, <2>5, <2>6 DEF DetectInv, MatcherInv
<1> QED BY <1>4, <1>5, <1>6, <1>7 DEF Next

(* A message in which nothing was found does not hold a word in force; one that is
   empty, or without words to look for, neither.                             *)
LEMMA NoneUnseen == DetectInv => UnreportedWordIsAbsent
<1> SUFFICES ASSUME DetectInv, Done, result.kind # "word", policy.enabled,
                    ~(policy.admin_exempt_enabled /\ policy.manager),
                    NEW i \in 1 .. Len(AllWords), InForce(i),
                    Overlooked(AsCased(AllWords[i]), AsCased(text), Gap)
             PROVE  FALSE
    BY DEF UnreportedWordIsAbsent
<1>1. PICK target, wanted, all : target = text /\ wanted = EffectiveWords /\ all = AllWords
    OBVIOUS
<1>2. /\ target \in Text /\ wanted \in Seq(Word) /\ all \in Seq(Word) /\ Gap \in Nat
      /\ AsCased(target) \in Text /\ Len(AsCased(target)) = Len(target)
      /\ \A s \in Word : AsCased(s) \in Word
    <2>1. target \in Text
        BY <1>1 DEF DetectInv, DetectShape
    <2> QED BY <1>1, <2>1, DetectTypes DEF DetectInv
<1>3. PICK p : StandAt(p, wanted, all, {j \in 1 .. Len(all) : InForce(j)})
    BY <1>1, DetectTypes, EffectivePlaces DEF DetectInv
<1>4. PICK k \in 1 .. Len(wanted) : wanted[k] = all[i]
    BY <1>1, <1>3 DEF StandAt
<1>5. CASE Checked
    <2>1. NoneIn(text, EffectiveWords)
        BY <1>5 DEF DetectInv, WordsAbsent, Done
    <2> QED BY <1>1, <1>4, <2>1 DEF NoneIn
<1>6. CASE ~Checked
    <2>1. target = << >> \/ wanted = << >>
        BY <1>1, <1>6 DEF Checked
    <2>2. wanted # << >>
        BY <1>2, <1>4
    <2>3. PICK folded, gap, word : /\ folded = AsCased(target) /\ gap = Gap
                                   /\ word = AsCased(all[i])
        OBVIOUS
    <2>4. Len(target) = 0
        BY <2>1, <2>2
    <2>5. folded \in Text /\ folded = << >> /\ gap \in Nat
        BY <1>2, <2>3, <2>4 DEF Text
    <2>6. word \in Word
        BY <1>1, <1>2, <2>3
    <2> QED BY <1>1, <2>3, <2>5, <2>6, EmptyHoldsNothing
<1> QED BY <1>5, <1>6

(* What the invariant says of the matcher. *)
LEMMA MatcherTells ==
    MatcherInv => /\ SnapshotIsSelection /\ SkipsAreExact
                  /\ ReportedWordIsRight /\ UnreportedWordIsAbsent /\ ReportedRegexIsRight
<1> SUFFICES ASSUME RulesInv, DetectInv
             PROVE  /\ SnapshotIsSelection /\ SkipsAreExact
                    /\ ReportedWordIsRight /\ UnreportedWordIsAbsent /\ ReportedRegexIsRight
    BY DEF MatcherInv
<1>1. ReportedWordIsRight /\ ReportedRegexIsRight
    BY DEF DetectInv
<1> QED BY <1>1, NoneUnseen, RulesSelected, RulesReported

(* The invariant holds at every step of the matcher. *)
LEMMA MatcherAlways == Spec => []MatcherInv
BY InitMatcher, NextMatcher, PTL DEF Spec

(* What is read from the table is this selection, whatever else stands in it and in
   whatever order (normalize_words, normalize_regex_rules_with_diagnostics).  *)
THEOREM SelectionIsSnapshot == Spec => []SnapshotIsSelection
BY MatcherAlways, MatcherTells, PTL

(* Every row of a regular expression that is no rule is reported, once and with the
   reason, as .cf regex-skips shows it.                                      *)
THEOREM SkipsAreReported == Spec => []SkipsAreExact
BY MatcherAlways, MatcherTells, PTL

(* Whatever detect does, its search takes a step of WordSearch or none. *)
LEMMA DetectSearches == MatcherInv /\ [Next]_matcherVars => [SearchNext]_search
<1> SUFFICES ASSUME DetectInv, [Next]_matcherVars PROVE [SearchNext]_search
    BY DEF MatcherInv
<1>1. ASSUME NEW target \in Text, NEW wanted \in Seq(Word), search = Idle,
             Begin(target, wanted, settings.case_sensitive, settings.obfuscated, settings.max_gap)
      PROVE  SearchNext
    <2>1. PICK sensitive, obfuscated, gap :
              /\ sensitive = settings.case_sensitive /\ obfuscated = settings.obfuscated
              /\ gap = settings.max_gap
        OBVIOUS
    <2>2. sensitive \in BOOLEAN /\ obfuscated \in BOOLEAN /\ gap \in Nat
        BY <2>1, DetectTypes DEF DetectInv
    <2>3. Begin(target, wanted, sensitive, obfuscated, gap)
        BY <1>1, <2>1
    <2> QED BY <1>1, <2>2, <2>3 DEF SearchNext
<1>2. CASE DetectWords
    <2>1. PICK target, wanted : target = text /\ wanted = EffectiveWords
        OBVIOUS
    <2>2. target \in Text /\ wanted \in Seq(Word) /\ search = Idle
        <3>1. wanted \in Seq(Word)
            BY <2>1, DetectTypes DEF DetectInv
        <3> QED BY <1>2, <2>1, <3>1 DEF DetectWords, DetectInv, DetectShape, Linked
    <2>3. Begin(target, wanted, settings.case_sensitive, settings.obfuscated, settings.max_gap)
        BY <1>2, <2>1 DEF DetectWords
    <2> QED BY <1>1, <2>2, <2>3
<1>3. CASE AskBypass
    <2>1. PICK piece, bypassed : piece = tried[at] /\ bypassed = policy.bypass_global_words
        OBVIOUS
    <2>2. piece \in Text
        BY <1>3, <2>1, TriedPiece DEF AskBypass
    <2>3. bypassed \in Seq(Word)
        BY <2>1, DetectTypes DEF DetectInv
    <2>4. search = Idle
        BY <1>3 DEF AskBypass, DetectInv, Linked
    <2>5. Begin(piece, bypassed, settings.case_sensitive, settings.obfuscated, settings.max_gap)
        BY <1>3, <2>1 DEF AskBypass
    <2> QED BY <1>1, <2>2, <2>3, <2>4, <2>5
<1>4. CASE Search
    BY <1>4 DEF Search, SearchNext
<1>5. CASE WordFound \/ WordsMissed \/ NotBypassed \/ Bypassed
    BY <1>5 DEF WordFound, WordsMissed, NotBypassed, Bypassed, SearchNext
<1>6. CASE \/ Load \/ Receive \/ Ignore \/ TryRegex \/ RegexesMissed \/ RegexMissed \/ RegexFound
          \/ UNCHANGED matcherVars
    BY <1>6 DEF Load, Receive, Ignore, TryRegex, RegexesMissed, RegexMissed, RegexFound,
                matcherVars
<1> QED BY <1>2, <1>3, <1>4, <1>5, <1>6 DEF Next, Detect

(* detect uses the search as it was specified by itself: from the message with the words
   in force, from a match with the bypassed words, and one at a time.       *)
THEOREM DetectImplementsSearch == Spec => SearchSpec
<1>1. Init => SearchInit
    BY DEF Init
<1>2. MatcherInv /\ [Next]_matcherVars => [SearchNext]_search
    BY DetectSearches
<1> QED BY <1>1, <1>2, MatcherAlways, PTL DEF Spec, SearchSpec

(* The searches detect makes, one after another, are right as one by itself is. *)
THEOREM DetectSearchesSoundly == Spec => []SearchIsRight
BY DetectImplementsSearch, SearchIsSound, PTL

(* The word that detect reports is in force and in the message, and it is the first of
   those that are there as they are.                                         *)
THEOREM ReportedWordsAreThere == Spec => []ReportedWordIsRight
BY MatcherAlways, MatcherTells, PTL

(* When detect reports no word of a message of a filtered group, none in force is in it,
   but for one that its search with gaps may overlook.                       *)
THEOREM UnreportedWordsAreAbsent == Spec => []UnreportedWordIsAbsent
BY MatcherAlways, MatcherTells, PTL

(* An expression is reported for a match without a bypassed word, and none is passed
   over for such a match (_regex_match_is_bypassed).                         *)
THEOREM ReportedRegexesAreFirst == Spec => []ReportedRegexIsRight
BY MatcherAlways, MatcherTells, PTL
=============================================================================
