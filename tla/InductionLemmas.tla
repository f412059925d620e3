--------------------------- MODULE InductionLemmas ---------------------------
(***************************************************************************)
(* Induction over the naturals without a parameter that is an operator, so *)
(* that it can be instantiated: the predicate is a set of numbers, and the *)
(* step of a recursive function is a function.  The proofs of the          *)
(* definitions over sequences rest on it: a policy's words, the duration   *)
(* of a mute, what becomes of a rule.                                      *)
(***************************************************************************)
EXTENDS WordLists, FiniteSetTheorems, TLAPS

(* Among the intervals 0 .. n with n in T none is below all its own parts for
   ever, for they are finite sets.                                          *)
LEMMA LeastNatural ==
    ASSUME NEW T \in SUBSET Nat, T # {}
    PROVE  \E n \in T : \A m \in T : n <= m
  <1> DEFINE R == StrictSubsetOrdering(Nat)
             F == FiniteSubsetsOf(Nat)
             U == {0 .. n : n \in T}
  <1>1. IsWellFoundedOn(R, F)
    BY FS_StrictSubsetOrderingWellFounded
  <1>2. U \subseteq F /\ U # {}
    <2>1. \A n \in Nat : IsFiniteSet(0 .. n) /\ 0 .. n \subseteq Nat
      BY FS_Interval
    <2>2. QED
      BY <2>1 DEF FiniteSubsetsOf
  <1>3. PICK x \in U : \A y \in U : ~ (<<y, x>> \in R)
    <2> HIDE DEF R, F, U
    <2>1. QED
      BY <1>1, <1>2, WFMin
  <1>4. PICK n \in T : x = 0 .. n
    BY <1>3
  <1>5. ASSUME NEW m \in T, ~(n <= m)
        PROVE  FALSE
    <2>1. m < n /\ m \in Nat /\ n \in Nat
      BY <1>5
    <2>2. n \in 0 .. n /\ n \notin 0 .. m
      BY <2>1
    <2>3. <<0 .. m, x>> \in R
      BY <1>4, <2>1, <2>2 DEF StrictSubsetOrdering
    <2>4. QED
      BY <1>3, <1>5, <2>3
  <1>6. QED
    BY <1>5

(* A set with zero and every successor of a member is all the naturals. *)
LEMMA NaturalsByStep ==
    ASSUME NEW T \in SUBSET Nat, 0 \in T, \A n \in T : n + 1 \in T
    PROVE  T = Nat
  <1>1. SUFFICES ASSUME Nat \ T # {} PROVE FALSE
    OBVIOUS
  <1>2. PICK n \in Nat \ T : \A m \in Nat \ T : n <= m
    BY <1>1, LeastNatural
  <1>3. n - 1 \in T /\ n = (n - 1) + 1
    BY <1>2
  <1>4. QED
    BY <1>2, <1>3

(* What holds of 0 and passes from n - 1 to n holds of 0 .. last. *)
LEMMA IntervalByStep ==
    ASSUME NEW last \in Nat, NEW T, 0 \in T,
           \A n \in 1 .. last : n - 1 \in T => n \in T
    PROVE  0 .. last \subseteq T
  <1> DEFINE S == {n \in Nat : n <= last => n \in T}
  <1>1. 0 \in S
    OBVIOUS
  <1>2. ASSUME NEW n \in S
        PROVE  n + 1 \in S
    <2>1. CASE n + 1 <= last
      <3>1. n + 1 \in 1 .. last /\ (n + 1) - 1 = n /\ n \in T
        BY <2>1
      <3>2. QED
        BY <3>1
    <2>2. CASE ~(n + 1 <= last)
      BY <2>2
    <2>3. QED
      BY <2>1, <2>2
  <1>3. S \in SUBSET Nat
    OBVIOUS
  <1>4. S = Nat
    <2> HIDE DEF S
    <2>1. QED
      BY <1>1, <1>2, <1>3, NaturalsByStep
  <1>5. QED
    BY <1>4

(* A function on 0 .. last that is defined by its first value and by its step
   exists.                                                                  *)
Recursive(f, last, first, step) ==
    /\ f[0] = first
    /\ \A n \in 1 .. last : f[n] = step[n][f[n - 1]]

(* A function with a first value and a next value for each step exists. *)
LEMMA RecursionExists ==
    ASSUME NEW last \in Nat, NEW V, NEW first \in V, NEW step \in [1 .. last -> [V -> V]]
    PROVE  \E f \in [0 .. last -> V] : Recursive(f, last, first, step)
  <1> DEFINE T == {n \in Nat : n <= last =>
                      \E f \in [0 .. n -> V] : Recursive(f, n, first, step)}
  <1>1. 0 \in T
    <2> DEFINE f == [i \in 0 .. 0 |-> first]
    <2>1. f \in [0 .. 0 -> V] /\ Recursive(f, 0, first, step)
      BY DEF Recursive
    <2>2. QED
      BY <2>1
  <1>2. ASSUME NEW n \in T
        PROVE  n + 1 \in T
    <2>1. SUFFICES ASSUME n + 1 <= last
                   PROVE  \E f \in [0 .. n + 1 -> V] : Recursive(f, n + 1, first, step)
      OBVIOUS
    <2>2. n \in Nat /\ n <= last
      BY <2>1
    <2>3. PICK g \in [0 .. n -> V] : Recursive(g, n, first, step)
      BY <2>2
    <2> DEFINE f == [i \in 0 .. n + 1 |-> IF i = n + 1 THEN step[n + 1][g[n]] ELSE g[i]]
    <2>4. n + 1 \in 1 .. last /\ g[n] \in V
      BY <2>1, <2>2
    <2>5. step[n + 1][g[n]] \in V
      BY <2>4
    <2>6. f \in [0 .. n + 1 -> V]
      BY <2>2, <2>5
    <2>7. f[0] = first
      BY <2>2, <2>3 DEF Recursive
    <2>8. \A i \in 1 .. n + 1 : f[i] = step[i][f[i - 1]]
      <3> TAKE i \in 1 .. n + 1
      <3>1. CASE i = n + 1
        BY <2>2, <3>1
      <3>2. CASE i # n + 1
        <4>1. i \in 1 .. n /\ i \in 0 .. n + 1 /\ i - 1 \in 0 .. n + 1 /\ i - 1 # n + 1
          BY <2>2, <3>2
        <4>2. QED
          BY <2>3, <3>2, <4>1 DEF Recursive
      <3>3. QED
        BY <3>1, <3>2
    <2> HIDE DEF f
    <2>9. QED
      BY <2>6, <2>7, <2>8 DEF Recursive
  <1>3. T \in SUBSET Nat
    OBVIOUS
  <1>4. T = Nat
    <2> HIDE DEF T
    <2>1. QED
      BY <1>1, <1>2, <1>3, NaturalsByStep
  <1>5. QED
    BY <1>4

(* The comprehension of Only, word by word. *)
OnlySteps(f, s, wanted) ==
    /\ f[0] = <<>>
    /\ \A n \in 1 .. Len(s) : f[n] = IF s[n] \in wanted THEN Append(f[n - 1], s[n]) ELSE f[n - 1]

(* Only is such a loop. *)
LEMMA OnlyLoop ==
    ASSUME NEW W, NEW s \in Seq(W), NEW wanted
    PROVE  \E f \in [0 .. Len(s) -> Seq(W)] :
              OnlySteps(f, s, wanted) /\ Only(s, wanted) = f[Len(s)]
  <1> DEFINE last == Len(s)
             V == Seq(W)
             step == [n \in 1 .. last |->
                         [k \in V |-> IF s[n] \in wanted THEN Append(k, s[n]) ELSE k]]
             body(h) == [n \in 0 .. last |->
                            IF n = 0 THEN <<>>
                            ELSE IF s[n] \in wanted THEN Append(h[n - 1], s[n]) ELSE h[n - 1]]
  <1>1. step \in [1 .. last -> [V -> V]] /\ last \in Nat /\ <<>> \in V
    <2>1. \A n \in 1 .. last, k \in V : Append(k, s[n]) \in V
      OBVIOUS
    <2>2. QED
      BY <2>1
  <1>2. PICK f \in [0 .. last -> V] : Recursive(f, last, <<>>, step)
    <2> HIDE DEF step, last, V
    <2>1. QED
      BY <1>1, RecursionExists
  <1>3. /\ f[0] = <<>>
        /\ \A n \in 1 .. last : f[n] = IF s[n] \in wanted THEN Append(f[n - 1], s[n])
                                       ELSE f[n - 1]
    <2>1. f[0] = <<>>
      BY <1>2 DEF Recursive
    <2>2. ASSUME NEW n \in 1 .. last
          PROVE  f[n] = IF s[n] \in wanted THEN Append(f[n - 1], s[n]) ELSE f[n - 1]
      <3>1. f[n - 1] \in V
        BY <1>1, <1>2
      <3>2. f[n] = step[n][f[n - 1]]
        BY <1>2 DEF Recursive
      <3>3. QED
        BY <3>1, <3>2
    <2>3. QED
      BY <2>1, <2>2
  <1>4. f = body(f)
    <2> HIDE DEF V, step
    <2>1. DOMAIN f = 0 .. last /\ f = [n \in 0 .. last |-> f[n]]
      BY <1>2
    <2>2. \A n \in 0 .. last : n = 0 \/ n \in 1 .. last
      BY <1>1
    <2>3. \A n \in 0 .. last : f[n] = body(f)[n]
      BY <1>3, <2>2
    <2>4. QED
      BY <2>1, <2>3
  <1> DEFINE g == CHOOSE h : h = body(h)
  <1>5. g = body(g)
    BY <1>4
  <1>6. Only(s, wanted) = g[last]
    BY DEF Only
  <1>7. last \in DOMAIN f /\ g[last] = f[last]
    <2> DEFINE T == {n \in 0 .. last : g[n] = f[n]}
    <2> HIDE DEF g, V, step
    <2>1. 0 \in T
      BY <1>1, <1>3, <1>5
    <2>2. ASSUME NEW n \in 1 .. last, n - 1 \in T
          PROVE  n \in T
      <3>1. n \in 0 .. last /\ n # 0
        BY <1>1
      <3>2. g[n] = IF s[n] \in wanted THEN Append(g[n - 1], s[n]) ELSE g[n - 1]
        BY <1>5, <3>1
      <3>3. QED
        BY <1>3, <2>2, <3>1, <3>2
    <2>3. 0 .. last \subseteq T
      <3> HIDE DEF T, last
      <3>1. QED
        BY <1>1, <2>1, <2>2, IntervalByStep
    <2>4. QED
      BY <1>1, <1>2, <2>3
  <1>8. OnlySteps(f, s, wanted)
    BY <1>3 DEF OnlySteps
  <1>9. QED
    BY <1>2, <1>6, <1>7, <1>8

(* Where the words that are kept come from: places in the order of the list, all of
   those at which a wanted word stands.                                     *)
KeptFrom(p, list, wanted, kept, n) ==
    /\ p \in [1 .. Len(kept) -> 1 .. n]
    /\ \A k \in 1 .. Len(kept) : kept[k] = list[p[k]] /\ list[p[k]] \in wanted
    /\ \A k, l \in 1 .. Len(kept) : k < l => p[k] < p[l]
    /\ \A i \in 1 .. n : list[i] \in wanted => \E k \in 1 .. Len(kept) : p[k] = i

(* One word more that is kept. *)
LEMMA KeptOneMore ==
    ASSUME NEW W, NEW list \in Seq(W), NEW wanted, NEW n \in 1 .. Len(list), list[n] \in wanted,
           NEW kept \in Seq(W), NEW p, KeptFrom(p, list, wanted, kept, n - 1),
           NEW more, more = Append(kept, list[n])
    PROVE  \E q : KeptFrom(q, list, wanted, more, n)
  <1> DEFINE last == Len(kept) + 1
             q == [k \in 1 .. last |-> IF k = last THEN n ELSE p[k]]
  <1>1. /\ Len(kept) \in Nat /\ n \in Nat /\ Len(more) = last /\ more[last] = list[n]
        /\ \A k \in 1 .. Len(kept) : more[k] = kept[k]
    OBVIOUS
  <1>2. /\ p \in [1 .. Len(kept) -> 1 .. n - 1]
        /\ \A k \in 1 .. Len(kept) : kept[k] = list[p[k]] /\ list[p[k]] \in wanted
        /\ \A k, l \in 1 .. Len(kept) : k < l => p[k] < p[l]
        /\ \A i \in 1 .. n - 1 : list[i] \in wanted => \E k \in 1 .. Len(kept) : p[k] = i
    BY DEF KeptFrom
  <1>3. /\ last \in 1 .. last /\ q[last] = n
        /\ \A k \in 1 .. Len(kept) : k \in 1 .. last /\ q[k] = p[k]
        /\ \A k \in 1 .. last : k = last \/ k \in 1 .. Len(kept)
    BY <1>1
  <1>4. q \in [1 .. last -> 1 .. n]
    <2>1. \A i \in 1 .. n - 1 : i \in 1 .. n
      BY <1>1
    <2>2. \A k \in 1 .. Len(kept) : p[k] \in 1 .. n - 1
      BY <1>2
    <2>3. n \in 1 .. n
      BY <1>1
    <2>4. QED
      BY <1>3, <2>1, <2>2, <2>3
  <1> HIDE DEF q
  <1>5. \A k \in 1 .. last : more[k] = list[q[k]] /\ list[q[k]] \in wanted
    BY <1>1, <1>2, <1>3
  <1>6. ASSUME NEW k \in 1 .. last, NEW l \in 1 .. last, k < l
        PROVE  q[k] < q[l]
    <2>1. k \in 1 .. Len(kept) /\ p[k] \in 1 .. n - 1
      BY <1>1, <1>2, <1>6
    <2>2. CASE l = last
      BY <1>1, <1>3, <2>1, <2>2
    <2>3. CASE l \in 1 .. Len(kept)
      BY <1>2, <1>3, <1>6, <2>1, <2>3
    <2>4. QED
      BY <1>3, <2>2, <2>3
  <1>7. ASSUME NEW i \in 1 .. n, list[i] \in wanted
        PROVE  \E k \in 1 .. last : q[k] = i
    <2>1. CASE i = n
      BY <1>3, <2>1
    <2>2. CASE i \in 1 .. n - 1
      BY <1>2, <1>3, <1>7, <2>2
    <2>3. QED
      BY <1>1, <2>1, <2>2
  <1> HIDE DEF last
  <1>8. KeptFrom(q, list, wanted, more, n)
    BY <1>1, <1>4, <1>5, <1>6, <1>7 DEF KeptFrom
  <1>9. QED
    BY <1>8

(* The words that are kept are those that were wanted, in their order. *)
LEMMA OnlyOrder ==
    ASSUME NEW W, NEW list \in Seq(W), NEW wanted
    PROVE  /\ Only(list, wanted) \in Seq(W)
           /\ \E p : KeptFrom(p, list, wanted, Only(list, wanted), Len(list))
  <1> DEFINE last == Len(list)
  <1>1. PICK f \in [0 .. last -> Seq(W)] :
            OnlySteps(f, list, wanted) /\ Only(list, wanted) = f[last]
    BY OnlyLoop
  <1>2. /\ f[0] = <<>> /\ last \in Nat
        /\ \A n \in 1 .. last : f[n] = IF list[n] \in wanted THEN Append(f[n - 1], list[n])
                                       ELSE f[n - 1]
    BY <1>1 DEF OnlySteps
  <1> DEFINE T == {n \in 0 .. last : \E p : KeptFrom(p, list, wanted, f[n], n)}
  <1>3. 0 \in T
    <2>1. PICK none : none = <<>>
      OBVIOUS
    <2>2. Len(none) = 0
      BY <2>1
    <2>3. KeptFrom([k \in 1 .. 0 |-> 0], list, wanted, none, 0)
      BY <2>2 DEF KeptFrom
    <2>4. QED
      BY <1>2, <2>1, <2>3
  <1>4. ASSUME NEW n \in 1 .. last, n - 1 \in T
        PROVE  n \in T
    <2>1. PICK p : KeptFrom(p, list, wanted, f[n - 1], n - 1)
      BY <1>4
    <2>2. f[n - 1] \in Seq(W) /\ n \in 0 .. last
      BY <1>1, <1>2
    <2>3. PICK kept : kept = f[n - 1]
      OBVIOUS
    <2>4. CASE list[n] \in wanted
      <3>1. PICK more : more = Append(kept, list[n])
        OBVIOUS
      <3>2. \E q : KeptFrom(q, list, wanted, more, n)
        BY <2>1, <2>2, <2>3, <2>4, <3>1, KeptOneMore
      <3>3. f[n] = more
        BY <1>2, <2>3, <2>4, <3>1
      <3>4. QED
        BY <2>2, <3>2, <3>3
    <2>5. CASE list[n] \notin wanted
      <3>1. f[n] = kept
        BY <1>2, <2>3, <2>5
      <3>2. KeptFrom(p, list, wanted, kept, n)
        <4>1. \A i \in 1 .. n : i = n \/ i \in 1 .. n - 1
          BY <1>2
        <4>2. 1 .. n - 1 \subseteq 1 .. n
          BY <1>2
        <4>3. QED
          BY <2>1, <2>3, <2>5, <4>1, <4>2 DEF KeptFrom
      <3>3. QED
        BY <2>2, <3>1, <3>2
    <2>6. QED
      BY <2>4, <2>5
  <1>5. last \in T
    <2> HIDE DEF T, last
    <2>1. 0 .. last \subseteq T
      BY <1>2, <1>3, <1>4, IntervalByStep
    <2>2. QED
      BY <1>2, <2>1
  <1>6. QED
    BY <1>1, <1>2, <1>5
=============================================================================
