--------------------------- MODULE PolicyStoreProofs ---------------------------
(***************************************************************************)
(* Theorems about PolicyStore, for every set of groups, words, tasks,      *)
(* settings, requests, files and databases and every bound, checked by     *)
(* TLAPS: what a migration may do to a database, and that the policies in  *)
(* memory and in the database keep the limits and what was answered.       *)
(***************************************************************************)
EXTENDS PolicyStore, InductionLemmas, SequenceTheorems

-----------------------------------------------------------------------------
(* The inductive invariant. *)

IsMap(groups) == groups = [g \in DOMAIN groups |-> groups[g]] /\ IsPolicies(groups)

Busy == [pc: {"waiting", "saving", "saved", "failed"}, inst: Instance, request: Requests,
         todo: Seq(Word \cup {"flag"})]

Promised == [flags: [Flag -> Value \cup {"unsure"}],
             words: [List -> [Word -> {"unsure", "in", "out"}]]]

Locking == {"saving", "saved", "failed"}

Shapes == /\ cur \in Instance
          /\ phase \in Phase
          /\ settings \in [Instance -> Settings]
          /\ file \in Files
          /\ IsPolicies(stored)
          /\ DOMAIN memory = Instance /\ \A i \in Instance : IsMap(memory[i])
          /\ holder \in [Instance -> Task \cup {Free}]
          /\ DOMAIN task = Task /\ \A t \in Task : task[t] = Idle \/ task[t] \in Busy
          /\ standing \in [Instance -> {"same", "ahead", "other"}]
          /\ promise \in [Group -> Promised]

(* What a command has left to do is there, and fits the settings. *)
TodoFits(c) ==
    /\ c.todo # <<>>
    /\ c.request.op # "set" => c.todo \in Seq(Word)
    /\ c.request.op = "add" =>
           \A n \in 1 .. Len(c.todo) : WordLength[c.todo[n]] <= settings[c.inst].length

(* A command belongs to an instance that is or was up. *)
Placed(c) == c.inst <= cur /\ (c.inst = cur => phase = "up")

Commanded == \A t \in Task : task[t] # Idle => TodoFits(task[t]) /\ Placed(task[t])

Locked == \A t \in Task : task[t].pc \in Locking => holder[task[t].inst] = t

(* An instance whose load has not read anything is empty. *)
Unread(i) == i > cur \/ (i = cur /\ phase \in {"down", "import", "write", "policies"})

Unloaded == \A i \in Instance : Unread(i) => standing[i] = "other" /\ memory[i] = NoPolicies

FittingWords(words, limit) ==
    /\ IsInjective(words)
    /\ Len(words) <= limit.count
    /\ \A n \in 1 .. Len(words) : WordLength[words[n]] <= limit.length

Fitting(policy, limit) == \A l \in List : FittingWords(policy.words[l], limit)

AllFitting == \A i \in Instance : \A g \in DOMAIN memory[i] : Fitting(memory[i][g], settings[i])

Base == Shapes /\ Commanded /\ Locked /\ Unloaded

(* How far the load of the instance has come: it has read the lists read. *)
Partly(policy, read) ==
    [policy EXCEPT !.words = [l \in List |-> IF l \in read THEN policy.words[l] ELSE <<>>]]

Loaded(read) ==
    /\ stored = NormalizeAll(stored, settings[cur])
    /\ memory[cur] = [g \in DOMAIN stored |-> Partly(stored[g], read)]

Loading ==
    /\ phase \in {"custom", "bypass"} => standing[cur] # "ahead"
    /\ standing[cur] = "same" =>
          /\ phase = "custom" => Loaded({})
          /\ phase = "bypass" => Loaded({"custom"})
          /\ phase = "up" => \/ stored = memory[cur]
                             \/ \E t \in Task : task[t].pc = "saving" /\ task[t].inst = cur

(* groups hold what p promises. *)
Agrees(p, groups) ==
    \A g \in Group :
        /\ \A f \in Flag : p[g].flags[f] = "unsure" \/ PolicyOf(groups, g).flags[f] = p[g].flags[f]
        /\ \A l \in List, w \in Word :
              /\ p[g].words[l][w] = "in" => w \in ToSet(PolicyOf(groups, g).words[l])
              /\ p[g].words[l][w] = "out" => w \notin ToSet(PolicyOf(groups, g).words[l])

(* groups are as the answer to r will say. *)
Holds(groups, r, item) ==
    LET policy == PolicyOf(groups, r.group)
    IN  CASE r.op = "set" -> policy.flags[r.flag] = r.value
          [] r.op = "add" -> item \in ToSet(policy.words[r.list])
          [] r.op = "remove" -> item \notin ToSet(policy.words[r.list])

Applied == \A t \in Task : task[t].pc \in Locking =>
               Holds(memory[task[t].inst], task[t].request, Head(task[t].todo))

(* The database is the one the loaded instance has saved last. *)
SavedAlone ==
    \A t \in Task : task[t].pc = "saved" /\ task[t].inst = cur /\ standing[cur] = "same"
                        => \A i \in Instance \ {cur} : standing[i] = "other"

(* An instance that is up to date knows what was answered. *)
Known == \A i \in Instance :
            standing[i] # "other" /\ (i = cur => phase = "up") => Agrees(promise, memory[i])

Kept == Agrees(promise, stored)

Truth == Applied /\ SavedAlone /\ Known /\ Kept

-----------------------------------------------------------------------------
(* Sequences of words. *)

LEMMA AppendedWord ==
    ASSUME NEW W, NEW s \in Seq(W), NEW w \in W
    PROVE  /\ ToSet(Append(s, w)) = ToSet(s) \cup {w}
           /\ w \notin ToSet(s) /\ IsInjective(s) => IsInjective(Append(s, w))
           /\ Append(s, w) # s
           /\ Append(s, w) \in Seq(W) /\ Len(Append(s, w)) = Len(s) + 1
           /\ \A i \in 1 .. Len(s) : Append(s, w)[i] = s[i]
           /\ Append(s, w)[Len(s) + 1] = w
  <1> DEFINE a == Append(s, w)
  <1>1. /\ Len(s) \in Nat /\ DOMAIN s = 1 .. Len(s)
        /\ a \in Seq(W) /\ Len(a) = Len(s) + 1 /\ DOMAIN a = 1 .. Len(s) + 1
        /\ \A i \in 1 .. Len(s) : a[i] = s[i]
        /\ a[Len(s) + 1] = w
    OBVIOUS
  <1> HIDE DEF a
  <1>2. ToSet(a) = ToSet(s) \cup {w}
    <2>1. 1 .. Len(s) + 1 = (1 .. Len(s)) \cup {Len(s) + 1}
      BY <1>1
    <2>2. QED
      BY <1>1, <2>1 DEF ToSet
  <1>3. ASSUME w \notin ToSet(s), IsInjective(s)
        PROVE  IsInjective(a)
    <2>1. SUFFICES ASSUME NEW i \in 1 .. Len(s) + 1, NEW j \in 1 .. Len(s) + 1, a[i] = a[j]
                   PROVE  i = j
      BY <1>1 DEF IsInjective
    <2>2. \A k \in 1 .. Len(s) + 1 : k = Len(s) + 1 \/ k \in 1 .. Len(s)
      BY <1>1
    <2>3. \A k \in 1 .. Len(s) : s[k] \in ToSet(s)
      BY <1>1 DEF ToSet
    <2>4. QED
      BY <1>1, <1>3, <2>1, <2>2, <2>3 DEF IsInjective
  <1>4. a # s
    BY <1>1
  <1>5. QED
    BY <1>1, <1>2, <1>3, <1>4 DEF a

LEMMA SetOfWords ==
    ASSUME NEW W, NEW s \in Seq(W)
    PROVE  /\ ToSet(s) \subseteq W
           /\ \A w : w \in ToSet(s) <=> \E i \in 1 .. Len(s) : s[i] = w
  BY DEF ToSet

(* What is kept is what was wanted of what was there. *)
LEMMA OnlyKeeps ==
    ASSUME NEW W, NEW s \in Seq(W), NEW wanted
    PROVE  /\ Only(s, wanted) \in Seq(W)
           /\ ToSet(Only(s, wanted)) = ToSet(s) \cap wanted
           /\ Len(Only(s, wanted)) <= Len(s)
           /\ IsInjective(s) => IsInjective(Only(s, wanted))
  <1> DEFINE last == Len(s)
  <1>0. PICK f \in [0 .. last -> Seq(W)] : OnlySteps(f, s, wanted) /\ Only(s, wanted) = f[last]
    BY OnlyLoop
  <1>1. /\ f[0] = <<>>
        /\ \A n \in 1 .. last : f[n] = IF s[n] \in wanted THEN Append(f[n - 1], s[n])
                                       ELSE f[n - 1]
        /\ Only(s, wanted) = f[last]
    BY <1>0 DEF OnlySteps
  <1>2. last \in Nat /\ DOMAIN s = 1 .. last /\ \A n \in 1 .. last : s[n] \in W
    OBVIOUS
  <1> HIDE DEF last
  <1> DEFINE Part(n) == {s[i] : i \in 1 .. n} \cap wanted
             T == {n \in 0 .. last : /\ ToSet(f[n]) = Part(n)
                                     /\ Len(f[n]) <= n
                                     /\ IsInjective(s) => IsInjective(f[n])}
  <1>3. 0 \in T
    <2>1. ToSet(<<>>) = {} /\ Len(<<>>) = 0 /\ IsInjective(<<>>)
      BY DEF ToSet, IsInjective
    <2>2. Part(0) = {}
      OBVIOUS
    <2>3. QED
      BY <1>1, <1>2, <2>1, <2>2
  <1>4. ASSUME NEW n \in 1 .. last, n - 1 \in T
        PROVE  n \in T
    <2>1. f[n - 1] \in Seq(W) /\ s[n] \in W /\ Len(f[n - 1]) \in Nat
      BY <1>1, <1>2
    <2>2. {s[i] : i \in 1 .. n} = {s[i] : i \in 1 .. n - 1} \cup {s[n]}
      <3>1. 1 .. n = (1 .. n - 1) \cup {n}
        BY <1>2
      <3>2. QED
        BY <3>1
    <2>3. CASE s[n] \in wanted
      <3>1. f[n] = Append(f[n - 1], s[n])
        BY <1>1, <2>3
      <3>2. Part(n) = Part(n - 1) \cup {s[n]}
        BY <2>2, <2>3
      <3>3. ToSet(f[n]) = Part(n)
        BY <1>4, <2>1, <3>1, <3>2, AppendedWord
      <3>4. Len(f[n]) <= n
        BY <1>4, <2>1, <3>1
      <3>5. ASSUME IsInjective(s)
            PROVE  IsInjective(f[n])
        <4>1. s[n] \notin Part(n - 1)
          <5>1. ASSUME NEW i \in 1 .. n - 1
                PROVE  s[i] # s[n]
            <6>1. i \in DOMAIN s /\ n \in DOMAIN s /\ i # n
              BY <1>2
            <6>2. QED
              BY <3>5, <6>1 DEF IsInjective
          <5>2. QED
            BY <5>1
        <4>2. QED
          BY <1>4, <2>1, <3>1, <3>5, <4>1, AppendedWord
      <3>6. QED
        BY <3>3, <3>4, <3>5
    <2>4. CASE s[n] \notin wanted
      <3>1. f[n] = f[n - 1]
        BY <1>1, <2>4
      <3>2. Part(n) = Part(n - 1)
        BY <2>2, <2>4
      <3>3. Len(f[n]) <= n
        BY <1>4, <2>1, <3>1
      <3>4. QED
        BY <1>4, <3>1, <3>2, <3>3
    <2>5. QED
      BY <2>3, <2>4
  <1>5. last \in T
    <2> HIDE DEF T
    <2>1. 0 .. last \subseteq T
      BY <1>2, <1>3, <1>4, IntervalByStep
    <2>2. QED
      BY <1>2, <2>1
  <1>6. Part(last) = ToSet(s) \cap wanted
    BY <1>2 DEF ToSet
  <1>7. QED
    BY <1>1, <1>2, <1>5, <1>6 DEF last

(* The loop of normalize_words. *)
Skipped(k, w, limit) == \/ WordLength[w] > limit.length
                        \/ w \in ToSet(k)
                        \/ Len(k) >= limit.count

NormalSteps(f, s, limit) ==
    /\ f[0] = <<>>
    /\ \A n \in 1 .. Len(s) : f[n] = IF Skipped(f[n - 1], s[n], limit) THEN f[n - 1]
                                     ELSE Append(f[n - 1], s[n])

LEMMA NormalLoop ==
    ASSUME NEW W, NEW s \in Seq(W), NEW limit
    PROVE  \E f \in [0 .. Len(s) -> Seq(W)] :
              NormalSteps(f, s, limit) /\ NormalizeWords(s, limit) = f[Len(s)]
  <1> DEFINE last == Len(s)
             V == Seq(W)
             step == [n \in 1 .. last |->
                         [k \in V |-> IF Skipped(k, s[n], limit) THEN k ELSE Append(k, s[n])]]
             body(h) == [n \in 0 .. last |->
                            IF n = 0 THEN <<>>
                            ELSE IF \/ WordLength[s[n]] > limit.length
                                    \/ s[n] \in ToSet(h[n - 1])
                                    \/ Len(h[n - 1]) >= limit.count
                                 THEN h[n - 1] ELSE Append(h[n - 1], s[n])]
  <1>1. step \in [1 .. last -> [V -> V]] /\ last \in Nat /\ <<>> \in V
    <2>1. \A n \in 1 .. last, k \in V : Append(k, s[n]) \in V
      OBVIOUS
    <2>2. QED
      BY <2>1
  <1>2. PICK f \in [0 .. last -> V] : Recursive(f, last, <<>>, step)
    <2> HIDE DEF step, last, V
    <2>1. QED
      BY <1>1, RecursionExists
  <1>3. NormalSteps(f, s, limit)
    <2>1. f[0] = <<>>
      BY <1>2 DEF Recursive
    <2>2. ASSUME NEW n \in 1 .. last
          PROVE  f[n] = IF Skipped(f[n - 1], s[n], limit) THEN f[n - 1]
                        ELSE Append(f[n - 1], s[n])
      <3>1. f[n - 1] \in V
        BY <1>1, <1>2
      <3>2. f[n] = step[n][f[n - 1]]
        BY <1>2 DEF Recursive
      <3>3. QED
        BY <3>1, <3>2
    <2>3. QED
      BY <2>1, <2>2 DEF NormalSteps
  <1>4. f = body(f)
    <2> HIDE DEF V, step
    <2>1. DOMAIN f = 0 .. last /\ f = [n \in 0 .. last |-> f[n]]
      BY <1>2
    <2>2. \A n \in 0 .. last : n = 0 \/ n \in 1 .. last
      BY <1>1
    <2>3. ASSUME NEW n \in 0 .. last
          PROVE  f[n] = body(f)[n]
      <3>1. CASE n = 0
        BY <1>3, <3>1 DEF NormalSteps
      <3>2. CASE n \in 1 .. last
        <4>1. f[n] = IF Skipped(f[n - 1], s[n], limit) THEN f[n - 1] ELSE Append(f[n - 1], s[n])
          <5> HIDE DEF body
          <5>1. QED
            BY <1>3, <3>2 DEF NormalSteps
        <4>2. n # 0
          BY <1>1, <3>2
        <4>3. QED
          BY <4>1, <4>2 DEF Skipped
      <3>3. QED
        BY <2>2, <3>1, <3>2
    <2>4. QED
      BY <2>1, <2>3
  <1> DEFINE g == CHOOSE h : h = body(h)
  <1>5. g = body(g)
    BY <1>4
  <1>6. NormalizeWords(s, limit) = g[last]
    BY DEF NormalizeWords
  <1>7. g[last] = f[last]
    <2> DEFINE T == {n \in 0 .. last : g[n] = f[n]}
    <2> HIDE DEF g, V, step
    <2>1. 0 \in T
      BY <1>1, <1>3, <1>5 DEF NormalSteps
    <2>2. ASSUME NEW n \in 1 .. last, n - 1 \in T
          PROVE  n \in T
      <3>1. n \in 0 .. last /\ n # 0 /\ g[n - 1] = f[n - 1]
        BY <1>1, <2>2
      <3>2. g[n] = IF Skipped(g[n - 1], s[n], limit) THEN g[n - 1] ELSE Append(g[n - 1], s[n])
        BY <1>5, <3>1 DEF Skipped
      <3>3. f[n] = IF Skipped(f[n - 1], s[n], limit) THEN f[n - 1] ELSE Append(f[n - 1], s[n])
        BY <1>3, <3>1 DEF NormalSteps
      <3>4. QED
        BY <3>1, <3>2, <3>3
    <2>3. 0 .. last \subseteq T
      <3> HIDE DEF T, last
      <3>1. QED
        BY <1>1, <2>1, <2>2, IntervalByStep
    <2>4. QED
      BY <1>1, <2>3
  <1>8. QED
    BY <1>2, <1>3, <1>6, <1>7

(* Whatever the database or the file held, the limits hold of what is kept. *)
LEMMA NormalWordsFit ==
    ASSUME NEW s \in Seq(Word), NEW limit \in Settings
    PROVE  /\ NormalizeWords(s, limit) \in Seq(Word)
           /\ FittingWords(NormalizeWords(s, limit), limit)
  <1> DEFINE last == Len(s)
  <1>1. PICK f \in [0 .. last -> Seq(Word)] :
            NormalSteps(f, s, limit) /\ NormalizeWords(s, limit) = f[last]
    BY NormalLoop
  <1>2. last \in Nat /\ \A n \in 1 .. last : s[n] \in Word
    OBVIOUS
  <1>3. limit.count \in Nat \ {0} /\ limit.length \in Nat \ {0}
    BY PolicyAssumption
  <1>4. \A w \in Word : WordLength[w] \in Nat
    BY PolicyAssumption
  <1>5. f[0] = <<>> /\ \A n \in 1 .. last :
            f[n] = IF Skipped(f[n - 1], s[n], limit) THEN f[n - 1] ELSE Append(f[n - 1], s[n])
    BY <1>1 DEF NormalSteps
  <1> HIDE DEF last
  <1> DEFINE U == {n \in 0 .. last : FittingWords(f[n], limit)}
  <1>6. 0 \in U
    BY <1>2, <1>3, <1>5 DEF FittingWords, IsInjective
  <1>7. ASSUME NEW n \in 1 .. last, n - 1 \in U
        PROVE  n \in U
    <2> DEFINE k == f[n - 1]
    <2>1. k \in Seq(Word) /\ s[n] \in Word /\ FittingWords(k, limit) /\ n \in 0 .. last
      BY <1>1, <1>2, <1>7
    <2>2. f[n] = IF Skipped(k, s[n], limit) THEN k ELSE Append(k, s[n])
      BY <1>5
    <2> HIDE DEF k
    <2>3. CASE Skipped(k, s[n], limit)
      BY <2>1, <2>2, <2>3
    <2>4. CASE ~Skipped(k, s[n], limit)
      <3>1. /\ WordLength[s[n]] <= limit.length
            /\ s[n] \notin ToSet(k)
            /\ Len(k) + 1 <= limit.count
        BY <1>3, <1>4, <2>1, <2>4 DEF Skipped
      <3>2. /\ IsInjective(Append(k, s[n]))
            /\ Len(Append(k, s[n])) = Len(k) + 1
            /\ \A i \in 1 .. Len(k) : Append(k, s[n])[i] = k[i]
            /\ Append(k, s[n])[Len(k) + 1] = s[n]
        BY <2>1, <3>1, AppendedWord DEF FittingWords
      <3>3. \A i \in 1 .. Len(k) + 1 : i = Len(k) + 1 \/ i \in 1 .. Len(k)
        BY <2>1
      <3>4. FittingWords(Append(k, s[n]), limit)
        BY <2>1, <3>1, <3>2, <3>3 DEF FittingWords
      <3>5. QED
        BY <2>1, <2>2, <2>4, <3>4
    <2>5. QED
      BY <2>3, <2>4
  <1>8. last \in U
    <2> HIDE DEF U
    <2>1. 0 .. last \subseteq U
      BY <1>2, <1>6, <1>7, IntervalByStep
    <2>2. QED
      BY <1>2, <2>1
  <1>9. QED
    BY <1>1, <1>2, <1>8

-----------------------------------------------------------------------------
(* Policies, and the records of commands. *)

LEMMA NewPolicyType == NewPolicy \in Policy
  <1>1. [enabled |-> "unset", admin_exempt |-> "on"] \in [Flag -> Value]
    BY DEF Flag, Value
  <1>2. [custom |-> <<>>, bypass |-> <<>>] \in [List -> Seq(Word)]
    <2>1. PICK e \in Seq(Word) : e = <<>>
      BY EmptySeq
    <2>2. [custom |-> e, bypass |-> e] \in [List -> Seq(Word)]
      BY DEF List
    <2>3. QED
      BY <2>1, <2>2
  <1>3. QED
    BY <1>1, <1>2 DEF NewPolicy, Policy

LEMMA PolicyOfType ==
    ASSUME NEW groups, IsPolicies(groups), NEW g
    PROVE  PolicyOf(groups, g) \in Policy
  BY NewPolicyType DEF PolicyOf, IsPolicies

LEMMA WithType ==
    ASSUME NEW groups, IsMap(groups), NEW g \in Group, NEW policy \in Policy
    PROVE  /\ IsMap(With(groups, g, policy))
           /\ PolicyOf(With(groups, g, policy), g) = policy
           /\ \A h : h # g => PolicyOf(With(groups, g, policy), h) = PolicyOf(groups, h)
  BY DEF With, IsMap, IsPolicies, PolicyOf

(* EXCEPT on the two fields of a policy. *)
LEMMA NewWords ==
    ASSUME NEW policy \in Policy, NEW words \in [List -> Seq(Word)]
    PROVE  /\ [policy EXCEPT !.words = words] \in Policy
           /\ [policy EXCEPT !.words = words].flags = policy.flags
           /\ [policy EXCEPT !.words = words].words = words
  BY DEF Policy

LEMMA NewFlags ==
    ASSUME NEW policy \in Policy, NEW flags \in [Flag -> Value]
    PROVE  /\ [policy EXCEPT !.flags = flags] \in Policy
           /\ [policy EXCEPT !.flags = flags].flags = flags
           /\ [policy EXCEPT !.flags = flags].words = policy.words
  BY DEF Policy

LEMMA NormalizedType ==
    ASSUME NEW policy \in Policy, NEW limit \in Settings
    PROVE  NormalizePolicy(policy, limit) \in Policy
  <1>1. policy.words \in [List -> Seq(Word)]
    BY DEF Policy
  <1>2. [l \in List |-> NormalizeWords(policy.words[l], limit)] \in [List -> Seq(Word)]
    BY <1>1, NormalWordsFit
  <1>3. QED
    BY <1>2, NewWords DEF NormalizePolicy

LEMMA NormalizedAll ==
    ASSUME NEW groups, IsPolicies(groups), NEW limit \in Settings
    PROVE  IsMap(NormalizeAll(groups, limit))
  <1>1. \A g \in DOMAIN groups : NormalizePolicy(groups[g], limit) \in Policy /\ g \in Group
    BY NormalizedType DEF IsPolicies
  <1>2. QED
    BY <1>1 DEF NormalizeAll, IsMap, IsPolicies

LEMMA RequestCases ==
    ASSUME NEW r \in Requests
    PROVE  /\ r.op \in {"set", "add", "remove"} /\ r.group \in Group
           /\ r.op = "set" => r.flag \in Flag /\ r.value \in Value
           /\ r.op # "set" => r.list \in List /\ r.words \in Seq(Word)
  BY PolicyAssumption DEF Value

(* What a command makes of a policy. *)
FlagChanged(new, old, r) ==
    /\ new \in Policy
    /\ new.words = old.words
    /\ \A f \in Flag : new.flags[f] = IF f = r.flag THEN r.value ELSE old.flags[f]

WordsChanged(new, old, r, item, limit) ==
    /\ new \in Policy /\ new.flags = old.flags
    /\ \A l \in List : l # r.list => new.words[l] = old.words[l]
    /\ r.op = "add" /\ new # old =>
           /\ item \notin ToSet(old.words[r.list]) /\ ~(Len(old.words[r.list]) >= limit)
           /\ new.words[r.list] = Append(old.words[r.list], item)
    /\ r.op = "remove" => new.words[r.list] = Only(old.words[r.list], Word \ {item})

LEMMA ChangeOfFlag ==
    ASSUME NEW old \in Policy, NEW r \in Requests, r.op = "set", NEW item, NEW limit
    PROVE  FlagChanged(Changed(old, r, item, limit), old, r)
  <1> DEFINE flags == [old.flags EXCEPT ![r.flag] = r.value]
  <1>1. flags \in [Flag -> Value]
        /\ \A f \in Flag : flags[f] = IF f = r.flag THEN r.value ELSE old.flags[f]
    BY RequestCases DEF Policy
  <1>2. Changed(old, r, item, limit) = [old EXCEPT !.flags = flags]
    BY DEF Changed, Policy
  <1> HIDE DEF flags
  <1>3. /\ [old EXCEPT !.flags = flags] \in Policy
        /\ [old EXCEPT !.flags = flags].flags = flags
        /\ [old EXCEPT !.flags = flags].words = old.words
    BY <1>1, NewFlags
  <1>4. QED
    BY <1>1, <1>2, <1>3 DEF FlagChanged

LEMMA ChangeOfWords ==
    ASSUME NEW old \in Policy, NEW r \in Requests, r.op # "set", NEW item \in Word, NEW limit
    PROVE  WordsChanged(Changed(old, r, item, limit), old, r, item, limit)
  <1> SUFFICES ASSUME NEW new, new = Changed(old, r, item, limit)
               PROVE  WordsChanged(new, old, r, item, limit)
    OBVIOUS
  <1>1. r.list \in List /\ r.op \in {"add", "remove"} /\ old.words \in [List -> Seq(Word)]
    BY RequestCases DEF Policy
  <1>2. ASSUME NEW s \in Seq(Word), new = [old EXCEPT !.words[r.list] = s]
        PROVE  /\ new \in Policy /\ new.flags = old.flags
               /\ \A l \in List : l # r.list => new.words[l] = old.words[l]
               /\ new.words[r.list] = s
    <2> DEFINE words == [old.words EXCEPT ![r.list] = s]
    <2>1. words \in [List -> Seq(Word)]
      BY <1>1
    <2>2. new = [old EXCEPT !.words = words]
      BY <1>2 DEF Policy
    <2>3. words[r.list] = s /\ \A l \in List : l # r.list => words[l] = old.words[l]
      BY <1>1
    <2> HIDE DEF words
    <2>4. QED
      BY <2>1, <2>2, <2>3, NewWords
  <1>3. CASE r.op = "add" /\ new # old
    <2>1. /\ item \notin ToSet(old.words[r.list]) /\ ~(Len(old.words[r.list]) >= limit)
          /\ new = [old EXCEPT !.words[r.list] = Append(@, item)]
      BY <1>3 DEF Changed
    <2>2. Append(old.words[r.list], item) \in Seq(Word)
      BY <1>1
    <2>3. new = [old EXCEPT !.words[r.list] = Append(old.words[r.list], item)]
      BY <2>1
    <2>4. QED
      BY <1>2, <1>3, <2>1, <2>2, <2>3 DEF WordsChanged
  <1>4. CASE r.op = "add" /\ new = old
    <2>1. new \in Policy
      BY <1>4
    <2>2. QED
      BY <1>4, <2>1 DEF WordsChanged
  <1>5. CASE r.op = "remove"
    <2>1. new = [old EXCEPT !.words[r.list] = Only(old.words[r.list], Word \ {item})]
      BY <1>5 DEF Changed
    <2>2. Only(old.words[r.list], Word \ {item}) \in Seq(Word)
      BY <1>1, OnlyKeeps
    <2>3. QED
      BY <1>2, <1>5, <2>1, <2>2 DEF WordsChanged
  <1>6. QED
    BY <1>1, <1>3, <1>4, <1>5

(* The first word of a command, and the rest of it. *)
LEMMA TodoRest ==
    ASSUME Shapes, NEW t \in Task, task[t] # Idle, TodoFits(task[t])
    PROVE  /\ task[t] \in Busy
           /\ task[t].request.op # "set" => Head(task[t].todo) \in Word
           /\ task[t].request.op = "add" =>
                  WordLength[Head(task[t].todo)] <= settings[task[t].inst].length
           /\ \/ MovedOn(task[t]) = Idle
              \/ /\ MovedOn(task[t]) \in Busy
                 /\ MovedOn(task[t]) # Idle
                 /\ MovedOn(task[t]).pc = "waiting"
                 /\ MovedOn(task[t]).inst = task[t].inst
                 /\ MovedOn(task[t]).request = task[t].request
                 /\ TodoFits(MovedOn(task[t]))
  <1> DEFINE c == task[t]
  <1>1. c \in Busy /\ c.todo \in Seq(Word \cup {"flag"}) /\ c.todo # <<>>
    BY DEF Shapes, Busy, TodoFits
  <1>2. \A S : c.todo \in Seq(S) => /\ Head(c.todo) \in S /\ Head(c.todo) = c.todo[1]
                                    /\ Tail(c.todo) \in Seq(S)
    BY <1>1
  <1>3. Len(c.todo) \in Nat /\ 1 \in 1 .. Len(c.todo)
    BY <1>1
  <1>4. c.request.op # "set" => Head(c.todo) \in Word
    BY <1>2 DEF TodoFits
  <1>5. c.request.op = "add" => WordLength[Head(c.todo)] <= settings[c.inst].length
    BY <1>1, <1>2, <1>3 DEF TodoFits
  <1>6. ASSUME Len(c.todo) # 1
        PROVE  /\ MovedOn(c) \in Busy /\ MovedOn(c) # Idle /\ MovedOn(c).pc = "waiting"
               /\ MovedOn(c).inst = c.inst /\ MovedOn(c).request = c.request
               /\ TodoFits(MovedOn(c))
    <2>1. /\ Tail(c.todo) # <<>>
          /\ Len(Tail(c.todo)) = Len(c.todo) - 1
          /\ \A n \in 1 .. Len(Tail(c.todo)) : Tail(c.todo)[n] = c.todo[n + 1]
      <3>1. PICK s \in Seq(Word \cup {"flag"}) : s = c.todo
        BY <1>1
      <3>2. /\ Len(Tail(s)) = Len(s) - 1
            /\ \A n \in 1 .. Len(Tail(s)) : Tail(s)[n] = s[n + 1]
        BY <1>1, <3>1, HeadTailProperties
      <3>3. Len(s) # 1 /\ Len(s) \in Nat \ {0}
        BY <1>3, <1>6, <3>1
      <3>4. Tail(s) # <<>>
        <4>1. Len(Tail(s)) # 0
          BY <3>2, <3>3
        <4>2. Len(<<>>) = 0
          OBVIOUS
        <4>3. QED
          BY <4>1, <4>2, Zenon
      <3>5. QED
        BY <3>1, <3>2, <3>4
    <2>2. MovedOn(c) = [c EXCEPT !.pc = "waiting", !.todo = Tail(c.todo)]
      BY <1>6 DEF MovedOn
    <2>3. MovedOn(c) = [pc |-> "waiting", inst |-> c.inst, request |-> c.request,
                        todo |-> Tail(c.todo)]
      BY <1>1, <2>2 DEF Busy
    <2>4. MovedOn(c) \in Busy
      BY <1>1, <1>2, <2>3 DEF Busy
    <2>5. MovedOn(c) # Idle
      BY <2>3 DEF Idle
    <2>6. \A n \in 1 .. Len(Tail(c.todo)) : n + 1 \in 1 .. Len(c.todo)
      BY <1>3, <2>1
    <2>7. TodoFits(MovedOn(c))
      BY <1>2, <2>1, <2>3, <2>6 DEF TodoFits
    <2>8. /\ MovedOn(c).pc = "waiting" /\ MovedOn(c).inst = c.inst
          /\ MovedOn(c).request = c.request
      BY <2>3
    <2>9. QED
      BY <2>4, <2>5, <2>7, <2>8
  <1>7. Len(c.todo) = 1 => MovedOn(c) = Idle
    BY DEF MovedOn
  <1> HIDE DEF c
  <1>8. QED
    BY <1>1, <1>4, <1>5, <1>6, <1>7 DEF c

(* What a change of the promise leaves alone. *)
LEMMA PromiseChange ==
    ASSUME promise \in [Group -> Promised], NEW r \in Requests, NEW item, NEW v,
           r.op = "set" => v \in Value \cup {"unsure"},
           r.op # "set" => item \in Word /\ v \in {"unsure", "in", "out"},
           NEW p, p = PromiseOf(r, item, v)
    PROVE  /\ p \in [Group -> Promised]
           /\ \A g \in Group, f \in Flag :
                 p[g].flags[f] = IF r.op = "set" /\ g = r.group /\ f = r.flag THEN v
                                 ELSE promise[g].flags[f]
           /\ \A g \in Group, l \in List, w \in Word :
                 p[g].words[l][w] = IF r.op # "set" /\ g = r.group /\ l = r.list /\ w = item THEN v
                                    ELSE promise[g].words[l][w]
  <1> DEFINE o == promise[r.group]
  <1>1. r.group \in Group /\ o \in Promised /\ o = [flags |-> o.flags, words |-> o.words]
    BY RequestCases DEF Promised
  <1>2. o.flags \in [Flag -> Value \cup {"unsure"}]
        /\ o.words \in [List -> [Word -> {"unsure", "in", "out"}]]
    BY <1>1 DEF Promised
  <1>3. ASSUME NEW n, n \in Promised, p = [promise EXCEPT ![r.group] = n]
        PROVE  /\ p \in [Group -> Promised]
               /\ p[r.group] = n
               /\ \A g \in Group : g # r.group => p[g] = promise[g]
    BY <1>1, <1>3
  <1>4. CASE r.op = "set"
    <2> DEFINE flags == [o.flags EXCEPT ![r.flag] = v]
               n == [flags |-> flags, words |-> o.words]
    <2>1. r.flag \in Flag /\ v \in Value \cup {"unsure"}
      BY <1>4, RequestCases
    <2>2. flags \in [Flag -> Value \cup {"unsure"}]
      BY <1>2, <2>1
    <2>3. \A f \in Flag : flags[f] = IF f = r.flag THEN v ELSE o.flags[f]
      BY <1>2, <2>1
    <2>4. n \in Promised
      BY <1>2, <2>2 DEF Promised
    <2>5. p = [promise EXCEPT ![r.group] = n]
      <3>1. [o EXCEPT !.flags[r.flag] = v] = n
        BY <1>1
      <3>2. p = [promise EXCEPT ![r.group] = [o EXCEPT !.flags[r.flag] = v]]
        BY <1>4 DEF PromiseOf
      <3>3. QED
        BY <3>1, <3>2
    <2>6. n.flags = flags /\ n.words = o.words
      OBVIOUS
    <2> HIDE DEF n, flags
    <2>7. /\ p \in [Group -> Promised] /\ p[r.group] = n
          /\ \A g \in Group : g # r.group => p[g] = promise[g]
      BY <1>3, <2>4, <2>5
    <2>8. QED
      BY <1>4, <2>3, <2>6, <2>7
  <1>5. CASE r.op # "set"
    <2> DEFINE col == [o.words[r.list] EXCEPT ![item] = v]
               words == [o.words EXCEPT ![r.list] = col]
               n == [flags |-> o.flags, words |-> words]
    <2>1. r.list \in List /\ item \in Word /\ v \in {"unsure", "in", "out"}
      BY <1>5, RequestCases
    <2>2. col \in [Word -> {"unsure", "in", "out"}]
          /\ \A w \in Word : col[w] = IF w = item THEN v ELSE o.words[r.list][w]
      BY <1>2, <2>1
    <2>3. [o EXCEPT !.words[r.list][item] = v] = n
      BY <1>1
    <2> HIDE DEF col
    <2>4. words \in [List -> [Word -> {"unsure", "in", "out"}]]
          /\ \A l \in List : words[l] = IF l = r.list THEN col ELSE o.words[l]
      BY <1>2, <2>1, <2>2
    <2>5. n.flags = o.flags /\ n.words = words
      OBVIOUS
    <2> HIDE DEF words
    <2>6. n \in Promised
      BY <1>2, <2>4 DEF Promised
    <2>7. p = [promise EXCEPT ![r.group] = n]
      <3>1. p = [promise EXCEPT ![r.group] = [o EXCEPT !.words[r.list][item] = v]]
        BY <1>5 DEF PromiseOf
      <3>2. QED
        BY <2>3, <3>1
    <2> HIDE DEF n
    <2>8. /\ p \in [Group -> Promised] /\ p[r.group] = n
          /\ \A g \in Group : g # r.group => p[g] = promise[g]
      BY <1>3, <2>6, <2>7
    <2>9. QED
      BY <1>5, <2>2, <2>4, <2>5, <2>8
  <1>6. QED
    BY <1>4, <1>5

LEMMA PromiseTypes ==
    /\ Unsure \in [Group -> Promised]
    /\ \A groups : IsPolicies(groups) => Certain(groups) \in [Group -> Promised]
  <1>1. Unsure \in [Group -> Promised]
    BY DEF Unsure, Nothing, Promised
  <1>2. ASSUME NEW groups, IsPolicies(groups)
        PROVE  Certain(groups) \in [Group -> Promised]
    <2>1. \A g \in Group : PolicyOf(groups, g).flags \in [Flag -> Value]
      BY <1>2, PolicyOfType DEF Policy
    <2>2. QED
      BY <2>1 DEF Certain, Promised
  <1>3. QED
    BY <1>1, <1>2

-----------------------------------------------------------------------------
(* The shapes, what is left to do, the lock, and what is not loaded. *)

LEMMA NoPoliciesMap == IsMap(NoPolicies) /\ DOMAIN NoPolicies = {}
  BY DEF NoPolicies, IsMap, IsPolicies

LEMMA BaseInit == Init => Base
  <1> SUFFICES ASSUME Init PROVE Base
    OBVIOUS
  <1>1. IsPolicies(stored)
    BY PolicyAssumption DEF Init
  <1>2. promise \in [Group -> Promised]
    BY <1>1, PromiseTypes DEF Init
  <1>3. cur \in Instance
    BY PolicyAssumption DEF Init, Instance
  <1>4. Shapes
    BY <1>1, <1>2, <1>3, NoPoliciesMap DEF Init, Shapes, Phase, Free
  <1>5. \A t \in Task : task[t] = Idle /\ task[t].pc = "idle"
    BY DEF Init, Idle
  <1>6. Commanded /\ Locked
    BY <1>5 DEF Commanded, Locked, Locking
  <1>7. Unloaded
    BY DEF Init, Unloaded
  <1>8. QED
    BY <1>4, <1>6, <1>7 DEF Base

(* No command belongs to an instance that is being loaded. *)
LEMMA LoadKeepsCommands ==
    ASSUME Base, Load
    PROVE  /\ Commanded' /\ Locked'
           /\ UNCHANGED <<file, cur, settings, holder, task>>
           /\ \A t \in Task : task[t] # Idle => task[t].inst < cur
           /\ phase # "up"
  <1>1. phase # "up" /\ UNCHANGED <<file, cur, settings, holder, task>>
    <2>1. CASE \E l \in List : LoadWords(l)
      BY <2>1 DEF LoadWords, List
    <2>2. CASE LoadFails
      BY <2>2 DEF LoadFails
    <2>3. QED
      BY <2>1, <2>2 DEF Load, StartLoad, SkipImport, DecideImport, Import, LoadFlags
  <1>2. \A t \in Task : task[t] # Idle => task[t].inst < cur
    <2>1. \A t \in Task : task[t] # Idle =>
              task[t].inst \in Instance /\ task[t].inst <= cur /\ task[t].inst # cur
      BY <1>1 DEF Base, Shapes, Commanded, Placed, Busy
    <2>2. cur \in Instance
      BY DEF Base, Shapes
    <2>3. QED
      BY <2>1, <2>2, PolicyAssumption DEF Instance
  <1>3. ASSUME NEW t \in Task, task'[t] # Idle
        PROVE  TodoFits(task[t])' /\ Placed(task[t])'
    <2>1. task[t] # Idle /\ task'[t] = task[t] /\ TodoFits(task[t]) /\ Placed(task[t])
      BY <1>1, <1>3 DEF Base, Commanded
    <2>2. TodoFits(task[t])'
      BY <1>1, <2>1 DEF TodoFits
    <2>3. task[t].inst < cur /\ task[t].inst \in Nat /\ cur \in Nat
      BY <1>2, <2>1, PolicyAssumption DEF Base, Shapes, Busy, Instance
    <2>4. Placed(task[t])'
      BY <1>1, <2>1, <2>3 DEF Placed
    <2>5. QED
      BY <2>2, <2>4
  <1>4. Commanded'
    BY <1>3 DEF Commanded
  <1>5. Locked'
    BY <1>1 DEF Base, Locked
  <1>6. QED
    BY <1>1, <1>2, <1>4, <1>5

(* Memory after one instance has new policies. *)
LEMMA MemoryWith ==
    ASSUME Shapes, NEW i \in Instance, NEW groups, IsMap(groups),
           memory' = [memory EXCEPT ![i] = groups]
    PROVE  /\ DOMAIN memory' = Instance /\ memory'[i] = groups
           /\ \A j \in Instance : IsMap(memory'[j])
           /\ \A j \in Instance : j # i => memory'[j] = memory[j]
  BY DEF Shapes

LEMMA StandingWith ==
    ASSUME Shapes, NEW i \in Instance, NEW s \in {"same", "ahead", "other"},
           standing' = [standing EXCEPT ![i] = s]
    PROVE  /\ standing' \in [Instance -> {"same", "ahead", "other"}] /\ standing'[i] = s
           /\ \A j \in Instance : j # i => standing'[j] = standing[j]
  BY DEF Shapes

(* What the load has read is a map of policies. *)
LEMMA ReadTypes ==
    ASSUME Shapes
    PROVE  /\ IsMap([g \in DOMAIN stored |-> [NewPolicy EXCEPT !.flags = stored[g].flags]])
           /\ \A l \in List :
                 IsMap([g \in DOMAIN memory[cur] \cup {h \in DOMAIN stored : stored[h].words[l] # <<>>} |->
                           IF g \in DOMAIN stored /\ stored[g].words[l] # <<>>
                           THEN [PolicyOf(memory[cur], g) EXCEPT
                                    !.words[l] = NormalizeWords(stored[g].words[l], settings[cur])]
                           ELSE PolicyOf(memory[cur], g)])
  <1>1. /\ IsPolicies(stored) /\ IsMap(memory[cur]) /\ IsPolicies(memory[cur])
        /\ settings[cur] \in Settings /\ cur \in Instance
    BY DEF Shapes, IsMap
  <1>2. \A g \in DOMAIN stored : stored[g] \in Policy /\ g \in Group
    BY <1>1 DEF IsPolicies
  <1>3. \A g \in DOMAIN stored : [NewPolicy EXCEPT !.flags = stored[g].flags] \in Policy
    <2> TAKE g \in DOMAIN stored
    <2>1. stored[g].flags \in [Flag -> Value]
      BY <1>2 DEF Policy
    <2>2. QED
      BY <2>1, NewPolicyType, NewFlags
  <1>4. IsMap([g \in DOMAIN stored |-> [NewPolicy EXCEPT !.flags = stored[g].flags]])
    BY <1>2, <1>3 DEF IsMap, IsPolicies
  <1>5. ASSUME NEW l \in List
        PROVE  IsMap([g \in DOMAIN memory[cur] \cup {h \in DOMAIN stored : stored[h].words[l] # <<>>} |->
                           IF g \in DOMAIN stored /\ stored[g].words[l] # <<>>
                           THEN [PolicyOf(memory[cur], g) EXCEPT
                                    !.words[l] = NormalizeWords(stored[g].words[l], settings[cur])]
                           ELSE PolicyOf(memory[cur], g)])
    <2> DEFINE D == DOMAIN memory[cur] \cup {h \in DOMAIN stored : stored[h].words[l] # <<>>}
               P(g) == IF g \in DOMAIN stored /\ stored[g].words[l] # <<>>
                       THEN [PolicyOf(memory[cur], g) EXCEPT
                                !.words[l] = NormalizeWords(stored[g].words[l], settings[cur])]
                       ELSE PolicyOf(memory[cur], g)
    <2>1. D \subseteq Group
      BY <1>1, <1>2 DEF IsPolicies
    <2>2. \A g \in D : PolicyOf(memory[cur], g) \in Policy
      BY <1>1, PolicyOfType
    <2>3. ASSUME NEW g \in D, g \in DOMAIN stored
          PROVE  [PolicyOf(memory[cur], g) EXCEPT
                     !.words[l] = NormalizeWords(stored[g].words[l], settings[cur])] \in Policy
      <3>1. stored[g].words[l] \in Seq(Word)
        BY <1>2, <2>3 DEF Policy
      <3>2. PICK s \in Seq(Word) : s = NormalizeWords(stored[g].words[l], settings[cur])
        BY <1>1, <3>1, NormalWordsFit
      <3>3. PICK policy \in Policy : policy = PolicyOf(memory[cur], g)
        BY <2>2
      <3>4. [policy EXCEPT !.words[l] = s] \in Policy
        BY DEF Policy
      <3>5. QED
        BY <3>2, <3>3, <3>4
    <2>4. \A g \in D : P(g) \in Policy
      BY <2>2, <2>3
    <2> HIDE DEF D, P
    <2>5. IsMap([g \in D |-> P(g)])
      BY <2>1, <2>4 DEF IsMap, IsPolicies
    <2>6. QED
      BY <2>5 DEF D, P
  <1>6. QED
    BY <1>4, <1>5

LEMMA BaseLoad == Base /\ Load => Base'
  <1> SUFFICES ASSUME Base, Load PROVE Base'
    OBVIOUS
  <1>0. /\ Commanded' /\ Locked' /\ UNCHANGED <<file, cur, settings, holder, task>> /\ Shapes
        /\ Unloaded
    BY LoadKeepsCommands DEF Base
  <1>1. Shapes /\ cur \in Instance /\ \A j \in Instance : j > cur => j # cur
    BY PolicyAssumption DEF Base, Shapes, Instance
  <1>2. ASSUME phase' \in Phase, IsPolicies(stored)', promise' \in [Group -> Promised],
               DOMAIN memory' = Instance, \A j \in Instance : IsMap(memory'[j]),
               standing' \in [Instance -> {"same", "ahead", "other"}],
               Unloaded'
        PROVE  Base'
    <2>1. Shapes'
      BY <1>0, <1>1, <1>2 DEF Shapes
    <2>2. QED
      BY <1>0, <1>2, <2>1 DEF Base
  <1>3. CASE StartLoad \/ SkipImport \/ DecideImport
    <2>1. /\ UNCHANGED <<stored, promise, memory, standing>>
          /\ phase \in {"down", "import"} /\ phase' \in {"import", "policies", "write"}
      BY <1>3 DEF StartLoad, SkipImport, DecideImport
    <2>2. Unloaded'
      BY <1>0, <2>1 DEF Unloaded, Unread
    <2>3. QED
      BY <1>1, <1>2, <2>1, <2>2 DEF Shapes, Phase
  <1>4. CASE Import
    <2>1. /\ stored' = NormalizeAll(file.groups, settings[cur])
          /\ promise' = Certain(stored') /\ UNCHANGED memory
          /\ standing' = [i \in Instance |-> "other"]
          /\ phase = "write" /\ phase' = "policies"
      BY <1>4 DEF Import
    <2>2. IsPolicies(file.groups)
      BY <1>1, PolicyAssumption DEF Shapes
    <2>3. IsPolicies(stored)'
      BY <1>1, <2>1, <2>2, NormalizedAll DEF Shapes, IsMap
    <2>4. promise' \in [Group -> Promised]
      BY <2>1, <2>3, PromiseTypes
    <2>5. Unloaded'
      BY <1>0, <2>1 DEF Unloaded, Unread
    <2>6. QED
      BY <1>1, <1>2, <2>1, <2>3, <2>4, <2>5 DEF Shapes, Phase
  <1>5. CASE LoadFlags
    <2> DEFINE groups == [g \in DOMAIN stored |-> [NewPolicy EXCEPT !.flags = stored[g].flags]]
               s == IF stored = NormalizeAll(stored, settings[cur]) THEN "same" ELSE "other"
    <2>1. /\ memory' = [memory EXCEPT ![cur] = groups]
          /\ standing' = [standing EXCEPT ![cur] = s]
          /\ phase' = "custom" /\ UNCHANGED <<stored, promise>>
      BY <1>5 DEF LoadFlags
    <2>2. IsMap(groups) /\ s \in {"same", "ahead", "other"}
      BY <1>1, ReadTypes
    <2> HIDE DEF groups, s
    <2>3. /\ DOMAIN memory' = Instance /\ \A j \in Instance : IsMap(memory'[j])
          /\ \A j \in Instance : j # cur => memory'[j] = memory[j]
      BY <1>1, <2>1, <2>2, MemoryWith
    <2>4. /\ standing' \in [Instance -> {"same", "ahead", "other"}]
          /\ \A j \in Instance : j # cur => standing'[j] = standing[j]
      BY <1>1, <2>1, <2>2, StandingWith
    <2>5. Unloaded'
      BY <1>0, <1>1, <2>1, <2>3, <2>4 DEF Unloaded, Unread
    <2>6. QED
      BY <1>1, <1>2, <2>1, <2>3, <2>4, <2>5 DEF Shapes, Phase
  <1>6. ASSUME NEW l \in List, LoadWords(l) PROVE Base'
    <2> DEFINE groups ==
            [g \in DOMAIN memory[cur] \cup {h \in DOMAIN stored : stored[h].words[l] # <<>>} |->
                IF g \in DOMAIN stored /\ stored[g].words[l] # <<>>
                THEN [PolicyOf(memory[cur], g) EXCEPT
                         !.words[l] = NormalizeWords(stored[g].words[l], settings[cur])]
                ELSE PolicyOf(memory[cur], g)]
    <2>1. /\ memory' = [memory EXCEPT ![cur] = groups]
          /\ phase = l /\ phase' \in {"bypass", "up"} /\ UNCHANGED <<stored, promise, standing>>
      BY <1>6 DEF LoadWords
    <2>2. IsMap(groups)
      BY <1>1, ReadTypes
    <2> HIDE DEF groups
    <2>3. /\ DOMAIN memory' = Instance /\ \A j \in Instance : IsMap(memory'[j])
          /\ \A j \in Instance : j # cur => memory'[j] = memory[j]
      BY <1>1, <2>1, <2>2, MemoryWith
    <2>4. Unloaded'
      BY <1>0, <1>1, <2>1, <2>3 DEF Unloaded, Unread, List
    <2>5. QED
      BY <1>1, <1>2, <2>1, <2>3, <2>4 DEF Shapes, Phase
  <1>7. CASE LoadFails
    <2>1. /\ memory' = [memory EXCEPT ![cur] = NoPolicies]
          /\ standing' = [standing EXCEPT ![cur] = "other"]
          /\ phase' = "up" /\ UNCHANGED <<stored, promise>>
      BY <1>7 DEF LoadFails
    <2>2. /\ DOMAIN memory' = Instance /\ \A j \in Instance : IsMap(memory'[j])
          /\ \A j \in Instance : j # cur => memory'[j] = memory[j]
      BY <1>1, <2>1, NoPoliciesMap, MemoryWith
    <2>3. /\ standing' \in [Instance -> {"same", "ahead", "other"}]
          /\ \A j \in Instance : j # cur => standing'[j] = standing[j]
      BY <1>1, <2>1, StandingWith
    <2>4. Unloaded'
      BY <1>0, <2>1, <2>2, <2>3 DEF Unloaded, Unread
    <2>5. QED
      BY <1>1, <1>2, <2>1, <2>2, <2>3, <2>4 DEF Shapes, Phase
  <1>8. QED
    BY <1>3, <1>4, <1>5, <1>6, <1>7 DEF Load

(* The task of a command changes, and only it. *)
LEMMA TaskWith ==
    ASSUME Shapes, Commanded, NEW t \in Task, NEW c, c = Idle \/ c \in Busy,
           task' = [task EXCEPT ![t] = c], UNCHANGED <<cur, phase, settings>>,
           c # Idle => TodoFits(c) /\ Placed(c)
    PROVE  /\ DOMAIN task' = Task /\ task'[t] = c
           /\ \A u \in Task : u # t => task'[u] = task[u]
           /\ \A u \in Task : task'[u] = Idle \/ task'[u] \in Busy
           /\ Commanded'
  <1>1. /\ DOMAIN task' = Task /\ task'[t] = c
        /\ \A u \in Task : u # t => task'[u] = task[u]
    BY DEF Shapes
  <1>2. \A u \in Task : task'[u] = Idle \/ task'[u] \in Busy
    BY <1>1 DEF Shapes
  <1>3. ASSUME NEW u \in Task, task'[u] # Idle
        PROVE  TodoFits(task[u])' /\ Placed(task[u])'
    <2>1. TodoFits(task'[u]) /\ Placed(task'[u])
      <3>1. CASE u = t
        BY <1>1, <1>3, <3>1
      <3>2. CASE u # t
        BY <1>1, <1>3, <3>2 DEF Commanded
      <3>3. QED
        BY <3>1, <3>2
    <2>2. QED
      BY <2>1 DEF TodoFits, Placed
  <1>4. QED
    BY <1>1, <1>2, <1>3 DEF Commanded

(* A command that works is one: it has an instance, a request and words. *)
LEMMA Working ==
    ASSUME Base, NEW t \in Task, task[t].pc # "idle"
    PROVE  /\ task[t] # Idle /\ task[t] \in Busy
           /\ TodoFits(task[t]) /\ Placed(task[t])
           /\ task[t].inst \in Instance /\ task[t].request \in Requests
           /\ ~Unread(task[t].inst)
           /\ task[t].pc \in {"waiting", "saving", "saved", "failed"}
  <1>1. task[t] # Idle /\ task[t] \in Busy /\ TodoFits(task[t]) /\ Placed(task[t])
    BY DEF Idle, Base, Shapes, Commanded
  <1>2. task[t].inst \in Nat /\ cur \in Nat
    BY <1>1, PolicyAssumption DEF Base, Shapes, Busy, Instance
  <1>3. ~Unread(task[t].inst)
    BY <1>1, <1>2 DEF Placed, Unread
  <1>4. QED
    BY <1>1, <1>3 DEF Busy

LEMMA TaskMoves ==
    ASSUME Base, NEW t \in Task, task[t].pc # "idle",
           NEW pc \in {"waiting", "saving", "saved", "failed"},
           task' = [task EXCEPT ![t].pc = pc], UNCHANGED <<cur, phase, settings>>
    PROVE  /\ DOMAIN task' = Task
           /\ task'[t] \in Busy /\ task'[t].pc = pc /\ task'[t].inst = task[t].inst
           /\ task'[t].request = task[t].request /\ task'[t].todo = task[t].todo
           /\ \A u \in Task : u # t => task'[u] = task[u]
           /\ \A u \in Task : task'[u] = Idle \/ task'[u] \in Busy
           /\ Commanded'
  <1> DEFINE c == [task[t] EXCEPT !.pc = pc]
  <1>1. task[t] \in Busy /\ TodoFits(task[t]) /\ Placed(task[t])
    BY Working
  <1>2. task' = [task EXCEPT ![t] = c]
    OBVIOUS
  <1>3. /\ c \in Busy /\ c.pc = pc /\ c.inst = task[t].inst
        /\ c.request = task[t].request /\ c.todo = task[t].todo
    BY <1>1 DEF Busy
  <1> HIDE DEF c
  <1>4. TodoFits(c) /\ Placed(c)
    BY <1>1, <1>3 DEF TodoFits, Placed
  <1>5. QED
    BY <1>2, <1>3, <1>4, TaskWith DEF Base

LEMMA HolderWith ==
    ASSUME Shapes, NEW i \in Instance, NEW h \in Task \cup {Free},
           holder' = [holder EXCEPT ![i] = h]
    PROVE  /\ holder' \in [Instance -> Task \cup {Free}] /\ holder'[i] = h
           /\ \A j \in Instance : j # i => holder'[j] = holder[j]
  BY DEF Shapes

(* The lock has one holder, so no other command is in its section. *)
LEMMA LockIsExclusive ==
    ASSUME Base, NEW t \in Task, task[t].pc # "idle",
           holder[task[t].inst] = Free \/ holder[task[t].inst] = t,
           NEW u \in Task, u # t, task[u].pc \in Locking
    PROVE  task[u].inst # task[t].inst /\ task[u].inst \in Instance
  <1>1. holder[task[u].inst] = u /\ u # Free
    BY PolicyAssumption DEF Base, Locked, Free
  <1>2. task[u].pc # "idle"
    BY DEF Locking
  <1>3. QED
    BY <1>1, <1>2, Working

LEMMA ArriveWrites ==
    ASSUME Base, NEW t \in Task, NEW r \in Requests, Arrive(t, r)
    PROVE  /\ DOMAIN task' = Task /\ task'[t].pc = "waiting"
           /\ \A u \in Task : u # t => task'[u] = task[u]
           /\ \A u \in Task : task'[u] = Idle \/ task'[u] \in Busy
           /\ Commanded'
  <1> DEFINE todo == Todo(r, cur)
             c == [pc |-> "waiting", inst |-> cur, request |-> r, todo |-> todo]
  <1>1. /\ task' = [task EXCEPT ![t] = c] /\ UNCHANGED <<cur, phase, settings>>
        /\ phase = "up" /\ todo # <<>>
    BY DEF Arrive
  <1>2. Shapes /\ Commanded /\ cur \in Instance /\ settings[cur] \in Settings
    BY DEF Base, Shapes
  <1>3. /\ todo \in Seq(Word \cup {"flag"})
        /\ r.op # "set" => todo \in Seq(Word)
        /\ r.op = "add" => \A n \in 1 .. Len(todo) : WordLength[todo[n]] <= settings[cur].length
    <2>1. CASE r.op = "set"
      BY <2>1 DEF Todo
    <2>2. CASE r.op = "add"
      <3> DEFINE short == {w \in Word : WordLength[w] <= settings[cur].length}
      <3>1. r.words \in Seq(Word)
        BY <2>2, RequestCases
      <3>2. todo = Only(r.words, short)
        BY <2>2 DEF Todo
      <3>3. todo \in Seq(Word) /\ ToSet(todo) \subseteq short
        BY <3>1, <3>2, OnlyKeeps
      <3>4. \A n \in 1 .. Len(todo) : todo[n] \in ToSet(todo)
        BY <3>3, SetOfWords
      <3> HIDE DEF todo
      <3>5. todo \in Seq(Word \cup {"flag"})
        BY <3>3, SeqMonotonic
      <3>6. QED
        BY <2>2, <3>3, <3>4, <3>5
    <2>3. CASE r.op = "remove"
      <3>1. r.words \in Seq(Word) /\ todo = r.words
        BY <2>3, RequestCases DEF Todo
      <3> HIDE DEF todo
      <3>2. todo \in Seq(Word \cup {"flag"})
        BY <3>1, SeqMonotonic
      <3>3. QED
        BY <2>3, <3>1, <3>2
    <2>4. QED
      BY <2>1, <2>2, <2>3, RequestCases
  <1> HIDE DEF todo
  <1>4. /\ c \in Busy /\ c.pc = "waiting" /\ c.inst = cur /\ c.request = r /\ c.todo = todo
    BY <1>2, <1>3 DEF Busy
  <1> HIDE DEF c
  <1>5. TodoFits(c)
    BY <1>1, <1>3, <1>4 DEF TodoFits
  <1>6. Placed(c)
    BY <1>1, <1>2, <1>4, PolicyAssumption DEF Placed, Instance
  <1>7. QED
    BY <1>1, <1>2, <1>4, <1>5, <1>6, TaskWith

(* A command goes on with its next word. *)
LEMMA NextWord ==
    ASSUME Base, NEW t \in Task, task[t].pc # "idle",
           task' = [task EXCEPT ![t] = MovedOn(task[t])], UNCHANGED <<cur, phase, settings>>
    PROVE  /\ DOMAIN task' = Task /\ task'[t].pc \in {"idle", "waiting"}
           /\ \A u \in Task : u # t => task'[u] = task[u]
           /\ \A u \in Task : task'[u] = Idle \/ task'[u] \in Busy
           /\ Commanded'
  <1>1. task[t] # Idle /\ TodoFits(task[t]) /\ Placed(task[t]) /\ Shapes /\ Commanded
    BY Working DEF Base
  <1>2. PICK c : c = MovedOn(task[t])
    OBVIOUS
  <1>3. \/ c = Idle
        \/ /\ c \in Busy /\ c.pc = "waiting" /\ c.inst = task[t].inst /\ TodoFits(c)
    BY <1>1, <1>2, TodoRest
  <1>4. c # Idle => TodoFits(c) /\ Placed(c)
    BY <1>1, <1>3 DEF Placed
  <1>5. c.pc \in {"idle", "waiting"}
    BY <1>3 DEF Idle
  <1>6. QED
    BY <1>1, <1>2, <1>3, <1>4, <1>5, TaskWith

LEMMA BaseCommand ==
    ASSUME Base, NEW t \in Task, Command(t)
    PROVE  Base'
  <1>0. Shapes /\ Commanded /\ Locked /\ Unloaded /\ cur \in Instance
    BY DEF Base, Shapes
  <1>1. ASSUME UNCHANGED <<file, cur, phase, settings>>, IsPolicies(stored)',
               promise' \in [Group -> Promised],
               DOMAIN memory' = Instance, \A j \in Instance : IsMap(memory'[j]),
               standing' \in [Instance -> {"same", "ahead", "other"}],
               holder' \in [Instance -> Task \cup {Free}],
               DOMAIN task' = Task, \A u \in Task : task'[u] = Idle \/ task'[u] \in Busy,
               Commanded', Locked',
               \A j \in Instance : Unread(j) => standing'[j] = standing[j] /\ memory'[j] = memory[j]
        PROVE  Base'
    <2>1. Shapes'
      BY <1>0, <1>1 DEF Shapes
    <2>2. Unloaded'
      BY <1>0, <1>1 DEF Unloaded, Unread
    <2>3. QED
      BY <1>1, <2>1, <2>2 DEF Base
  <1>2. ASSUME NEW r \in Requests, Arrive(t, r) PROVE Base'
    <2>1. UNCHANGED <<stored, file, cur, phase, settings, memory, holder, standing, promise>>
      BY <1>2 DEF Arrive
    <2>2. /\ DOMAIN task' = Task /\ task'[t].pc = "waiting"
          /\ \A u \in Task : u # t => task'[u] = task[u]
          /\ \A u \in Task : task'[u] = Idle \/ task'[u] \in Busy
          /\ Commanded'
      BY <1>2, ArriveWrites
    <2>3. Locked'
      BY <1>0, <2>1, <2>2 DEF Locked, Locking
    <2>4. QED
      BY <1>0, <1>1, <2>1, <2>2, <2>3 DEF Shapes
  <1>3. CASE NoChange(t)
    <2>1. /\ UNCHANGED <<stored, file, cur, phase, settings, memory, holder, standing, promise>>
          /\ task[t].pc # "idle" /\ task' = [task EXCEPT ![t] = MovedOn(task[t])]
      BY <1>3 DEF NoChange
    <2>2. /\ DOMAIN task' = Task /\ task'[t].pc \in {"idle", "waiting"}
          /\ \A u \in Task : u # t => task'[u] = task[u]
          /\ \A u \in Task : task'[u] = Idle \/ task'[u] \in Busy
          /\ Commanded'
      BY <2>1, NextWord
    <2>3. Locked'
      BY <1>0, <2>1, <2>2 DEF Locked, Locking
    <2>4. QED
      BY <1>0, <1>1, <2>1, <2>2, <2>3 DEF Shapes
  <1>4. CASE Apply(t)
    <2> DEFINE i == task[t].inst
               r == task[t].request
               item == Head(task[t].todo)
               new == Changed(PolicyOf(memory[i], r.group), r, item, settings[i].count)
    <2>1. /\ UNCHANGED <<stored, file, cur, phase, settings, standing>>
          /\ task[t].pc = "waiting" /\ holder[i] = Free
          /\ holder' = [holder EXCEPT ![i] = t]
          /\ memory' = [memory EXCEPT ![i] = With(memory[i], r.group, new)]
          /\ promise' = PromiseOf(r, item, "unsure")
          /\ task' = [task EXCEPT ![t].pc = "saving"]
      BY <1>4 DEF Apply
    <2>2. task[t].pc # "idle"
      BY <2>1
    <2>3. /\ i \in Instance /\ r \in Requests /\ ~Unread(i)
          /\ task[t] # Idle /\ TodoFits(task[t])
      BY <2>2, Working
    <2>4. r.op # "set" => item \in Word
      BY <1>0, <2>3, TodoRest
    <2>5. PICK old \in Policy : old = PolicyOf(memory[i], r.group)
      BY <1>0, <2>3, PolicyOfType DEF Shapes, IsMap
    <2>6. new \in Policy /\ r.group \in Group
      <3>1. r.group \in Group
        BY <2>3, RequestCases
      <3>2. PICK limit : limit = settings[i].count
        OBVIOUS
      <3>3. new = Changed(old, r, item, limit)
        BY <2>5, <3>2
      <3> HIDE DEF new, r, item
      <3>4. CASE r.op = "set"
        BY <2>3, <3>1, <3>3, <3>4, ChangeOfFlag DEF FlagChanged
      <3>5. CASE r.op # "set"
        BY <2>3, <2>4, <3>1, <3>3, <3>5, ChangeOfWords DEF WordsChanged
      <3>6. QED
        BY <3>4, <3>5
    <2>7. /\ DOMAIN task' = Task /\ task'[t].pc = "saving" /\ task'[t].inst = i
          /\ \A u \in Task : u # t => task'[u] = task[u]
          /\ \A u \in Task : task'[u] = Idle \/ task'[u] \in Busy
          /\ Commanded'
      BY <2>1, <2>2, TaskMoves
    <2>8. promise' \in [Group -> Promised]
      BY <1>0, <2>1, <2>3, <2>4, PromiseChange DEF Shapes
    <2>9. \A u \in Task : u # t /\ task[u].pc \in Locking =>
                              task[u].inst # i /\ task[u].inst \in Instance
      BY <2>1, <2>2, LockIsExclusive
    <2>10. IsMap(memory[i])
      BY <1>0, <2>3 DEF Shapes
    <2> HIDE DEF i, r, item, new
    <2>11. IsMap(With(memory[i], r.group, new))
      BY <2>6, <2>10, WithType
    <2>12. /\ DOMAIN memory' = Instance /\ \A j \in Instance : IsMap(memory'[j])
           /\ \A j \in Instance : j # i => memory'[j] = memory[j]
      BY <1>0, <2>1, <2>3, <2>11, MemoryWith
    <2>13. /\ holder' \in [Instance -> Task \cup {Free}] /\ holder'[i] = t
           /\ \A j \in Instance : j # i => holder'[j] = holder[j]
      BY <1>0, <2>1, <2>3, HolderWith
    <2>14. Locked'
      BY <1>0, <2>7, <2>9, <2>13 DEF Locked
    <2>15. QED
      BY <1>0, <1>1, <2>1, <2>3, <2>7, <2>8, <2>12, <2>13, <2>14 DEF Shapes
  <1>5. CASE SaveCommits(t)
    <2> DEFINE i == task[t].inst
    <2>1. /\ UNCHANGED <<file, cur, phase, settings, memory, holder>>
          /\ task[t].pc = "saving"
          /\ stored' = memory[i]
          /\ promise' = IF standing[i] = "other" THEN Unsure ELSE promise
          /\ standing' = [j \in Instance |-> IF j = i THEN "same" ELSE "other"]
          /\ task' = [task EXCEPT ![t].pc = "saved"]
      BY <1>5 DEF SaveCommits
    <2>2. task[t].pc # "idle"
      BY <2>1
    <2>3. i \in Instance /\ ~Unread(i)
      BY <2>2, Working
    <2>4. /\ DOMAIN task' = Task /\ task'[t].pc = "saved" /\ task'[t].inst = i
          /\ \A u \in Task : u # t => task'[u] = task[u]
          /\ \A u \in Task : task'[u] = Idle \/ task'[u] \in Busy
          /\ Commanded'
      BY <2>1, <2>2, TaskMoves
    <2>5. Locked'
      BY <1>0, <2>1, <2>4 DEF Locked, Locking
    <2>6. IsPolicies(memory[i])
      BY <1>0, <2>3 DEF Shapes, IsMap
    <2> HIDE DEF i
    <2>7. promise' \in [Group -> Promised]
      BY <1>0, <2>1, PromiseTypes DEF Shapes
    <2>8. IsPolicies(stored)'
      BY <2>1, <2>6 DEF IsPolicies
    <2>9. \A j \in Instance : Unread(j) => standing'[j] = standing[j]
      BY <1>0, <2>1, <2>3 DEF Unloaded
    <2>10. QED
      BY <1>0, <1>1, <2>1, <2>4, <2>5, <2>7, <2>8, <2>9 DEF Shapes
  <1>6. CASE SaveFails(t)
    <2> DEFINE i == task[t].inst
               s == IF standing[i] = "other" THEN "other" ELSE "ahead"
    <2>1. /\ UNCHANGED <<stored, file, cur, phase, settings, memory, holder, promise>>
          /\ task[t].pc = "saving"
          /\ standing' = [standing EXCEPT ![i] = s]
          /\ task' = [task EXCEPT ![t].pc = "failed"]
      BY <1>6 DEF SaveFails
    <2>2. task[t].pc # "idle"
      BY <2>1
    <2>3. i \in Instance /\ ~Unread(i)
      BY <2>2, Working
    <2>4. /\ DOMAIN task' = Task /\ task'[t].pc = "failed" /\ task'[t].inst = i
          /\ \A u \in Task : u # t => task'[u] = task[u]
          /\ \A u \in Task : task'[u] = Idle \/ task'[u] \in Busy
          /\ Commanded'
      BY <2>1, <2>2, TaskMoves
    <2>5. Locked'
      BY <1>0, <2>1, <2>4 DEF Locked, Locking
    <2>6. s \in {"same", "ahead", "other"}
      OBVIOUS
    <2> HIDE DEF i, s
    <2>7. /\ standing' \in [Instance -> {"same", "ahead", "other"}]
          /\ \A j \in Instance : j # i => standing'[j] = standing[j]
      BY <1>0, <2>1, <2>3, <2>6, StandingWith
    <2>8. QED
      BY <1>0, <1>1, <2>1, <2>3, <2>4, <2>5, <2>7 DEF Shapes
  <1>7. CASE Answer(t)
    <2> DEFINE i == task[t].inst
               r == task[t].request
               item == Head(task[t].todo)
    <2>1. /\ UNCHANGED <<stored, file, cur, phase, settings, memory, standing>>
          /\ task[t].pc \in {"saved", "failed"}
          /\ holder' = [holder EXCEPT ![i] = Free]
          /\ promise' = promise \/ promise' = PromiseOf(r, item, Answered(r))
          /\ task' = [task EXCEPT ![t] = MovedOn(task[t])]
      BY <1>7 DEF Answer
    <2>2. task[t].pc # "idle" /\ task[t].pc \in Locking
      BY <2>1 DEF Locking
    <2>3. /\ i \in Instance /\ r \in Requests
          /\ task[t] # Idle /\ TodoFits(task[t])
      BY <2>2, Working
    <2>4. r.op # "set" => item \in Word
      BY <1>0, <2>3, TodoRest
    <2>5. /\ r.op = "set" => Answered(r) \in Value \cup {"unsure"}
          /\ r.op # "set" => Answered(r) \in {"unsure", "in", "out"}
      BY <2>3, RequestCases DEF Answered
    <2>6. promise' \in [Group -> Promised]
      <3>1. promise \in [Group -> Promised]
        BY <1>0 DEF Shapes
      <3>2. PromiseOf(r, item, Answered(r)) \in [Group -> Promised]
        <4> HIDE DEF r, item
        <4>1. QED
          BY <2>3, <2>4, <2>5, <3>1, PromiseChange
      <3>3. QED
        BY <2>1, <3>1, <3>2
    <2>7. /\ DOMAIN task' = Task /\ task'[t].pc \in {"idle", "waiting"}
          /\ \A u \in Task : u # t => task'[u] = task[u]
          /\ \A u \in Task : task'[u] = Idle \/ task'[u] \in Busy
          /\ Commanded'
      BY <2>1, <2>2, NextWord
    <2>8. \A u \in Task : u # t /\ task[u].pc \in Locking =>
                              task[u].inst # i /\ task[u].inst \in Instance
      <3>1. holder[i] = t
        BY <1>0, <2>2 DEF Locked
      <3>2. QED
        BY <2>2, <3>1, LockIsExclusive
    <2> HIDE DEF i, r, item
    <2>9. /\ holder' \in [Instance -> Task \cup {Free}] /\ holder'[i] = Free
          /\ \A j \in Instance : j # i => holder'[j] = holder[j]
      BY <1>0, <2>1, <2>3, HolderWith
    <2>10. Locked'
      BY <1>0, <2>7, <2>8, <2>9 DEF Locked, Locking
    <2>11. QED
      BY <1>0, <1>1, <2>1, <2>6, <2>7, <2>9, <2>10 DEF Shapes
  <1>8. QED
    BY <1>2, <1>3, <1>4, <1>5, <1>6, <1>7 DEF Command

LEMMA BaseStep == Base /\ [Next]_policyVars => Base'
  <1> SUFFICES ASSUME Base, [Next]_policyVars PROVE Base'
    OBVIOUS
  <1>0. Shapes /\ Commanded /\ Locked /\ Unloaded /\ cur \in Instance
    BY DEF Base, Shapes
  <1>1. \A i \in Instance : i \in Nat
    BY PolicyAssumption DEF Instance
  <1>2. CASE Reload
    <2>1. /\ UNCHANGED <<stored, file, settings, memory, holder, task, standing, promise>>
          /\ phase' = "down" /\ cur' = cur + 1 /\ cur < MaxInstance
      BY <1>2 DEF Reload
    <2>2. cur' \in Instance
      BY <1>0, <1>1, <2>1, PolicyAssumption DEF Instance
    <2>3. Shapes'
      BY <1>0, <2>1, <2>2 DEF Shapes, Phase
    <2>4. Unloaded'
      <3>1. \A j \in Instance : Unread(j)' => Unread(j)
        BY <1>0, <1>1, <2>1, <2>2 DEF Unread
      <3>2. QED
        BY <1>0, <2>1, <3>1 DEF Unloaded
    <2>5. Commanded'
      <3>1. ASSUME NEW t \in Task, task[t] # Idle
            PROVE  TodoFits(task[t])' /\ Placed(task[t])'
        <4>1. TodoFits(task[t]) /\ Placed(task[t]) /\ task[t].inst \in Nat
          BY <1>0, <1>1, <3>1 DEF Commanded, Shapes, Busy
        <4>2. TodoFits(task[t])'
          BY <2>1, <4>1 DEF TodoFits
        <4>3. Placed(task[t])'
          BY <1>0, <1>1, <2>1, <4>1 DEF Placed
        <4>4. QED
          BY <4>2, <4>3
      <3>2. QED
        BY <2>1, <3>1 DEF Commanded
    <2>6. Locked'
      BY <1>0, <2>1 DEF Locked
    <2>7. QED
      BY <2>3, <2>4, <2>5, <2>6 DEF Base
  <1>3. CASE Crash
    <2>1. /\ UNCHANGED <<stored, file, settings, promise>>
          /\ phase' = "down" /\ cur' = cur + 1 /\ cur < MaxInstance
          /\ memory' = [i \in Instance |-> NoPolicies]
          /\ holder' = [i \in Instance |-> Free]
          /\ task' = [t \in Task |-> Idle]
          /\ standing' = [i \in Instance |-> "other"]
      BY <1>3 DEF Crash
    <2>2. cur' \in Instance
      BY <1>0, <1>1, <2>1, PolicyAssumption DEF Instance
    <2>3. Shapes'
      BY <1>0, <2>1, <2>2, NoPoliciesMap DEF Shapes, Phase
    <2>4. \A t \in Task : task'[t] = Idle /\ task'[t].pc = "idle"
      BY <2>1 DEF Idle
    <2>5. Unloaded' /\ Commanded' /\ Locked'
      BY <2>1, <2>4 DEF Unloaded, Commanded, Locked, Locking
    <2>6. QED
      BY <2>3, <2>5 DEF Base
  <1>4. CASE UNCHANGED policyVars
    BY <1>4 DEF policyVars, Base, Shapes, Commanded, TodoFits, Placed, Locked, Unloaded, Unread
  <1>5. QED
    BY <1>2, <1>3, <1>4, BaseLoad, BaseCommand DEF Next

-----------------------------------------------------------------------------
(* The limits of the lists. *)

LEMMA EmptyFits ==
    ASSUME NEW limit \in Settings
    PROVE  FittingWords(<<>>, limit) /\ Fitting(NewPolicy, limit)
  <1>1. limit.count \in Nat /\ limit.length \in Nat
    BY PolicyAssumption
  <1>2. FittingWords(<<>>, limit)
    BY <1>1 DEF FittingWords, IsInjective
  <1>3. \A l \in List : NewPolicy.words[l] = <<>>
    BY DEF NewPolicy, List
  <1>4. QED
    BY <1>2, <1>3 DEF Fitting

LEMMA PolicyOfFits ==
    ASSUME NEW groups, NEW limit \in Settings, \A g \in DOMAIN groups : Fitting(groups[g], limit)
    PROVE  \A g : Fitting(PolicyOf(groups, g), limit)
  BY EmptyFits DEF PolicyOf

LEMMA ChangeFits ==
    ASSUME NEW old \in Policy, NEW r \in Requests, NEW item, NEW limit \in Settings,
           Fitting(old, limit), r.op # "set" => item \in Word,
           r.op = "add" => WordLength[item] <= limit.length,
           NEW n, n = limit.count, NEW new, new = Changed(old, r, item, n)
    PROVE  Fitting(new, limit)
  <1>1. old.words \in [List -> Seq(Word)]
    BY DEF Policy
  <1>2. CASE r.op = "set"
    <2>1. new.words = old.words
      BY <1>2, ChangeOfFlag DEF FlagChanged
    <2>2. QED
      BY <2>1 DEF Fitting
  <1>0. r.op # "set" => WordsChanged(new, old, r, item, n)
    BY ChangeOfWords
  <1>3. ASSUME r.op # "set", NEW s \in Seq(Word), FittingWords(s, limit), new.words[r.list] = s
        PROVE  Fitting(new, limit)
    <2>1. \A l \in List : l # r.list => new.words[l] = old.words[l]
      BY <1>3, <1>0 DEF WordsChanged
    <2>2. QED
      BY <1>3, <2>1 DEF Fitting
  <1>4. CASE r.op = "add" /\ new # old
    <2>1. item \in Word /\ r.list \in List /\ limit.count \in Nat /\ limit.length \in Nat
      BY <1>4, RequestCases, PolicyAssumption
    <2>2. n = limit.count
      OBVIOUS
    <2>3. /\ item \notin ToSet(old.words[r.list]) /\ ~(Len(old.words[r.list]) >= n)
          /\ new.words[r.list] = Append(old.words[r.list], item)
      BY <1>4, <1>0 DEF WordsChanged
    <2>4. PICK s \in Seq(Word) : s = old.words[r.list]
      BY <1>1, <2>1
    <2>5. FittingWords(s, limit) /\ item \notin ToSet(s) /\ ~(Len(s) >= limit.count)
          /\ Len(s) \in Nat
      BY <2>1, <2>2, <2>3, <2>4 DEF Fitting
    <2>6. PICK a \in Seq(Word) : a = Append(s, item)
      <3>1. Append(s, item) \in Seq(Word)
        BY <2>1, AppendedWord
      <3>2. QED
        BY <3>1
    <2>7. /\ IsInjective(a) /\ Len(a) = Len(s) + 1
          /\ \A i \in 1 .. Len(s) : a[i] = s[i]
          /\ a[Len(s) + 1] = item
      BY <2>1, <2>5, <2>6, AppendedWord DEF FittingWords
    <2>8. \A i \in 1 .. Len(s) + 1 : i = Len(s) + 1 \/ i \in 1 .. Len(s)
      BY <2>5
    <2>9. Len(s) + 1 <= limit.count
      BY <2>1, <2>5
    <2>10. WordLength[item] <= limit.length
      BY <1>4
    <2>11. FittingWords(a, limit)
      BY <2>5, <2>7, <2>8, <2>9, <2>10 DEF FittingWords
    <2>12. QED
      BY <1>3, <1>4, <2>3, <2>4, <2>6, <2>11
  <1>5. CASE r.op = "remove"
    <2>1. item \in Word /\ r.list \in List /\ limit.count \in Nat /\ limit.length \in Nat
      BY <1>5, RequestCases, PolicyAssumption
    <2>2. PICK s \in Seq(Word) : s = old.words[r.list]
      BY <1>1, <2>1
    <2>3. PICK a : a = Only(s, Word \ {item})
      OBVIOUS
    <2>4. a \in Seq(Word) /\ ToSet(a) \subseteq ToSet(s) /\ Len(a) <= Len(s)
          /\ (IsInjective(s) => IsInjective(a))
      BY <2>3, OnlyKeeps
    <2>5. FittingWords(s, limit)
      BY <2>1, <2>2 DEF Fitting
    <2>6. \A k \in 1 .. Len(a) : \E m \in 1 .. Len(s) : a[k] = s[m]
      BY <2>4, SetOfWords
    <2>7. Len(s) \in Nat /\ Len(a) \in Nat
      BY <2>4
    <2>8. FittingWords(a, limit)
      BY <2>1, <2>4, <2>5, <2>6, <2>7 DEF FittingWords
    <2>9. new.words[r.list] = a
      BY <1>5, <1>0, <2>2, <2>3 DEF WordsChanged
    <2>10. QED
      BY <1>3, <1>5, <2>4, <2>8, <2>9
  <1>6. CASE r.op = "add" /\ new = old
    BY <1>6
  <1>7. QED
    BY <1>2, <1>4, <1>5, <1>6, RequestCases

LEMMA FittingInit == Init => AllFitting
  BY NoPoliciesMap DEF Init, AllFitting

LEMMA FittingStep == Base /\ AllFitting /\ [Next]_policyVars => AllFitting'
  <1> SUFFICES ASSUME Base, AllFitting, [Next]_policyVars PROVE AllFitting'
    OBVIOUS
  <1>1. /\ Shapes /\ cur \in Instance /\ IsMap(memory[cur]) /\ settings \in [Instance -> Settings]
        /\ settings[cur] \in Settings
    BY DEF Base, Shapes
  <1>2. settings' = settings
    <2>1. CASE \E l \in List : LoadWords(l)
      BY <2>1 DEF LoadWords
    <2>2. CASE \E t \in Task : Command(t)
      BY <2>2 DEF Command, Arrive, NoChange, Apply, SaveCommits, SaveFails, Answer
    <2>3. CASE StartLoad \/ SkipImport \/ DecideImport \/ Import \/ LoadFlags \/ LoadFails
      BY <2>3 DEF StartLoad, SkipImport, DecideImport, Import, LoadFlags, LoadFails
    <2>4. QED
      BY <2>1, <2>2, <2>3 DEF Next, Load, Reload, Crash, policyVars
  <1>3. ASSUME UNCHANGED memory PROVE AllFitting'
    BY <1>2, <1>3 DEF AllFitting
  <1>4. ASSUME NEW i \in Instance, NEW groups, IsMap(groups),
               memory' = [memory EXCEPT ![i] = groups],
               \A g \in DOMAIN groups : Fitting(groups[g], settings[i])
        PROVE  AllFitting'
    <2>1. /\ memory'[i] = groups
          /\ \A j \in Instance : j # i => memory'[j] = memory[j]
      BY <1>1, <1>4, MemoryWith
    <2>2. ASSUME NEW j \in Instance, NEW g \in DOMAIN memory'[j]
          PROVE  Fitting(memory'[j][g], settings'[j])
      BY <1>2, <1>4, <2>1 DEF AllFitting
    <2>3. QED
      BY <2>2 DEF AllFitting
  <1>5. \A g : Fitting(PolicyOf(memory[cur], g), settings[cur])
    BY <1>1, PolicyOfFits DEF AllFitting
  <1>6. CASE LoadFlags
    <2> DEFINE P(g) == [NewPolicy EXCEPT !.flags = stored[g].flags]
               groups == [g \in DOMAIN stored |-> P(g)]
    <2>1. memory' = [memory EXCEPT ![cur] = groups]
      BY <1>6 DEF LoadFlags
    <2>2. IsMap(groups)
      BY <1>1, ReadTypes
    <2>3. ASSUME NEW g \in DOMAIN stored
          PROVE  Fitting(P(g), settings[cur])
      <3>1. stored[g].flags \in [Flag -> Value]
        BY <1>1 DEF Shapes, IsPolicies, Policy
      <3>2. P(g).words = NewPolicy.words
        BY <3>1, NewFlags, NewPolicyType
      <3>3. QED
        BY <1>1, <3>2, EmptyFits DEF Fitting
    <2>4. \A g \in DOMAIN groups : Fitting(groups[g], settings[cur])
      <3> HIDE DEF P
      <3>1. QED
        BY <2>3
    <2> HIDE DEF groups
    <2>5. QED
      BY <1>1, <1>4, <2>1, <2>2, <2>4
  <1>7. ASSUME NEW l \in List, LoadWords(l) PROVE AllFitting'
    <2> DEFINE Q(g) == [PolicyOf(memory[cur], g) EXCEPT
                           !.words[l] = NormalizeWords(stored[g].words[l], settings[cur])]
               P(g) == IF g \in DOMAIN stored /\ stored[g].words[l] # <<>> THEN Q(g)
                       ELSE PolicyOf(memory[cur], g)
               D == DOMAIN memory[cur] \cup {h \in DOMAIN stored : stored[h].words[l] # <<>>}
               groups == [g \in D |-> P(g)]
    <2>1. memory' = [memory EXCEPT ![cur] = groups]
      BY <1>7 DEF LoadWords
    <2>2. IsMap(groups)
      BY <1>1, ReadTypes
    <2>3. ASSUME NEW g \in DOMAIN stored
          PROVE  Fitting(Q(g), settings[cur])
      <3>1. stored[g].words[l] \in Seq(Word)
        BY <1>1 DEF Shapes, IsPolicies, Policy
      <3>2. PICK s \in Seq(Word) : s = NormalizeWords(stored[g].words[l], settings[cur])
                                   /\ FittingWords(s, settings[cur])
        BY <1>1, <3>1, NormalWordsFit
      <3>3. PICK policy \in Policy : policy = PolicyOf(memory[cur], g)
        BY <1>1, PolicyOfType DEF IsMap
      <3>4. \A k \in List : [policy EXCEPT !.words[l] = s].words[k]
                                = IF k = l THEN s ELSE policy.words[k]
        BY DEF Policy
      <3>5. Fitting(policy, settings[cur])
        BY <1>5, <3>3
      <3>6. Fitting([policy EXCEPT !.words[l] = s], settings[cur])
        BY <3>2, <3>4, <3>5 DEF Fitting
      <3>7. QED
        BY <3>2, <3>3, <3>6
    <2>4. \A g \in D : Fitting(P(g), settings[cur])
      <3> HIDE DEF Q, D
      <3>1. QED
        BY <1>5, <2>3
    <2>5. \A g \in DOMAIN groups : Fitting(groups[g], settings[cur])
      <3> HIDE DEF P, D
      <3>1. QED
        BY <2>4
    <2> HIDE DEF groups
    <2>6. QED
      BY <1>1, <1>4, <2>1, <2>2, <2>5
  <1>8. CASE LoadFails
    <2>1. memory' = [memory EXCEPT ![cur] = NoPolicies]
      BY <1>8 DEF LoadFails
    <2>2. QED
      BY <1>1, <1>4, <2>1, NoPoliciesMap
  <1>9. ASSUME NEW t \in Task, Apply(t) PROVE AllFitting'
    <2> DEFINE i == task[t].inst
               r == task[t].request
               item == Head(task[t].todo)
               new == Changed(PolicyOf(memory[i], r.group), r, item, settings[i].count)
    <2>1. /\ memory' = [memory EXCEPT ![i] = With(memory[i], r.group, new)]
          /\ task[t].pc = "waiting"
      BY <1>9 DEF Apply
    <2>2. task[t].pc # "idle"
      BY <2>1
    <2>3. /\ i \in Instance /\ r \in Requests /\ r.group \in Group
          /\ task[t] # Idle /\ TodoFits(task[t])
      BY <2>2, Working, RequestCases
    <2>4. /\ r.op # "set" => item \in Word
          /\ r.op = "add" => WordLength[item] <= settings[i].length
      BY <1>1, <2>3, TodoRest
    <2>5. IsMap(memory[i]) /\ settings[i] \in Settings
      BY <1>1, <2>3 DEF Shapes
    <2>6. PICK old \in Policy : old = PolicyOf(memory[i], r.group)
      BY <2>5, PolicyOfType DEF IsMap
    <2>7. PICK limit \in Settings : limit = settings[i]
      BY <2>5
    <2>8. Fitting(old, limit)
      BY <2>3, <2>6, <2>7, PolicyOfFits DEF AllFitting
    <2>9. new = Changed(old, r, item, limit.count)
      BY <2>6, <2>7
    <2>10. \A g \in DOMAIN memory[i] : Fitting(memory[i][g], limit)
      BY <2>3, <2>7 DEF AllFitting
    <2> HIDE DEF new, r, item, i
    <2>11. Fitting(new, limit)
      <3>1. PICK n : n = limit.count
        OBVIOUS
      <3>2. new = Changed(old, r, item, n)
        BY <2>9, <3>1
      <3>3. r.op = "add" => WordLength[item] <= limit.length
        BY <2>4, <2>7
      <3>4. QED
        BY <2>3, <2>4, <2>8, <3>1, <3>2, <3>3, ChangeFits
    <2>12. new \in Policy
      <3>1. PICK n : n = limit.count
        OBVIOUS
      <3>2. new = Changed(old, r, item, n)
        BY <2>9, <3>1
      <3>3. QED
        BY <2>3, <2>4, <3>2, ChangeOfFlag, ChangeOfWords DEF FlagChanged, WordsChanged
    <2>13. PICK groups : groups = With(memory[i], r.group, new)
      OBVIOUS
    <2>14. IsMap(groups)
      BY <2>3, <2>5, <2>12, <2>13, WithType
    <2>15. \A g \in DOMAIN groups : Fitting(groups[g], settings[i])
      BY <2>7, <2>10, <2>11, <2>13 DEF With
    <2>16. QED
      BY <1>4, <2>1, <2>3, <2>13, <2>14, <2>15
  <1>10. CASE Crash
    <2>1. \A i \in Instance : memory'[i] = NoPolicies
      BY <1>10 DEF Crash
    <2>2. QED
      BY <2>1, NoPoliciesMap DEF AllFitting
  <1>11. CASE StartLoad \/ SkipImport \/ DecideImport \/ Import \/ Reload \/ UNCHANGED policyVars
    BY <1>3, <1>11 DEF StartLoad, SkipImport, DecideImport, Import, Reload, policyVars
  <1>12. ASSUME NEW t \in Task, Command(t), ~Apply(t) PROVE AllFitting'
    BY <1>3, <1>12 DEF Command, Arrive, NoChange, SaveCommits, SaveFails, Answer
  <1>13. QED
    BY <1>6, <1>7, <1>8, <1>9, <1>10, <1>11, <1>12 DEF Next, Load

-----------------------------------------------------------------------------
(* A behaviour of the store is one of the policies, and one of the schema. *)

LEMMA StoreIsPolicies ==
    /\ StoreInit => Init
    /\ [StoreNext]_storeVars => [Next]_policyVars
  <1>1. ASSUME StoreNext PROVE [Next]_policyVars
    <2>1. CASE Migrate
      BY <2>1 DEF Migrate
    <2>2. CASE LoadPolicies
      BY <2>2 DEF LoadPolicies, Next
    <2>3. CASE Commands
      BY <2>3 DEF Commands, Next
    <2>4. CASE Threads
      BY <2>4 DEF Threads, Next, Command
    <2>5. CASE Unload
      BY <2>5 DEF Unload, Next
    <2>6. QED
      BY <1>1, <2>1, <2>2, <2>3, <2>4, <2>5 DEF StoreNext
  <1>2. ASSUME UNCHANGED storeVars PROVE [Next]_policyVars
    BY <1>2 DEF storeVars
  <1>3. QED
    BY <1>1, <1>2 DEF StoreInit

(* normalize_words, add_group_word and the locks of the instances: the lists in
   memory never exceed the limits of the settings, for every content of the
   database and of state.json.                                               *)
THEOREM ListsKeepLimits == StoreSpec => []WordsWithinLimit
  <1>1. StoreInit => Base /\ AllFitting
    BY StoreIsPolicies, BaseInit, FittingInit
  <1>2. Base /\ AllFitting /\ [StoreNext]_storeVars => (Base /\ AllFitting)'
    BY StoreIsPolicies, BaseStep, FittingStep
  <1>3. Base /\ AllFitting => WordsWithinLimit
    <2> SUFFICES ASSUME Base, AllFitting PROVE WordsWithinLimit
      OBVIOUS
    <2>1. \A i \in 1 .. cur : i \in Instance
      BY PolicyAssumption DEF Base, Shapes, Instance
    <2>2. QED
      BY <2>1 DEF AllFitting, Fitting, FittingWords, WordsWithinLimit
  <1>4. QED
    BY <1>1, <1>2, <1>3, PTL DEF StoreSpec

(* The thread of a save reads the policies of its instance alone. *)
THEOREM SavesRunAlone == StoreSpec => SaveIsAlone
  <1> DEFINE Alone ==
        \A i \in Instance, t \in Task :
          task[t].pc = "saving" /\ task[t].inst = i /\ task'[t] = task[t]
             => /\ memory'[i] = memory[i]
                /\ \A u \in Task \ {t} : task[u] # Idle /\ task[u].inst = i
                                            => task'[u].pc \notin {"saving"}
  <1>1. ASSUME Base, Next PROVE Alone
    <2> SUFFICES ASSUME NEW i \in Instance, NEW t \in Task, task[t].pc = "saving",
                        task[t].inst = i, task'[t] = task[t]
                 PROVE  /\ memory'[i] = memory[i]
                        /\ \A u \in Task \ {t} : task[u] # Idle /\ task[u].inst = i
                                                    => task'[u].pc # "saving"
      OBVIOUS
    <2>1. /\ holder[i] = t /\ t # Free /\ task[t].pc # "idle" /\ task[t] # Idle
      BY <1>1, PolicyAssumption DEF Base, Locked, Locking, Free, Idle
    <2>2. \A u \in Task \ {t} : task[u] # Idle /\ task[u].inst = i => task[u].pc \notin Locking
      <3>1. ASSUME NEW u \in Task \ {t}, task[u].inst = i, task[u].pc \in Locking PROVE FALSE
        BY <1>1, <2>1, <3>1, LockIsExclusive
      <3>2. QED
        BY <3>1
    <2>3. ASSUME UNCHANGED task, memory'[i] = memory[i]
          PROVE  /\ memory'[i] = memory[i]
                 /\ \A u \in Task \ {t} : task[u] # Idle /\ task[u].inst = i
                                             => task'[u].pc # "saving"
      BY <2>2, <2>3 DEF Locking
    <2>4. CASE Load
      <3>1. UNCHANGED task /\ i # cur /\ cur \in Instance /\ i \in Nat
        BY <1>1, <2>1, <2>4, LoadKeepsCommands, PolicyAssumption DEF Base, Shapes, Instance
      <3>2. memory'[i] = memory[i]
        <4>1. \/ UNCHANGED memory
              \/ \E groups : memory' = [memory EXCEPT ![cur] = groups]
          <5>1. CASE \E l \in List : LoadWords(l)
            BY <5>1 DEF LoadWords
          <5>2. CASE LoadFlags
            BY <5>2 DEF LoadFlags
          <5>3. CASE LoadFails
            BY <5>3 DEF LoadFails
          <5>4. CASE StartLoad \/ SkipImport \/ DecideImport \/ Import
            BY <5>4 DEF StartLoad, SkipImport, DecideImport, Import
          <5>5. QED
            BY <2>4, <5>1, <5>2, <5>3, <5>4 DEF Load
        <4>2. QED
          BY <1>1, <3>1, <4>1 DEF Base, Shapes
      <3>3. QED
        BY <2>3, <3>1, <3>2
    <2>5. CASE Reload
      BY <2>3, <2>5 DEF Reload
    <2>6. CASE Crash
      BY <2>1, <2>6 DEF Crash
    <2>7. ASSUME NEW v \in Task, Command(v)
          PROVE  /\ memory'[i] = memory[i]
                 /\ \A u \in Task \ {t} : task[u] # Idle /\ task[u].inst = i
                                             => task'[u].pc # "saving"
      <3>1. ASSUME UNCHANGED memory, \A u \in Task : u # v => task'[u] = task[u],
                   task'[v].pc # "saving"
            PROVE  /\ memory'[i] = memory[i]
                   /\ \A u \in Task \ {t} : task[u] # Idle /\ task[u].inst = i
                                               => task'[u].pc # "saving"
        BY <2>2, <3>1 DEF Locking
      <3>2. ASSUME NEW r \in Requests, Arrive(v, r) PROVE UNCHANGED memory
        BY <3>2 DEF Arrive
      <3>3. CASE \E r \in Requests : Arrive(v, r)
        BY <1>1, <3>1, <3>2, <3>3, ArriveWrites
      <3>4. CASE NoChange(v)
        <4>1. /\ task[v].pc # "idle" /\ task' = [task EXCEPT ![v] = MovedOn(task[v])]
              /\ UNCHANGED <<cur, phase, settings, memory>>
          BY <3>4 DEF NoChange
        <4>2. QED
          BY <1>1, <3>1, <4>1, NextWord
      <3>5. CASE Answer(v)
        <4>1. /\ task[v].pc # "idle" /\ task' = [task EXCEPT ![v] = MovedOn(task[v])]
              /\ UNCHANGED <<cur, phase, settings, memory>>
          BY <3>5 DEF Answer
        <4>2. QED
          BY <1>1, <3>1, <4>1, NextWord
      <3>6. CASE SaveCommits(v)
        <4>1. /\ task[v].pc # "idle" /\ task' = [task EXCEPT ![v].pc = "saved"]
              /\ UNCHANGED <<cur, phase, settings, memory>>
          BY <3>6 DEF SaveCommits
        <4>2. QED
          BY <1>1, <3>1, <4>1, TaskMoves
      <3>7. CASE SaveFails(v)
        <4>1. /\ task[v].pc # "idle" /\ task' = [task EXCEPT ![v].pc = "failed"]
              /\ UNCHANGED <<cur, phase, settings, memory>>
          BY <3>7 DEF SaveFails
        <4>2. QED
          BY <1>1, <3>1, <4>1, TaskMoves
      <3>8. CASE Apply(v)
        <4>1. PICK j, groups :
                 /\ task[v].inst = j /\ holder[j] = Free /\ task[v].pc = "waiting"
                 /\ memory' = [memory EXCEPT ![j] = groups]
                 /\ task' = [task EXCEPT ![v].pc = "saving"]
                 /\ UNCHANGED <<cur, phase, settings>>
          BY <3>8 DEF Apply
        <4>2. j # i
          BY <2>1, <4>1
        <4>3. task[v].pc # "idle"
          BY <4>1
        <4>4. \A u \in Task : u # v => task'[u] = task[u]
          BY <1>1, <4>1, <4>3, TaskMoves
        <4>5. memory'[i] = memory[i]
          BY <1>1, <4>1, <4>2 DEF Base, Shapes
        <4>6. QED
          BY <2>2, <4>1, <4>2, <4>4, <4>5 DEF Locking
      <3>9. QED
        BY <2>7, <3>3, <3>4, <3>5, <3>6, <3>7, <3>8 DEF Command
    <2>8. QED
      BY <1>1, <2>4, <2>5, <2>6, <2>7 DEF Next
  <1>2. Base /\ [StoreNext]_storeVars => [Alone]_policyVars
    BY <1>1, StoreIsPolicies
  <1>3. StoreInit => Base
    BY StoreIsPolicies, BaseInit
  <1>4. Base /\ [StoreNext]_storeVars => Base'
    BY StoreIsPolicies, BaseStep
  <1>5. QED
    BY <1>2, <1>3, <1>4, PTL DEF StoreSpec, SaveIsAlone

-----------------------------------------------------------------------------
(* The schema. *)

(* What ensure_schema has found or made so far. *)
Stages ==
    /\ version \in Nat
    /\ opening \in {"create", "alter", "validate", "bump"} =>
           version <= CurrentVersion /\ (version > 0 => Fits(version))
    /\ opening \in {"alter", "validate", "bump"} => Table \subseteq tables
    /\ opening \in {"validate", "bump"} => exempt
    /\ opening = "bump" => Fits(CurrentVersion)

(* A step of the store leaves the schema alone, is one of ensure_schema, or
   closes the database.                                                      *)
LEMMA StoreIsSchema ==
    /\ StoreInit => SchemaInit
    /\ [StoreNext]_storeVars =>
           EnsureSchema \/ (opening' = "closed" /\ UNCHANGED database) \/ UNCHANGED schemaVars
  BY DEF StoreInit, StoreNext, storeVars, Migrate, LoadPolicies, Commands, Threads, Unload

(* More tables and one more column never make a file unfit. *)
LEMMA FitsStays ==
    ASSUME NEW v, Fits(v), tables \subseteq tables', broken' = broken, exempt => exempt'
    PROVE  Required(v) \subseteq tables' /\ broken' \cap Required(v) = {} /\ (v >= 3 => exempt')
  BY DEF Fits

LEMMA CompleteFits ==
    ASSUME Table \subseteq tables, broken = {}, exempt, NEW v
    PROVE  Fits(v)
  BY DEF Fits, Required

LEMMA StagesInit == SchemaInit => Stages
  BY DEF SchemaInit, Stages, Unversioned, Released, Damaged, Later, CurrentVersion

LEMMA StagesStep ==
    ASSUME Stages,
           EnsureSchema \/ (opening' = "closed" /\ UNCHANGED database) \/ UNCHANGED schemaVars
    PROVE  Stages'
  <1>1. CASE opening' = "closed" /\ UNCHANGED database
    BY <1>1 DEF Stages, database
  <1>2. CASE UNCHANGED schemaVars
    BY <1>2 DEF Stages, schemaVars, Fits
  <1>3. CASE Open
    BY <1>3 DEF Open, Stages, database
  <1>4. CASE CheckVersion
    <2>1. UNCHANGED database /\ opening' \in {"create", "refused"}
          /\ (opening' = "create" => version <= CurrentVersion /\ (version = 0 \/ Fits(version)))
      BY <1>4 DEF CheckVersion
    <2>2. Fits(version)' <=> Fits(version)
      BY <2>1 DEF Fits, database
    <2>3. QED
      BY <2>1, <2>2 DEF Stages, database
  <1>5. CASE CreateNext
    <2>1. /\ opening = "create" /\ opening' = "create" /\ UNCHANGED <<version, broken>>
          /\ tables \subseteq tables' /\ (exempt => exempt')
      BY <1>5 DEF CreateNext
    <2>2. Fits(version) => Fits(version)'
      BY <2>1, FitsStays DEF Fits
    <2>3. QED
      BY <2>1, <2>2 DEF Stages
  <1>6. CASE Created
    <2>1. /\ opening = "create" /\ Table \subseteq tables /\ UNCHANGED database
          /\ opening' = IF version = CurrentVersion THEN "validate" ELSE "alter"
      BY <1>6 DEF Created
    <2>2. Fits(version)' <=> Fits(version)
      BY <2>1 DEF Fits, database
    <2>3. version = CurrentVersion => exempt
      BY <2>1 DEF Stages, Fits, CurrentVersion
    <2>4. QED
      BY <2>1, <2>2, <2>3 DEF Stages, database
  <1>7. CASE Alter
    <2>1. /\ opening = "alter" /\ exempt' = TRUE /\ opening' = "validate"
          /\ UNCHANGED <<version, tables, broken>>
      BY <1>7 DEF Alter
    <2>2. Fits(version) => Fits(version)'
      BY <2>1, FitsStays DEF Fits
    <2>3. QED
      BY <2>1, <2>2 DEF Stages
  <1>8. CASE Validate
    <2>1. /\ opening = "validate" /\ UNCHANGED database
          /\ opening' \in {"refused", "ready", "bump"}
          /\ (opening' = "bump" => Fits(CurrentVersion))
      BY <1>8 DEF Validate
    <2>2. (Fits(version)' <=> Fits(version)) /\ (Fits(CurrentVersion)' <=> Fits(CurrentVersion))
      BY <2>1 DEF Fits, database, CurrentVersion
    <2>3. QED
      BY <2>1, <2>2 DEF Stages, database
  <1>9. CASE Bump
    BY <1>9 DEF Bump, Stages, CurrentVersion
  <1>10. CASE Interrupt
    BY <1>10 DEF Interrupt, Stages, database
  <1>11. QED
    BY <1>1, <1>2, <1>3, <1>4, <1>5, <1>6, <1>7, <1>8, <1>9, <1>10 DEF EnsureSchema

(* _validate_required_schema and the refusal of a later version: nothing is
   written to a file that does not fit the version it names.                 *)
THEOREM MisfitsAreKept == StoreSpec => MisfitIsLeftAlone
  <1> DEFINE Kept0 == version > 0 /\ (version > CurrentVersion \/ ~Fits(version))
                          => UNCHANGED database
  <1>1. ASSUME Stages, [StoreNext]_storeVars PROVE [Kept0]_schemaVars
    <2>1. ASSUME EnsureSchema PROVE Kept0
      <3>1. CASE opening \in {"create", "alter", "validate", "bump"}
        BY <1>1, <3>1 DEF Stages, CurrentVersion
      <3>2. CASE opening \notin {"create", "alter", "validate", "bump"}
        BY <2>1, <3>2 DEF EnsureSchema, Open, CheckVersion, CreateNext, Created, Alter, Validate,
                          Bump, Interrupt
      <3>3. QED
        BY <3>1, <3>2
    <2>2. QED
      BY <1>1, <2>1, StoreIsSchema
  <1>2. StoreInit => Stages
    BY StoreIsSchema, StagesInit
  <1>3. Stages /\ [StoreNext]_storeVars => Stages'
    BY StoreIsSchema, StagesStep
  <1>4. QED
    BY <1>1, <1>2, <1>3, PTL DEF StoreSpec, MisfitIsLeftAlone

(* ensure_schema after an interrupted one: a file that some version has written
   is brought to the current version and never refused.                      *)
THEOREM MigrationsResume == StoreSpec => MigrationResumes
  <1> DEFINE Resumes == Sound => opening' # "refused" /\ Sound'
  <1>1. ASSUME Stages, [StoreNext]_storeVars PROVE [Resumes]_schemaVars
    <2>0. version \in Nat
      BY <1>1 DEF Stages
    <2>1. ASSUME Sound, UNCHANGED database PROVE Sound'
      BY <2>1 DEF Sound, database, Fits
    <2>2. CASE EnsureSchema
      <3> SUFFICES ASSUME Sound PROVE opening' # "refused" /\ Sound'
        OBVIOUS
      <3>1. broken = {} /\ version <= CurrentVersion /\ (version > 0 => Fits(version))
        BY DEF Sound
      <3>2. CASE Open \/ Interrupt
        BY <2>1, <3>2 DEF Open, Interrupt
      <3>3. CASE CheckVersion
        <4>1. version = 0 \/ Fits(version)
          BY <2>0, <3>1
        <4>2. opening' = "create" /\ UNCHANGED database
          BY <3>1, <3>3, <4>1 DEF CheckVersion
        <4>3. QED
          BY <2>1, <4>2
      <3>4. CASE CreateNext
        <4>1. /\ opening' = "create" /\ UNCHANGED <<version, broken>>
              /\ tables \subseteq tables' /\ (exempt => exempt')
          BY <3>4 DEF CreateNext
        <4>2. Fits(version) => Fits(version)'
          BY <4>1, FitsStays DEF Fits
        <4>3. QED
          BY <3>1, <4>1, <4>2 DEF Sound
      <3>5. CASE Created
        BY <2>1, <3>5 DEF Created
      <3>6. CASE Alter
        <4>1. /\ exempt' = TRUE /\ opening' = "validate" /\ UNCHANGED <<version, tables, broken>>
          BY <3>6 DEF Alter
        <4>2. Fits(version) => Fits(version)'
          BY <4>1, FitsStays DEF Fits
        <4>3. QED
          BY <3>1, <4>1, <4>2 DEF Sound
      <3>7. CASE Validate
        <4>1. Fits(CurrentVersion)
          BY <1>1, <3>1, <3>7, CompleteFits DEF Stages, Validate
        <4>2. QED
          BY <2>1, <3>7, <4>1 DEF Validate
      <3>8. CASE Bump
        <4>1. /\ opening = "bump" /\ opening' = "ready" /\ version' = CurrentVersion
              /\ UNCHANGED <<tables, exempt, broken>>
          BY <3>8 DEF Bump
        <4>2. Fits(CurrentVersion)
          BY <1>1, <4>1 DEF Stages
        <4>3. QED
          BY <3>1, <4>1, <4>2 DEF Sound, Fits, CurrentVersion
      <3>9. QED
        BY <2>2, <3>2, <3>3, <3>4, <3>5, <3>6, <3>7, <3>8 DEF EnsureSchema
    <2>3. CASE opening' = "closed" /\ UNCHANGED database
      BY <2>1, <2>3
    <2>4. QED
      BY <1>1, <2>2, <2>3, StoreIsSchema
  <1>2. StoreInit => Stages
    BY StoreIsSchema, StagesInit
  <1>3. Stages /\ [StoreNext]_storeVars => Stages'
    BY StoreIsSchema, StagesStep
  <1>4. QED
    BY <1>1, <1>2, <1>3, PTL DEF StoreSpec, MigrationResumes

-----------------------------------------------------------------------------
(* A complete load is the database. *)

LEMMA SamePolicy ==
    ASSUME NEW p \in Policy, NEW q \in Policy, p.flags = q.flags,
           \A l \in List : p.words[l] = q.words[l]
    PROVE  p = q
  <1>1. p = [flags |-> p.flags, words |-> p.words] /\ q = [flags |-> q.flags, words |-> q.words]
    BY DEF Policy
  <1>2. p.words = [l \in List |-> p.words[l]] /\ q.words = [l \in List |-> q.words[l]]
    BY DEF Policy
  <1>3. p.words = q.words
    BY <1>2
  <1>4. QED
    BY <1>1, <1>3

LEMMA PartlyType ==
    ASSUME NEW policy \in Policy, NEW read
    PROVE  /\ Partly(policy, read) \in Policy
           /\ Partly(policy, read).flags = policy.flags
           /\ \A l \in List :
                 Partly(policy, read).words[l] = IF l \in read THEN policy.words[l] ELSE <<>>
  <1> DEFINE words == [l \in List |-> IF l \in read THEN policy.words[l] ELSE <<>>]
  <1>1. words \in [List -> Seq(Word)]
    <2>1. <<>> \in Seq(Word)
      BY EmptySeq
    <2>2. QED
      BY <2>1 DEF Policy
  <1>2. \A l \in List : words[l] = IF l \in read THEN policy.words[l] ELSE <<>>
    OBVIOUS
  <1>3. Partly(policy, read) = [policy EXCEPT !.words = words]
    BY DEF Partly
  <1> HIDE DEF words
  <1>4. QED
    BY <1>1, <1>2, <1>3, NewWords

(* What the instance reads first. *)
LEMMA FlagsFirst ==
    ASSUME NEW policy \in Policy
    PROVE  [NewPolicy EXCEPT !.flags = policy.flags] = Partly(policy, {})
  <1>1. policy.flags \in [Flag -> Value]
    BY DEF Policy
  <1>2. PICK p \in Policy : /\ p = [NewPolicy EXCEPT !.flags = policy.flags]
                            /\ p.flags = policy.flags /\ p.words = NewPolicy.words
    BY <1>1, NewFlags, NewPolicyType
  <1>3. \A l \in List : p.words[l] = <<>>
    BY <1>2 DEF NewPolicy, List
  <1>4. PICK n \in Policy : n = Partly(policy, {})
    BY PartlyType
  <1>5. n.flags = policy.flags /\ \A l \in List : n.words[l] = <<>>
    BY <1>4, PartlyType
  <1>6. p = n
    BY <1>2, <1>3, <1>5, SamePolicy
  <1>7. QED
    BY <1>2, <1>4, <1>6

(* What it adds with a list whose words keep the limits. *)
LEMMA ListNext ==
    ASSUME NEW policy \in Policy, NEW l \in List, NEW read, l \notin read,
           NEW s, s = policy.words[l]
    PROVE  /\ [Partly(policy, read) EXCEPT !.words[l] = s] = Partly(policy, read \cup {l})
           /\ s = <<>> => Partly(policy, read) = Partly(policy, read \cup {l})
  <1>1. PICK p \in Policy : p = Partly(policy, read)
    BY PartlyType
  <1>2. s \in Seq(Word)
    BY DEF Policy
  <1>3. PICK q : q = [p EXCEPT !.words[l] = s]
    OBVIOUS
  <1>4. q \in Policy /\ q.flags = p.flags
        /\ \A k \in List : q.words[k] = IF k = l THEN s ELSE p.words[k]
    BY <1>2, <1>3 DEF Policy
  <1>5. PICK n \in Policy : n = Partly(policy, read \cup {l})
    BY PartlyType
  <1>6. /\ p.flags = policy.flags /\ n.flags = policy.flags
        /\ \A k \in List : p.words[k] = IF k \in read THEN policy.words[k] ELSE <<>>
        /\ \A k \in List : n.words[k] = IF k \in read \cup {l} THEN policy.words[k] ELSE <<>>
    BY <1>1, <1>5, PartlyType
  <1>7. q = n
    BY <1>4, <1>6, SamePolicy
  <1>8. ASSUME s = <<>> PROVE p = n
    <2>1. \A k \in List : p.words[k] = n.words[k]
      BY <1>6, <1>8
    <2>2. QED
      BY <1>6, <2>1, SamePolicy
  <1>9. QED
    BY <1>1, <1>3, <1>5, <1>7, <1>8

LEMMA AllRead ==
    ASSUME NEW policy \in Policy, NEW read, List \subseteq read
    PROVE  Partly(policy, read) = policy
  <1>1. PICK p \in Policy : p = Partly(policy, read)
    BY PartlyType
  <1>2. p.flags = policy.flags /\ \A l \in List : p.words[l] = policy.words[l]
    BY <1>1, PartlyType
  <1>3. QED
    BY <1>1, <1>2, SamePolicy

(* The words of a database that is its own normal form. *)
LEMMA NormalRows ==
    ASSUME Shapes, stored = NormalizeAll(stored, settings[cur]), NEW g \in DOMAIN stored,
           NEW l \in List
    PROVE  /\ stored[g] \in Policy
           /\ NormalizeWords(stored[g].words[l], settings[cur]) = stored[g].words[l]
  <1>1. stored[g] \in Policy
    BY DEF Shapes, IsPolicies
  <1>2. stored[g] = NormalizePolicy(stored[g], settings[cur])
    BY DEF NormalizeAll
  <1> DEFINE words == [k \in List |-> NormalizeWords(stored[g].words[k], settings[cur])]
  <1>3. settings[cur] \in Settings /\ \A k \in List : stored[g].words[k] \in Seq(Word)
    BY <1>1 DEF Shapes, Policy
  <1>4. words \in [List -> Seq(Word)]
    BY <1>3, NormalWordsFit
  <1>5. words[l] = NormalizeWords(stored[g].words[l], settings[cur])
    OBVIOUS
  <1>6. stored[g] = [stored[g] EXCEPT !.words = words]
    BY <1>2 DEF NormalizePolicy
  <1> HIDE DEF words
  <1>7. stored[g].words = words
    BY <1>1, <1>4, <1>6, NewWords
  <1>8. QED
    BY <1>1, <1>5, <1>7

LEMMA ListIsRead ==
    ASSUME Shapes, NEW read, Loaded(read), NEW l \in List, l \notin read, LoadWords(l)
    PROVE  memory'[cur] = [g \in DOMAIN stored |-> Partly(stored[g], read \cup {l})]
  <1> DEFINE Q(g) == [PolicyOf(memory[cur], g) EXCEPT
                         !.words[l] = NormalizeWords(stored[g].words[l], settings[cur])]
             P(g) == IF g \in DOMAIN stored /\ stored[g].words[l] # <<>> THEN Q(g)
                     ELSE PolicyOf(memory[cur], g)
             D == DOMAIN memory[cur] \cup {h \in DOMAIN stored : stored[h].words[l] # <<>>}
  <1>1. memory' = [memory EXCEPT ![cur] = [g \in D |-> P(g)]]
    BY DEF LoadWords
  <1>2. memory'[cur] = [g \in D |-> P(g)]
    BY <1>1 DEF Shapes
  <1>3. memory[cur] = [g \in DOMAIN stored |-> Partly(stored[g], read)]
    BY DEF Loaded
  <1>4. D = DOMAIN stored
    BY <1>3
  <1>5. ASSUME NEW g \in DOMAIN stored
        PROVE  P(g) = Partly(stored[g], read \cup {l})
    <2>1. PICK policy \in Policy : policy = stored[g]
      BY DEF Shapes, IsPolicies
    <2>2. PICK s : s = policy.words[l]
      OBVIOUS
    <2>3. NormalizeWords(stored[g].words[l], settings[cur]) = s
      BY <2>1, <2>2, NormalRows DEF Loaded
    <2>4. PolicyOf(memory[cur], g) = Partly(policy, read)
      BY <1>3, <2>1 DEF PolicyOf
    <2>5. [Partly(policy, read) EXCEPT !.words[l] = s] = Partly(policy, read \cup {l})
          /\ (s = <<>> => Partly(policy, read) = Partly(policy, read \cup {l}))
      BY <2>2, ListNext
    <2>6. Q(g) = Partly(policy, read \cup {l})
      BY <2>3, <2>4, <2>5
    <2> HIDE DEF Q
    <2>7. QED
      BY <2>1, <2>2, <2>4, <2>5, <2>6
  <1> HIDE DEF P, D
  <1>6. QED
    BY <1>2, <1>4, <1>5

LEMMA LoadingInit == Init => Loading
  BY DEF Init, Loading

LEMMA LoadingLoad == Base /\ Loading /\ Load => Loading'
  <1> SUFFICES ASSUME Base, Loading, Load PROVE Loading'
    OBVIOUS
  <1>1. Shapes /\ cur \in Instance /\ cur' = cur /\ settings' = settings
    BY LoadKeepsCommands DEF Base, Shapes
  <1>2. CASE StartLoad \/ SkipImport \/ DecideImport \/ Import
    <2>1. phase' \in {"import", "policies", "write"}
      BY <1>2 DEF StartLoad, SkipImport, DecideImport, Import
    <2>2. QED
      BY <2>1 DEF Loading
  <1>3. CASE LoadFlags
    <2> DEFINE s == IF stored = NormalizeAll(stored, settings[cur]) THEN "same" ELSE "other"
    <2>1. /\ memory' = [memory EXCEPT ![cur] = [g \in DOMAIN stored |->
                           [NewPolicy EXCEPT !.flags = stored[g].flags]]]
          /\ standing' = [standing EXCEPT ![cur] = s]
          /\ phase' = "custom" /\ stored' = stored
      BY <1>3 DEF LoadFlags
    <2>2. \A g \in DOMAIN stored : stored[g] \in Policy
      BY <1>1 DEF Shapes, IsPolicies
    <2>3. memory'[cur] = [g \in DOMAIN stored |-> [NewPolicy EXCEPT !.flags = stored[g].flags]]
      BY <1>1, <2>1 DEF Shapes
    <2>4. memory'[cur] = [g \in DOMAIN stored |-> Partly(stored[g], {})]
      BY <2>2, <2>3, FlagsFirst
    <2>5. standing'[cur] = s
      BY <1>1, <2>1 DEF Shapes
    <2>6. standing'[cur] = "same" => Loaded({})'
      BY <1>1, <2>1, <2>4, <2>5 DEF Loaded
    <2>7. standing'[cur] # "ahead"
      BY <2>5
    <2> HIDE DEF s
    <2>8. QED
      BY <1>1, <2>1, <2>6, <2>7 DEF Loading
  <1>4. CASE LoadWords("custom")
    <2>1. phase = "custom" /\ phase' = "bypass" /\ UNCHANGED <<stored, standing>>
      BY <1>4 DEF LoadWords
    <2>2. ASSUME standing[cur] = "same" PROVE Loaded({"custom"})'
      <3>1. Loaded({})
        BY <2>1, <2>2 DEF Loading
      <3>2. memory'[cur] = [g \in DOMAIN stored |-> Partly(stored[g], {} \cup {"custom"})]
        <4>1. "custom" \in List /\ "custom" \notin {}
          BY DEF List
        <4>2. QED
          BY <1>1, <1>4, <3>1, <4>1, ListIsRead
      <3>3. {} \cup {"custom"} = {"custom"}
        OBVIOUS
      <3>4. memory'[cur] = [g \in DOMAIN stored |-> Partly(stored[g], {"custom"})]
        BY <3>2, <3>3
      <3>5. QED
        BY <1>1, <2>1, <3>1, <3>4 DEF Loaded
    <2>3. QED
      BY <1>1, <2>1, <2>2 DEF Loading
  <1>5. CASE LoadWords("bypass")
    <2>1. phase = "bypass" /\ phase' = "up" /\ UNCHANGED <<stored, standing>>
      BY <1>5 DEF LoadWords
    <2>2. ASSUME standing[cur] = "same" PROVE memory'[cur] = stored
      <3>1. Loaded({"custom"})
        BY <2>1, <2>2 DEF Loading
      <3>2. memory'[cur] = [g \in DOMAIN stored |-> Partly(stored[g], {"custom"} \cup {"bypass"})]
        <4>1. "bypass" \in List /\ "bypass" \notin {"custom"}
          BY DEF List
        <4>2. QED
          BY <1>1, <1>5, <3>1, <4>1, ListIsRead
      <3>3. \A g \in DOMAIN stored : Partly(stored[g], {"custom"} \cup {"bypass"}) = stored[g]
        <4>1. List \subseteq {"custom"} \cup {"bypass"}
          BY DEF List
        <4>2. \A g \in DOMAIN stored : stored[g] \in Policy
          BY <1>1 DEF Shapes, IsPolicies
        <4>3. QED
          BY <4>1, <4>2, AllRead
      <3>4. stored = [g \in DOMAIN stored |-> stored[g]]
        BY <3>1 DEF Loaded, NormalizeAll
      <3>5. QED
        BY <3>2, <3>3, <3>4
    <2>3. QED
      BY <1>1, <2>1, <2>2 DEF Loading
  <1>6. CASE LoadFails
    <2>1. standing' = [standing EXCEPT ![cur] = "other"]
      BY <1>6 DEF LoadFails
    <2>2. standing'[cur] = "other"
      BY <1>1, <2>1 DEF Shapes
    <2>3. QED
      BY <1>1, <2>2 DEF Loading
  <1>7. QED
    BY <1>2, <1>3, <1>4, <1>5, <1>6 DEF Load, List

(* A command of another instance does not disturb what the loaded one has read. *)
LEMMA LoadingElsewhere ==
    ASSUME Loading, UNCHANGED <<cur, phase, settings, stored>>, memory'[cur] = memory[cur],
           standing'[cur] = standing[cur],
           \A u \in Task : task[u].pc = "saving" /\ task[u].inst = cur
                               => task'[u].pc = "saving" /\ task'[u].inst = cur
    PROVE  Loading'
  <1>1. ASSUME NEW read PROVE Loaded(read)' <=> Loaded(read)
    BY DEF Loaded
  <1>2. QED
    BY <1>1 DEF Loading

LEMMA LoadingCommand ==
    ASSUME Base, Loading, NEW t \in Task, Command(t)
    PROVE  Loading'
  <1>0. Shapes /\ cur \in Instance
    BY DEF Base, Shapes
  <1>1. ASSUME UNCHANGED <<cur, phase, settings, stored, memory, standing>>,
               task[t].pc # "saving", \A u \in Task : u # t => task'[u] = task[u]
        PROVE  Loading'
    BY <1>1, LoadingElsewhere
  <1>2. ASSUME NEW r \in Requests, Arrive(t, r) PROVE Loading'
    <2>1. UNCHANGED <<cur, phase, settings, stored, memory, standing>> /\ task[t].pc = "idle"
      BY <1>2 DEF Arrive, Idle
    <2>2. QED
      BY <1>1, <1>2, <2>1, ArriveWrites
  <1>3. CASE NoChange(t) \/ Answer(t)
    <2>1. /\ UNCHANGED <<cur, phase, settings, stored, memory, standing>>
          /\ task[t].pc \in {"waiting", "saved", "failed"}
          /\ task' = [task EXCEPT ![t] = MovedOn(task[t])]
      BY <1>3 DEF NoChange, Answer
    <2>2. task[t].pc # "idle" /\ task[t].pc # "saving"
      BY <2>1
    <2>3. QED
      BY <1>1, <2>1, <2>2, NextWord
  <1>4. CASE Apply(t)
    <2>1. PICK i, groups :
             /\ task[t].inst = i /\ task[t].pc = "waiting"
             /\ memory' = [memory EXCEPT ![i] = groups]
             /\ task' = [task EXCEPT ![t].pc = "saving"]
             /\ UNCHANGED <<cur, phase, settings, stored, standing>>
      BY <1>4 DEF Apply
    <2>2. task[t].pc # "idle"
      BY <2>1
    <2>3. /\ task'[t].pc = "saving" /\ task'[t].inst = i
          /\ \A u \in Task : u # t => task'[u] = task[u]
      BY <2>1, <2>2, TaskMoves
    <2>4. CASE i = cur
      <3>1. phase = "up"
        BY <2>1, <2>2, <2>4, Working DEF Placed
      <3>2. \E u \in Task : task'[u].pc = "saving" /\ task'[u].inst = cur'
        BY <2>1, <2>3, <2>4
      <3>3. QED
        BY <2>1, <3>1, <3>2 DEF Loading
    <2>5. CASE i # cur
      <3>1. memory'[cur] = memory[cur]
        BY <1>0, <2>1, <2>5 DEF Shapes
      <3>2. QED
        BY <2>1, <2>3, <3>1, LoadingElsewhere
    <2>6. QED
      BY <2>4, <2>5
  <1>5. CASE SaveCommits(t)
    <2>1. /\ task[t].pc = "saving" /\ stored' = memory[task[t].inst]
          /\ standing' = [j \in Instance |-> IF j = task[t].inst THEN "same" ELSE "other"]
          /\ UNCHANGED <<cur, phase, memory>>
      BY <1>5 DEF SaveCommits
    <2>2. task[t].inst = cur => phase = "up"
      <3>1. task[t].pc # "idle"
        BY <2>1
      <3>2. QED
        BY <3>1, Working DEF Placed
    <2>3. standing'[cur] = IF cur = task[t].inst THEN "same" ELSE "other"
      BY <1>0, <2>1
    <2>4. CASE task[t].inst = cur
      BY <2>1, <2>2, <2>3, <2>4 DEF Loading
    <2>5. CASE task[t].inst # cur
      BY <2>1, <2>3, <2>5 DEF Loading
    <2>6. QED
      BY <2>4, <2>5
  <1>6. CASE SaveFails(t)
    <2> DEFINE s == IF standing[task[t].inst] = "other" THEN "other" ELSE "ahead"
    <2>1. /\ task[t].pc = "saving"
          /\ standing' = [standing EXCEPT ![task[t].inst] = s]
          /\ task' = [task EXCEPT ![t].pc = "failed"]
          /\ UNCHANGED <<cur, phase, settings, stored, memory>>
      BY <1>6 DEF SaveFails
    <2>2. task[t].pc # "idle"
      BY <2>1
    <2>3. \A u \in Task : u # t => task'[u] = task[u]
      BY <2>1, <2>2, TaskMoves
    <2>4. CASE task[t].inst = cur
      <3>1. phase = "up"
        BY <2>2, <2>4, Working DEF Placed
      <3>2. standing'[cur] = s
        BY <1>0, <2>1, <2>4 DEF Shapes
      <3>3. standing'[cur] # "same"
        BY <3>2
      <3> HIDE DEF s
      <3>4. QED
        BY <2>1, <3>1, <3>3 DEF Loading
    <2>5. CASE task[t].inst # cur
      <3>1. standing'[cur] = standing[cur]
        BY <1>0, <2>1, <2>5 DEF Shapes
      <3> HIDE DEF s
      <3>2. QED
        BY <2>1, <2>3, <2>5, <3>1, LoadingElsewhere
    <2>6. QED
      BY <2>4, <2>5
  <1>7. QED
    BY <1>2, <1>3, <1>4, <1>5, <1>6 DEF Command

LEMMA LoadingStep == Base /\ Loading /\ [Next]_policyVars => Loading'
  <1> SUFFICES ASSUME Base, Loading, [Next]_policyVars PROVE Loading'
    OBVIOUS
  <1>1. CASE Load
    BY <1>1, LoadingLoad
  <1>2. CASE Reload \/ Crash
    <2>1. phase' = "down"
      BY <1>2 DEF Reload, Crash
    <2>2. QED
      BY <2>1 DEF Loading
  <1>3. CASE \E t \in Task : Command(t)
    BY <1>3, LoadingCommand
  <1>4. CASE UNCHANGED policyVars
    <2>1. UNCHANGED <<cur, phase, settings, stored, memory, standing, task>>
      BY <1>4 DEF policyVars
    <2>2. QED
      BY <2>1, LoadingElsewhere
  <1>5. QED
    BY <1>1, <1>2, <1>3, <1>4 DEF Next

(* Memory and database agree whenever no command of the loaded instance is at
   work, unless a save failed or the database is not what it loaded.         *)
THEOREM QuietIsSaved == StoreSpec => []QuiescentMeansSaved
  <1>1. StoreInit => Base /\ Loading
    BY StoreIsPolicies, BaseInit, LoadingInit
  <1>2. Base /\ Loading /\ [StoreNext]_storeVars => (Base /\ Loading)'
    BY StoreIsPolicies, BaseStep, LoadingStep
  <1>3. Base /\ Loading => QuiescentMeansSaved
    <2> SUFFICES ASSUME Base, Loading, phase = "up", standing[cur] = "same", holder[cur] = Free
                 PROVE  stored = memory[cur]
      BY DEF QuiescentMeansSaved
    <2>1. ASSUME NEW t \in Task, task[t].pc = "saving", task[t].inst = cur PROVE FALSE
      BY <2>1, PolicyAssumption DEF Base, Locked, Locking, Free
    <2>2. QED
      BY <2>1 DEF Loading
  <1>4. QED
    BY <1>1, <1>2, <1>3, PTL DEF StoreSpec

-----------------------------------------------------------------------------
(* What was answered. *)

(* All that r is not about is in both. *)
SameElsewhere(groups, new, r, item) ==
    \A g \in Group :
        /\ \A f \in Flag : ~(r.op = "set" /\ g = r.group /\ f = r.flag) =>
              PolicyOf(new, g).flags[f] = PolicyOf(groups, g).flags[f]
        /\ \A l \in List, w \in Word : ~(r.op # "set" /\ g = r.group /\ l = r.list /\ w = item) =>
              (w \in ToSet(PolicyOf(new, g).words[l]) <=> w \in ToSet(PolicyOf(groups, g).words[l]))

LEMMA CertainAgrees ==
    /\ \A groups : Agrees(Certain(groups), groups)
    /\ \A groups : Agrees(Unsure, groups)
  BY DEF Agrees, Certain, Unsure, Nothing

(* The promise about what r changes is given up, or kept. *)
LEMMA PromiseMoves ==
    ASSUME promise \in [Group -> Promised], NEW r \in Requests, NEW item, NEW v,
           r.op = "set" => v \in Value \cup {"unsure"},
           r.op # "set" => item \in Word /\ v \in {"unsure", "in", "out"},
           NEW groups, NEW new, Agrees(promise, groups), SameElsewhere(groups, new, r, item),
           v = "unsure" \/ (v = Answered(r) /\ Holds(new, r, item)),
           NEW p, p = PromiseOf(r, item, v)
    PROVE  Agrees(p, new)
  <1>1. /\ \A g \in Group, f \in Flag :
              p[g].flags[f] = IF r.op = "set" /\ g = r.group /\ f = r.flag THEN v
                              ELSE promise[g].flags[f]
        /\ \A g \in Group, l \in List, w \in Word :
              p[g].words[l][w] = IF r.op # "set" /\ g = r.group /\ l = r.list /\ w = item THEN v
                                 ELSE promise[g].words[l][w]
    BY PromiseChange
  <1>2. r.op \in {"set", "add", "remove"}
    BY RequestCases
  <1>3. ASSUME NEW g \in Group, NEW f \in Flag
        PROVE  p[g].flags[f] = "unsure" \/ PolicyOf(new, g).flags[f] = p[g].flags[f]
    <2>1. CASE r.op = "set" /\ g = r.group /\ f = r.flag
      <3>1. p[g].flags[f] = v
        BY <1>1, <2>1
      <3>2. v = "unsure" \/ (v = r.value /\ PolicyOf(new, g).flags[f] = r.value)
        BY <2>1 DEF Answered, Holds
      <3>3. QED
        BY <3>1, <3>2
    <2>2. CASE ~(r.op = "set" /\ g = r.group /\ f = r.flag)
      <3>1. p[g].flags[f] = promise[g].flags[f]
        BY <1>1, <2>2
      <3>2. PolicyOf(new, g).flags[f] = PolicyOf(groups, g).flags[f]
        BY <2>2 DEF SameElsewhere
      <3>3. QED
        BY <3>1, <3>2 DEF Agrees
    <2>3. QED
      BY <2>1, <2>2
  <1>4. ASSUME NEW g \in Group, NEW l \in List, NEW w \in Word
        PROVE  /\ p[g].words[l][w] = "in" => w \in ToSet(PolicyOf(new, g).words[l])
               /\ p[g].words[l][w] = "out" => w \notin ToSet(PolicyOf(new, g).words[l])
    <2>1. CASE r.op # "set" /\ g = r.group /\ l = r.list /\ w = item
      <3>1. p[g].words[l][w] = v
        BY <1>1, <2>1
      <3>2. CASE r.op = "add"
        BY <2>1, <3>1, <3>2 DEF Answered, Holds
      <3>3. CASE r.op = "remove"
        BY <2>1, <3>1, <3>3 DEF Answered, Holds
      <3>4. QED
        BY <1>2, <2>1, <3>2, <3>3
    <2>2. CASE ~(r.op # "set" /\ g = r.group /\ l = r.list /\ w = item)
      <3>1. p[g].words[l][w] = promise[g].words[l][w]
        BY <1>1, <2>2
      <3>2. w \in ToSet(PolicyOf(new, g).words[l]) <=> w \in ToSet(PolicyOf(groups, g).words[l])
        BY <2>2 DEF SameElsewhere
      <3>3. QED
        BY <3>1, <3>2 DEF Agrees
    <2>3. QED
      BY <2>1, <2>2
  <1>5. QED
    BY <1>3, <1>4 DEF Agrees

(* A change does what its answer will say, and nothing else. *)
LEMMA ChangeHolds ==
    ASSUME NEW groups, IsMap(groups), NEW r \in Requests, NEW item, r.op # "set" => item \in Word,
           NEW limit, NEW old, old = PolicyOf(groups, r.group),
           NEW new, new = Changed(old, r, item, limit),
           NEW after, after = With(groups, r.group, new)
    PROVE  /\ SameElsewhere(groups, after, r, item)
           /\ r.op = "set" \/ new # old => Holds(after, r, item)
  <1>1. old \in Policy /\ r.group \in Group
    BY PolicyOfType, RequestCases DEF IsMap
  <1>2. /\ r.op = "set" => FlagChanged(new, old, r)
        /\ r.op # "set" => WordsChanged(new, old, r, item, limit)
    BY <1>1, ChangeOfFlag, ChangeOfWords
  <1>3. new \in Policy
    BY <1>2 DEF FlagChanged, WordsChanged
  <1>4. /\ PolicyOf(after, r.group) = new
        /\ \A g : g # r.group => PolicyOf(after, g) = PolicyOf(groups, g)
    BY <1>1, <1>3, WithType
  <1>5. CASE r.op = "set"
    <2>1. /\ new.words = old.words /\ r.flag \in Flag
          /\ \A f \in Flag : new.flags[f] = IF f = r.flag THEN r.value ELSE old.flags[f]
      BY <1>2, <1>5, RequestCases DEF FlagChanged
    <2>2. SameElsewhere(groups, after, r, item)
      BY <1>4, <1>5, <2>1 DEF SameElsewhere
    <2>3. Holds(after, r, item)
      BY <1>4, <1>5, <2>1 DEF Holds
    <2>4. QED
      BY <2>2, <2>3
  <1>6. CASE r.op # "set"
    <2>1. r.op \in {"add", "remove"} /\ r.list \in List /\ old.words[r.list] \in Seq(Word)
      BY <1>1, <1>6, RequestCases DEF Policy
    <2>2. /\ new.flags = old.flags
          /\ \A l \in List : l # r.list => new.words[l] = old.words[l]
          /\ r.op = "add" /\ new # old => new.words[r.list] = Append(old.words[r.list], item)
          /\ r.op = "remove" => new.words[r.list] = Only(old.words[r.list], Word \ {item})
      BY <1>2, <1>6 DEF WordsChanged
    <2>3. PICK before : before = ToSet(old.words[r.list])
      OBVIOUS
    <2>4. PICK now : now = ToSet(new.words[r.list])
      OBVIOUS
    <2>5. ASSUME r.op = "add", new # old PROVE now = before \cup {item}
      <3>1. PICK s \in Seq(Word) : s = old.words[r.list]
        BY <2>1
      <3>2. new.words[r.list] = Append(s, item) /\ item \in Word
        BY <1>6, <2>2, <2>5, <3>1
      <3>3. ToSet(Append(s, item)) = ToSet(s) \cup {item}
        BY <3>2, AppendedWord
      <3>4. QED
        BY <2>3, <2>4, <3>1, <3>2, <3>3
    <2>6. r.op = "remove" => now = before \cap (Word \ {item})
      BY <2>1, <2>2, <2>3, <2>4, OnlyKeeps
    <2>7. new = old => now = before
      BY <2>3, <2>4
    <2>8. \A w \in Word : w # item => (w \in now <=> w \in before)
      BY <2>1, <2>5, <2>6, <2>7
    <2>9. SameElsewhere(groups, after, r, item)
      BY <1>4, <1>6, <2>2, <2>3, <2>4, <2>8 DEF SameElsewhere
    <2>10. ASSUME new # old PROVE Holds(after, r, item)
      BY <1>4, <2>1, <2>4, <2>5, <2>6, <2>10 DEF Holds
    <2>11. QED
      BY <1>6, <2>9, <2>10
  <1>7. QED
    BY <1>5, <1>6

LEMMA TruthInit == Init => Truth
  <1> SUFFICES ASSUME Init PROVE Truth
    OBVIOUS
  <1>1. Applied /\ SavedAlone /\ Known
    BY DEF Init, Applied, SavedAlone, Known, Idle, Locking
  <1>2. Kept
    BY CertainAgrees DEF Init, Kept
  <1>3. QED
    BY <1>1, <1>2 DEF Truth

LEMMA TruthLoad == Base /\ Loading /\ Truth /\ Load => Truth'
  <1> SUFFICES ASSUME Base, Loading, Truth, Load PROVE Truth'
    OBVIOUS
  <1>1. /\ UNCHANGED <<cur, settings, holder, task>> /\ phase # "up"
        /\ \A t \in Task : task[t] # Idle => task[t].inst < cur
    BY LoadKeepsCommands
  <1>2. Shapes /\ cur \in Instance /\ cur \in Nat
    BY PolicyAssumption DEF Base, Shapes, Instance
  <1>3. \A t \in Task : task[t].pc # "idle" => task[t].inst < cur /\ task[t].inst # cur
    BY <1>1, <1>2, Working, PolicyAssumption DEF Instance
  <1>4. ASSUME \A i \in Instance : i # cur => memory'[i] = memory[i] PROVE Applied'
    <2>1. ASSUME NEW t \in Task, task[t].pc \in Locking
          PROVE  Holds(memory'[task[t].inst], task[t].request, Head(task[t].todo))
      <3>1. task[t].inst \in Instance /\ task[t].inst # cur
        BY <1>3, <2>1, Working DEF Locking
      <3>2. Holds(memory[task[t].inst], task[t].request, Head(task[t].todo))
        BY <2>1 DEF Truth, Applied
      <3>3. QED
        BY <1>4, <3>1, <3>2
    <2>2. QED
      BY <1>1, <2>1 DEF Applied, Holds
  <1>5. SavedAlone'
    BY <1>1, <1>3 DEF SavedAlone
  <1>6. ASSUME UNCHANGED <<promise, stored>> PROVE Kept'
    BY <1>6 DEF Truth, Kept, Agrees
  <1>7. ASSUME UNCHANGED promise, \A i \in Instance : i # cur => memory'[i] = memory[i],
               \A i \in Instance : i # cur => standing'[i] = standing[i],
               standing'[cur] = "other" \/ phase' # "up"
        PROVE  Known'
    <2>1. ASSUME NEW i \in Instance, standing'[i] # "other", i = cur => phase' = "up"
          PROVE  Agrees(promise, memory'[i])
      <3>1. i # cur
        BY <1>7, <2>1
      <3>2. Agrees(promise, memory[i])
        BY <1>7, <2>1, <3>1 DEF Truth, Known
      <3>3. QED
        BY <1>7, <3>1, <3>2
    <2>2. QED
      BY <1>1, <1>7, <2>1 DEF Known, Agrees
  <1>8. CASE StartLoad \/ SkipImport \/ DecideImport
    <2>1. UNCHANGED <<promise, stored, memory, standing>> /\ phase' # "up"
      BY <1>8 DEF StartLoad, SkipImport, DecideImport
    <2>2. QED
      BY <1>4, <1>5, <1>6, <1>7, <2>1 DEF Truth
  <1>9. CASE Import
    <2>1. /\ promise' = Certain(stored') /\ UNCHANGED memory
          /\ standing' = [i \in Instance |-> "other"]
      BY <1>9 DEF Import
    <2>2. Known'
      BY <2>1 DEF Known
    <2>3. Agrees(promise', stored')
      BY <2>1, CertainAgrees
    <2>4. Kept'
      BY <2>3 DEF Kept, Agrees
    <2>5. QED
      BY <1>4, <1>5, <2>1, <2>2, <2>4 DEF Truth
  <1>10. ASSUME \E groups : memory' = [memory EXCEPT ![cur] = groups]
         PROVE  \A i \in Instance : i # cur => memory'[i] = memory[i]
    BY <1>2, <1>10 DEF Shapes
  <1>11. ASSUME \E s : standing' = [standing EXCEPT ![cur] = s]
         PROVE  \A i \in Instance : i # cur => standing'[i] = standing[i]
    BY <1>2, <1>11 DEF Shapes
  <1>12. CASE LoadFlags
    <2>1. /\ \E groups : memory' = [memory EXCEPT ![cur] = groups]
          /\ \E s : standing' = [standing EXCEPT ![cur] = s]
          /\ UNCHANGED <<promise, stored>> /\ phase' # "up"
      BY <1>12 DEF LoadFlags
    <2>2. QED
      BY <1>4, <1>5, <1>6, <1>7, <1>10, <1>11, <2>1 DEF Truth
  <1>13. CASE LoadWords("custom")
    <2>1. /\ \E groups : memory' = [memory EXCEPT ![cur] = groups]
          /\ UNCHANGED <<promise, stored, standing>> /\ phase' # "up"
      BY <1>13 DEF LoadWords
    <2>2. QED
      BY <1>4, <1>5, <1>6, <1>7, <1>10, <2>1 DEF Truth
  <1>14. CASE LoadWords("bypass")
    <2>1. /\ \E groups : memory' = [memory EXCEPT ![cur] = groups]
          /\ UNCHANGED <<promise, stored, standing>> /\ phase = "bypass" /\ phase' = "up"
      BY <1>14 DEF LoadWords
    <2>2. ASSUME standing[cur] # "other" PROVE memory'[cur] = stored
      <3>1. standing[cur] \in {"same", "ahead", "other"}
        BY <1>2 DEF Shapes
      <3>2. standing[cur] = "same"
        BY <2>1, <2>2, <3>1 DEF Loading
      <3>3. Loading'
        BY LoadingLoad
      <3>4. \A t \in Task : ~(task[t].pc = "saving" /\ task[t].inst = cur)
        BY <1>3
      <3>5. QED
        BY <1>1, <2>1, <3>2, <3>3, <3>4 DEF Loading
    <2>3. ASSUME NEW i \in Instance, standing[i] # "other"
          PROVE  Agrees(promise, memory'[i])
      <3>1. CASE i = cur
        BY <2>2, <2>3, <3>1 DEF Truth, Kept
      <3>2. CASE i # cur
        BY <1>10, <2>1, <2>3, <3>2 DEF Truth, Known
      <3>3. QED
        BY <3>1, <3>2
    <2>4. Known'
      BY <2>1, <2>3 DEF Known, Agrees
    <2>5. QED
      BY <1>4, <1>5, <1>6, <1>10, <2>1, <2>4 DEF Truth
  <1>15. CASE LoadFails
    <2>1. /\ \E groups : memory' = [memory EXCEPT ![cur] = groups]
          /\ standing' = [standing EXCEPT ![cur] = "other"]
          /\ UNCHANGED <<promise, stored>>
      BY <1>15 DEF LoadFails
    <2>2. standing'[cur] = "other"
      BY <1>2, <2>1 DEF Shapes
    <2>3. QED
      BY <1>4, <1>5, <1>6, <1>7, <1>10, <1>11, <2>1, <2>2 DEF Truth
  <1>16. QED
    BY <1>8, <1>9, <1>12, <1>13, <1>14, <1>15 DEF Load, List

LEMMA TruthUnload == Base /\ Truth /\ (Reload \/ Crash) => Truth'
  <1> SUFFICES ASSUME Base, Truth, Reload \/ Crash PROVE Truth'
    OBVIOUS
  <1>1. Shapes /\ Unloaded /\ cur \in Instance /\ cur \in Nat
    BY PolicyAssumption DEF Base, Shapes, Instance
  <1>2. UNCHANGED <<promise, stored>> /\ cur' = cur + 1 /\ phase' = "down" /\ cur < MaxInstance
    BY DEF Reload, Crash
  <1>3. Kept'
    BY <1>2 DEF Truth, Kept, Agrees
  <1>4. CASE Crash
    BY <1>3, <1>4 DEF Crash, Truth, Applied, SavedAlone, Known, Idle, Locking
  <1>5. CASE Reload
    <2>1. UNCHANGED <<memory, task, standing>> /\ phase = "up"
      BY <1>5 DEF Reload
    <2>2. standing[cur + 1] = "other"
      <3>1. cur + 1 \in Instance /\ Unread(cur + 1)
        BY <1>1, <1>2, PolicyAssumption DEF Instance, Unread
      <3>2. QED
        BY <1>1, <3>1 DEF Unloaded
    <2>3. Applied'
      BY <2>1 DEF Truth, Applied, Holds
    <2>4. SavedAlone'
      BY <1>2, <2>1, <2>2 DEF SavedAlone
    <2>5. ASSUME NEW i \in Instance, standing[i] # "other" PROVE Agrees(promise, memory[i])
      BY <2>1, <2>5 DEF Truth, Known
    <2>6. Known'
      BY <1>2, <2>1, <2>5 DEF Known, Agrees
    <2>7. QED
      BY <1>3, <2>3, <2>4, <2>6 DEF Truth
  <1>6. QED
    BY <1>4, <1>5

(* A step that answers nothing: no other command is after its change. *)
LEMMA TruthElsewhere ==
    ASSUME Truth, NEW t \in Task, UNCHANGED <<cur, phase, stored, memory, standing, promise>>,
           \A u \in Task : u # t => task'[u] = task[u], task'[t].pc \notin Locking
    PROVE  Truth'
  <1>1. Applied'
    BY DEF Truth, Applied, Holds
  <1>2. SavedAlone'
    BY DEF Truth, SavedAlone, Locking
  <1>3. Known' /\ Kept'
    BY DEF Truth, Known, Kept, Agrees
  <1>4. QED
    BY <1>1, <1>2, <1>3 DEF Truth

LEMMA TruthApply ==
    ASSUME Base, Truth, NEW t \in Task, Apply(t)
    PROVE  Truth'
  <1>1. PICK i, r, item, limit, old, new, after :
           /\ i = task[t].inst /\ r = task[t].request /\ item = Head(task[t].todo)
           /\ limit = settings[i].count /\ old = PolicyOf(memory[i], r.group)
           /\ new = Changed(old, r, item, limit) /\ after = With(memory[i], r.group, new)
    OBVIOUS
  <1>2. /\ UNCHANGED <<cur, phase, settings, stored, standing>>
        /\ task[t].pc = "waiting" /\ holder[i] = Free
        /\ r.op = "set" \/ new # old
        /\ memory' = [memory EXCEPT ![i] = after]
        /\ promise' = PromiseOf(r, item, "unsure")
        /\ task' = [task EXCEPT ![t].pc = "saving"]
    BY <1>1 DEF Apply
  <1>3. task[t].pc # "idle"
    BY <1>2
  <1>4. /\ Shapes /\ i \in Instance /\ r \in Requests /\ task[t] # Idle /\ TodoFits(task[t])
        /\ promise \in [Group -> Promised]
    BY <1>1, <1>3, Working DEF Base, Shapes
  <1>5. r.op # "set" => item \in Word
    BY <1>1, <1>4, TodoRest
  <1>6. IsMap(memory[i])
    BY <1>4 DEF Shapes
  <1>7. SameElsewhere(memory[i], after, r, item) /\ Holds(after, r, item)
    <2>1. PICK groups : groups = memory[i]
      OBVIOUS
    <2>2. /\ IsMap(groups) /\ old = PolicyOf(groups, r.group)
          /\ new = Changed(old, r, item, limit) /\ after = With(groups, r.group, new)
      BY <1>1, <1>6, <2>1
    <2>3. SameElsewhere(groups, after, r, item) /\ (r.op = "set" \/ new # old => Holds(after, r, item))
      BY <1>4, <1>5, <2>2, ChangeHolds
    <2>4. QED
      BY <1>2, <2>1, <2>3
  <1>8. /\ task'[t].pc = "saving" /\ task'[t].inst = i /\ task'[t].request = r
        /\ task'[t].todo = task[t].todo
        /\ \A u \in Task : u # t => task'[u] = task[u]
    BY <1>1, <1>2, <1>3, TaskMoves
  <1>9. memory'[i] = after /\ \A j \in Instance : j # i => memory'[j] = memory[j]
    BY <1>2, <1>4 DEF Shapes
  <1>10. ASSUME NEW groups, NEW now, Agrees(promise, groups), SameElsewhere(groups, now, r, item)
         PROVE  Agrees(promise', now)
    BY <1>2, <1>4, <1>5, <1>10, PromiseMoves
  <1>11. \A groups : SameElsewhere(groups, groups, r, item)
    BY DEF SameElsewhere
  <1>12. Applied'
    <2>1. ASSUME NEW u \in Task, task'[u].pc \in Locking
          PROVE  Holds(memory'[task'[u].inst], task'[u].request, Head(task'[u].todo))
      <3>1. CASE u = t
        BY <1>1, <1>7, <1>8, <1>9, <3>1
      <3>2. CASE u # t
        <4>1. task'[u] = task[u] /\ task[u].pc \in Locking
          BY <1>8, <2>1, <3>2
        <4>2. task[u].inst # i /\ task[u].inst \in Instance
          BY <1>1, <1>2, <1>3, <3>2, <4>1, LockIsExclusive
        <4>3. Holds(memory[task[u].inst], task[u].request, Head(task[u].todo))
          BY <4>1 DEF Truth, Applied
        <4>4. QED
          BY <1>9, <4>1, <4>2, <4>3
      <3>3. QED
        BY <3>1, <3>2
    <2>2. QED
      BY <2>1 DEF Applied, Holds
  <1>13. SavedAlone'
    BY <1>2, <1>8 DEF Truth, SavedAlone
  <1>14. ASSUME NEW j \in Instance, standing[j] # "other", j = cur => phase = "up"
         PROVE  Agrees(promise', memory'[j])
    <2>1. Agrees(promise, memory[j])
      BY <1>14 DEF Truth, Known
    <2>2. CASE j = i
      BY <1>7, <1>9, <1>10, <2>1, <2>2
    <2>3. CASE j # i
      BY <1>9, <1>10, <1>11, <2>1, <2>3
    <2>4. QED
      BY <2>2, <2>3
  <1>15. Known'
    BY <1>2, <1>14 DEF Known, Agrees
  <1>16. Agrees(promise', stored)
    BY <1>10, <1>11 DEF Truth, Kept
  <1>17. Kept'
    BY <1>2, <1>16 DEF Kept, Agrees
  <1>18. QED
    BY <1>12, <1>13, <1>15, <1>17 DEF Truth

LEMMA TruthSave ==
    ASSUME Base, Truth, NEW t \in Task, SaveCommits(t)
    PROVE  Truth'
  <1>1. PICK i : i = task[t].inst
    OBVIOUS
  <1>2. /\ UNCHANGED <<cur, phase, settings, memory>>
        /\ task[t].pc = "saving" /\ stored' = memory[i]
        /\ promise' = IF standing[i] = "other" THEN Unsure ELSE promise
        /\ standing' = [j \in Instance |-> IF j = i THEN "same" ELSE "other"]
        /\ task' = [task EXCEPT ![t].pc = "saved"]
    BY <1>1 DEF SaveCommits
  <1>3. task[t].pc # "idle" /\ task[t].pc \in Locking
    BY <1>2 DEF Locking
  <1>4. i \in Instance /\ (i = cur => phase = "up") /\ cur \in Instance
    BY <1>1, <1>3, Working DEF Placed, Base, Shapes
  <1>5. /\ task'[t].inst = task[t].inst /\ task'[t].request = task[t].request
        /\ task'[t].todo = task[t].todo
        /\ \A u \in Task : u # t => task'[u] = task[u]
    BY <1>2, <1>3, TaskMoves
  <1>6. Agrees(promise', memory[i])
    <2>1. CASE standing[i] = "other"
      BY <1>2, <2>1, CertainAgrees
    <2>2. CASE standing[i] # "other"
      BY <1>2, <1>4, <2>2 DEF Truth, Known
    <2>3. QED
      BY <2>1, <2>2
  <1>7. Applied'
    <2>1. ASSUME NEW u \in Task, task'[u].pc \in Locking
          PROVE  Holds(memory[task'[u].inst], task'[u].request, Head(task'[u].todo))
      BY <1>3, <1>5, <2>1 DEF Truth, Applied
    <2>2. QED
      BY <1>2, <2>1 DEF Applied, Holds
  <1>8. SavedAlone'
    BY <1>2, <1>4 DEF SavedAlone
  <1>9. Known'
    BY <1>2, <1>6 DEF Known, Agrees
  <1>10. Kept'
    BY <1>2, <1>6 DEF Kept, Agrees
  <1>11. QED
    BY <1>7, <1>8, <1>9, <1>10 DEF Truth

LEMMA TruthFailure ==
    ASSUME Base, Truth, NEW t \in Task, SaveFails(t)
    PROVE  Truth'
  <1>1. PICK i, s : i = task[t].inst /\ s = IF standing[i] = "other" THEN "other" ELSE "ahead"
    OBVIOUS
  <1>2. /\ UNCHANGED <<cur, phase, settings, stored, memory, promise>>
        /\ task[t].pc = "saving"
        /\ standing' = [standing EXCEPT ![i] = s]
        /\ task' = [task EXCEPT ![t].pc = "failed"]
    BY <1>1 DEF SaveFails
  <1>3. task[t].pc # "idle" /\ task[t].pc \in Locking
    BY <1>2 DEF Locking
  <1>4. i \in Instance /\ cur \in Instance
    BY <1>1, <1>3, Working DEF Base, Shapes
  <1>5. /\ task'[t].pc = "failed"
        /\ task'[t].inst = task[t].inst /\ task'[t].request = task[t].request
        /\ task'[t].todo = task[t].todo
        /\ \A u \in Task : u # t => task'[u] = task[u]
    BY <1>2, <1>3, TaskMoves
  <1>6. /\ standing'[i] = s
        /\ \A j \in Instance : j # i => standing'[j] = standing[j]
        /\ \A j \in Instance : (standing'[j] = "other") <=> (standing[j] = "other")
    <2>1. standing'[i] = s /\ \A j \in Instance : j # i => standing'[j] = standing[j]
      BY <1>2, <1>4 DEF Base, Shapes
    <2>2. QED
      BY <1>1, <2>1
  <1>7. Applied'
    <2>1. ASSUME NEW u \in Task, task'[u].pc \in Locking
          PROVE  Holds(memory[task'[u].inst], task'[u].request, Head(task'[u].todo))
      BY <1>3, <1>5, <2>1 DEF Truth, Applied
    <2>2. QED
      BY <1>2, <2>1 DEF Applied, Holds
  <1>8. SavedAlone'
    <2>1. ASSUME NEW u \in Task, task'[u].pc = "saved", task'[u].inst = cur, standing'[cur] = "same"
          PROVE  \A j \in Instance \ {cur} : standing'[j] = "other"
      <3>1. u # t /\ task'[u] = task[u]
        BY <1>5, <2>1
      <3>2. cur # i
        BY <1>1, <1>6, <2>1
      <3>3. standing[cur] = "same"
        BY <1>4, <1>6, <2>1, <3>2
      <3>4. QED
        BY <1>6, <2>1, <3>1, <3>3 DEF Truth, SavedAlone
    <2>2. QED
      BY <1>2, <2>1 DEF SavedAlone
  <1>9. Known'
    BY <1>2, <1>6 DEF Truth, Known, Agrees
  <1>10. Kept'
    BY <1>2 DEF Truth, Kept, Agrees
  <1>11. QED
    BY <1>7, <1>8, <1>9, <1>10 DEF Truth

LEMMA TruthAnswer ==
    ASSUME Base, Loading, Truth, NEW t \in Task, Answer(t)
    PROVE  Truth'
  <1>1. PICK i, r, item : i = task[t].inst /\ r = task[t].request /\ item = Head(task[t].todo)
    OBVIOUS
  <1>2. /\ UNCHANGED <<cur, phase, settings, stored, memory, standing>> /\ LoopRuns
        /\ task[t].pc \in {"saved", "failed"}
        /\ promise' = IF task[t].pc = "saved" /\ i = cur /\ standing[cur] = "same"
                      THEN PromiseOf(r, item, Answered(r)) ELSE promise
        /\ task' = [task EXCEPT ![t] = MovedOn(task[t])]
    BY <1>1 DEF Answer
  <1>3. task[t].pc # "idle" /\ task[t].pc \in Locking
    BY <1>2 DEF Locking
  <1>4. /\ Shapes /\ Locked /\ cur \in Instance /\ i \in Instance /\ r \in Requests
        /\ task[t] # Idle /\ TodoFits(task[t]) /\ (i = cur => phase = "up")
        /\ promise \in [Group -> Promised]
    BY <1>1, <1>3, Working DEF Base, Shapes, Placed
  <1>5. task'[t].pc \notin Locking /\ \A u \in Task : u # t => task'[u] = task[u]
    BY <1>2, <1>3, NextWord DEF Locking
  <1>6. CASE promise' = promise
    BY <1>2, <1>5, <1>6, TruthElsewhere
  <1>7. CASE /\ task[t].pc = "saved" /\ i = cur /\ standing[cur] = "same"
             /\ promise' = PromiseOf(r, item, Answered(r))
    <2>1. \A j \in Instance \ {cur} : standing[j] = "other"
      BY <1>1, <1>7 DEF Truth, SavedAlone
    <2>2. Holds(memory[cur], r, item)
      BY <1>1, <1>3, <1>7 DEF Truth, Applied
    <2>3. Agrees(promise, memory[cur])
      BY <1>4, <1>7 DEF Truth, Known
    <2>4. r.op # "set" => item \in Word
      BY <1>1, <1>4, TodoRest
    <2>5. /\ r.op = "set" => Answered(r) \in Value \cup {"unsure"}
          /\ r.op # "set" => Answered(r) \in {"unsure", "in", "out"}
      BY <1>4, RequestCases DEF Answered
    <2>6. SameElsewhere(memory[cur], memory[cur], r, item)
      BY DEF SameElsewhere
    <2>7. Agrees(promise', memory[cur])
      BY <1>4, <1>7, <2>2, <2>3, <2>4, <2>5, <2>6, PromiseMoves
    <2>8. stored = memory[cur]
      <3>1. ASSUME NEW u \in Task, task[u].pc = "saving", task[u].inst = cur PROVE FALSE
        <4>1. u # t /\ task[u].pc \in Locking
          BY <1>7, <3>1 DEF Locking
        <4>2. holder[task[t].inst] = t
          BY <1>3, <1>4 DEF Locked
        <4>3. task[u].inst # task[t].inst
          BY <1>3, <4>1, <4>2, LockIsExclusive
        <4>4. QED
          BY <1>1, <1>7, <3>1, <4>3
      <3>2. QED
        BY <1>4, <1>7, <3>1 DEF Loading
    <2>9. Applied'
      BY <1>2, <1>5 DEF Truth, Applied, Holds
    <2>10. SavedAlone'
      BY <1>2, <1>5 DEF Truth, SavedAlone, Locking
    <2>11. Known'
      <3>1. \A j \in Instance : standing[j] # "other" => j = cur
        BY <2>1
      <3>2. QED
        BY <1>2, <2>7, <3>1 DEF Known, Agrees
    <2>12. Kept'
      BY <1>2, <2>7, <2>8 DEF Kept, Agrees
    <2>13. QED
      BY <2>9, <2>10, <2>11, <2>12 DEF Truth
  <1>8. QED
    BY <1>2, <1>6, <1>7

LEMMA TruthStep == Base /\ Loading /\ Truth /\ [Next]_policyVars => Truth'
  <1> SUFFICES ASSUME Base, Loading, Truth, [Next]_policyVars PROVE Truth'
    OBVIOUS
  <1>1. CASE Load
    BY <1>1, TruthLoad
  <1>2. CASE Reload \/ Crash
    BY <1>2, TruthUnload
  <1>3. ASSUME NEW t \in Task, Command(t) PROVE Truth'
    <2>1. ASSUME NEW r \in Requests, Arrive(t, r) PROVE Truth'
      <3>1. UNCHANGED <<cur, phase, stored, memory, standing, promise>>
        BY <2>1 DEF Arrive
      <3>2. task'[t].pc \notin Locking /\ \A u \in Task : u # t => task'[u] = task[u]
        BY <2>1, ArriveWrites DEF Locking
      <3>3. QED
        BY <3>1, <3>2, TruthElsewhere
    <2>2. CASE NoChange(t)
      <3>1. /\ UNCHANGED <<cur, phase, settings, stored, memory, standing, promise>>
            /\ task[t].pc # "idle" /\ task' = [task EXCEPT ![t] = MovedOn(task[t])]
        BY <2>2 DEF NoChange
      <3>2. task'[t].pc \notin Locking /\ \A u \in Task : u # t => task'[u] = task[u]
        BY <3>1, NextWord DEF Locking
      <3>3. QED
        BY <3>1, <3>2, TruthElsewhere
    <2>3. QED
      BY <1>3, <2>1, <2>2, TruthApply, TruthSave, TruthFailure, TruthAnswer DEF Command
  <1>4. CASE UNCHANGED policyVars
    <2>1. UNCHANGED <<cur, phase, stored, memory, standing, promise, task>>
      BY <1>4 DEF policyVars
    <2>2. QED
      BY <2>1 DEF Truth, Applied, Holds, SavedAlone, Known, Kept, Agrees
  <1>5. QED
    BY <1>1, <1>2, <1>3, <1>4 DEF Next

(* What a command was answered, the database holds: through crashes, reloads
   over commands in flight, failed saves and failed loads.                   *)
THEOREM AnswersAreStored == StoreSpec => []AnsweredIsStored
  <1>1. StoreInit => Base /\ Loading /\ Truth
    BY StoreIsPolicies, BaseInit, LoadingInit, TruthInit
  <1>2. Base /\ Loading /\ Truth /\ [StoreNext]_storeVars => (Base /\ Loading /\ Truth)'
    BY StoreIsPolicies, BaseStep, LoadingStep, TruthStep
  <1>3. Truth => AnsweredIsStored
    BY DEF Truth, Kept, Agrees, AnsweredIsStored
  <1>4. QED
    BY <1>1, <1>2, <1>3, PTL DEF StoreSpec
=============================================================================
