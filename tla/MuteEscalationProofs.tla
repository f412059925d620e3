------------------------ MODULE MuteEscalationProofs ------------------------
(* What is proved of MuteEscalation, for any number of threads and users, any
   policies and any length of the history.                                  *)
EXTENDS MuteEscalation, InductionLemmas, SequenceTheorems

USE EscalationAssumption

(* What the argument needs to know of the types.  The duration is not part of
   it: it comes from a recursive function.                                  *)
CallShape(c) ==
    /\ c.pc \in {"idle", "policy", "state", "write", "mute"}
    /\ c.pc \in {"policy", "state", "write"} => c.user \in User /\ c.now \in Nat
    /\ c.pc \in {"state", "write"} => c.policy \in EscalationPolicy
    /\ c.pc = "write" => c.seen \in State

Shapes == /\ clock \in Nat
          /\ policy \in EscalationPolicy
          /\ states \in [User -> State]
          /\ DOMAIN call = Task
          /\ \A t \in Task : CallShape(call[t])
          /\ hits \in [User -> Seq(Hit)]

(* A count that a thread has read is covered by the history as well, which only
   grows until the thread writes.                                           *)
SeenWithinHits ==
    \A t \in Task : call[t].pc = "write" => call[t].seen.count <= Len(hits[call[t].user])

IInv == Shapes /\ CountWithinHits /\ SeenWithinHits

(* One violation more is at most one more in the count. *)
LEMMA NextCountBound ==
    ASSUME NEW seen \in State, NEW now, NEW reset
    PROVE  /\ NextCount(seen, now, reset) \in Nat
           /\ NextCount(seen, now, reset) <= seen.count + 1
BY DEF NextCount, State

(* The invariant of the counts holds at first. *)
LEMMA InitCounts == Init => IInv
<1> SUFFICES ASSUME Init PROVE IInv
    OBVIOUS
<1>1. Shapes
    BY DEF Init, Shapes, CallShape, Idle, NoState, State, EscalationPolicy
<1>2. CountWithinHits
    BY DEF Init, CountWithinHits, NoState
<1>3. SeenWithinHits
    BY DEF Init, SeenWithinHits, Idle
<1> QED BY <1>1, <1>2, <1>3 DEF IInv

(* A step that changes neither rows nor history, and moves one thread whose new
   call has the right shape and has seen no more than there is.             *)
LEMMA CallStep ==
    ASSUME IInv, NEW t \in Task, NEW c, CallShape(c),
           c.pc = "write" => c.seen.count <= Len(hits[c.user]),
           call' = [call EXCEPT ![t] = c],
           UNCHANGED <<clock, policy, states, hits>>
    PROVE  IInv'
<1>1. \A s \in Task : call'[s] = IF s = t THEN c ELSE call[s]
    BY DEF IInv, Shapes
<1>2. Shapes'
    <2>1. \A s \in Task : CallShape(call'[s])
        BY <1>1 DEF IInv, Shapes
    <2> QED BY <2>1 DEF IInv, Shapes, CallShape
<1>3. CountWithinHits'
    BY DEF IInv, CountWithinHits
<1>4. SeenWithinHits'
    BY <1>1 DEF IInv, SeenWithinHits
<1> QED BY <1>2, <1>3, <1>4 DEF IInv

(* Writing a member's state keeps the counts right. *)
LEMMA WriteCounts ==
    ASSUME IInv, NEW t \in Task, WriteState(t)
    PROVE  IInv'
<1> DEFINE c == call[t]
           u == c.user
           n == NextCount(c.seen, c.now, c.policy.reset)
           h == [at |-> c.now, reset |-> c.policy.reset]
           d == [pc |-> "mute", multiplier |-> c.policy.multiplier, count |-> n,
                 duration |-> ScaledDuration(c.policy.multiplier, n)]
<1>1. /\ c.pc = "write" /\ u \in User /\ c.now \in Nat
      /\ c.policy \in EscalationPolicy /\ c.seen \in State
    BY DEF WriteState, IInv, Shapes, CallShape
<1>2. /\ n \in Nat
      /\ n <= c.seen.count + 1
    BY <1>1, NextCountBound
<1>3. /\ states' = [states EXCEPT ![u] = [count |-> n, at |-> c.now]]
      /\ call' = [call EXCEPT ![t] = d]
      /\ hits' = [hits EXCEPT ![u] = Append(hits[u], h)]
      /\ UNCHANGED <<clock, policy>>
    BY DEF WriteState
<1>4. h \in Hit
    BY <1>1 DEF Hit, EscalationPolicy
<1>5. /\ states \in [User -> State]
      /\ hits \in [User -> Seq(Hit)]
      /\ DOMAIN call = Task
    BY DEF IInv, Shapes
<1>6. Len(Append(hits[u], h)) = Len(hits[u]) + 1
    BY <1>1, <1>4, <1>5
<1>7. \A v \in User : Len(hits[v]) \in Nat /\ Len(hits'[v]) \in Nat /\ Len(hits'[v]) >= Len(hits[v])
    BY <1>1, <1>3, <1>4, <1>5, <1>6
<1>8. \A s \in Task : call'[s] = IF s = t THEN d ELSE call[s]
    BY <1>3, <1>5
<1>9. Shapes'
    <2>1. CallShape(d)
        BY DEF CallShape
    <2>2. \A s \in Task : CallShape(call'[s])
        BY <1>8, <2>1 DEF IInv, Shapes
    <2>3. states' \in [User -> State]
        BY <1>1, <1>2, <1>3, <1>5 DEF State
    <2>4. hits' \in [User -> Seq(Hit)]
        BY <1>1, <1>3, <1>4, <1>5
    <2>5. DOMAIN call' = Task
        BY <1>3, <1>5
    <2>6. /\ clock' \in Nat
          /\ policy' \in EscalationPolicy
        BY <1>3 DEF IInv, Shapes
    <2> QED BY <2>2, <2>3, <2>4, <2>5, <2>6 DEF Shapes, CallShape
<1>10. CountWithinHits'
    <2> SUFFICES ASSUME NEW v \in User PROVE states'[v].count <= Len(hits'[v])
        BY DEF CountWithinHits
    <2>1. CASE v = u
        <3>1. c.seen.count <= Len(hits[u])
            BY <1>1 DEF IInv, SeenWithinHits
        <3>2. states'[v].count = n
            BY <1>3, <1>5, <2>1
        <3>3. Len(hits'[v]) = Len(hits[u]) + 1
            BY <1>3, <1>5, <1>6, <2>1
        <3>4. c.seen.count \in Nat /\ Len(hits[u]) \in Nat
            BY <1>1, <1>7 DEF State
        <3> QED BY <1>2, <3>1, <3>2, <3>3, <3>4
    <2>2. CASE v # u
        BY <1>3, <1>5, <2>2 DEF IInv, CountWithinHits
    <2> QED BY <2>1, <2>2
<1>11. SeenWithinHits'
    <2> SUFFICES ASSUME NEW s \in Task, call'[s].pc = "write"
                 PROVE  call'[s].seen.count <= Len(hits'[call'[s].user])
        BY DEF SeenWithinHits
    <2>1. s # t /\ call'[s] = call[s]
        BY <1>8
    <2>2. call[s].seen.count \in Nat /\ call[s].user \in User
        BY <2>1 DEF IInv, Shapes, CallShape, State
    <2>3. call[s].seen.count <= Len(hits[call[s].user])
        BY <2>1 DEF IInv, SeenWithinHits
    <2> QED BY <1>7, <2>1, <2>2, <2>3
<1> QED BY <1>9, <1>10, <1>11 DEF IInv

(* Every step keeps the counts right. *)
LEMMA StepCounts == IInv /\ [Next]_vars => IInv'
<1> SUFFICES ASSUME IInv, [Next]_vars PROVE IInv'
    OBVIOUS
<1>0. \A t \in Task : CallShape(call[t])
    BY DEF IInv, Shapes
<1>1. ASSUME NEW t \in Task, NEW u \in User, Begin(t, u) PROVE IInv'
    <2> DEFINE c == [pc |-> "policy", user |-> u, now |-> clock]
    <2>1. CallShape(c)
        BY DEF IInv, Shapes, CallShape
    <2> QED BY <1>1, <2>1, CallStep DEF Begin
<1>2. ASSUME NEW t \in Task, ReadPolicy(t) PROVE IInv'
    <2> DEFINE c == [pc |-> "state", user |-> call[t].user, now |-> call[t].now,
                     policy |-> policy]
    <2>1. CallShape(c)
        BY <1>0, <1>2 DEF IInv, Shapes, CallShape, ReadPolicy
    <2> QED BY <1>2, <2>1, CallStep DEF ReadPolicy
<1>3. ASSUME NEW t \in Task, ReadState(t) PROVE IInv'
    <2> DEFINE c == Counting(call[t], states[call[t].user])
    <2>1. call[t].user \in User
        BY <1>0, <1>3 DEF CallShape, ReadState
    <2>2. CallShape(c)
        BY <1>0, <1>3, <2>1 DEF IInv, Shapes, CallShape, ReadState, Counting
    <2>3. c.seen.count <= Len(hits[c.user])
        BY <2>1 DEF IInv, CountWithinHits, Counting
    <2> HIDE DEF c
    <2>4. call' = [call EXCEPT ![t] = c] /\ UNCHANGED <<clock, policy, states, hits>>
        BY <1>3 DEF ReadState, c
    <2> QED BY <2>2, <2>3, <2>4, CallStep
<1>4. ASSUME NEW t \in Task, WriteState(t) PROVE IInv'
    BY <1>4, WriteCounts
<1>5. ASSUME NEW t \in Task, Fails(t) PROVE IInv'
    <2> DEFINE c == [pc |-> "mute", multiplier |-> 1, count |-> 0, duration |-> BaseDuration]
    <2>1. CallShape(c)
        BY DEF CallShape
    <2> QED BY <1>5, <2>1, CallStep DEF Fails
<1>6. ASSUME NEW t \in Task, Mute(t) PROVE IInv'
    <2>1. CallShape(Idle)
        BY DEF CallShape, Idle
    <2>2. Idle.pc # "write"
        BY DEF Idle
    <2> QED BY <1>6, <2>1, <2>2, CallStep DEF Mute
<1>7. ASSUME UNCHANGED <<states, call, hits>>, clock' \in Nat, policy' \in EscalationPolicy
      PROVE  IInv'
    BY <1>7 DEF IInv, Shapes, CallShape, CountWithinHits, SeenWithinHits
<1>8. ASSUME NEW p \in Requests, SetPolicy(p) PROVE IInv'
    <2>1. p \in EscalationPolicy
        BY <1>8 DEF SetPolicy, EscalationPolicy
    <2> QED BY <1>7, <1>8, <2>1 DEF SetPolicy, IInv, Shapes
<1>9. CASE Tick
    BY <1>7, <1>9 DEF Tick, IInv, Shapes
<1>10. CASE UNCHANGED vars
    BY <1>7, <1>10 DEF vars, IInv, Shapes
<1> QED BY <1>1, <1>2, <1>3, <1>4, <1>5, <1>6, <1>8, <1>9, <1>10 DEF Next, Calculate

(* However many workers calculate at once for a user, and whatever policies come
   and go meanwhile, no user is held to have violated more often than he has:
   lost updates make a mute shorter, never longer.                          *)
THEOREM NeverOvercounted == Spec => []CountWithinHits
<1>1. IInv => CountWithinHits
    BY DEF IInv
<1> QED BY <1>1, InitCounts, StepCounts, PTL DEF Spec

-----------------------------------------------------------------------------
(* The reference: what one violation more makes of the streak.               *)
LEMMA MaxIs ==
    ASSUME NEW S \in SUBSET Int, NEW x \in S, \A y \in S : x >= y
    PROVE  Max(S) = x
<1> DEFINE P(m) == m \in S /\ \A y \in S : m >= y
<1>1. P(x)
    OBVIOUS
<1>2. \A m : P(m) => m = x
    OBVIOUS
<1> QED BY <1>1, <1>2 DEF Max

(* A nonempty set of numbers up to n has a greatest one. *)
LEMMA MaxExists ==
    ASSUME NEW n \in Nat, NEW S \in SUBSET (1 .. n), S # {}
    PROVE  /\ Max(S) \in S
           /\ \A y \in S : Max(S) >= y
<1> DEFINE T == {n - x : x \in S}
<1>1. T \in SUBSET Nat /\ T # {}
    <2>1. \A x \in S : n - x \in Nat
        OBVIOUS
    <2> QED BY <2>1
<1>2. PICK d \in T : \A e \in T : d <= e
    <2> HIDE DEF T
    <2> QED BY <1>1, LeastNatural
<1>3. PICK x \in S : d = n - x
    BY <1>2
<1>4. \A y \in S : x >= y
    <2> TAKE y \in S
    <2>1. n - x <= n - y
        BY <1>2, <1>3
    <2> QED BY <2>1
<1>5. S \in SUBSET Int /\ x \in S
    OBVIOUS
<1>6. Max(S) = x
    BY <1>4, <1>5, MaxIs
<1> QED BY <1>4, <1>5, <1>6

Fresh(s) == {i \in 2 .. Len(s) : s[i].at - s[i - 1].at > s[i].reset}

(* The streak runs from the last fresh start to the end of the history. *)
LEMMA StreakOf ==
    ASSUME NEW s
    PROVE  Streak(s) = IF s = <<>> THEN 0 ELSE Len(s) - Max(Fresh(s) \cup {1}) + 1
BY DEF Streak, Fresh

(* One more hit begins a new streak after a long pause, else extends the last. *)
LEMMA StreakGrows ==
    ASSUME NEW s \in Seq(Hit), NEW h \in Hit
    PROVE  Streak(Append(s, h)) =
               IF s = <<>> \/ h.at - s[Len(s)].at > h.reset THEN 1 ELSE Streak(s) + 1
<1> DEFINE r == Append(s, h)
           n == Len(s)
<1>1. /\ n \in Nat /\ Len(r) = n + 1 /\ r[n + 1] = h /\ r # <<>>
      /\ \A i \in 1 .. n : r[i] = s[i]
      /\ s = <<>> <=> n = 0
    BY AppendProperties, EmptySeq, LenProperties
<1> HIDE DEF r
<1>2. CASE s = <<>>
    <2>1. Fresh(r) \cup {1} = {1}
        BY <1>1, <1>2 DEF Fresh
    <2>2. Max({1}) = 1
        <3>1. {1} \in SUBSET Int /\ 1 \in {1} /\ \A y \in {1} : 1 >= y
            OBVIOUS
        <3> QED BY <3>1, MaxIs
    <2>3. Max(Fresh(r) \cup {1}) = 1
        BY <2>1, <2>2, Zenon
    <2>4. Streak(r) = Len(r) - Max(Fresh(r) \cup {1}) + 1
        BY <1>1, StreakOf
    <2>5. Len(r) = 1
        BY <1>1, <1>2
    <2>6. Streak(r) = 1
        BY <2>3, <2>4, <2>5
    <2> QED BY <1>2, <2>6 DEF r
<1>3. CASE s # <<>> /\ h.at - s[n].at > h.reset
    <2>1. n + 1 \in Fresh(r) \cup {1}
        <3>1. n + 1 \in 2 .. Len(r) /\ (n + 1) - 1 = n /\ n \in 1 .. n
            BY <1>1, <1>3
        <3> QED BY <1>1, <1>3, <3>1 DEF Fresh
    <2>2. Fresh(r) \subseteq 2 .. n + 1
        BY <1>1 DEF Fresh
    <2>3. Max(Fresh(r) \cup {1}) = n + 1
        <3> DEFINE S == Fresh(r) \cup {1}
        <3>1. S \in SUBSET Int /\ n + 1 \in S /\ \A y \in S : n + 1 >= y
            BY <1>1, <2>1, <2>2
        <3> HIDE DEF S
        <3>2. Max(S) = n + 1
            BY <3>1, MaxIs
        <3> QED BY <3>2 DEF S
    <2>4. Streak(r) = 1
        BY <1>1, <2>3, StreakOf
    <2> QED BY <1>3, <2>4 DEF r
<1>4. CASE s # <<>> /\ ~(h.at - s[n].at > h.reset)
    <2>1. Fresh(r) = Fresh(s)
        <3>1. ASSUME NEW i \in 2 .. n
              PROVE  r[i] = s[i] /\ r[i - 1] = s[i - 1]
            BY <1>1
        <3>2. ~(r[n + 1].at - r[(n + 1) - 1].at > r[n + 1].reset)
            <4>1. (n + 1) - 1 = n /\ n \in 1 .. n
                BY <1>1, <1>4
            <4> QED BY <1>1, <1>4, <4>1
        <3>3. 2 .. n + 1 = (2 .. n) \cup {n + 1}
            BY <1>1, <1>4
        <3> QED BY <1>1, <3>1, <3>2, <3>3 DEF Fresh
    <2>2. Max(Fresh(s) \cup {1}) \in 1 .. n
        <3>1. Fresh(s) \cup {1} \in SUBSET (1 .. n)
            BY <1>1, <1>4 DEF Fresh
        <3> QED BY <1>1, <3>1, MaxExists
    <2>3. Streak(r) = (n + 1) - Max(Fresh(s) \cup {1}) + 1
        BY <1>1, <2>1, StreakOf
    <2>4. Streak(s) = n - Max(Fresh(s) \cup {1}) + 1
        BY <1>4, StreakOf
    <2>5. Streak(r) = Streak(s) + 1
        BY <1>1, <2>2, <2>3, <2>4
    <2> QED BY <1>4, <2>5 DEF r
<1> QED BY <1>2, <1>3, <1>4

-----------------------------------------------------------------------------
(* What the count of a user rests on.  Every time on record, or read by a
   thread, is the time of a violation.  Of a user of whom no calculations have
   overlapped one thread at most calculates, what it has read is still what the
   row says, and the row is that of the last violation.                     *)
Busy == {"policy", "state", "write"}

OnRecord(s, seen) == seen = NoState \/ \E i \in 1 .. Len(s) : s[i].at = seen.at

TimesOnRecord ==
    /\ \A u \in User : OnRecord(hits[u], states[u])
    /\ \A t \in Task : call[t].pc = "write" => OnRecord(hits[call[t].user], call[t].seen)

Alone(u) == \A s, t \in InCalculation(u) : s = t

Current(u) ==
    \A t \in Task : call[t].pc = "write" /\ call[t].user = u => call[t].seen = states[u]

RowOfLast(u) ==
    /\ states[u].count = Streak(hits[u])
    /\ IF hits[u] = <<>> THEN states[u] = NoState
       ELSE states[u].count > 0 /\ states[u].at = hits[u][Len(hits[u])].at

StreakInv == TimesOnRecord /\ \A u \in User \ raced : Alone(u) /\ Current(u) /\ RowOfLast(u)

(* Nobody has a streak at first. *)
LEMMA StreakInit == Init => StreakInv
<1> SUFFICES ASSUME Init PROVE StreakInv
    OBVIOUS
<1>1. \A u \in User : InCalculation(u) = {}
    BY DEF Init, InCalculation, Idle
<1>2. Streak(<<>>) = 0
    BY DEF Streak
<1>3. TimesOnRecord
    BY DEF Init, TimesOnRecord, OnRecord, Idle
<1>4. \A u \in User : Alone(u) /\ Current(u)
    BY <1>1 DEF Init, Alone, Current, Idle
<1>5. \A u \in User : RowOfLast(u)
    BY <1>2 DEF Init, RowOfLast, NoState
<1> QED BY <1>3, <1>4, <1>5 DEF StreakInv

(* A thread goes on with its calculation, or begins one of a user of whom no
   other goes on, or of one whose calculations have overlapped.             *)
LEMMA StreakCall ==
    ASSUME IInv, StreakInv, NEW t \in Task, NEW c,
           call' = [call EXCEPT ![t] = c], UNCHANGED <<states, hits>>,
           raced \subseteq raced',
           c.pc \in Busy => c.user \in User /\ (c.user \in raced' \/ InCalculation(c.user) \subseteq {t}),
           c.pc = "write" => c.seen = states[c.user]
    PROVE  StreakInv'
<1>1. \A s \in Task : call'[s] = IF s = t THEN c ELSE call[s]
    BY DEF IInv, Shapes
<1>2. TimesOnRecord'
    <2>1. ASSUME NEW s \in Task, call'[s].pc = "write"
          PROVE  OnRecord(hits[call'[s].user], call'[s].seen)
        BY <1>1, <2>1 DEF StreakInv, TimesOnRecord, Busy
    <2> QED BY <2>1 DEF StreakInv, TimesOnRecord
<1>3. ASSUME NEW u \in User \ raced'
      PROVE  Alone(u)' /\ Current(u)' /\ RowOfLast(u)'
    <2>1. Alone(u) /\ Current(u) /\ RowOfLast(u)
        BY <1>3 DEF StreakInv
    <2>2. InCalculation(u)' \subseteq InCalculation(u) \cup {s \in {t} : c.pc \in Busy /\ c.user = u}
        BY <1>1 DEF InCalculation, Busy
    <2>3. Alone(u)'
        BY <1>3, <2>1, <2>2 DEF Alone
    <2>4. Current(u)'
        BY <1>1, <2>1 DEF Current
    <2>5. RowOfLast(u)'
        BY <2>1 DEF RowOfLast
    <2> QED BY <2>3, <2>4, <2>5
<1> QED BY <1>2, <1>3 DEF StreakInv

(* Writing a member's state records the length of his streak. *)
LEMMA StreakWrite ==
    ASSUME IInv, StreakInv, NEW t \in Task, WriteState(t), NEW u, u = call[t].user
    PROVE  StreakInv'
<1> DEFINE c == call[t]
           n == NextCount(c.seen, c.now, c.policy.reset)
           h == [at |-> c.now, reset |-> c.policy.reset]
           d == [pc |-> "mute", multiplier |-> c.policy.multiplier, count |-> n,
                 duration |-> ScaledDuration(c.policy.multiplier, n)]
           r == Append(hits[u], h)
<1>1. /\ c.pc = "write" /\ u \in User /\ c.now \in Nat
      /\ c.policy \in EscalationPolicy /\ c.seen \in State
      /\ states \in [User -> State] /\ hits \in [User -> Seq(Hit)]
    BY DEF WriteState, IInv, Shapes, CallShape
<1>2. h \in Hit /\ hits[u] \in Seq(Hit)
    BY <1>1 DEF Hit, EscalationPolicy
<1>3. /\ states' = [states EXCEPT ![u] = [count |-> n, at |-> c.now]]
      /\ call' = [call EXCEPT ![t] = d]
      /\ hits' = [hits EXCEPT ![u] = r]
      /\ raced' = IF InCalculation(u) = {t} /\ LongSince(hits[u], c.now, c.policy.reset)
                  THEN raced \ {u} ELSE raced
    BY DEF WriteState
<1>4. /\ states'[u] = [count |-> n, at |-> c.now] /\ hits'[u] = r
      /\ \A v \in User \ {u} : states'[v] = states[v] /\ hits'[v] = hits[v]
    BY <1>1, <1>3
<1>5. \A s \in Task : call'[s] = IF s = t THEN d ELSE call[s]
    BY <1>3 DEF IInv, Shapes
<1>6. /\ Len(hits[u]) \in Nat /\ Len(r) = Len(hits[u]) + 1 /\ r[Len(r)] = h /\ r # <<>>
      /\ \A i \in 1 .. Len(hits[u]) : r[i] = hits[u][i]
    BY <1>2, AppendProperties, LenProperties
<1> HIDE DEF h, d, r
<1>7. \A v \in User : \A seen : OnRecord(hits[v], seen) => OnRecord(hits'[v], seen)
    <2> TAKE v \in User
    <2> TAKE seen
    <2>1. CASE v = u
        <3>1. \A i \in 1 .. Len(hits[u]) : i \in 1 .. Len(r)
            BY <1>6
        <3> QED BY <1>4, <1>6, <2>1, <3>1 DEF OnRecord
    <2>2. CASE v # u
        BY <1>4, <2>2
    <2> QED BY <2>1, <2>2
<1>8. h.at = c.now /\ h.reset = c.policy.reset
    BY DEF h
<1>9. d.pc = "mute"
    BY DEF d
<1>10. TimesOnRecord'
    <2>1. OnRecord(hits'[u], states'[u])
        <3>1. Len(r) \in 1 .. Len(r)
            BY <1>6
        <3> QED BY <1>4, <1>6, <1>8, <3>1 DEF OnRecord
    <2>2. \A v \in User \ {u} : OnRecord(hits'[v], states'[v])
        BY <1>4, <1>7 DEF StreakInv, TimesOnRecord
    <2>3. ASSUME NEW s \in Task, call'[s].pc = "write"
          PROVE  OnRecord(hits'[call'[s].user], call'[s].seen)
        <3>1. s # t /\ call'[s] = call[s]
            BY <1>5, <1>9, <2>3
        <3>2. call[s].user \in User /\ OnRecord(hits[call[s].user], call[s].seen)
            BY <2>3, <3>1 DEF IInv, Shapes, CallShape, StreakInv, TimesOnRecord
        <3> QED BY <1>7, <3>1, <3>2
    <2> QED BY <2>1, <2>2, <2>3 DEF TimesOnRecord
<1>11. \A v \in User : InCalculation(v)' = InCalculation(v) \ {t}
    BY <1>5, <1>9 DEF InCalculation
<1>12. t \in InCalculation(u)
    BY <1>1 DEF InCalculation
(* What the thread has read is the row of the last violation, or every violation
   is longer ago than the reset window.                                     *)
<1>13. ASSUME u \notin raced'
       PROVE  /\ InCalculation(u) = {t}
              /\ n = IF hits[u] = <<>> \/ c.now - hits[u][Len(hits[u])].at > c.policy.reset
                     THEN 1 ELSE Streak(hits[u]) + 1
    <2>1. CASE u \notin raced
        <3>1. Alone(u) /\ Current(u) /\ RowOfLast(u)
            BY <1>1, <2>1 DEF StreakInv
        <3>2. InCalculation(u) = {t}
            BY <1>12, <3>1 DEF Alone
        <3>3. c.seen = states[u]
            BY <1>1, <3>1 DEF Current
        <3>4. c.seen.count = Streak(hits[u])
            BY <3>1, <3>3 DEF RowOfLast
        <3>5. CASE hits[u] = <<>>
            <4>1. c.seen = NoState
                BY <3>1, <3>3, <3>5 DEF RowOfLast
            <4> QED BY <3>2, <3>5, <4>1 DEF NextCount
        <3>6. CASE hits[u] # <<>>
            <4>1. c.seen.count > 0 /\ c.seen.at = hits[u][Len(hits[u])].at
                BY <3>1, <3>3, <3>6 DEF RowOfLast
            <4>2. c.seen # NoState
                BY <4>1 DEF NoState
            <4> QED BY <3>2, <3>4, <3>6, <4>1, <4>2 DEF NextCount
        <3> QED BY <3>5, <3>6
    <2>2. CASE u \in raced
        <3>1. InCalculation(u) = {t} /\ LongSince(hits[u], c.now, c.policy.reset)
            BY <1>3, <1>13, <2>2
        <3>2. OnRecord(hits[u], c.seen)
            BY <1>1 DEF StreakInv, TimesOnRecord
        <3>3. n = 1
            BY <3>1, <3>2 DEF OnRecord, LongSince, NextCount
        <3>4. hits[u] # <<>> => Len(hits[u]) \in 1 .. Len(hits[u])
            BY <1>2, <1>6, EmptySeq
        <3> QED BY <3>1, <3>3, <3>4 DEF LongSince
    <2> QED BY <2>1, <2>2
<1>14. ASSUME NEW v \in User \ raced'
       PROVE  Alone(v)' /\ Current(v)' /\ RowOfLast(v)'
    <2>1. CASE v = u
        <3>1. InCalculation(u) = {t}
            BY <1>13, <1>14, <2>1
        <3>2. InCalculation(u)' = {}
            BY <1>1, <1>11, <3>1
        <3>3. Alone(u)'
            BY <3>2 DEF Alone
        <3>4. Current(u)'
            BY <3>2 DEF Current, InCalculation
        <3>5. Streak(r) = n
            BY <1>2, <1>8, <1>13, <1>14, <2>1, StreakGrows DEF r
        <3>6. c.seen.count \in Nat
            BY <1>1 DEF State
        <3>7. n > 0
            BY <3>6 DEF NextCount
        <3>8. RowOfLast(u)'
            BY <1>4, <1>6, <1>8, <3>5, <3>7 DEF RowOfLast
        <3> QED BY <2>1, <3>3, <3>4, <3>8
    <2>2. CASE v # u
        <3>1. v \in User \ raced
            BY <1>3, <1>14, <2>2
        <3>2. Alone(v) /\ Current(v) /\ RowOfLast(v)
            BY <3>1 DEF StreakInv
        <3>3. Alone(v)'
            BY <1>11, <3>2 DEF Alone
        <3>4. Current(v)'
            BY <1>4, <1>5, <1>9, <2>2, <3>2 DEF Current
        <3>5. RowOfLast(v)'
            BY <1>4, <2>2, <3>2 DEF RowOfLast
        <3> QED BY <3>3, <3>4, <3>5
    <2> QED BY <2>1, <2>2
<1> QED BY <1>10, <1>14 DEF StreakInv

(* Every step keeps the streaks recorded. *)
LEMMA StreakStep == IInv /\ StreakInv /\ [Next]_vars => StreakInv'
<1> SUFFICES ASSUME IInv, StreakInv, [Next]_vars PROVE StreakInv'
    OBVIOUS
<1>0. \A t \in Task : CallShape(call[t])
    BY DEF IInv, Shapes
(* A thread in the middle of a calculation, unless others have overlapped it. *)
<1>1. ASSUME NEW t \in Task, call[t].pc \in Busy
      PROVE  /\ call[t].user \in User
             /\ call[t].user \in raced \/ InCalculation(call[t].user) \subseteq {t}
    <2>1. PICK u : u = call[t].user
        OBVIOUS
    <2>2. u \in User /\ t \in InCalculation(u)
        BY <1>0, <1>1, <2>1 DEF CallShape, Busy, InCalculation
    <2>3. u \notin raced => Alone(u)
        BY <2>2 DEF StreakInv
    <2> QED BY <2>1, <2>2, <2>3 DEF Alone
<1>2. ASSUME NEW t \in Task, NEW u \in User, Begin(t, u) PROVE StreakInv'
    <2> DEFINE c == [pc |-> "policy", user |-> u, now |-> clock]
    <2>1. /\ call' = [call EXCEPT ![t] = c] /\ UNCHANGED <<states, hits>>
          /\ raced \subseteq raced'
          /\ u \in raced' \/ InCalculation(u) = {}
        BY <1>2 DEF Begin
    <2>2. c.pc # "write" /\ c.user = u
        OBVIOUS
    <2> HIDE DEF c
    <2> QED BY <2>1, <2>2, StreakCall
<1>3. ASSUME NEW t \in Task, ReadPolicy(t) PROVE StreakInv'
    <2> DEFINE c == [pc |-> "state", user |-> call[t].user, now |-> call[t].now,
                     policy |-> policy]
    <2>1. /\ call' = [call EXCEPT ![t] = c] /\ UNCHANGED <<states, hits, raced>>
          /\ call[t].pc = "policy"
        BY <1>3 DEF ReadPolicy
    <2>2. c.pc # "write" /\ c.user = call[t].user
        OBVIOUS
    <2> HIDE DEF c
    <2> QED BY <1>1, <2>1, <2>2, StreakCall DEF Busy
<1>4. ASSUME NEW t \in Task, ReadState(t) PROVE StreakInv'
    <2> DEFINE c == Counting(call[t], states[call[t].user])
    <2>1. /\ call' = [call EXCEPT ![t] = c] /\ UNCHANGED <<states, hits, raced>>
          /\ call[t].pc = "state"
        BY <1>4 DEF ReadState
    <2>2. c.seen = states[c.user] /\ c.user = call[t].user
        BY DEF Counting
    <2> HIDE DEF c
    <2> QED BY <1>1, <2>1, <2>2, StreakCall DEF Busy
<1>5. ASSUME NEW t \in Task, Fails(t) PROVE StreakInv'
    <2> DEFINE c == [pc |-> "mute", multiplier |-> 1, count |-> 0, duration |-> BaseDuration]
    <2>1. call' = [call EXCEPT ![t] = c] /\ UNCHANGED <<states, hits, raced>>
        BY <1>5 DEF Fails
    <2>2. c.pc \notin Busy /\ c.pc # "write"
        BY DEF Busy
    <2> HIDE DEF c
    <2> QED BY <2>1, <2>2, StreakCall
<1>6. ASSUME NEW t \in Task, Mute(t) PROVE StreakInv'
    <2>1. call' = [call EXCEPT ![t] = Idle] /\ UNCHANGED <<states, hits, raced>>
        BY <1>6 DEF Mute
    <2>2. Idle.pc \notin Busy /\ Idle.pc # "write"
        BY DEF Busy, Idle
    <2> QED BY <2>1, <2>2, StreakCall
<1>7. ASSUME UNCHANGED <<states, call, hits, raced>> PROVE StreakInv'
    BY <1>7 DEF StreakInv, TimesOnRecord, Alone, Current, RowOfLast, InCalculation
<1>8. ASSUME NEW p \in Requests, SetPolicy(p) PROVE StreakInv'
    BY <1>7, <1>8 DEF SetPolicy
<1>9. CASE Tick
    BY <1>7, <1>9 DEF Tick
<1>10. CASE UNCHANGED vars
    BY <1>7, <1>10 DEF vars
<1> QED BY <1>2, <1>3, <1>4, <1>5, <1>6, <1>8, <1>9, <1>10, StreakWrite DEF Next, Calculate

(* The count of a user is the length of his streak, whatever other users' workers
   and the policy do meanwhile, unless two calculations of his have overlapped;
   and it is so again from his first violation after the reset window.      *)
THEOREM CountIsTheStreak == Spec => []CountIsStreak
<1>1. StreakInv => CountIsStreak
    BY DEF StreakInv, RowOfLast, CountIsStreak
<1> QED BY <1>1, InitCounts, StepCounts, StreakInit, StreakStep, PTL DEF Spec

-----------------------------------------------------------------------------
(* What exponentiation is.  The provers know nothing of it, so the theorem about
   the durations has its definition for a hypothesis.                       *)
PowerLaws == \A m \in Nat \ {0} : /\ m ^ 0 = 1
                                  /\ \A n \in Nat : m ^ n \in Nat /\ m ^ (n + 1) = (m ^ n) * m

(* The loop of scaled_mute_duration. *)
LEMMA ScaledLoop ==
    ASSUME NEW m \in Nat \ {0}, NEW k \in Nat
    PROVE  \E f \in [0 .. k -> Nat] :
              /\ f[0] = BaseDuration
              /\ \A n \in 1 .. k : f[n] = Lesser(f[n - 1] * m, MaxDuration)
              /\ ScaledDuration(m, k + 1) = Lesser(f[k], MaxDuration)
<1> DEFINE step == [n \in 1 .. k |-> [d \in Nat |-> Lesser(d * m, MaxDuration)]]
           body(g) == [n \in 0 .. k |-> IF n = 0 THEN BaseDuration
                                        ELSE Lesser(g[n - 1] * m, MaxDuration)]
<1>1. step \in [1 .. k -> [Nat -> Nat]]
    <2>1. \A d \in Nat : Lesser(d * m, MaxDuration) \in Nat
        BY DEF Lesser
    <2> QED BY <2>1
<1>2. PICK f \in [0 .. k -> Nat] : Recursive(f, k, BaseDuration, step)
    <2> HIDE DEF step
    <2> QED BY <1>1, RecursionExists
<1>3. f = body(f)
    <2>1. \A n \in 1 .. k : f[n] = Lesser(f[n - 1] * m, MaxDuration)
        <3> TAKE n \in 1 .. k
        <3>1. f[n - 1] \in Nat
            OBVIOUS
        <3>2. f[n] = step[n][f[n - 1]]
            BY <1>2 DEF Recursive
        <3> QED BY <3>1, <3>2
    <2>2. f[0] = BaseDuration
        BY <1>2 DEF Recursive
    <2> QED BY <2>1, <2>2
<1> DEFINE g == CHOOSE h : h = body(h)
<1>4. g = body(g)
    BY <1>3
<1>5. g \in [0 .. k -> Nat]
    <2> DEFINE T == {n \in 0 .. k : g[n] = f[n]}
    <2> HIDE DEF g
    <2>1. 0 \in T
        BY <1>3, <1>4
    <2>2. \A n \in 1 .. k : n - 1 \in T => n \in T
        BY <1>3, <1>4
    <2>3. 0 .. k \subseteq T
        <3> HIDE DEF T
        <3> QED BY <2>1, <2>2, IntervalByStep
    <2>4. DOMAIN g = 0 .. k /\ g = [n \in 0 .. k |-> g[n]]
        BY <1>4
    <2> QED BY <2>3, <2>4
<1>6. ScaledDuration(m, k + 1) = Lesser(g[k], MaxDuration)
    <2>1. (k + 1) - 1 = k
        OBVIOUS
    <2> QED BY <2>1 DEF ScaledDuration
<1> HIDE DEF g
<1>7. /\ g[0] = BaseDuration
      /\ \A n \in 1 .. k : g[n] = Lesser(g[n - 1] * m, MaxDuration)
    BY <1>4
<1> QED BY <1>5, <1>6, <1>7

(* A product capped at every factor is the product capped once. *)
LEMMA LesserProduct ==
    ASSUME NEW a \in Nat, NEW m \in Nat \ {0}
    PROVE  Lesser(Lesser(a, MaxDuration) * m, MaxDuration) = Lesser(a * m, MaxDuration)
<1>1. CASE a < MaxDuration
    BY <1>1 DEF Lesser
<1>2. CASE ~(a < MaxDuration)
    <2>1. MaxDuration * m >= MaxDuration /\ a * m >= MaxDuration * m
        BY <1>2
    <2>2. a * m \in Nat /\ MaxDuration * m \in Nat
        OBVIOUS
    <2> QED BY <1>2, <2>1, <2>2 DEF Lesser
<1> QED BY <1>1, <1>2

(* The loop over the multiplier yields the capped power. *)
LEMMA ScaledIsPower ==
    ASSUME PowerLaws, NEW m \in Nat \ {0}, NEW count \in Nat \ {0}
    PROVE  ScaledDuration(m, count) = Lesser(BaseDuration * m ^ (count - 1), MaxDuration)
<1> DEFINE k == count - 1
<1>1. k \in Nat /\ k + 1 = count
    OBVIOUS
<1>2. PICK f \in [0 .. k -> Nat] :
          /\ f[0] = BaseDuration
          /\ \A n \in 1 .. k : f[n] = Lesser(f[n - 1] * m, MaxDuration)
          /\ ScaledDuration(m, k + 1) = Lesser(f[k], MaxDuration)
    BY <1>1, ScaledLoop
<1> HIDE DEF k
<1> DEFINE T == {n \in 0 .. k : Lesser(f[n], MaxDuration) = Lesser(BaseDuration * m ^ n, MaxDuration)}
<1>3. 0 \in T
    <2>1. BaseDuration * 1 = BaseDuration /\ m ^ 0 = 1
        BY DEF PowerLaws
    <2> QED BY <1>1, <1>2, <2>1
<1>4. ASSUME NEW n \in 1 .. k, n - 1 \in T
      PROVE  n \in T
    <2>1. PICK i \in Nat : i = n - 1
        BY <1>1
    <2>2. n = i + 1 /\ i \in 0 .. k /\ n \in 0 .. k
        BY <1>1, <2>1
    <2>3. m ^ i \in Nat /\ m ^ n = (m ^ i) * m
        BY <2>2 DEF PowerLaws
    <2>4. PICK p \in Nat : p = m ^ i
        BY <2>3
    <2>5. f[i] \in Nat /\ f[n] = Lesser(f[i] * m, MaxDuration)
        BY <1>2, <2>1, <2>2
    <2>6. Lesser(f[i], MaxDuration) = Lesser(BaseDuration * p, MaxDuration)
        BY <1>4, <2>1, <2>4
    <2>7. Lesser(f[i] * m, MaxDuration) = Lesser((BaseDuration * p) * m, MaxDuration)
        <3>1. BaseDuration * p \in Nat
            BY <2>4
        <3>2. PICK q \in Nat : q = BaseDuration * p
            BY <3>1
        <3>3. PICK a \in Nat : a = f[i]
            BY <2>5
        <3>4. Lesser(Lesser(a, MaxDuration) * m, MaxDuration) = Lesser(a * m, MaxDuration)
            BY LesserProduct
        <3>5. Lesser(Lesser(q, MaxDuration) * m, MaxDuration) = Lesser(q * m, MaxDuration)
            BY LesserProduct
        <3>6. Lesser(a, MaxDuration) = Lesser(q, MaxDuration)
            BY <2>6, <3>2, <3>3
        <3>7. Lesser(a * m, MaxDuration) = Lesser(q * m, MaxDuration)
            BY ONLY <3>4, <3>5, <3>6, Zenon
        <3> QED BY <3>2, <3>3, <3>7
    <2>8. (BaseDuration * p) * m = BaseDuration * (p * m)
        BY <2>4
    <2>9. f[i] * m \in Nat
        BY <2>5
    <2>10. Lesser(f[n], MaxDuration) = Lesser(f[i] * m, MaxDuration)
        BY <2>5, <2>9 DEF Lesser
    <2>11. m ^ n = p * m
        BY <2>3, <2>4
    <2>12. Lesser(f[n], MaxDuration) = Lesser(BaseDuration * m ^ n, MaxDuration)
        BY <2>7, <2>8, <2>10, <2>11
    <2> QED BY <2>2, <2>12
<1>5. k \in T
    <2> HIDE DEF T
    <2>1. 0 .. k \subseteq T
        BY <1>1, <1>3, <1>4, IntervalByStep
    <2> QED BY <1>1, <2>1
<1> QED BY <1>1, <1>2, <1>5 DEF k

(* No mute has been given at first, so no duration is wrong. *)
LEMMA DurationInit == Init => DurationIsPower
BY DEF Init, DurationIsPower, Idle

(* Every mute given is given the power its count asks for. *)
LEMMA DurationStep == PowerLaws /\ IInv /\ DurationIsPower /\ [Next]_vars => DurationIsPower'
<1> SUFFICES ASSUME PowerLaws, IInv, DurationIsPower, [Next]_vars PROVE DurationIsPower'
    OBVIOUS
<1> DEFINE Right(c) == c.pc = "mute" =>
                c.duration = IF c.count = 0 THEN BaseDuration
                             ELSE Lesser(BaseDuration * c.multiplier ^ (c.count - 1), MaxDuration)
<1>0. \A t \in Task : Right(call[t])
    BY DEF DurationIsPower
<1>1. ASSUME NEW t \in Task, NEW c, call' = [call EXCEPT ![t] = c], Right(c)
      PROVE  DurationIsPower'
    <2>1. \A s \in Task : call'[s] = IF s = t THEN c ELSE call[s]
        BY <1>1 DEF IInv, Shapes
    <2>2. \A s \in Task : Right(call'[s])
        BY <1>0, <1>1, <2>1
    <2> QED BY <2>2 DEF DurationIsPower
<1>2. ASSUME NEW t \in Task, NEW u \in User, Begin(t, u) PROVE DurationIsPower'
    <2>1. call' = [call EXCEPT ![t] = [pc |-> "policy", user |-> u, now |-> clock]]
        BY <1>2 DEF Begin
    <2>2. Right([pc |-> "policy", user |-> u, now |-> clock])
        OBVIOUS
    <2> HIDE DEF Right
    <2> QED BY <1>1, <2>1, <2>2
<1>3. ASSUME NEW t \in Task, ReadPolicy(t) PROVE DurationIsPower'
    <2> DEFINE c == [pc |-> "state", user |-> call[t].user, now |-> call[t].now,
                     policy |-> policy]
    <2>1. call' = [call EXCEPT ![t] = c] /\ Right(c)
        BY <1>3 DEF ReadPolicy
    <2> HIDE DEF c, Right
    <2> QED BY <1>1, <2>1
<1>4. ASSUME NEW t \in Task, ReadState(t) PROVE DurationIsPower'
    <2> DEFINE c == Counting(call[t], states[call[t].user])
    <2>1. call' = [call EXCEPT ![t] = c] /\ Right(c)
        BY <1>4 DEF ReadState, Counting
    <2> HIDE DEF c, Right
    <2> QED BY <1>1, <2>1
<1>5. ASSUME NEW t \in Task, WriteState(t) PROVE DurationIsPower'
    <2> DEFINE n == NextCount(call[t].seen, call[t].now, call[t].policy.reset)
               m == call[t].policy.multiplier
               c == [pc |-> "mute", multiplier |-> m, count |-> n,
                     duration |-> ScaledDuration(m, n)]
    <2>1. call' = [call EXCEPT ![t] = c]
        BY <1>5 DEF WriteState
    <2>2. call[t].seen \in State /\ m \in Nat \ {0}
        BY <1>5 DEF WriteState, IInv, Shapes, CallShape, EscalationPolicy
    <2>3. n \in Nat \ {0}
        BY <2>2 DEF NextCount, State
    <2> HIDE DEF n, m
    <2>4. Right(c)
        BY <2>2, <2>3, ScaledIsPower
    <2> HIDE DEF c, Right
    <2> QED BY <1>1, <2>1, <2>4
<1>6. ASSUME NEW t \in Task, Fails(t) PROVE DurationIsPower'
    <2> DEFINE c == [pc |-> "mute", multiplier |-> 1, count |-> 0, duration |-> BaseDuration]
    <2>1. call' = [call EXCEPT ![t] = c] /\ Right(c)
        BY <1>6 DEF Fails
    <2> HIDE DEF c, Right
    <2> QED BY <1>1, <2>1
<1>7. ASSUME NEW t \in Task, Mute(t) PROVE DurationIsPower'
    <2>1. call' = [call EXCEPT ![t] = Idle] /\ Right(Idle)
        BY <1>7 DEF Mute, Idle
    <2> HIDE DEF Right
    <2> QED BY <1>1, <2>1
<1>8. CASE UNCHANGED call
    BY <1>8 DEF DurationIsPower
<1> HIDE DEF Right
<1> QED BY <1>2, <1>3, <1>4, <1>5, <1>6, <1>7, <1>8
        DEF Next, Calculate, SetPolicy, Tick, vars

(* The duration of every mute is the base duration times the multiplier to the
   power of the count less one, up to the longest that the platform takes.  *)
THEOREM DurationsArePowers == PowerLaws /\ Spec => []DurationIsPower
<1>1. ASSUME PowerLaws
      PROVE  Spec => []DurationIsPower
    <2>1. IInv /\ DurationIsPower /\ [Next]_vars => DurationIsPower'
        BY <1>1, DurationStep
    <2> QED BY <2>1, InitCounts, StepCounts, DurationInit, PTL DEF Spec
<1> QED BY <1>1
=============================================================================
