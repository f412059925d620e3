--------------------------- MODULE MuteEscalation ---------------------------
(***************************************************************************)
(* repository_mute.py and domain/mute_escalation.py: how the violations of *)
(* the users of one group lengthen their mutes.  calculate_mute_escalation *)
(* is called by several workers at once; the sqlite3 module opens its      *)
(* transaction only before the INSERT, so the two SELECTs before it are    *)
(* steps of their own.                                                     *)
(*                                                                         *)
(* The wall clock does not go back.  group_mute_policies only gives the    *)
(* base duration, a constant here.                                         *)
(***************************************************************************)
EXTENDS Integers, Sequences, FiniteSets, FiniteSetsExt

CONSTANTS
    Task,            \* threads that calculate an escalation
    User,            \* users of the group
    Requests,        \* the policies that commands ask for
    MinMultiplier, MaxMultiplier, MinReset, MaxReset,    \* domain/settings.py
    BaseDuration,    \* mute_duration_seconds of the group
    MaxDuration,     \* MAX_MUTE_DURATION_SECONDS
    MaxClock,        \* bound: the clock
    MaxHits,         \* bound: violations of the group
    MaxFaults        \* bound: database errors

ASSUME EscalationAssumption == /\ Requests \subseteq [multiplier: Int, reset: Int]
                               /\ MinMultiplier \in Nat \ {0} /\ MaxMultiplier \in Nat
                               /\ MinReset \in Nat \ {0} /\ MaxReset \in Nat
                               /\ BaseDuration \in Nat \ {0}
                               /\ MaxDuration \in Nat \ {0}
                               /\ MaxClock \in Nat
                               /\ MaxHits \in Nat
                               /\ MaxFaults \in Nat

EscalationPolicy == [multiplier: MinMultiplier .. MaxMultiplier, reset: MinReset .. MaxReset]

VARIABLES
    clock,      \* datetime.now()
    policy,     \* group_mute_escalation_policies row of the group, or the default
    states,     \* user_mute_escalation_states, by user
    call,       \* call[t]: the calculation in thread t
    hits,       \* hits[u]: the violations counted for u, in that order
    raced,      \* users of whom two calculations have overlapped
    faults      \* database errors so far

vars == <<clock, policy, states, call, hits, raced, faults>>

NoState == [count |-> 0, at |-> 0]    \* no row

Idle == [pc |-> "idle"]

-----------------------------------------------------------------------------
(* domain/mute_escalation.py *)

(* Mutant: a violation at the very end of the window does not count. *)
NextCountEarlyReset(seen, now, reset) ==
    IF seen = NoState \/ now - seen.at >= reset THEN 1 ELSE seen.count + 1

NextCount(seen, now, reset) ==
    IF seen = NoState \/ now - seen.at > reset THEN 1 ELSE seen.count + 1

Lesser(a, b) == IF a < b THEN a ELSE b

(* Mutant: the multiplier is applied once for every violation. *)
ScaledDurationOffByOne(multiplier, count) ==
    LET scaled[n \in 0 .. count] ==
            IF n = 0 THEN BaseDuration
                     ELSE Lesser(scaled[n - 1] * multiplier, MaxDuration)
    IN  Lesser(scaled[count], MaxDuration)

(* The loop of scaled_mute_duration, which stops at the maximum. *)
ScaledDuration(multiplier, count) ==
    LET scaled[n \in 0 .. count - 1] ==
            IF n = 0 THEN BaseDuration
                     ELSE Lesser(scaled[n - 1] * multiplier, MaxDuration)
    IN  Lesser(scaled[count - 1], MaxDuration)

-----------------------------------------------------------------------------
(* calculate_mute_escalation *)

InCalculation(u) == {t \in Task : call[t].pc \in {"policy", "state", "write"}
                                  /\ call[t].user = u}

(* now is read before the connection is opened. *)
Begin(t, u) ==
    /\ call[t].pc = "idle"
    /\ MapThenSumSet(LAMBDA v : Len(hits[v]) + Cardinality(InCalculation(v)), User) < MaxHits
    /\ call' = [call EXCEPT ![t] = [pc |-> "policy", user |-> u, now |-> clock]]
    /\ raced' = IF InCalculation(u) = {} THEN raced ELSE raced \cup {u}
    /\ UNCHANGED <<clock, policy, states, hits, faults>>

ReadPolicy(t) ==
    /\ call[t].pc = "policy"
    /\ call' = [call EXCEPT ![t] = [pc |-> "state", user |-> @.user, now |-> @.now,
                                    policy |-> policy]]
    /\ UNCHANGED <<clock, policy, states, hits, raced, faults>>

Counting(c, seen) == [pc |-> "write", user |-> c.user, now |-> c.now,
                      policy |-> c.policy, seen |-> seen]

(* Mutant: the count is taken from whoever violated last. *)
ReadStateOfOthers(t) ==
    /\ call[t].pc = "state"
    /\ \E u \in User :
          /\ \A v \in User : states[v].at <= states[u].at
          /\ call' = [call EXCEPT ![t] = Counting(@, states[u])]
    /\ UNCHANGED <<clock, policy, states, hits, raced, faults>>

ReadState(t) ==
    /\ call[t].pc = "state"
    /\ call' = [call EXCEPT ![t] = Counting(@, states[@.user])]
    /\ UNCHANGED <<clock, policy, states, hits, raced, faults>>

(* The longest gap ends every earlier race: what follows counts from one. *)
LongSince(s, now, reset) == \A i \in 1 .. Len(s) : now - s[i].at > reset

(* INSERT INTO user_mute_escalation_states ... ON CONFLICT DO UPDATE *)
WriteState(t) ==
    /\ call[t].pc = "write"
    /\ LET c     == call[t]
           u     == c.user
           count == NextCount(c.seen, c.now, c.policy.reset)
       IN  /\ states' = [states EXCEPT ![u] = [count |-> count, at |-> c.now]]
           /\ call' = [call EXCEPT ![t] =
                  [pc |-> "mute", multiplier |-> c.policy.multiplier, count |-> count,
                   duration |-> ScaledDuration(c.policy.multiplier, count)]]
           /\ hits' = [hits EXCEPT ![u] = Append(@, [at |-> c.now, reset |-> c.policy.reset])]
           /\ raced' = IF /\ InCalculation(u) = {t}
                          /\ LongSince(hits[u], c.now, c.policy.reset)
                       THEN raced \ {u} ELSE raced
    /\ UNCHANGED <<clock, policy, faults>>

(* A statement raises: _escalated_mute_duration returns the base duration. *)
Fails(t) ==
    /\ call[t].pc \in {"policy", "state", "write"}
    /\ faults < MaxFaults
    /\ faults' = faults + 1
    /\ call' = [call EXCEPT ![t] = [pc |-> "mute", multiplier |-> 1, count |-> 0,
                                    duration |-> BaseDuration]]
    /\ UNCHANGED <<clock, policy, states, hits, raced>>

(* The mute is on its way; the thread is free. *)
Mute(t) ==
    /\ call[t].pc = "mute"
    /\ call' = [call EXCEPT ![t] = Idle]
    /\ UNCHANGED <<clock, policy, states, hits, raced, faults>>

(* .cf mute-stack *)
SetPolicy(p) ==
    /\ p.multiplier \in MinMultiplier .. MaxMultiplier
    /\ p.reset \in MinReset .. MaxReset
    /\ policy' = p
    /\ UNCHANGED <<clock, states, call, hits, raced, faults>>

Tick ==
    /\ clock < MaxClock
    /\ clock' = clock + 1
    /\ UNCHANGED <<policy, states, call, hits, raced, faults>>

-----------------------------------------------------------------------------
Init == /\ clock = 0
        /\ policy \in Requests \cap EscalationPolicy
        /\ states = [u \in User |-> NoState]
        /\ call = [t \in Task |-> Idle]
        /\ hits = [u \in User |-> <<>>]
        /\ raced = {}
        /\ faults = 0

Calculate(t) == ReadPolicy(t) \/ ReadState(t) \/ WriteState(t) \/ Fails(t) \/ Mute(t)

Next == \/ \E t \in Task : (\E u \in User : Begin(t, u)) \/ Calculate(t)
        \/ \E p \in Requests : SetPolicy(p)
        \/ Tick

Spec == Init /\ [][Next]_vars

Hit   == [at: Nat, reset: Nat]
State == [count: Nat, at: Nat]

-----------------------------------------------------------------------------
(* The reference: the violations since the last gap that was longer than the
   reset window.                                                            *)
Streak(s) ==
    LET fresh == {i \in 2 .. Len(s) : s[i].at - s[i - 1].at > s[i].reset}
    IN  IF s = <<>> THEN 0 ELSE Len(s) - Max(fresh \cup {1}) + 1

(* A user is never held to have violated more often than he has, whatever the
   calculations of several workers do to each other.                        *)
CountWithinHits == \A u \in User : states[u].count <= Len(hits[u])

(* As long as no two calculations for a user overlap, the count is the length
   of the user's streak; and after an overlap it is so again from the first
   violation that comes later than the reset window.                        *)
CountIsStreak ==
    \A u \in User \ raced : states[u].count = Streak(hits[u])

(* The mute is the base duration times multiplier ** (count - 1), capped by the
   maximum of the platform; it is the base duration if nothing was counted. *)
DurationIsPower ==
    \A t \in Task :
        LET c == call[t]
        IN  c.pc = "mute" =>
                c.duration = IF c.count = 0 THEN BaseDuration
                             ELSE Lesser(BaseDuration * c.multiplier ^ (c.count - 1),
                                         MaxDuration)

(* Every violation within the reset window lengthens the mute. *)
EveryHitCounts == \A u \in User : states[u].count >= Streak(hits[u])
=============================================================================
