--------------------------- MODULE OutboxContract ---------------------------
(***************************************************************************)
(* What the persistent outbox promises: a work queue that hands each job   *)
(* out to one worker at a time, executes it at least once before it calls  *)
(* it done, gives it up after MaxAttempts failed attempts and never looks  *)
(* at a finished job again.                                                *)
(***************************************************************************)
EXTENDS Naturals

CONSTANTS Key, MaxAttempts

VARIABLES
    state,       \* state[k]: where job k is in its life
    attempts,    \* attempts[k]: how many attempts have failed
    runs         \* runs[k]: how many executions have begun

contractVars == <<state, attempts, runs>>

Submit(k) == /\ state[k] = "absent"
             /\ state' = [state EXCEPT ![k] = "pending"]
             /\ UNCHANGED <<attempts, runs>>

Lease(k) == /\ state[k] = "pending"
            /\ attempts[k] < MaxAttempts
            /\ state' = [state EXCEPT ![k] = "processing"]
            /\ UNCHANGED <<attempts, runs>>

Run(k) == /\ state[k] = "processing"
          /\ runs' = [runs EXCEPT ![k] = @ + 1]
          /\ UNCHANGED <<state, attempts>>

Complete(k) == /\ state[k] = "processing"
               /\ runs[k] > 0
               /\ state' = [state EXCEPT ![k] = "done"]
               /\ UNCHANGED <<attempts, runs>>

FailAttempt(k) ==
    /\ state[k] = "processing"
    /\ attempts' = [attempts EXCEPT ![k] = @ + 1]
    /\ state' = [state EXCEPT ![k] = IF attempts'[k] = MaxAttempts
                                     THEN "failed" ELSE "pending"]
    /\ UNCHANGED runs

(* Leases given back without a failed attempt: a deferred job, or all the jobs
   a dead instance had leased.                                              *)
Release(jobs) ==
    /\ \A k \in jobs : state[k] = "processing"
    /\ state' = [k \in Key |-> IF k \in jobs THEN "pending" ELSE state[k]]
    /\ UNCHANGED <<attempts, runs>>

Init == /\ state = [k \in Key |-> "absent"]
        /\ attempts = [k \in Key |-> 0]
        /\ runs = [k \in Key |-> 0]

Next == \/ \E k \in Key : \/ Submit(k) \/ Lease(k) \/ Run(k)
                          \/ Complete(k) \/ FailAttempt(k)
        \/ \E jobs \in SUBSET Key : Release(jobs)

Spec == Init /\ [][Next]_contractVars
=============================================================================
