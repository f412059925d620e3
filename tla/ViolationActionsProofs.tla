----------------------- MODULE ViolationActionsProofs -----------------------
(***************************************************************************)
(* Theorems about ViolationActions, for every set of push groups and       *)
(* policies and every number of faults and attempts.                       *)
(*                                                                         *)
(* Type correctness comes first.  IInv adds what the record-keeping rests  *)
(* on: where an execution is (Places), that what it believes to have       *)
(* happened has happened (Truthful), and that what it read at its          *)
(* beginning still is what the record says of the actions ahead of it      *)
(* (Fresh).  Counted keeps the books of the mutes and the violation count; *)
(* Clean follows a job that meets no error from its empty record to the    *)
(* tally of its deliveries.                                                *)
(***************************************************************************)
EXTENDS ViolationActions, TLAPS

(* The default policy is a policy. *)
LEMMA DefaultPolicyType == DefaultPolicy \in Policy
  BY DEF DefaultPolicy, Policy

(* Effects are numbered. *)
LEMMA EffectsNat == \A o \in Outcome : Effects(o) \subseteq Nat
  BY DEF Effects, Outcome

(* The typing of the locals once an execution has ended. *)
LEMMA NoLocalsType ==
    ASSUME NoLocals
    PROVE  /\ known' \in [Action -> Status \cup {"unknown"}]
           /\ plan' \in Policy
           /\ result' \in [Action -> Status]
           /\ todo' \subseteq PushGroup
           /\ target' \in PushGroup \cup {NoGroup}
           /\ sent' \subseteq Outcome
  BY DefaultPolicyType DEF NoLocals, Unknown, Status

(* The types hold at first. *)
LEMMA TypeInit == Init => TypeOK
  BY ActionsAssumption, DefaultPolicyType
     DEF Init, TypeOK, Unknown, Action, Punishment, Status

(* Every step keeps the types. *)
LEMMA TypeStep == TypeOK /\ [Next]_vars => TypeOK'
  <1> SUFFICES ASSUME TypeOK, [Next]_vars
               PROVE  TypeOK'
    OBVIOUS
  <1> USE ActionsAssumption
  <1>1. CASE Submit
    BY <1>1 DEF TypeOK, Submit, recordVars, adminVars, localVars, effectVars
  <1>2. CASE Claim
    BY <1>2 DEF TypeOK, Claim, Goto, recordVars, adminVars, localVars, effectVars
  <1>3. CASE Start
    BY <1>3 DEF TypeOK, Start, Goto, recordVars, adminVars, jobVars, localVars, effectVars
  <1>4. CASE LookupStatuses
    <2>1. known' \in [Action -> Status \cup {"unknown"}]
      BY <1>4 DEF TypeOK, LookupStatuses, Unknown
    <2>2. faults' \in 0 .. MaxFaults
      BY <1>4 DEF TypeOK, LookupStatuses, Fault
    <2>3. QED
      BY <1>4, <2>1, <2>2
         DEF TypeOK, LookupStatuses, Goto, recordVars, adminVars, jobVars, effectVars
  <1>5. CASE LookupPolicy
    <2>1. plan' \in Policy
      BY <1>5, DefaultPolicyType DEF TypeOK, LookupPolicy
    <2>2. faults' \in 0 .. MaxFaults
      BY <1>5 DEF TypeOK, LookupPolicy, Fault
    <2>3. QED
      BY <1>5, <2>1, <2>2
         DEF TypeOK, LookupPolicy, Goto, recordVars, adminVars, jobVars, effectVars
  <1>6. CASE DecidePunishment
    <2>1. /\ result' \in [Action -> Status]
          /\ pc' \in {"decide", "save", "escalate", "call", "warn"}
          /\ act' \in Action
      BY <1>6 DEF TypeOK, DecidePunishment, Obtain, Proceed, Goto, Action,
                  Punishment, Status, Outcome
    <2>2. QED
      BY <1>6, <2>1
         DEF TypeOK, DecidePunishment, recordVars, adminVars, jobVars, effectVars
  <1>7. CASE Escalate
    <2>1. escalated' \in Nat /\ faults' \in 0 .. MaxFaults
      BY <1>7 DEF TypeOK, Escalate, Fault
    <2>2. QED
      BY <1>7, <2>1 DEF TypeOK, Escalate, Goto, recordVars, adminVars, jobVars, localVars
  <1>8. CASE Punish
    <2>0. PICK o \in Outcome : \E n \in Effects(o) :
             /\ Obtain(o)
             /\ punished' = [punished EXCEPT ![act] = @ + n]
      BY <1>8 DEF Punish
    <2>1. PICK n \in Effects(o) :
             /\ Obtain(o)
             /\ punished' = [punished EXCEPT ![act] = @ + n]
      BY <2>0
    <2>2. n \in Nat
      BY EffectsNat
    <2>3. punished' \in [Punishment -> Nat]
      <3>1. \A a \in Punishment : punished[a] + n \in Nat
        BY <2>2 DEF TypeOK
      <3>2. QED
        BY <2>1, <3>1 DEF TypeOK
    <2>4. result' \in [Action -> Status]
      BY <2>1 DEF TypeOK, Obtain, Status
    <2>5. QED
      BY <1>8, <2>3, <2>4 DEF TypeOK, Punish, Goto, recordVars, adminVars, jobVars
  <1>9. CASE SaveStatus
    <2>1. status' \in [Action -> Status] /\ faults' \in 0 .. MaxFaults
      BY <1>9 DEF TypeOK, SaveStatus, Fault
    <2>2. pc' \in {"decide", "warn"} /\ act' \in Action
      BY <1>9 DEF TypeOK, SaveStatus, Proceed, Goto, Action, Punishment
    <2>3. QED
      BY <1>9, <2>1, <2>2 DEF TypeOK, SaveStatus, adminVars, jobVars, localVars, effectVars
  <1>10. CASE DecideForward
    <2>1. result' \in [Action -> Status] /\ todo' \subseteq PushGroup
      BY <1>10 DEF TypeOK, DecideForward, Obtain, Status, Outcome
    <2>2. pc' \in {"save", "announce"} /\ act' \in Action
      BY <1>10 DEF TypeOK, DecideForward, Goto
    <2>3. faults' \in 0 .. MaxFaults
      BY <1>10 DEF TypeOK, DecideForward, Fault
    <2>4. QED
      BY <1>10, <2>1, <2>2, <2>3
         DEF TypeOK, DecideForward, recordVars, adminVars, jobVars, effectVars
  <1>11. CASE Announce
    <2>1. PICK g \in todo : /\ target' = g
                            /\ todo' = todo \ {g}
                            /\ RecordDelivery(g, "pending")
      BY <1>11 DEF Announce
    <2>2. delivery' \in [PushGroup -> Status \cup {"none"}] /\ faults' \in 0 .. MaxFaults
      BY <2>1 DEF TypeOK, RecordDelivery, Fault, Status
    <2>3. QED
      BY <1>11, <2>1, <2>2 DEF TypeOK, Announce, Goto, adminVars, jobVars, effectVars
  <1>12. CASE SendForward
    <2>0. PICK o \in Outcome : \E n \in Effects(o) :
             /\ Obtain(o)
             /\ sent' = sent \cup {o}
             /\ forwarded' = [forwarded EXCEPT ![target] = @ + n]
      BY <1>12 DEF SendForward
    <2>1. PICK n \in Effects(o) :
             /\ Obtain(o)
             /\ sent' = sent \cup {o}
             /\ forwarded' = [forwarded EXCEPT ![target] = @ + n]
      BY <2>0
    <2>2. n \in Nat
      BY EffectsNat
    <2>3. forwarded' \in [PushGroup -> Nat]
      <3>1. \A g \in PushGroup : forwarded[g] + n \in Nat
        BY <2>2 DEF TypeOK
      <3>2. QED
        BY <2>1, <3>1 DEF TypeOK
    <2>4. result' \in [Action -> Status]
      BY <2>1 DEF TypeOK, Obtain, Status
    <2>5. sent' \subseteq Outcome
      BY <2>1 DEF TypeOK
    <2>6. QED
      BY <1>12, <2>3, <2>4, <2>5 DEF TypeOK, SendForward, Goto, recordVars, adminVars, jobVars
  <1>13. CASE RecordResult
    <2>1. result["forward"] \in Status
      BY DEF TypeOK, Action
    <2>2. delivery' \in [PushGroup -> Status \cup {"none"}] /\ faults' \in 0 .. MaxFaults
      BY <1>13, <2>1 DEF TypeOK, RecordResult, RecordDelivery, Fault
    <2>3. QED
      BY <1>13, <2>2
         DEF TypeOK, RecordResult, Goto, adminVars, jobVars, localVars, effectVars
  <1>14. CASE SendTextLog
    <2>1. result' \in [Action -> Status]
      BY <1>14 DEF TypeOK, SendTextLog, Obtain, Aggregate, Status, Outcome
    <2>2. QED
      BY <1>14, <2>1
         DEF TypeOK, SendTextLog, Goto, recordVars, adminVars, jobVars, effectVars
  <1>15. CASE SendWarning
    BY <1>15 DEF TypeOK, SendWarning, Goto, recordVars, adminVars, jobVars,
                 localVars, effectVars
  <1>16. CASE MarkDone
    BY <1>16, NoLocalsType
       DEF TypeOK, MarkDone, EndExecution, recordVars, adminVars, effectVars, Action, Punishment
  <1>17. CASE MarkDoneFails
    <2>1. faults' \in 0 .. MaxFaults
      BY <1>17 DEF TypeOK, MarkDoneFails, Fault
    <2>2. QED
      BY <1>17, <2>1, NoLocalsType
         DEF TypeOK, MarkDoneFails, EndExecution, recordVars, adminVars, effectVars,
             Action, Punishment
  <1>18. CASE Interrupted
    <2>1. faults' \in 0 .. MaxFaults
      BY <1>18 DEF TypeOK, Interrupted, Fault
    <2>2. QED
      BY <1>18, <2>1, NoLocalsType
         DEF TypeOK, Interrupted, EndExecution, recordVars, adminVars, effectVars,
             Action, Punishment
  <1>19. CASE SetPolicy
    BY <1>19 DEF TypeOK, SetPolicy, recordVars, jobVars, localVars, effectVars
  <1>20. CASE AddBinding
    BY <1>20 DEF TypeOK, AddBinding, recordVars, jobVars, localVars, effectVars
  <1>21. CASE UNCHANGED vars
    BY <1>21 DEF TypeOK, vars, recordVars, adminVars, jobVars, localVars, effectVars
  <1>22. QED
    BY <1>1, <1>2, <1>3, <1>4, <1>5, <1>6, <1>7, <1>8, <1>9, <1>10, <1>11, <1>12,
       <1>13, <1>14, <1>15, <1>16, <1>17, <1>18, <1>19, <1>20, <1>21
       DEF Next, Execution

(* Every variable keeps its type, whatever fails and whatever the
   administrators set in between.                                           *)
THEOREM ActionsTypeCorrect == Spec => []TypeOK
  BY TypeInit, TypeStep, PTL DEF Spec

-----------------------------------------------------------------------------
(* Where an execution is, and what that says of the job. *)
Places ==
    /\ pc = "idle" <=> job # "processing"
    /\ job \in {"absent", "pending", "processing"} => attempts < MaxAttempts
    /\ pc \notin {"idle", "start"} => runs > 0
    /\ pc \in {"idle", "start", "lookup", "policy"} => act = "mute"
    /\ pc \in {"escalate", "call"} => act \in Punishment
    /\ pc \in {"announce", "send", "deliver", "log"} => act = "forward"
    /\ pc \in {"send", "deliver", "log"} => target \in PushGroup

(* What the record says, what was read from it and what the execution takes
   for its results has happened.                                            *)
Believed(a) == status[a] = "success" \/ known[a] = "success" \/ result[a] = "success"

ReachedGroup == \E g \in PushGroup : forwarded[g] > 0

Truthful ==
    /\ \A a \in Punishment : Believed(a) => punished[a] > 0
    /\ Believed("forward") \/ "success" \in sent => ReachedGroup
    /\ \A g \in PushGroup : delivery[g] = "success" => forwarded[g] > 0
    /\ pc = "deliver" /\ result["forward"] = "success" => forwarded[target] > 0

(* The actions the execution has not finished. *)
Ahead == CASE act = "mute"   -> Action
           [] act = "recall" -> {"recall", "forward"}
           [] OTHER          -> {"forward"}

(* What was read of them is still what the record says, and a known success is
   not acted upon.                                                          *)
Fresh ==
    /\ pc \in {"policy", "decide", "escalate", "call", "save", "announce", "send",
               "deliver", "log"} =>
           \A a \in Ahead : known[a] # "unknown" => known[a] = status[a]
    /\ pc \in {"escalate", "call"} => known[act] # "success"
    /\ pc \in {"announce", "send", "deliver", "log"} => known["forward"] # "success"
    /\ pc = "save" /\ known[act] = "success" => result[act] = "success"

IInv == TypeOK /\ Places /\ Truthful /\ Fresh

(* The inductive invariant holds at first. *)
LEMMA IInvInit == Init => IInv
  <1> SUFFICES ASSUME Init PROVE IInv
    OBVIOUS
  <1>1. TypeOK
    BY TypeInit
  <1>2. Places
    BY ActionsAssumption DEF Init, Places
  <1>3. Truthful
    BY DEF Init, Truthful, Believed, Unknown, Action, Punishment
  <1>4. Fresh
    BY DEF Init, Fresh
  <1>5. QED
    BY <1>1, <1>2, <1>3, <1>4 DEF IInv

(* Every step keeps the execution's point in step with the job and the action. *)
LEMMA PlacesStep == TypeOK /\ Places /\ [Next]_vars => Places'
  <1> SUFFICES ASSUME TypeOK, Places, [Next]_vars
               PROVE  Places'
    OBVIOUS
  <1> USE ActionsAssumption
  <1>1. CASE Submit
    BY <1>1 DEF Places, Submit, localVars
  <1>2. CASE Claim
    BY <1>2 DEF Places, Claim, Goto, localVars
  <1>3. CASE Start
    BY <1>3 DEF TypeOK, Places, Start, Goto, jobVars, localVars
  <1>4. CASE LookupStatuses
    BY <1>4 DEF Places, LookupStatuses, Goto, jobVars
  <1>5. CASE LookupPolicy
    BY <1>5 DEF Places, LookupPolicy, Goto, jobVars
  <1>6. CASE DecidePunishment
    <2>1. /\ pc' \in {"decide", "save", "escalate", "call"}
          /\ pc' \in {"escalate", "call"} => act' = act
      BY <1>6 DEF DecidePunishment, Proceed, Goto, Punishment
    <2>2. QED
      BY <1>6, <2>1 DEF Places, DecidePunishment, jobVars
  <1>7. CASE Escalate
    BY <1>7 DEF Places, Escalate, Goto, jobVars, localVars
  <1>8. CASE Punish
    BY <1>8 DEF Places, Punish, Goto, jobVars
  <1>9. CASE SaveStatus
    <2>1. pc' \in {"decide", "warn"}
      BY <1>9 DEF SaveStatus, Proceed, Goto
    <2>2. QED
      BY <1>9, <2>1 DEF Places, SaveStatus, jobVars
  <1>10. CASE DecideForward
    <2>1. pc' \in {"save", "announce"} /\ act' = "forward"
      BY <1>10 DEF DecideForward, Goto
    <2>2. QED
      BY <1>10, <2>1 DEF Places, DecideForward, jobVars
  <1>11. CASE Announce
    <2>1. target' \in PushGroup
      BY <1>11 DEF Announce, TypeOK
    <2>2. QED
      BY <1>11, <2>1 DEF Places, Announce, Goto, jobVars
  <1>12. CASE SendForward
    BY <1>12 DEF Places, SendForward, Goto, jobVars
  <1>13. CASE RecordResult
    BY <1>13 DEF Places, RecordResult, Goto, jobVars, localVars
  <1>14. CASE SendTextLog
    <2>1. pc' \in {"save", "announce"} /\ act' = "forward"
      BY <1>14 DEF Places, SendTextLog, Goto
    <2>2. QED
      BY <1>14, <2>1 DEF Places, SendTextLog, jobVars
  <1>15. CASE SendWarning
    BY <1>15 DEF Places, SendWarning, Goto, jobVars
  <1>16. CASE MarkDone
    BY <1>16 DEF Places, MarkDone, EndExecution
  <1>17. CASE MarkDoneFails
    BY <1>17 DEF TypeOK, Places, MarkDoneFails, EndExecution
  <1>18. CASE Interrupted
    BY <1>18 DEF Places, Interrupted, EndExecution
  <1>19. CASE SetPolicy
    BY <1>19 DEF Places, SetPolicy, jobVars, localVars
  <1>20. CASE AddBinding
    BY <1>20 DEF Places, AddBinding, jobVars, localVars
  <1>21. CASE UNCHANGED vars
    BY <1>21 DEF Places, vars, jobVars, localVars
  <1>22. QED
    BY <1>1, <1>2, <1>3, <1>4, <1>5, <1>6, <1>7, <1>8, <1>9, <1>10, <1>11, <1>12,
       <1>13, <1>14, <1>15, <1>16, <1>17, <1>18, <1>19, <1>20, <1>21
       DEF Next, Execution

(* What the record holds, what the execution believes and what the platform has
   done, left alone.                                                        *)
LEMMA TruthfulFrame ==
    ASSUME Truthful, UNCHANGED <<status, delivery, known, result, sent, punished, forwarded>>,
           pc' # "deliver"
    PROVE  Truthful'
  BY DEF Truthful, Believed, ReachedGroup

(* Every step keeps recorded, read and taken successes true of the platform. *)
LEMMA TruthfulStep == TypeOK /\ Places /\ Truthful /\ [Next]_vars => Truthful'
  <1> SUFFICES ASSUME TypeOK, Places, Truthful, [Next]_vars
               PROVE  Truthful'
    OBVIOUS
  <1>0. Punishment \subseteq Action /\ "forward" \in Action /\ "forward" \notin Punishment
    BY DEF Action, Punishment
  <1>1. CASE Submit
    BY <1>1 DEF Truthful, Believed, ReachedGroup, Submit, recordVars, localVars, effectVars
  <1>2. CASE Claim
    BY <1>2, TruthfulFrame DEF Claim, Goto, recordVars, localVars, effectVars
  <1>3. CASE Start
    BY <1>3, TruthfulFrame DEF Start, Goto, recordVars, localVars, effectVars
  <1>4. CASE LookupStatuses
    <2>1. \A a \in Action : known'[a] = "success" => status[a] = "success"
      BY <1>4 DEF LookupStatuses, Unknown
    <2>2. QED
      BY <1>0, <1>4, <2>1
         DEF Truthful, Believed, ReachedGroup, LookupStatuses, Goto, recordVars, effectVars
  <1>5. CASE LookupPolicy
    BY <1>5, TruthfulFrame DEF LookupPolicy, Goto, recordVars, effectVars
  <1>6. CASE DecidePunishment
    <2>1. \A a \in Action : result'[a] = "success" => result[a] = "success" \/ known[a] = "success"
      BY <1>6 DEF TypeOK, DecidePunishment, Obtain
    <2>2. pc' # "deliver"
      BY <1>6 DEF DecidePunishment, Proceed, Goto
    <2>3. QED
      BY <1>0, <1>6, <2>1, <2>2
         DEF Truthful, Believed, ReachedGroup, DecidePunishment, recordVars, effectVars
  <1>7. CASE Escalate
    BY <1>7, TruthfulFrame DEF Escalate, Goto, recordVars, localVars
  <1>8. CASE Punish
    <2>1. act \in Punishment
      BY <1>8 DEF Places, Punish
    <2>2. PICK o \in Outcome : \E n \in Effects(o) :
             /\ Obtain(o)
             /\ punished' = [punished EXCEPT ![act] = @ + n]
      BY <1>8 DEF Punish
    <2>3. PICK n \in Effects(o) :
             /\ Obtain(o)
             /\ punished' = [punished EXCEPT ![act] = @ + n]
      BY <2>2
    <2>4. n \in Nat
      BY EffectsNat
    <2>5. o = "success" => n = 1
      BY DEF Effects
    <2>6. \A a \in Punishment : punished'[a] = IF a = act THEN punished[a] + n ELSE punished[a]
      BY <2>3 DEF TypeOK
    <2>7. \A a \in Punishment : punished[a] > 0 => punished'[a] > 0
      BY <2>4, <2>6 DEF TypeOK
    <2>8. o = "success" => punished'[act] > 0
      BY <2>1, <2>5, <2>6 DEF TypeOK
    <2>9. \A a \in Action : result'[a] = IF a = act THEN o ELSE result[a]
      BY <2>3 DEF TypeOK, Obtain
    <2>10. \A a \in Punishment : Believed(a)' => punished'[a] > 0
      BY <1>0, <1>8, <2>7, <2>8, <2>9 DEF Truthful, Believed, Punish, recordVars
    <2>11. Believed("forward")' => Believed("forward")
      BY <1>0, <1>8, <2>1, <2>9 DEF Believed, Punish, recordVars
    <2>12. QED
      BY <1>8, <2>10, <2>11 DEF Truthful, ReachedGroup, Punish, Goto, recordVars
  <1>9. CASE SaveStatus
    <2>1. \A a \in Action : status'[a] = "success" => status[a] = "success" \/ result[a] = "success"
      BY <1>9 DEF TypeOK, SaveStatus
    <2>2. pc' # "deliver"
      BY <1>9 DEF SaveStatus, Proceed, Goto
    <2>3. QED
      BY <1>0, <1>9, <2>1, <2>2
         DEF Truthful, Believed, ReachedGroup, SaveStatus, localVars, effectVars
  <1>10. CASE DecideForward
    <2>1. \A a \in Action : result'[a] = "success" => result[a] = "success" \/ known[a] = "success"
      BY <1>10 DEF TypeOK, DecideForward, Obtain
    <2>2. pc' # "deliver"
      BY <1>10 DEF DecideForward, Goto
    <2>3. QED
      BY <1>0, <1>10, <2>1, <2>2
         DEF Truthful, Believed, ReachedGroup, DecideForward, recordVars, effectVars
  <1>11. CASE Announce
    <2>1. PICK g \in todo : RecordDelivery(g, "pending")
      BY <1>11 DEF Announce
    <2>2. \A h \in PushGroup : delivery'[h] = "success" => delivery[h] = "success"
      BY <2>1 DEF TypeOK, RecordDelivery
    <2>3. QED
      BY <1>11, <2>2 DEF Truthful, Believed, ReachedGroup, Announce, Goto, effectVars
  <1>12. CASE SendForward
    <2>1. target \in PushGroup /\ act = "forward"
      BY <1>12 DEF Places, SendForward
    <2>2. PICK o \in Outcome : \E n \in Effects(o) :
             /\ Obtain(o)
             /\ sent' = sent \cup {o}
             /\ forwarded' = [forwarded EXCEPT ![target] = @ + n]
      BY <1>12 DEF SendForward
    <2>3. PICK n \in Effects(o) :
             /\ Obtain(o)
             /\ sent' = sent \cup {o}
             /\ forwarded' = [forwarded EXCEPT ![target] = @ + n]
      BY <2>2
    <2>4. n \in Nat
      BY EffectsNat
    <2>5. o = "success" => n = 1
      BY DEF Effects
    <2>6. \A g \in PushGroup :
             forwarded'[g] = IF g = target THEN forwarded[g] + n ELSE forwarded[g]
      BY <2>3 DEF TypeOK
    <2>7. \A g \in PushGroup : forwarded[g] > 0 => forwarded'[g] > 0
      BY <2>4, <2>6 DEF TypeOK
    <2>8. o = "success" => forwarded'[target] > 0
      BY <2>1, <2>5, <2>6 DEF TypeOK
    <2>9. \A a \in Action : result'[a] = IF a = "forward" THEN o ELSE result[a]
      BY <2>1, <2>3 DEF TypeOK, Obtain
    <2>10. \A a \in Punishment : Believed(a)' => Believed(a)
      BY <1>0, <1>12, <2>9 DEF Believed, SendForward, recordVars
    <2>11. Believed("forward")' \/ "success" \in sent' => ReachedGroup'
      <3>1. CASE o = "success"
        BY <2>1, <2>8, <3>1 DEF ReachedGroup
      <3>2. CASE o # "success"
        BY <1>0, <1>12, <2>3, <2>7, <2>9, <3>2
           DEF Truthful, Believed, ReachedGroup, SendForward, recordVars
      <3>3. QED
        BY <3>1, <3>2
    <2>12. result'["forward"] = "success" => forwarded'[target] > 0
      BY <1>0, <2>8, <2>9
    <2>13. QED
      BY <1>12, <2>7, <2>10, <2>11, <2>12 DEF Truthful, SendForward, recordVars
  <1>13. CASE RecordResult
    <2>1. \A g \in PushGroup :
             delivery'[g] = "success" => forwarded[g] > 0
      BY <1>13 DEF TypeOK, Truthful, RecordResult, RecordDelivery
    <2>2. QED
      BY <1>13, <2>1
         DEF Truthful, Believed, ReachedGroup, RecordResult, Goto, localVars, effectVars
  <1>14. CASE SendTextLog
    <2>1. act = "forward"
      BY <1>14 DEF Places, SendTextLog
    <2>2. \A a \in Punishment : result'[a] = result[a]
      BY <1>0, <1>14, <2>1 DEF TypeOK, SendTextLog, Obtain
    <2>3. result'["forward"] = "success" => result["forward"] = "success" \/ "success" \in sent
      BY <1>0, <1>14, <2>1 DEF TypeOK, SendTextLog, Obtain, Aggregate
    <2>4. QED
      BY <1>14, <2>2, <2>3
         DEF Truthful, Believed, ReachedGroup, SendTextLog, Goto, recordVars, effectVars
  <1>15. CASE SendWarning
    BY <1>15, TruthfulFrame DEF SendWarning, Goto, recordVars, localVars, effectVars
  <1>16. CASE EndExecution /\ UNCHANGED <<recordVars, effectVars>>
    BY <1>0, <1>16
       DEF Truthful, Believed, ReachedGroup, EndExecution, NoLocals, Unknown, recordVars,
           effectVars
  <1>17. CASE SetPolicy
    BY <1>17 DEF Truthful, Believed, ReachedGroup, SetPolicy, recordVars, localVars, effectVars
  <1>18. CASE AddBinding
    BY <1>18 DEF Truthful, Believed, ReachedGroup, AddBinding, recordVars, localVars, effectVars
  <1>19. CASE UNCHANGED vars
    BY <1>19 DEF Truthful, Believed, ReachedGroup, vars, recordVars, localVars, effectVars
  <1>20. QED
    BY <1>1, <1>2, <1>3, <1>4, <1>5, <1>6, <1>7, <1>8, <1>9, <1>10, <1>11, <1>12,
       <1>13, <1>14, <1>15, <1>16, <1>17, <1>18, <1>19
       DEF Next, Execution, MarkDone, MarkDoneFails, Interrupted

(* Every step keeps what was read of the actions ahead equal to the record. *)
LEMMA FreshStep == TypeOK /\ Places /\ Fresh /\ [Next]_vars => Fresh'
  <1> SUFFICES ASSUME TypeOK, Places, Fresh, [Next]_vars
               PROVE  Fresh'
    OBVIOUS
  <1>0. /\ act \in Action /\ Action = {"mute", "recall", "forward"}
        /\ Ahead \subseteq Action /\ act \in Ahead /\ "forward" \in Ahead
    BY DEF TypeOK, Ahead, Action, Punishment
  <1>1. CASE Submit
    BY <1>1 DEF Fresh, Ahead, Submit, recordVars, localVars
  <1>2. CASE Claim
    BY <1>2 DEF Fresh, Claim, Goto
  <1>3. CASE Start
    BY <1>3 DEF Fresh, Start, Goto
  <1>4. CASE LookupStatuses
    <2>1. \A a \in Action : known'[a] # "unknown" => known'[a] = status[a]
      BY <1>4 DEF LookupStatuses, Unknown
    <2>2. Ahead' = Ahead
      BY <1>4 DEF LookupStatuses, Goto, Ahead
    <2>3. QED
      BY <1>0, <1>4, <2>1, <2>2 DEF Fresh, LookupStatuses, Goto, recordVars
  <1>5. CASE LookupPolicy
    BY <1>5 DEF Fresh, Ahead, LookupPolicy, Goto, recordVars
  <1>6. CASE DecidePunishment
    <2>1. pc = "decide" /\ act \in Punishment /\ UNCHANGED <<status, known>>
      BY <1>6 DEF DecidePunishment, recordVars
    <2>2. CASE known[act] = "success"
      <3>1. Ahead' \subseteq Ahead /\ pc' = "decide"
        BY <1>6, <2>1, <2>2 DEF DecidePunishment, Proceed, Ahead, Action, Punishment
      <3>2. QED
        BY <2>1, <3>1 DEF Fresh
    <2>3. CASE known[act] # "success"
      <3>1. act' = act /\ pc' \in {"save", "escalate", "call"}
        BY <1>6, <2>3 DEF DecidePunishment, Goto
      <3>2. Ahead' = Ahead
        BY <3>1 DEF Ahead
      <3>3. QED
        BY <2>1, <2>3, <3>1, <3>2 DEF Fresh
    <2>4. QED
      BY <2>2, <2>3
  <1>7. CASE Escalate
    BY <1>7 DEF Fresh, Ahead, Escalate, Goto, recordVars, localVars
  <1>8. CASE Punish
    BY <1>8 DEF Fresh, Ahead, Punish, Goto, recordVars
  <1>9. CASE SaveStatus
    <2>1. pc = "save" /\ UNCHANGED <<known, result>>
      BY <1>9 DEF SaveStatus, localVars
    <2>2. \A a \in Action \ {act} : status'[a] = status[a]
      BY <1>9 DEF TypeOK, SaveStatus
    <2>3. CASE act = "forward"
      BY <1>9, <2>3 DEF Fresh, SaveStatus, Proceed, Goto
    <2>4. CASE act # "forward"
      <3>1. Ahead' \subseteq Ahead \ {act} /\ pc' = "decide"
        BY <1>0, <1>9, <2>4 DEF SaveStatus, Proceed, Ahead
      <3>2. QED
        BY <1>0, <2>1, <2>2, <3>1 DEF Fresh
    <2>5. QED
      BY <2>3, <2>4
  <1>10. CASE DecideForward
    <2>1. pc = "decide" /\ act = "forward" /\ UNCHANGED <<status, known>>
      BY <1>10 DEF DecideForward, recordVars
    <2>2. act' = act /\ pc' \in {"save", "announce"}
      BY <1>10 DEF DecideForward, Goto
    <2>3. Ahead' = Ahead
      BY <2>2 DEF Ahead
    <2>4. pc' = "announce" => known["forward"] # "success"
      BY <1>10 DEF DecideForward, Goto
    <2>5. known["forward"] = "success" => result'["forward"] = "success"
      BY <1>0, <1>10, <2>1 DEF TypeOK, DecideForward, Obtain
    <2>6. QED
      BY <2>1, <2>2, <2>3, <2>4, <2>5 DEF Fresh
  <1>11. CASE Announce
    BY <1>11 DEF Fresh, Ahead, Announce, Goto
  <1>12. CASE SendForward
    BY <1>12 DEF Fresh, Ahead, SendForward, Goto, recordVars
  <1>13. CASE RecordResult
    BY <1>13 DEF Fresh, Ahead, RecordResult, Goto, localVars
  <1>14. CASE SendTextLog
    <2>1. pc = "log" /\ act = "forward" /\ UNCHANGED <<status, known, act>>
      BY <1>14 DEF Places, SendTextLog, Goto, recordVars
    <2>2. pc' \in {"save", "announce"} /\ known["forward"] # "success"
      BY <1>14 DEF Fresh, SendTextLog, Goto
    <2>3. Ahead' = Ahead
      BY <2>1 DEF Ahead
    <2>4. QED
      BY <2>1, <2>2, <2>3 DEF Fresh
  <1>15. CASE SendWarning
    BY <1>15 DEF Fresh, SendWarning, Goto
  <1>16. CASE EndExecution
    BY <1>16 DEF Fresh, EndExecution
  <1>17. CASE SetPolicy
    BY <1>17 DEF Fresh, Ahead, SetPolicy, recordVars, localVars
  <1>18. CASE AddBinding
    BY <1>18 DEF Fresh, Ahead, AddBinding, recordVars, localVars
  <1>19. CASE UNCHANGED vars
    BY <1>19 DEF Fresh, Ahead, vars, recordVars, localVars
  <1>20. QED
    BY <1>1, <1>2, <1>3, <1>4, <1>5, <1>6, <1>7, <1>8, <1>9, <1>10, <1>11, <1>12,
       <1>13, <1>14, <1>15, <1>16, <1>17, <1>18, <1>19
       DEF Next, Execution, MarkDone, MarkDoneFails, Interrupted

(* The inductive invariant holds always. *)
LEMMA Inductive == Spec => []IInv
  <1>1. IInv /\ [Next]_vars => IInv'
    BY TypeStep, PlacesStep, TruthfulStep, FreshStep DEF IInv
  <1>2. QED
    BY IInvInit, <1>1, PTL DEF Spec

-----------------------------------------------------------------------------
(* A mute, a recall or a delivery on record as a success has happened, whatever
   failed, was interrupted or was written late.                             *)
THEOREM RecordIsTruthful == Spec => []SuccessMeansPerformed
  <1>1. IInv => SuccessMeansPerformed
    BY DEF IInv, Truthful, Believed, ReachedGroup, SuccessMeansPerformed
  <1>2. QED
    BY Inductive, <1>1, PTL

(* The platform is asked to punish only at the call. *)
LEMMA PunishesAtCall ==
    ASSUME TypeOK, [Next]_vars,
           NEW a \in Punishment, punished'[a] > punished[a]
    PROVE  Punish /\ a = act
  <1>1. CASE Punish
    <2>1. PICK o \in Outcome : \E n \in Effects(o) : punished' = [punished EXCEPT ![act] = @ + n]
      BY <1>1 DEF Punish
    <2>2. PICK n \in Effects(o) : punished' = [punished EXCEPT ![act] = @ + n]
      BY <2>1
    <2>3. a # act => punished'[a] = punished[a]
      BY <2>2 DEF TypeOK
    <2>4. punished[a] \in Nat
      BY DEF TypeOK
    <2>5. QED
      BY <1>1, <2>3, <2>4
  <1>2. CASE UNCHANGED punished
    <2>1. punished[a] \in Nat
      BY DEF TypeOK
    <2>2. QED
      BY <1>2, <2>1
  <1>3. Punish \/ UNCHANGED punished
    BY DEF Next, Execution, Submit, Claim, Start, LookupStatuses, LookupPolicy,
           DecidePunishment, Escalate, SaveStatus, DecideForward, Announce,
           SendForward, RecordResult, SendTextLog, SendWarning, MarkDone,
           MarkDoneFails, Interrupted, SetPolicy, AddBinding, vars, effectVars
  <1>4. QED
    BY <1>1, <1>2, <1>3

(* A mute or a recall on record as a success is repeated only by an execution
   that could not read the record.                                          *)
THEOREM PunishedOnce == Spec => SuccessIsRemembered
  <1>1. ASSUME IInv, [Next]_vars,
               NEW a \in Punishment, punished'[a] > punished[a], status[a] = "success"
        PROVE  known[a] = "unknown"
    <2>1. Punish /\ a = act
      BY <1>1, PunishesAtCall DEF IInv
    <2>2. pc = "call" /\ act \in Ahead
      BY <1>1, <2>1 DEF IInv, TypeOK, Punish, Ahead, Action, Punishment
    <2>3. known[act] # "success" /\ (known[act] # "unknown" => known[act] = status[act])
      BY <1>1, <2>2 DEF IInv, Fresh
    <2>4. QED
      BY <1>1, <2>1, <2>3
  <1>2. IInv /\ [Next]_vars =>
          [\A a \in Punishment :
             punished'[a] > punished[a] /\ status[a] = "success"
                 => known[a] = "unknown"]_vars
    BY <1>1
  <1>3. QED
    BY Inductive, <1>2, PTL DEF Spec, SuccessIsRemembered

(* A status on record as a success is overwritten only by an execution that
   could not read the record.                                               *)
THEOREM RememberedSuccess == Spec => SuccessIsFinal
  <1>1. ASSUME IInv, [Next]_vars,
               NEW a \in Action, status[a] = "success", status'[a] # "success"
        PROVE  known[a] = "unknown"
    <2>1. SaveStatus
      BY <1>1 DEF Next, Execution, Submit, Claim, Start, LookupStatuses, LookupPolicy,
             DecidePunishment, Escalate, Punish, DecideForward, Announce,
             SendForward, RecordResult, SendTextLog, SendWarning, MarkDone,
             MarkDoneFails, Interrupted, SetPolicy, AddBinding, vars, recordVars
    <2>2. a = act /\ result[a] # "success"
      BY <1>1, <2>1 DEF IInv, TypeOK, SaveStatus
    <2>3. pc = "save" /\ act \in Ahead
      BY <1>1, <2>1 DEF IInv, TypeOK, SaveStatus, Ahead, Action, Punishment
    <2>4. known[act] # "success" /\ (known[act] # "unknown" => known[act] = status[act])
      BY <1>1, <2>2, <2>3 DEF IInv, Fresh
    <2>5. QED
      BY <1>1, <2>2, <2>4
  <1>2. IInv /\ [Next]_vars =>
          [\A a \in Action :
             status[a] = "success" /\ status'[a] # "success"
                 => known[a] = "unknown"]_vars
    BY <1>1
  <1>3. QED
    BY Inductive, <1>2, PTL DEF Spec, SuccessIsFinal

-----------------------------------------------------------------------------
(* The executions implement the outbox contract: each step of theirs is a step
   of the job's life there, or none.                                        *)
LEMMA ContractInit == Init => Contract!Init
  BY DEF Init, Contract!Init

(* Every step is one of the contract or a stutter. *)
LEMMA ContractStep ==
    ASSUME TypeOK, Places, [Next]_vars
    PROVE  [Contract!Next]_Contract!contractVars
  <1>1. CASE Submit
    <2>1. Contract!Submit("job")
      BY <1>1 DEF Submit, Contract!Submit
    <2>2. QED
      BY <2>1 DEF Contract!Next
  <1>2. CASE Claim
    <2>1. Contract!Lease("job")
      BY <1>2 DEF Claim, Contract!Lease
    <2>2. QED
      BY <2>1 DEF Contract!Next
  <1>3. CASE Start
    <2>1. Contract!Run("job")
      BY <1>3 DEF Start, Places, jobVars, Contract!Run
    <2>2. QED
      BY <2>1 DEF Contract!Next
  <1>4. CASE MarkDone
    <2>1. Contract!Complete("job")
      BY <1>4 DEF MarkDone, Places, Contract!Complete
    <2>2. QED
      BY <2>1 DEF Contract!Next
  <1>5. CASE MarkDoneFails
    <2>1. job = "processing" /\ attempts < MaxAttempts /\ attempts' = attempts + 1
      BY <1>5 DEF MarkDoneFails, Places
    <2>2. job' = IF attempts' = MaxAttempts THEN "failed" ELSE "pending"
      BY <1>5, <2>1, ActionsAssumption DEF MarkDoneFails, TypeOK
    <2>3. runs' = runs
      BY <1>5 DEF MarkDoneFails
    <2>4. Contract!FailAttempt("job")
      BY <2>1, <2>2, <2>3 DEF Contract!FailAttempt
    <2>5. QED
      BY <2>4 DEF Contract!Next
  <1>6. CASE Interrupted
    <2>1. Contract!Release({"job"})
      BY <1>6 DEF Interrupted, Places, Contract!Release
    <2>2. QED
      BY <2>1 DEF Contract!Next
  <1>7. CASE UNCHANGED <<job, attempts, runs>>
    BY <1>7 DEF Contract!contractVars
  <1>8. QED
    BY <1>1, <1>2, <1>3, <1>4, <1>5, <1>6, <1>7
       DEF Next, Execution, LookupStatuses, LookupPolicy, DecidePunishment, Escalate,
           Punish, SaveStatus, DecideForward, Announce, SendForward, RecordResult,
           SendTextLog, SendWarning, SetPolicy, AddBinding, vars, jobVars

(* The executions of a job, one after the other, implement the outbox contract:
   the job is leased, executed, and then done, retried or given up.          *)
THEOREM ActionsImplementContract == Spec => ImplementsContract
  <1>1. IInv /\ [Next]_vars => [Contract!Next]_Contract!contractVars
    BY ContractStep DEF IInv
  <1>2. QED
    BY Inductive, ContractInit, <1>1, PTL DEF Spec, ImplementsContract, Contract!Spec

-----------------------------------------------------------------------------
(* Mutes and the sender's violation count.  Between the rise of the count and
   the call of the platform one mute is paid for and not yet made; before the
   rise the execution has one left.                                         *)
Counted ==
    /\ pc = "escalate" => act = "mute"
    /\ IF pc = "call" /\ act = "mute" THEN punished["mute"] < escalated + faults
                                      ELSE punished["mute"] <= escalated + faults
    /\ IF pc \in {"lookup", "policy", "decide", "escalate"} /\ act = "mute"
       THEN escalated < runs ELSE escalated <= runs

(* No mute has been given or counted at first. *)
LEMMA CountedInit == Init => Counted
  BY DEF Init, Counted, Punishment

(* Every step keeps the mutes within those counted and the faults. *)
LEMMA CountedStep == TypeOK /\ Places /\ Counted /\ [Next]_vars => Counted'
  <1> SUFFICES ASSUME TypeOK, Places, Counted, [Next]_vars
               PROVE  Counted'
    OBVIOUS
  <1>0. /\ punished["mute"] \in Nat /\ escalated \in Nat /\ faults \in Nat /\ runs \in Nat
        /\ act \in {"mute", "recall", "forward"}
    BY DEF TypeOK, Punishment, Action
  <1>1. CASE Submit
    BY <1>1 DEF Counted, Submit, effectVars
  <1>2. CASE Claim
    BY <1>0, <1>2 DEF Counted, Claim, Goto, effectVars
  <1>3. CASE Start
    BY <1>0, <1>3 DEF Counted, Start, Goto, effectVars
  <1>4. CASE LookupStatuses
    BY <1>0, <1>4 DEF Counted, LookupStatuses, Goto, Fault, effectVars
  <1>5. CASE LookupPolicy
    BY <1>0, <1>5 DEF Counted, LookupPolicy, Goto, Fault, effectVars
  <1>6. CASE DecidePunishment
    <2>1. /\ pc = "decide" /\ UNCHANGED <<punished, escalated, runs, faults>>
          /\ \/ act' = act /\ pc' = "save"
             \/ act' = act /\ pc' = IF act = "mute" THEN "escalate" ELSE "call"
             \/ act' # "mute" /\ pc' = "decide"
      BY <1>6 DEF DecidePunishment, Proceed, Goto, Punishment, effectVars
    <2>2. QED
      BY <1>0, <2>1 DEF Counted
  <1>7. CASE Escalate
    BY <1>0, <1>7 DEF Counted, Escalate, Goto, Fault, localVars
  <1>8. CASE Punish
    <2>1. PICK o \in Outcome : \E n \in Effects(o) : punished' = [punished EXCEPT ![act] = @ + n]
      BY <1>8 DEF Punish
    <2>2. PICK n \in Effects(o) : punished' = [punished EXCEPT ![act] = @ + n]
      BY <2>1
    <2>3. n \in {0, 1}
      BY DEF Effects
    <2>4. punished'["mute"] = IF act = "mute" THEN punished["mute"] + n ELSE punished["mute"]
      BY <2>2 DEF TypeOK, Punishment
    <2>5. pc = "call" /\ pc' = "save" /\ UNCHANGED <<act, escalated, runs, faults>>
      BY <1>8 DEF Punish, Goto
    <2>6. QED
      BY <1>0, <2>3, <2>4, <2>5 DEF Counted
  <1>9. CASE SaveStatus
    <2>1. /\ pc = "save" /\ UNCHANGED <<punished, escalated, runs>>
          /\ faults' = faults \/ faults' = faults + 1
          /\ \/ act' # "mute" /\ pc' = "decide"
             \/ pc' = "warn"
      BY <1>9 DEF SaveStatus, Proceed, Goto, Fault, effectVars
    <2>2. QED
      BY <1>0, <2>1 DEF Counted
  <1>10. CASE DecideForward
    <2>1. /\ pc = "decide" /\ act = "forward" /\ pc' \in {"save", "announce"}
          /\ UNCHANGED <<act, punished, escalated, runs>>
          /\ faults' = faults \/ faults' = faults + 1
      BY <1>10 DEF DecideForward, Goto, Fault, effectVars
    <2>2. QED
      BY <1>0, <2>1 DEF Counted
  <1>11. CASE Announce
    <2>1. faults' = faults \/ faults' = faults + 1
      BY <1>11 DEF Announce, RecordDelivery, Fault
    <2>2. QED
      BY <1>0, <1>11, <2>1 DEF Counted, Announce, Goto, effectVars
  <1>12. CASE SendForward
    BY <1>0, <1>12 DEF Counted, SendForward, Goto
  <1>13. CASE RecordResult
    BY <1>0, <1>13 DEF Counted, RecordResult, RecordDelivery, Goto, Fault, effectVars
  <1>14. CASE SendTextLog
    <2>1. /\ pc = "log" /\ act = "forward" /\ pc' \in {"save", "announce"}
          /\ UNCHANGED <<act, punished, escalated, runs, faults>>
      BY <1>14 DEF Places, SendTextLog, Goto, effectVars
    <2>2. QED
      BY <1>0, <2>1 DEF Counted
  <1>15. CASE SendWarning
    BY <1>0, <1>15 DEF Counted, SendWarning, Goto, effectVars
  <1>16. CASE EndExecution /\ UNCHANGED <<runs, effectVars>>
               /\ (faults' = faults \/ faults' = faults + 1)
    BY <1>0, <1>16 DEF Counted, EndExecution, effectVars
  <1>17. CASE SetPolicy
    BY <1>17 DEF Counted, SetPolicy, effectVars
  <1>18. CASE AddBinding
    BY <1>18 DEF Counted, AddBinding, effectVars
  <1>19. CASE UNCHANGED vars
    BY <1>19 DEF Counted, vars, effectVars
  <1>20. QED
    BY <1>1, <1>2, <1>3, <1>4, <1>5, <1>6, <1>7, <1>8, <1>9, <1>10, <1>11, <1>12,
       <1>13, <1>14, <1>15, <1>16, <1>17, <1>18, <1>19
       DEF Next, Execution, MarkDone, MarkDoneFails, Interrupted, Fault

(* Every mute has raised the sender's violation count, or met an error of the
   database, and no execution raises it twice.                              *)
THEOREM MutesAreCounted == Spec => []EscalatedPerAttempt
  <1>1. IInv /\ Counted /\ [Next]_vars => Counted'
    BY CountedStep DEF IInv
  <1>2. IInv /\ Counted => EscalatedPerAttempt
    <2> SUFFICES ASSUME IInv, Counted PROVE EscalatedPerAttempt
      OBVIOUS
    <2>1. punished["mute"] \in Nat /\ escalated \in Nat /\ faults \in Nat /\ runs \in Nat
      BY DEF IInv, TypeOK, Punishment
    <2>2. QED
      BY <2>1 DEF Counted, EscalatedPerAttempt
  <1>3. QED
    BY Inductive, CountedInit, <1>1, <1>2, PTL DEF Spec

-----------------------------------------------------------------------------
(* A job without database errors and interruptions.  Its only execution starts
   from an empty record, and what it has handled is decided.                *)
NotBegun == job \in {"absent", "pending"} \/ pc \in {"start", "lookup"}

Reading  == {"decide", "escalate", "call", "save", "announce", "send", "deliver", "log"}
Pushing  == {"announce", "send", "deliver", "log"}

Closing  == pc \in {"warn", "finish"} \/ job = "done"

StatusesDecided ==
    /\ job # "failed"
    /\ NotBegun => \A a \in Action : status[a] = "pending"
    /\ pc \in Reading \cup {"policy"} => \A a \in Action : known[a] # "success"
    /\ pc \in Reading => \A a \in Action \ Ahead : status[a] # "pending"
    /\ pc = "save" => result[act] # "pending"
    /\ Closing => \A a \in Action : status[a] # "pending"

(* The deliveries on record, all of them and those to the other groups. *)
Delivered      == {delivery[g] : g \in PushGroup} \ {"none"}
DeliveredBut(h) == {delivery[g] : g \in PushGroup \ {h}} \ {"none"}

(* s is the aggregate of the deliveries on record. *)
Tallied(s) == /\ "pending" \notin Delivered
              /\ \A t \in {"success", "unsupported"} : s = t <=> Delivered = {t}

BeforeForward == \/ NotBegun
                 \/ pc \in {"policy", "decide", "escalate", "call"}
                 \/ (pc = "save" /\ act # "forward")

(* The results so far are those on record, but for the group being served. *)
DeliveriesTallied ==
    /\ BeforeForward => Delivered = {} /\ sent = {}
    /\ pc \in Pushing => \A g \in todo : delivery[g] = "none"
    /\ pc = "announce" => Delivered = sent /\ todo # {}
    /\ pc \in {"send", "deliver"} => target \notin todo /\ delivery[target] = "pending"
    /\ pc = "send" => DeliveredBut(target) = sent
    /\ pc = "deliver" => DeliveredBut(target) \cup {result["forward"]} = sent
    /\ pc = "log" => Delivered = sent /\ sent # {}
    /\ pc = "save" /\ act = "forward" => Tallied(result["forward"])
    /\ Closing => Tallied(status["forward"])

Undisturbed == faults = 0 /\ RecordsEnabled

(* Before a state without faults there was none either. *)
LEMMA UndisturbedBefore ==
    ASSUME TypeOK, [Next]_vars, faults' = 0
    PROVE  faults = 0 /\ ~Fault
  <1>1. faults \in Nat
    BY ActionsAssumption DEF TypeOK
  <1>2. ~Fault
    BY <1>1 DEF Fault
  <1>3. faults' = faults
    BY <1>2 DEF Next, Execution, Submit, Claim, Start, LookupStatuses, LookupPolicy,
           DecidePunishment, Escalate, Punish, SaveStatus, DecideForward, Announce,
           RecordDelivery, SendForward, RecordResult, SendTextLog, SendWarning,
           MarkDone, MarkDoneFails, Interrupted, SetPolicy, AddBinding, vars
  <1>4. QED
    BY <1>2, <1>3

(* A step away from the statuses that stays where it is among the actions. *)
LEMMA StatusesFrame ==
    ASSUME StatusesDecided, UNCHANGED <<status, known, job, act>>,
           pc \in Reading, pc' \in Reading \ {"save"}
    PROVE  StatusesDecided'
  BY DEF StatusesDecided, NotBegun, Closing, Reading, Ahead

(* Undisturbed steps keep the statuses decided. *)
LEMMA StatusesStep ==
    ASSUME TypeOK, Places, StatusesDecided, RecordsEnabled, ~Fault, [Next]_vars
    PROVE  StatusesDecided'
  <1>0. /\ act \in Action /\ Action = {"mute", "recall", "forward"}
        /\ Ahead \subseteq Action /\ act \in Ahead
    BY DEF TypeOK, Ahead, Action, Punishment
  <1>1. CASE Submit
    BY <1>1 DEF StatusesDecided, NotBegun, Closing, Reading, Ahead, Submit, recordVars, localVars
  <1>2. CASE Claim
    BY <1>2 DEF StatusesDecided, NotBegun, Closing, Reading, Claim, Goto, recordVars
  <1>3. CASE Start
    BY <1>3 DEF StatusesDecided, NotBegun, Closing, Reading, Start, Goto, recordVars, jobVars
  <1>4. CASE LookupStatuses
    <2>1. known' = status
      BY <1>4 DEF LookupStatuses
    <2>2. QED
      BY <1>4, <2>1 DEF Places, StatusesDecided, NotBegun, Closing, Reading, LookupStatuses, Goto,
                        recordVars, jobVars
  <1>5. CASE LookupPolicy
    <2>1. act' = "mute"
      BY <1>5 DEF Places, LookupPolicy, Goto
    <2>2. Action \ Ahead' = {}
      BY <2>1 DEF Ahead
    <2>3. QED
      BY <1>5, <2>2 DEF Places, StatusesDecided, NotBegun, Closing, Reading, LookupPolicy, Goto,
                        recordVars, jobVars
  <1>6. CASE DecidePunishment
    <2>1. known[act] # "success" /\ pc = "decide" /\ UNCHANGED <<status, known, job>>
      BY <1>0, <1>6 DEF StatusesDecided, Reading, DecidePunishment, recordVars, jobVars
    <2>2. /\ act' = act /\ pc' \in {"save", "escalate", "call"}
          /\ pc' = "save" => result'[act] \in {"not_scheduled", "unsupported"}
      BY <1>6, <2>1 DEF TypeOK, DecidePunishment, Goto, Obtain
    <2>3. Ahead' = Ahead
      BY <2>2 DEF Ahead
    <2>4. QED
      BY <2>1, <2>2, <2>3 DEF Places, StatusesDecided, NotBegun, Closing, Reading
  <1>7. CASE Escalate
    BY <1>7, StatusesFrame DEF Escalate, Goto, Reading, recordVars, jobVars, localVars
  <1>8. CASE Punish
    <2>1. PICK o \in Outcome : Obtain(o)
      BY <1>8 DEF Punish
    <2>2. result'[act] # "pending"
      BY <2>1 DEF TypeOK, Obtain, Outcome
    <2>3. act' = act /\ Ahead' = Ahead
      BY <1>8 DEF Punish, Goto, Ahead
    <2>4. QED
      BY <1>8, <2>2, <2>3
         DEF Places, StatusesDecided, NotBegun, Closing, Reading, Punish, Goto, recordVars, jobVars
  <1>9. CASE SaveStatus
    <2>1. /\ pc = "save" /\ UNCHANGED <<known, job>>
          /\ status'[act] = result[act]
          /\ \A a \in Action \ {act} : status'[a] = status[a]
      BY <1>9 DEF TypeOK, SaveStatus, localVars, jobVars
    <2>2. \A a \in (Action \ Ahead) \cup {act} : status'[a] # "pending"
      BY <1>0, <2>1 DEF StatusesDecided, Reading
    <2>3. CASE act = "forward"
      <3>1. Action \ Ahead = {"mute", "recall"} /\ pc' = "warn"
        BY <1>0, <1>9, <2>3 DEF SaveStatus, Proceed, Goto, Ahead
      <3>2. \A a \in Action : status'[a] # "pending"
        BY <1>0, <2>2, <2>3, <3>1
      <3>3. QED
        BY <2>1, <3>1, <3>2 DEF Places, StatusesDecided, NotBegun, Closing, Reading
    <2>4. CASE act # "forward"
      <3>1. pc' = "decide" /\ Action \ Ahead' \subseteq (Action \ Ahead) \cup {act}
        BY <1>0, <1>9, <2>4 DEF SaveStatus, Proceed, Ahead
      <3>2. QED
        BY <2>1, <2>2, <3>1 DEF Places, StatusesDecided, NotBegun, Closing, Reading
    <2>5. QED
      BY <2>3, <2>4
  <1>10. CASE DecideForward
    <2>1. pc = "decide" /\ act = "forward" /\ UNCHANGED <<status, known, job, act>>
      BY <1>10 DEF DecideForward, Goto, recordVars, jobVars
    <2>2. /\ pc' \in {"save", "announce"}
          /\ pc' = "save" => result'[act] \in {"success", "not_scheduled", "failed"}
      BY <1>10 DEF TypeOK, DecideForward, Goto, Obtain
    <2>3. Ahead' = Ahead
      BY <2>1 DEF Ahead
    <2>4. QED
      BY <2>1, <2>2, <2>3 DEF Places, StatusesDecided, NotBegun, Closing, Reading
  <1>11. CASE Announce
    BY <1>11, StatusesFrame DEF Announce, Goto, Reading, jobVars
  <1>12. CASE SendForward
    BY <1>12, StatusesFrame DEF SendForward, Goto, Reading, recordVars, jobVars
  <1>13. CASE RecordResult
    BY <1>13, StatusesFrame DEF RecordResult, Goto, Reading, jobVars, localVars
  <1>14. CASE SendTextLog
    <2>1. pc = "log" /\ UNCHANGED <<status, known, job, act>>
      BY <1>14 DEF SendTextLog, Goto, recordVars, jobVars
    <2>2. /\ pc' \in {"save", "announce"}
          /\ pc' = "save" => result'[act] # "pending"
      BY <1>14 DEF TypeOK, SendTextLog, Goto, Obtain, Aggregate
    <2>3. Ahead' = Ahead
      BY <2>1 DEF Ahead
    <2>4. QED
      BY <2>1, <2>2, <2>3 DEF Places, StatusesDecided, NotBegun, Closing, Reading
  <1>15. CASE SendWarning
    BY <1>15 DEF Places, StatusesDecided, NotBegun, Closing, Reading, SendWarning, Goto,
                 recordVars, jobVars
  <1>16. CASE MarkDone
    BY <1>16 DEF StatusesDecided, NotBegun, Closing, Reading, MarkDone, EndExecution, recordVars
  <1>17. CASE SetPolicy
    BY <1>17 DEF StatusesDecided, NotBegun, Closing, Ahead, SetPolicy, recordVars, jobVars,
                 localVars
  <1>18. CASE AddBinding
    BY <1>18 DEF StatusesDecided, NotBegun, Closing, Ahead, AddBinding, recordVars, jobVars,
                 localVars
  <1>19. CASE UNCHANGED vars
    BY <1>19 DEF StatusesDecided, NotBegun, Closing, Ahead, vars, recordVars, jobVars, localVars
  <1>20. QED
    BY <1>1, <1>2, <1>3, <1>4, <1>5, <1>6, <1>7, <1>8, <1>9, <1>10, <1>11, <1>12,
       <1>13, <1>14, <1>15, <1>16, <1>17, <1>18, <1>19
       DEF Next, Execution, MarkDoneFails, Interrupted

(* Nothing of the forward is touched and the execution stays before it. *)
LEMMA BeforeForwardFrame ==
    ASSUME DeliveriesTallied, BeforeForward, BeforeForward', Places', ~Closing',
           UNCHANGED <<delivery, sent>>, pc' \notin Pushing
    PROVE  DeliveriesTallied'
  <1>1. Delivered' = Delivered
    BY DEF Delivered
  <1>2. ~(pc' = "save" /\ act' = "forward")
    BY DEF BeforeForward, NotBegun, Places
  <1>3. QED
    BY <1>1, <1>2 DEF DeliveriesTallied, Pushing

(* Undisturbed steps keep the deliveries tallied. *)
LEMMA DeliveriesStep ==
    ASSUME TypeOK, Places, StatusesDecided, DeliveriesTallied, RecordsEnabled, ~Fault,
           [Next]_vars, Places'
    PROVE  DeliveriesTallied'
  <1>0. act \in {"mute", "recall", "forward"}
    BY DEF TypeOK, Action, Punishment
  <1>1. CASE Submit
    <2>1. UNCHANGED <<delivery, sent, pc, act, status>> /\ pc = "idle" /\ job' = "pending"
          /\ job = "absent"
      BY <1>1 DEF Places, Submit, recordVars, localVars
    <2>2. QED
      BY <2>1, BeforeForwardFrame DEF BeforeForward, NotBegun, Closing, Pushing
  <1>2. CASE Claim
    <2>1. job = "pending" /\ job' = "processing" /\ pc' = "start" /\ UNCHANGED <<delivery, sent>>
      BY <1>2 DEF Claim, Goto, recordVars, localVars
    <2>2. QED
      BY <2>1, BeforeForwardFrame DEF BeforeForward, NotBegun, Closing, Pushing
  <1>3. CASE Start
    <2>1. /\ pc = "start" /\ pc' = "lookup" /\ job' = "processing"
          /\ UNCHANGED <<delivery, sent>>
      BY <1>3 DEF Places, Start, Goto, recordVars, localVars, jobVars
    <2>2. QED
      BY <2>1, BeforeForwardFrame DEF BeforeForward, NotBegun, Closing, Pushing
  <1>4. CASE LookupStatuses
    <2>1. /\ pc = "lookup" /\ pc' = "policy" /\ job' = "processing"
          /\ UNCHANGED <<delivery, sent>>
      BY <1>4 DEF Places, LookupStatuses, Goto, recordVars, jobVars
    <2>2. QED
      BY <2>1, BeforeForwardFrame DEF BeforeForward, NotBegun, Closing, Pushing
  <1>5. CASE LookupPolicy
    <2>1. /\ pc = "policy" /\ pc' = "decide" /\ job' = "processing"
          /\ UNCHANGED <<delivery, sent>>
      BY <1>5 DEF Places, LookupPolicy, Goto, recordVars, jobVars
    <2>2. QED
      BY <2>1, BeforeForwardFrame DEF BeforeForward, NotBegun, Closing, Pushing, Reading
  <1>6. CASE DecidePunishment
    <2>1. /\ pc = "decide" /\ act # "forward" /\ job' = "processing"
          /\ UNCHANGED <<delivery, sent>>
          /\ known[act] # "success"
      BY <1>6 DEF TypeOK, Places, StatusesDecided, Reading, DecidePunishment, Punishment,
                  recordVars, jobVars
    <2>2. act' = act /\ pc' \in {"save", "escalate", "call"}
      BY <1>6, <2>1 DEF DecidePunishment, Goto
    <2>3. QED
      BY <2>1, <2>2, BeforeForwardFrame DEF BeforeForward, NotBegun, Closing, Pushing
  <1>7. CASE Escalate
    <2>1. /\ pc = "escalate" /\ pc' = "call" /\ job' = "processing"
          /\ UNCHANGED <<delivery, sent>>
      BY <1>7 DEF Places, Escalate, Goto, recordVars, jobVars, localVars
    <2>2. QED
      BY <2>1, BeforeForwardFrame DEF BeforeForward, NotBegun, Closing, Pushing
  <1>8. CASE Punish
    <2>1. /\ pc = "call" /\ pc' = "save" /\ act' = act /\ act # "forward"
          /\ job' = "processing" /\ UNCHANGED <<delivery, sent>>
      BY <1>8 DEF Places, Punish, Goto, recordVars, jobVars, Punishment
    <2>2. QED
      BY <2>1, BeforeForwardFrame DEF BeforeForward, NotBegun, Closing, Pushing
  <1>9. CASE SaveStatus
    <2>1. /\ pc = "save" /\ job = "processing" /\ job' = "processing"
          /\ UNCHANGED <<delivery, sent>>
          /\ status'[act] = result[act]
      BY <1>9 DEF TypeOK, Places, SaveStatus, jobVars, localVars
    <2>2. CASE act = "forward"
      <3>1. pc' = "warn" /\ act' = act
        BY <1>9, <2>2 DEF SaveStatus, Proceed, Goto
      <3>2. Tallied(status'["forward"]) /\ Delivered' = Delivered
        BY <2>1, <2>2 DEF DeliveriesTallied, Delivered
      <3>3. Tallied(status["forward"])'
        BY <3>2 DEF Tallied
      <3>4. QED
        BY <2>1, <3>1, <3>3 DEF DeliveriesTallied, BeforeForward, NotBegun, Pushing
    <2>3. CASE act # "forward"
      <3>1. pc' = "decide"
        BY <1>0, <1>9, <2>3 DEF SaveStatus, Proceed
      <3>2. QED
        BY <2>1, <2>3, <3>1, BeforeForwardFrame DEF BeforeForward, NotBegun, Closing, Pushing
    <2>4. QED
      BY <2>2, <2>3
  <1>10. CASE DecideForward
    <2>1. /\ pc = "decide" /\ act = "forward" /\ act' = "forward" /\ job' = "processing"
          /\ UNCHANGED <<delivery, sent>>
          /\ known["forward"] # "success"
          /\ pc' \in {"save", "announce"}
          /\ Delivered' = Delivered
      BY <1>10 DEF TypeOK, Places, StatusesDecided, Reading, DecideForward, Goto, Action, Delivered,
                   recordVars, jobVars
    <2>2. Delivered = {} /\ sent = {}
      BY <2>1 DEF DeliveriesTallied, BeforeForward
    <2>3. \A g \in PushGroup : delivery[g] = "none"
      BY <2>2 DEF Delivered
    <2>4. todo' \subseteq PushGroup /\ (pc' = "announce" => todo' # {})
      BY <1>10 DEF TypeOK, DecideForward, Goto
    <2>5. pc' = "save" => result'["forward"] \in {"not_scheduled", "failed"}
      BY <1>10, <2>1 DEF TypeOK, DecideForward, Obtain, Goto, Action
    <2>6. pc' = "save" => Tallied(result["forward"])'
      BY <2>1, <2>2, <2>5 DEF Tallied
    <2>7. QED
      BY <2>1, <2>2, <2>3, <2>4, <2>6
         DEF DeliveriesTallied, BeforeForward, NotBegun, Closing, Pushing
  <1>11. CASE Announce
    <2>1. PICK g \in todo : /\ target' = g
                            /\ todo' = todo \ {g}
                            /\ RecordDelivery(g, "pending")
      BY <1>11 DEF Announce
    <2>2. /\ g \in PushGroup /\ delivery[g] = "none" /\ Delivered = sent
          /\ pc = "announce" /\ pc' = "send" /\ act' = act /\ act = "forward"
          /\ job' = "processing" /\ sent' = sent
          /\ \A h \in todo : delivery[h] = "none"
      BY <1>11, <2>1 DEF TypeOK, Places, DeliveriesTallied, Pushing, Announce, Goto, jobVars
    <2>3. delivery' = [delivery EXCEPT ![g] = "pending"]
      BY <2>1 DEF RecordDelivery
    <2>4. delivery'[g] = "pending" /\ \A h \in PushGroup \ {g} : delivery'[h] = delivery[h]
      BY <2>2, <2>3 DEF TypeOK
    <2>5. DeliveredBut(g)' = DeliveredBut(g)
      BY <2>4 DEF DeliveredBut
    <2>6. DeliveredBut(g) = Delivered
      BY <2>2 DEF DeliveredBut, Delivered
    <2>7. DeliveredBut(target)' = sent'
      BY <2>1, <2>2, <2>5, <2>6 DEF DeliveredBut
    <2>8. todo \subseteq PushGroup
      BY DEF TypeOK
    <2>9. \A h \in todo' : delivery'[h] = "none"
      BY <2>1, <2>2, <2>4, <2>8
    <2>10. QED
      BY <2>1, <2>2, <2>4, <2>7, <2>9
         DEF DeliveriesTallied, BeforeForward, NotBegun, Closing, Pushing
  <1>12. CASE SendForward
    <2>1. PICK o \in Outcome : Obtain(o) /\ sent' = sent \cup {o}
      BY <1>12 DEF SendForward
    <2>2. /\ pc = "send" /\ pc' = "deliver" /\ act' = act /\ act = "forward"
          /\ job' = "processing" /\ UNCHANGED <<delivery, todo, target>>
      BY <1>12 DEF Places, SendForward, Goto, recordVars, jobVars
    <2>3. result'["forward"] = o
      BY <2>1, <2>2 DEF TypeOK, Obtain, Action
    <2>4. DeliveredBut(target) = sent /\ DeliveredBut(target)' = DeliveredBut(target)
      BY <2>2 DEF DeliveriesTallied, DeliveredBut
    <2>5. DeliveredBut(target)' \cup {result'["forward"]} = sent'
      BY <2>1, <2>3, <2>4
    <2>6. QED
      BY <2>2, <2>5 DEF DeliveriesTallied, BeforeForward, NotBegun, Closing, Pushing
  <1>13. CASE RecordResult
    <2>1. /\ pc = "deliver" /\ pc' = "log" /\ act' = act /\ act = "forward"
          /\ job' = "processing" /\ target \in PushGroup /\ target \notin todo
          /\ UNCHANGED <<sent, todo, target>>
          /\ DeliveredBut(target) \cup {result["forward"]} = sent
          /\ \A h \in todo : delivery[h] = "none"
      BY <1>13 DEF Places, DeliveriesTallied, Pushing, RecordResult, Goto, jobVars, localVars
    <2>2. delivery' = [delivery EXCEPT ![target] = result["forward"]]
      BY <1>13 DEF RecordResult, RecordDelivery
    <2>3. /\ delivery'[target] = result["forward"]
          /\ \A h \in PushGroup \ {target} : delivery'[h] = delivery[h]
      BY <2>1, <2>2 DEF TypeOK
    <2>4. result["forward"] # "none"
      BY DEF TypeOK, Action, Status, Outcome
    <2>5. Delivered' = DeliveredBut(target) \cup {result["forward"]}
      BY <2>1, <2>3, <2>4 DEF Delivered, DeliveredBut
    <2>6. todo \subseteq PushGroup
      BY DEF TypeOK
    <2>7. \A h \in todo' : delivery'[h] = "none"
      BY <2>1, <2>3, <2>6
    <2>8. QED
      BY <2>1, <2>5, <2>7 DEF DeliveriesTallied, BeforeForward, NotBegun, Closing, Pushing
  <1>14. CASE SendTextLog
    <2>1. /\ pc = "log" /\ act' = act /\ act = "forward" /\ job' = "processing"
          /\ UNCHANGED <<delivery, sent, todo>>
          /\ Delivered = sent /\ sent # {} /\ Delivered' = Delivered
          /\ \A h \in todo : delivery[h] = "none"
      BY <1>14 DEF Places, DeliveriesTallied, Pushing, SendTextLog, Goto, Delivered,
                   recordVars, jobVars
    <2>2. CASE todo = {}
      <3>1. pc' = "save" /\ result'["forward"] = Aggregate
        BY <1>14, <2>1, <2>2 DEF TypeOK, SendTextLog, Goto, Obtain, Action
      <3>2. "pending" \notin sent
        BY DEF TypeOK, Outcome
      <3>3. Tallied(result["forward"])'
        BY <2>1, <3>1, <3>2 DEF Tallied, Aggregate
      <3>4. QED
        BY <2>1, <2>2, <3>1, <3>3
           DEF DeliveriesTallied, BeforeForward, NotBegun, Closing, Pushing
    <2>3. CASE todo # {}
      <3>1. pc' = "announce"
        BY <1>14, <2>3 DEF SendTextLog, Goto
      <3>2. QED
        BY <2>1, <2>3, <3>1 DEF DeliveriesTallied, BeforeForward, NotBegun, Closing, Pushing
    <2>4. QED
      BY <2>2, <2>3
  <1>15. CASE SendWarning
    <2>1. /\ pc = "warn" /\ pc' = "finish" /\ job' = "processing" /\ UNCHANGED <<status, delivery>>
          /\ Delivered' = Delivered
      BY <1>15 DEF Places, SendWarning, Goto, Delivered, recordVars, jobVars
    <2>2. Tallied(status["forward"])'
      BY <2>1 DEF DeliveriesTallied, Closing, Tallied
    <2>3. QED
      BY <2>1, <2>2 DEF DeliveriesTallied, BeforeForward, NotBegun, Pushing
  <1>16. CASE MarkDone
    <2>1. /\ pc = "finish" /\ pc' = "idle" /\ job' = "done" /\ UNCHANGED <<status, delivery>>
          /\ Delivered' = Delivered
      BY <1>16 DEF MarkDone, EndExecution, Delivered, recordVars
    <2>2. Tallied(status["forward"])'
      BY <2>1 DEF DeliveriesTallied, Closing, Tallied
    <2>3. QED
      BY <2>1, <2>2 DEF DeliveriesTallied, BeforeForward, NotBegun, Pushing
  <1>17. CASE UNCHANGED <<recordVars, jobVars, pc, act, localVars>>
    <2>1. UNCHANGED <<status, delivery, job, pc, act, result, todo, target, sent>>
      BY <1>17 DEF recordVars, jobVars, localVars
    <2>2. Delivered' = Delivered /\ DeliveredBut(target)' = DeliveredBut(target)
      BY <2>1 DEF Delivered, DeliveredBut
    <2>3. /\ Tallied(status["forward"])' <=> Tallied(status["forward"])
          /\ Tallied(result["forward"])' <=> Tallied(result["forward"])
      BY <2>1, <2>2 DEF Tallied
    <2>4. QED
      BY <2>1, <2>2, <2>3 DEF DeliveriesTallied, BeforeForward, NotBegun, Closing, Pushing
  <1>18. QED
    BY <1>1, <1>2, <1>3, <1>4, <1>5, <1>6, <1>7, <1>8, <1>9, <1>10, <1>11, <1>12,
       <1>13, <1>14, <1>15, <1>16, <1>17
       DEF Next, Execution, MarkDoneFails, Interrupted, SetPolicy, AddBinding, vars

Clean == Undisturbed => StatusesDecided /\ DeliveriesTallied

(* Nothing is done at first, so nothing done is open. *)
LEMMA CleanInit == Init => Clean
  <1> SUFFICES ASSUME Init PROVE StatusesDecided /\ DeliveriesTallied
    BY DEF Clean
  <1>1. Delivered = {}
    BY DEF Init, Delivered
  <1>2. QED
    BY <1>1 DEF Init, StatusesDecided, DeliveriesTallied, BeforeForward, NotBegun,
                Closing, Reading, Pushing

(* Every step leaves nothing done open. *)
LEMMA CleanStep == TypeOK /\ Places /\ Clean /\ [Next]_vars => Clean'
  <1> SUFFICES ASSUME TypeOK, Places, Clean, [Next]_vars, faults' = 0, RecordsEnabled
               PROVE  StatusesDecided' /\ DeliveriesTallied'
    BY DEF Clean, Undisturbed
  <1>1. faults = 0 /\ ~Fault
    BY UndisturbedBefore
  <1>2. StatusesDecided /\ DeliveriesTallied
    BY <1>1 DEF Clean, Undisturbed
  <1>3. Places'
    BY PlacesStep
  <1>4. QED
    BY <1>1, <1>2, <1>3, StatusesStep, DeliveriesStep

(* A job that is done without errors and interruptions leaves no action
   undecided and no delivery pending, and the forward's status is the aggregate
   of the deliveries.                                                       *)
THEOREM DoneLeavesNothingOpen == Spec => []DoneIsDecided
  <1>1. IInv /\ Clean /\ [Next]_vars => Clean'
    BY CleanStep DEF IInv
  <1>2. Clean => DoneIsDecided
    BY DEF Clean, Undisturbed, StatusesDecided, DeliveriesTallied, Closing, Tallied,
           Delivered, DoneIsDecided
  <1>3. QED
    BY Inductive, CleanInit, <1>1, <1>2, PTL DEF Spec
=============================================================================
