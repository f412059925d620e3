-------------------------- MODULE ViolationActions --------------------------
(***************************************************************************)
(* services/violation_actions.py, violation_push_notifications.py and      *)
(* violation_action_audit.py: what the executions of one outbox job do to  *)
(* the sender, the message and the push groups, and what the database      *)
(* remembers of it.                                                        *)
(*                                                                         *)
(* The executions of a job come one after the other (ExclusiveOwner of     *)
(* ViolationPipeline).  job and attempts abstract its outbox row: a failed *)
(* mark-done is retried, an interrupted execution is recovered.  A call of *)
(* the platform ends in success, in failed (also after a timeout, when the *)
(* platform may have done it all the same) or in unsupported.              *)
(***************************************************************************)
EXTENDS Naturals, FiniteSets

CONSTANTS
    PushGroup,        \* groups that may be bound as push groups
    Policies,         \* bound: the action policies the administrators set
    RecordsEnabled,   \* setting violation_records_enabled
    HasMessageId,     \* the platform gave the message an id
    MaxAttempts,      \* setting violation_outbox_max_attempts
    MaxFaults         \* bound: database errors and interruptions

Punishment == {"mute", "recall"}
Action     == Punishment \cup {"forward"}

Policy == [mode: {"strict", "audit"}, mute: BOOLEAN, recall: BOOLEAN,
           forward: BOOLEAN]

(* The policy of a group that has none. *)
DefaultPolicy == [mode |-> "strict", mute |-> TRUE, recall |-> TRUE, forward |-> TRUE]

ASSUME ActionsAssumption == /\ IsFiniteSet(PushGroup)
                            /\ Policies \subseteq Policy
                            /\ RecordsEnabled \in BOOLEAN
                            /\ HasMessageId \in BOOLEAN
                            /\ MaxAttempts \in Nat \ {0}
                            /\ MaxFaults \in Nat

Outcome == {"success", "failed", "unsupported"}
Status  == Outcome \cup {"pending", "not_scheduled"}

VARIABLES
    status,      \* violation_events.action_*_status of the message's record
    delivery,    \* violation_push_deliveries of that record, by push group
    policy,      \* group_action_policies row of the group, or its default
    bindings,    \* enabled group_push_bindings of the group
    job,         \* status of the outbox row
    attempts,    \* its attempt_count
    pc,          \* the execution: the call it awaits
    act,         \* the action it is at
    known,       \* existing_statuses, read when it began
    plan,        \* the policy, read when it began
    result,      \* the results so far
    todo,        \* push groups still to be served
    target,      \* the push group being served
    sent,        \* results of the forwards so far
    runs,        \* executions begun
    punished,    \* how often the platform has muted and recalled
    forwarded,   \* how often it has forwarded the message to a group
    escalated,   \* how often the message has raised its sender's violation count
    faults       \* database errors and interruptions so far

recordVars == <<status, delivery>>
adminVars  == <<policy, bindings>>
jobVars    == <<job, attempts>>
localVars  == <<known, plan, result, todo, target, sent>>
effectVars == <<punished, forwarded, escalated>>
vars == <<recordVars, adminVars, jobVars, pc, act, localVars, runs, effectVars, faults>>

NoGroup == "none"     \* no push group is being served

Fault == faults < MaxFaults /\ faults' = faults + 1

(* How often the platform may have acted when a call ends in outcome o. *)
Effects(o) == CASE o = "success" -> {1} [] o = "failed" -> {0, 1} [] OTHER -> {0}

Unknown == [a \in Action |-> "unknown"]

NoLocals == /\ known' = Unknown
            /\ plan' = DefaultPolicy
            /\ result' = [a \in Action |-> "pending"]
            /\ todo' = {} /\ target' = NoGroup /\ sent' = {}

Goto(p) == pc' = p /\ UNCHANGED act

(* From mute to recall, from recall to forward, and on to the warning. *)
Proceed == CASE act = "mute"   -> pc' = "decide" /\ act' = "recall"
             [] act = "recall" -> pc' = "decide" /\ act' = "forward"
             [] OTHER          -> Goto("warn")

-----------------------------------------------------------------------------
(* The job: submitted, claimed, executed, marked done, or tried again. *)

Submit == /\ job = "absent"
          /\ job' = "pending"
          /\ UNCHANGED <<recordVars, adminVars, attempts, pc, act, localVars,
                         runs, effectVars, faults>>

Claim == /\ pc = "idle" /\ job = "pending" /\ attempts < MaxAttempts
         /\ job' = "processing"
         /\ Goto("start")
         /\ UNCHANGED <<recordVars, adminVars, attempts, localVars, runs,
                        effectVars, faults>>

Start == /\ pc = "start"
         /\ runs' = runs + 1
         /\ Goto("lookup")
         /\ UNCHANGED <<recordVars, adminVars, jobVars, localVars, effectVars, faults>>

EndExecution == pc' = "idle" /\ act' = "mute" /\ NoLocals

MarkDone == /\ pc = "finish"
            /\ job' = "done"
            /\ EndExecution
            /\ UNCHANGED <<recordVars, adminVars, attempts, runs, effectVars, faults>>

(* Mutant: one attempt too many before the job is given up. *)
MarkDoneFailsOffByOne ==
    /\ pc = "finish"
    /\ Fault
    /\ attempts' = attempts + 1
    /\ job' = IF attempts' > MaxAttempts THEN "failed" ELSE "pending"
    /\ EndExecution
    /\ UNCHANGED <<recordVars, adminVars, runs, effectVars>>

MarkDoneFails ==
    /\ pc = "finish"
    /\ Fault
    /\ attempts' = attempts + 1
    /\ job' = IF attempts' >= MaxAttempts THEN "failed" ELSE "pending"
    /\ EndExecution
    /\ UNCHANGED <<recordVars, adminVars, runs, effectVars>>

(* The plugin stops before or during any call, and recovers the job when it
   starts again.                                                            *)
Interrupted == /\ pc # "idle"
               /\ Fault
               /\ job' = "pending"
               /\ EndExecution
               /\ UNCHANGED <<recordVars, adminVars, attempts, runs, effectVars>>

-----------------------------------------------------------------------------
(* execute() *)

(* Mutant: an error of the lookup passes for a success. *)
LookupStatusesTrusting ==
    /\ pc = "lookup"
    /\ \/ /\ known' = IF RecordsEnabled THEN status ELSE Unknown
          /\ UNCHANGED faults
       \/ /\ RecordsEnabled
          /\ Fault
          /\ known' = [a \in Action |-> "success"]
    /\ Goto("policy")
    /\ UNCHANGED <<recordVars, adminVars, jobVars, plan, result, todo, target,
                   sent, runs, effectVars>>

(* Mutant: the statuses are not looked at. *)
LookupStatusesBlind ==
    /\ pc = "lookup"
    /\ known' = [a \in Action |-> "pending"]
    /\ Goto("policy")
    /\ UNCHANGED <<recordVars, adminVars, jobVars, plan, result, todo, target,
                   sent, runs, effectVars, faults>>

(* _existing_action_statuses: nothing is known without a record, or when the
   lookup raises.                                                           *)
LookupStatuses ==
    /\ pc = "lookup"
    /\ \/ /\ known' = IF RecordsEnabled THEN status ELSE Unknown
          /\ UNCHANGED faults
       \/ /\ RecordsEnabled
          /\ Fault
          /\ known' = Unknown
    /\ Goto("policy")
    /\ UNCHANGED <<recordVars, adminVars, jobVars, plan, result, todo, target,
                   sent, runs, effectVars>>

(* _action_policy_for_group: the default when the lookup raises. *)
LookupPolicy ==
    /\ pc = "policy"
    /\ \/ plan' = policy /\ UNCHANGED faults
       \/ plan' = DefaultPolicy /\ Fault
    /\ Goto("decide")
    /\ UNCHANGED <<recordVars, adminVars, jobVars, known, result, todo, target,
                   sent, runs, effectVars>>

Permitted(a) == plan.mode = "strict" /\ plan[a]

Obtain(r) == result' = [result EXCEPT ![act] = r]

(* Mutant: a recall raises the violation count too. *)
DecidePunishmentCountsRecall ==
    /\ pc = "decide" /\ act \in Punishment
    /\ IF known[act] = "success" THEN Obtain("success") /\ Proceed
       ELSE IF ~Permitted(act) THEN Obtain("not_scheduled") /\ Goto("save")
       ELSE IF act = "recall" /\ ~HasMessageId THEN Obtain("unsupported") /\ Goto("save")
       ELSE Goto("escalate") /\ UNCHANGED result
    /\ UNCHANGED <<recordVars, adminVars, jobVars, known, plan, todo, target,
                   sent, runs, effectVars, faults>>

(* _maybe_mute_user and _maybe_recall_message up to the platform.  A known
   success is neither repeated nor written again.                           *)
DecidePunishment ==
    /\ pc = "decide" /\ act \in Punishment
    /\ IF known[act] = "success" THEN Obtain("success") /\ Proceed
       ELSE IF ~Permitted(act) THEN Obtain("not_scheduled") /\ Goto("save")
       ELSE IF act = "recall" /\ ~HasMessageId THEN Obtain("unsupported") /\ Goto("save")
       ELSE /\ Goto(IF act = "mute" THEN "escalate" ELSE "call")
            /\ UNCHANGED result
    /\ UNCHANGED <<recordVars, adminVars, jobVars, known, plan, todo, target,
                   sent, runs, effectVars, faults>>

(* _mute_duration_for_group and _escalated_mute_duration: the sender's violation
   count goes up, or an error leaves the base duration.                     *)
Escalate ==
    /\ pc = "escalate"
    /\ \/ escalated' = escalated + 1 /\ UNCHANGED faults
       \/ Fault /\ UNCHANGED escalated
    /\ Goto("call")
    /\ UNCHANGED <<recordVars, adminVars, jobVars, localVars, runs, punished,
                   forwarded>>

(* _mute_user and _recall_message, with a timeout of ten seconds. *)
Punish ==
    /\ pc = "call"
    /\ \E o \in Outcome : \E n \in Effects(o) :
          /\ Obtain(o)
          /\ punished' = [punished EXCEPT ![act] = @ + n]
    /\ Goto("save")
    /\ UNCHANGED <<recordVars, adminVars, jobVars, known, plan, todo, target,
                   sent, runs, forwarded, escalated, faults>>

(* ViolationActionAudit.update_status: an error is logged and forgotten. *)
SaveStatus ==
    /\ pc = "save"
    /\ \/ /\ status' = IF RecordsEnabled THEN [status EXCEPT ![act] = result[act]]
                                         ELSE status
          /\ UNCHANGED faults
       \/ RecordsEnabled /\ Fault /\ UNCHANGED status
    /\ Proceed
    /\ UNCHANGED <<delivery, adminVars, jobVars, localVars, runs, effectVars>>

-----------------------------------------------------------------------------
(* ViolationPushNotifier.forward *)

(* Mutant: a known success is scheduled like anything else. *)
DecideForwardAgain ==
    /\ pc = "decide" /\ act = "forward"
    /\ \/ /\ ~plan.forward
          /\ Obtain("not_scheduled")
          /\ Goto("save")
          /\ UNCHANGED <<todo, faults>>
       \/ /\ plan.forward
          /\ \/ /\ todo' = bindings
                /\ IF bindings = {} THEN Obtain("not_scheduled") /\ Goto("save")
                                    ELSE Goto("announce") /\ UNCHANGED result
                /\ UNCHANGED faults
             \/ Fault /\ Obtain("failed") /\ Goto("save") /\ UNCHANGED todo
    /\ UNCHANGED <<recordVars, adminVars, jobVars, known, plan, target, sent,
                   runs, effectVars>>

(* A known success, or a forward that is switched off, is only written back;
   otherwise the bindings are looked up.                                    *)
DecideForward ==
    /\ pc = "decide" /\ act = "forward"
    /\ \/ /\ known["forward"] = "success" \/ ~plan.forward
          /\ Obtain(IF known["forward"] = "success" THEN "success" ELSE "not_scheduled")
          /\ Goto("save")
          /\ UNCHANGED <<todo, faults>>
       \/ /\ known["forward"] # "success" /\ plan.forward
          /\ \/ /\ todo' = bindings
                /\ IF bindings = {} THEN Obtain("not_scheduled") /\ Goto("save")
                                    ELSE Goto("announce") /\ UNCHANGED result
                /\ UNCHANGED faults
             \/ Fault /\ Obtain("failed") /\ Goto("save") /\ UNCHANGED todo
    /\ UNCHANGED <<recordVars, adminVars, jobVars, known, plan, target, sent,
                   runs, effectVars>>

(* record_push_delivery; its errors are logged and forgotten. *)
RecordDelivery(g, s) ==
    \/ /\ delivery' = IF RecordsEnabled THEN [delivery EXCEPT ![g] = s] ELSE delivery
       /\ UNCHANGED faults
    \/ RecordsEnabled /\ Fault /\ UNCHANGED delivery

(* The delivery to the next push group, recorded as pending. *)
Announce ==
    /\ pc = "announce"
    /\ \E g \in todo : /\ target' = g
                       /\ todo' = todo \ {g}
                       /\ RecordDelivery(g, "pending")
    /\ Goto("send")
    /\ UNCHANGED <<status, adminVars, jobVars, known, plan, result, sent, runs,
                   effectVars>>

SendForward ==
    /\ pc = "send"
    /\ \E o \in Outcome : \E n \in Effects(o) :
          /\ Obtain(o)
          /\ sent' = sent \cup {o}
          /\ forwarded' = [forwarded EXCEPT ![target] = @ + n]
    /\ Goto("deliver")
    /\ UNCHANGED <<recordVars, adminVars, jobVars, known, plan, todo, target,
                   runs, punished, escalated, faults>>

RecordResult ==
    /\ pc = "deliver"
    /\ RecordDelivery(target, result["forward"])
    /\ Goto("log")
    /\ UNCHANGED <<status, adminVars, jobVars, localVars, runs, effectVars>>

(* Mutant: one success is enough. *)
AggregateAny == IF "success" \in sent THEN "success"
                ELSE IF sent = {"unsupported"} THEN "unsupported"
                ELSE "failed"

(* _aggregate_forward_status *)
Aggregate == IF sent = {"success"} THEN "success"
             ELSE IF sent = {"unsupported"} THEN "unsupported"
             ELSE "failed"

(* Mutant: the last push group is served again and again. *)
SendTextLogAgain ==
    /\ pc = "log"
    /\ Goto("announce")
    /\ todo' = IF todo = {} THEN {target} ELSE todo
    /\ UNCHANGED <<recordVars, adminVars, jobVars, known, plan, result, sent,
                   target, runs, effectVars, faults>>

(* The text log of this push group, whose result is only logged. *)
SendTextLog ==
    /\ pc = "log"
    /\ IF todo = {} THEN Obtain(Aggregate) /\ Goto("save")
                    ELSE Goto("announce") /\ UNCHANGED result
    /\ target' = NoGroup
    /\ UNCHANGED <<recordVars, adminVars, jobVars, known, plan, todo, sent, runs,
                   effectVars, faults>>

-----------------------------------------------------------------------------
(* _send_warning_message: its result is only logged. *)
SendWarning == /\ pc = "warn"
               /\ Goto("finish")
               /\ UNCHANGED <<recordVars, adminVars, jobVars, localVars, runs,
                              effectVars, faults>>

-----------------------------------------------------------------------------
(* The administrators' commands on the policy and the bindings. *)

SetToggle(a, enabled) == policy' = [policy EXCEPT ![a] = enabled]
SetMode(m)            == policy' = [policy EXCEPT !.mode = m]

SetPolicy ==
    /\ \/ \E a \in Action : \E enabled \in BOOLEAN : SetToggle(a, enabled)
       \/ \E m \in {"strict", "audit"} : SetMode(m)
    /\ policy' \in Policies
    /\ UNCHANGED <<recordVars, bindings, jobVars, pc, act, localVars, runs,
                   effectVars, faults>>

AddBinding == /\ \E g \in PushGroup : bindings' = bindings \cup {g}
              /\ UNCHANGED <<recordVars, policy, jobVars, pc, act, localVars,
                             runs, effectVars, faults>>

-----------------------------------------------------------------------------
Init == /\ status = [a \in Action |-> "pending"]
        /\ delivery = [g \in PushGroup |-> "none"]
        /\ policy \in Policies
        /\ bindings \in SUBSET PushGroup
        /\ job = "absent" /\ attempts = 0
        /\ pc = "idle" /\ act = "mute"
        /\ known = Unknown
        /\ plan = DefaultPolicy
        /\ result = [a \in Action |-> "pending"]
        /\ todo = {} /\ target = NoGroup /\ sent = {}
        /\ runs = 0
        /\ punished = [a \in Punishment |-> 0]
        /\ forwarded = [g \in PushGroup |-> 0]
        /\ escalated = 0
        /\ faults = 0

Execution == \/ Claim \/ Start \/ LookupStatuses \/ LookupPolicy
             \/ DecidePunishment \/ Escalate \/ Punish \/ SaveStatus
             \/ DecideForward \/ Announce \/ SendForward \/ RecordResult
             \/ SendTextLog \/ SendWarning \/ MarkDone

Next == Submit \/ Execution \/ MarkDoneFails \/ Interrupted \/ SetPolicy \/ AddBinding

Spec == Init /\ [][Next]_vars

TypeOK ==
    /\ status \in [Action -> Status]
    /\ delivery \in [PushGroup -> Status \cup {"none"}]
    /\ policy \in Policies
    /\ bindings \subseteq PushGroup
    /\ job \in {"absent", "pending", "processing", "done", "failed"}
    /\ attempts \in Nat
    /\ pc \in {"idle", "start", "lookup", "policy", "decide", "escalate", "call",
               "save", "announce", "send", "deliver", "log", "warn", "finish"}
    /\ act \in Action
    /\ known \in [Action -> Status \cup {"unknown"}]
    /\ plan \in Policy
    /\ result \in [Action -> Status]
    /\ todo \subseteq PushGroup
    /\ target \in PushGroup \cup {NoGroup}
    /\ sent \subseteq Outcome
    /\ runs \in Nat
    /\ punished \in [Punishment -> Nat]
    /\ forwarded \in [PushGroup -> Nat]
    /\ escalated \in Nat
    /\ faults \in 0 .. MaxFaults

-----------------------------------------------------------------------------
(* Safety. *)

(* The database never claims more than the platform did: a mute, a recall or a
   delivery on record as a success has happened, and a forward on record as a
   success has reached a push group.                                        *)
SuccessMeansPerformed ==
    /\ \A a \in Punishment : status[a] = "success" => punished[a] > 0
    /\ \A g \in PushGroup : delivery[g] = "success" => forwarded[g] > 0
    /\ status["forward"] = "success" => \E g \in PushGroup : forwarded[g] > 0

(* Without database errors and interruptions a finished job leaves nothing
   undecided on record, and its forward is a success, or unsupported, exactly
   when there are deliveries and all of them are.                           *)
DoneIsDecided ==
    job = "done" /\ faults = 0 /\ RecordsEnabled =>
        LET delivered == {delivery[g] : g \in PushGroup} \ {"none"}
        IN  /\ \A a \in Action : status[a] # "pending"
            /\ "pending" \notin delivered
            /\ \A s \in {"success", "unsupported"} :
                   status["forward"] = s <=> delivered = {s}

(* A mute or recall that the record knows to have succeeded is not repeated by
   a later execution, unless that execution could not read the record: a job
   that is retried because of its forward or its mark-done punishes once.   *)
SuccessIsRemembered ==
    [][\A a \in Punishment :
           punished'[a] > punished[a] /\ status[a] = "success"
               => known[a] = "unknown"]_vars

(* The sender's violation count rises once for an execution at most, and every
   mute of the platform was preceded by a rise of its own, unless the database
   failed: a retry may raise the count again, an execution may not.          *)
EscalatedPerAttempt == punished["mute"] <= escalated + faults /\ escalated <= runs

(* A status on record as a success stays one, under the same proviso, although
   every execution writes the status of the forward.                        *)
SuccessIsFinal ==
    [][\A a \in Action :
           status[a] = "success" /\ status'[a] # "success"
               => known[a] = "unknown"]_vars

-----------------------------------------------------------------------------
(* What the documentation says beyond that. *)

(* A retry does not repeat a forward that has succeeded. *)
DeliveredStaysDelivered ==
    [][\A g \in PushGroup : delivery[g] = "success" => delivery'[g] = "success"]_vars

(* A group whose policies are all in audit mode sees no mute and no recall. *)
AuditNeverPunishes ==
    (\A p \in Policies : p.mode = "audit") => \A a \in Punishment : punished[a] = 0

-----------------------------------------------------------------------------
(* Every call returns, fails or times out, and the job is claimed in time. *)
FairSpec == Spec /\ WF_vars(Execution)

(* An execution comes to its end, so that its worker serves other jobs. *)
ExecutionEnds == pc # "idle" ~> pc = "idle"

-----------------------------------------------------------------------------
Contract == INSTANCE OutboxContract
                WITH Key <- {"job"},
                     state <- [k \in {"job"} |-> job],
                     attempts <- [k \in {"job"} |-> attempts],
                     runs <- [k \in {"job"} |-> runs]

(* The executions of a job are a job of the outbox contract. *)
ImplementsContract == Contract!Spec
=============================================================================
