----------------------------- MODULE JobWorkers -----------------------------
(***************************************************************************)
(* runtime/violation_job_queue.py: the worker tasks that recover, claim,   *)
(* process and settle outbox jobs.                                         *)
(*                                                                         *)
(* wk[t] is worker task t of plugin instance TeamOf[t], with the database  *)
(* call it awaits.  As in IngressWriter, a task whose instance has stopped *)
(* is no longer scheduled, while the thread of its call may still run:     *)
(* Resume says what a finished call goes back to.                          *)
(***************************************************************************)
EXTENDS OutboxStore, PluginLifecycle

CONSTANTS
    Task,            \* worker tasks of all instances
    TeamOf,          \* TeamOf[t]: the instance that creates task t
    Platform,        \* chat platforms
    PlatformOf,      \* PlatformOf[k]: the platform of message k
    NoJob,           \* the task holds no job
    RecordsEnabled   \* setting violation_records_enabled

ASSUME WorkersAssumption == /\ TeamOf \in [Task -> Instance]
                            /\ PlatformOf \in [Key -> Platform]
                            /\ NoJob \notin Key
                            /\ RecordsEnabled \in BOOLEAN

VARIABLES
    wk,            \* worker tasks, each with the job snapshot it claimed
    recovered,     \* _recovered
    registered,    \* keys of _platform_actions_by_platform
    executions     \* executions[k]: how often the actions for message k began

workersVars == <<wk, recovered, registered, executions>>

(* start: before the recovery lock; wait: rate limiter, idle sleep or the
   first SELECT of a claim; claim .. defer: named after the call awaited.   *)
IdlePC == {"off", "start", "recover", "wait"}

(* The task has claimed its job and has not settled it. *)
HoldingPC == {"record", "setvid", "execute", "done", "retry", "rewrite", "defer"}

JobPC == HoldingPC \cup {"claim"}

(* Positions from which a thread may go on after its task is cancelled. *)
ThreadPC == (IdlePC \cup JobPC) \ {"off", "start", "execute"}

(* vid is the violation id of the snapshot, seen the attempts just read. *)
Worker == [pc: IdlePC, key: {NoJob}, vid: {NoViolation}, seen: {0}]
          \cup [pc: JobPC, key: Key, vid: Nat, seen: Nat]

WorkerAt(pc)  == [pc |-> pc, key |-> NoJob, vid |-> NoViolation, seen |-> 0]
WorkerOff     == WorkerAt("off")
WorkerWaiting == WorkerAt("wait")

Team(i) == {t \in Task : TeamOf[t] = i}

WorkerLive(t) == TeamOf[t] = cur /\ phase # "stopped"

(* The database call of t has returned: a scheduled task goes on with next,
   the thread of a cancelled one ends.                                      *)
Resume(t, next) ==
    wk' = [wk EXCEPT ![t] = IF WorkerLive(t) THEN next ELSE WorkerOff]

At(t, pc) == [wk[t] EXCEPT !.pc = pc]

-----------------------------------------------------------------------------
(* ViolationJobQueue.start: workers are created only when none is left. *)
StartWorkers ==
    wk' = IF \A t \in Team(cur) : wk[t].pc = "off"
          THEN [t \in Task |-> IF TeamOf[t] = cur THEN WorkerAt("start") ELSE wk[t]]
          ELSE wk

-----------------------------------------------------------------------------
(* _recover_processing_jobs_once, under _recover_lock. *)

(* Mutant: every worker recovers, not only the first. *)
BeginRecoveryEach(t) ==
    /\ WorkerLive(t)
    /\ wk[t].pc = "start"
    /\ \A u \in Team(cur) : wk[u].pc # "recover"
    /\ wk' = [wk EXCEPT ![t] = WorkerAt("recover")]
    /\ UNCHANGED <<recovered, registered, executions, storeVars, faults>>

BeginRecovery(t) ==
    /\ WorkerLive(t)
    /\ wk[t].pc = "start"
    /\ \A u \in Team(cur) : wk[u].pc # "recover"
    /\ wk' = [wk EXCEPT ![t] = IF recovered THEN WorkerWaiting
                                            ELSE WorkerAt("recover")]
    /\ UNCHANGED <<recovered, registered, executions, storeVars, faults>>

Recover(t) ==
    /\ wk[t].pc = "recover"
    /\ RecoverRows
    /\ recovered' = (recovered \/ WorkerLive(t))
    /\ Resume(t, WorkerWaiting)
    /\ UNCHANGED <<registered, executions, audit, faults>>

(* The error is logged, and the instance never tries again. *)
RecoverFails(t) ==
    /\ wk[t].pc = "recover"
    /\ Fault
    /\ recovered' = (recovered \/ WorkerLive(t))
    /\ Resume(t, WorkerWaiting)
    /\ UNCHANGED <<registered, executions, storeVars>>

-----------------------------------------------------------------------------
(* claim_next_violation_outbox_job: a SELECT, then an UPDATE guarded by the
   status.  The job handed out is the row as the SELECT saw it.             *)

SelectJob(t) ==
    /\ wk[t].pc = "wait"
    /\ \/ \E k \in NextClaimable :
             wk' = [wk EXCEPT ![t] = [pc |-> "claim", key |-> k,
                                      vid |-> row[k].vid, seen |-> 0]]
       \/ Claimable = {} /\ Resume(t, WorkerWaiting)
    /\ UNCHANGED <<recovered, registered, executions, storeVars, faults>>

(* Mutant: actions before the violation record. *)
FirstStepUnrecorded(t) ==
    IF PlatformOf[wk[t].key] \notin registered THEN "defer" ELSE "execute"

(* _process_claimed_job up to its first await. *)
FirstStep(t) ==
    IF PlatformOf[wk[t].key] \notin registered THEN "defer"
    ELSE IF RecordsEnabled /\ wk[t].vid = NoViolation THEN "record"
    ELSE "execute"

(* Mutant: the row count of the UPDATE is not looked at. *)
ClaimJobUnchecked(t) ==
    /\ wk[t].pc = "claim"
    /\ ClaimRow(wk[t].key)
    /\ Resume(t, At(t, FirstStep(t)))
    /\ UNCHANGED <<recovered, registered, executions, audit, faults>>

(* Mutant: a worker that finds the queue closed drops the job it has claimed. *)
ClaimJobUnlessClosed(t) ==
    /\ wk[t].pc = "claim"
    /\ ClaimRow(wk[t].key)
    /\ Resume(t, IF row[wk[t].key].status = "pending" /\ ~closed
                 THEN At(t, FirstStep(t)) ELSE WorkerWaiting)
    /\ UNCHANGED <<recovered, registered, executions, audit, faults>>

ClaimJob(t) ==
    /\ wk[t].pc = "claim"
    /\ ClaimRow(wk[t].key)
    /\ Resume(t, IF row[wk[t].key].status = "pending" THEN At(t, FirstStep(t))
                                                      ELSE WorkerWaiting)
    /\ UNCHANGED <<recovered, registered, executions, audit, faults>>

(* Nothing catches an error of the claim: the worker task ends. *)
ClaimFails(t) ==
    /\ wk[t].pc \in {"wait", "claim"}
    /\ Fault
    /\ wk' = [wk EXCEPT ![t] = WorkerOff]
    /\ UNCHANGED <<recovered, registered, executions, storeVars>>

-----------------------------------------------------------------------------
(* _process_claimed_job. *)

Record(t) ==
    /\ wk[t].pc = "record"
    /\ RecordViolation(wk[t].key)
    /\ Resume(t, [At(t, "setvid") EXCEPT !.vid = RecordedViolation(wk[t].key)])
    /\ UNCHANGED <<recovered, registered, executions, row, faults>>

SetViolation(t) ==
    /\ wk[t].pc = "setvid"
    /\ SetRowViolation(wk[t].key, wk[t].vid)
    /\ Resume(t, At(t, "execute"))
    /\ UNCHANGED <<recovered, registered, executions, audit, faults>>

(* execute() and _send_warning_message(), which let no error out: what they do
   is the subject of ViolationActions.  Counted when they begin, so that an
   interrupted execution counts.                                            *)
Execute(t) ==
    /\ WorkerLive(t)
    /\ wk[t].pc = "execute"
    /\ executions' = [executions EXCEPT ![wk[t].key] = @ + 1]
    /\ wk' = [wk EXCEPT ![t] = At(t, "done")]
    /\ UNCHANGED <<recovered, registered, storeVars, faults>>

MarkDone(t) ==
    /\ wk[t].pc = "done"
    /\ MarkRowDone(wk[t].key, wk[t].vid)
    /\ Resume(t, WorkerWaiting)
    /\ UNCHANGED <<recovered, registered, executions, audit, faults>>

(* Any error inside the try block ends in _retry_job. *)
ProcessFails(t) ==
    /\ wk[t].pc \in {"record", "setvid", "done"}
    /\ Fault
    /\ Resume(t, At(t, "retry"))
    /\ UNCHANGED <<recovered, registered, executions, storeVars>>

(* retry_violation_outbox_job: SELECT attempt_count, then UPDATE. *)
ReadAttempts(t) ==
    /\ wk[t].pc = "retry"
    /\ wk' = [wk EXCEPT ![t] = [At(t, "rewrite")
                                EXCEPT !.seen = row[wk[t].key].attempts]]
    /\ UNCHANGED <<recovered, registered, executions, storeVars, faults>>

WriteRetry(t) ==
    /\ wk[t].pc = "rewrite"
    /\ RetryRow(wk[t].key, wk[t].seen)
    /\ Resume(t, WorkerWaiting)
    /\ UNCHANGED <<recovered, registered, executions, audit, faults>>

(* _defer_job *)
Defer(t) ==
    /\ wk[t].pc = "defer"
    /\ DeferRow(wk[t].key)
    /\ Resume(t, WorkerWaiting)
    /\ UNCHANGED <<recovered, registered, executions, audit, faults>>

(* _retry_job and _defer_job log an error of their update and return: the row
   stays in processing.                                                     *)
SettleFails(t) ==
    /\ wk[t].pc \in {"retry", "rewrite", "defer"}
    /\ Fault
    /\ Resume(t, WorkerWaiting)
    /\ UNCHANGED <<recovered, registered, executions, storeVars>>

WorkerStep(t) ==
    \/ BeginRecovery(t) \/ Recover(t)
    \/ SelectJob(t) \/ ClaimJob(t)
    \/ Record(t) \/ SetViolation(t) \/ Execute(t) \/ MarkDone(t)
    \/ ReadAttempts(t) \/ WriteRetry(t) \/ Defer(t)

WorkerFault(t) ==
    RecoverFails(t) \/ ClaimFails(t) \/ ProcessFails(t) \/ SettleFails(t)

-----------------------------------------------------------------------------
(* task.cancel() for every worker: which of the calls in flight go on without
   their task is up to the thread pool.                                     *)
CancelWorkers ==
    \E inFlight \in SUBSET {t \in Team(cur) : wk[t].pc \in ThreadPC} :
        wk' = [t \in Task |-> IF TeamOf[t] = cur /\ t \notin inFlight
                              THEN WorkerOff ELSE wk[t]]

(* The platform actions a group message brings along. *)
Register(p) == registered' = registered \cup {p}

WorkersTypeOK == /\ wk \in [Task -> Worker]
                 /\ recovered \in BOOLEAN
                 /\ registered \subseteq Platform
                 /\ executions \in [Key -> Nat]

WorkersInit == /\ wk = [t \in Task |-> WorkerOff]
               /\ recovered = FALSE
               /\ registered = {}
               /\ executions = [k \in Key |-> 0]
=============================================================================
