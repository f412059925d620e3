-------------------------- MODULE ViolationPipeline --------------------------
(***************************************************************************)
(* The violation pipeline of the plugin: group messages enter through      *)
(* main.py, IngressWriter writes them to the outbox, JobWorkers process    *)
(* them.  This module composes the two with the entry, shutdown(), the     *)
(* restart of the process and the hot reload of the plugin.                *)
(***************************************************************************)
EXTENDS IngressWriter, JobWorkers

VARIABLE
    synthetic    \* the keys without a message id that were already generated

vars == <<row, audit, cur, phase, faults, overlap, queue, pendingKeys, writer,
          dropped, wk, recovered, registered, executions, synthetic>>

-----------------------------------------------------------------------------
(* on_group_message after it has resolved the sender's role: from there to its
   end nothing is awaited that suspends, so the handler is one step.        *)

StartTasks == IF closed THEN UNCHANGED <<writer, wk>>
                        ELSE StartWriter /\ StartWorkers

(* A message the matcher reports.  A platform may deliver the same message id
   again; a synthetic key contains time_ns() and is new every time.         *)
MatchedMessage(k) ==
    /\ k \notin synthetic
    /\ synthetic' = synthetic \cup ({k} \ MessageIdKeys)
    /\ Register(PlatformOf[k])
    /\ IF closed THEN UNCHANGED <<queue, pendingKeys>> ELSE TryEnqueue(k)
    /\ StartTasks
    /\ UNCHANGED <<dropped, recovered, executions, storeVars, lifecycleVars>>

(* A message the matcher lets pass. *)
OtherMessage(p) ==
    /\ Register(p)
    /\ StartTasks
    /\ UNCHANGED <<queue, pendingKeys, dropped, recovered, executions,
                   synthetic, storeVars, lifecycleVars>>

-----------------------------------------------------------------------------
(* terminate() -> ViolationJobQueue.shutdown(). *)

(* Without a writer task there is nothing to drain, and only the pending keys
   are forgotten before the workers are cancelled.                          *)
BeginShutdown ==
    /\ phase = "open"
    /\ IF writer[cur].pc = "off"
       THEN /\ phase' = "stopped"
            /\ pendingKeys' = {}
            /\ queue' = <<>>
            /\ CancelWorkers
       ELSE phase' = "draining" /\ UNCHANGED <<pendingKeys, queue, wk>>
    /\ UNCHANGED <<cur, faults, overlap, writer, dropped, recovered, registered,
                   executions, synthetic, storeVars>>

Drain ==
    /\ phase = "draining"
    /\ Drained
    /\ phase' = "stopped"
    /\ pendingKeys' = {}
    /\ CancelWriter
    /\ CancelWorkers
    /\ UNCHANGED <<cur, faults, overlap, queue, dropped, recovered, registered,
                   executions, synthetic, storeVars>>

(* Two seconds have passed.  wait_for raises asyncio.TimeoutError, which
   "except TimeoutError" catches only where the two are one class; elsewhere
   it leaves both shutdown() methods before anything is cancelled.          *)
DrainTimesOut ==
    /\ phase = "draining"
    /\ ~Drained
    /\ IF TimeoutErrorIsBuiltin
       THEN /\ phase' = "stopped"
            /\ dropped' = dropped + DroppedByTimeout
            /\ pendingKeys' = {}
            /\ queue' = <<>>
            /\ CancelWriter
            /\ CancelWorkers
       ELSE /\ phase' = "raised"
            /\ UNCHANGED <<dropped, pendingKeys, queue, writer, wk>>
    /\ UNCHANGED <<cur, faults, overlap, recovered, registered, executions,
                   synthetic, storeVars>>

-----------------------------------------------------------------------------
(* A new instance: everything in memory starts over, the database stays. *)

FreshMemory == /\ phase' = "open"
               /\ queue' = <<>>
               /\ pendingKeys' = {}
               /\ dropped' = 0
               /\ recovered' = FALSE
               /\ registered' = {}

(* The process ends, by a crash or a stop, and is started again. *)
ProcessRestart ==
    /\ Fault
    /\ FreshMemory
    /\ writer' = [i \in Instance |-> WriterOff]
    /\ wk' = [t \in Task |-> WorkerOff]
    /\ UNCHANGED <<cur, overlap, executions, synthetic, storeVars>>

ThreadLeft == \/ \E i \in Instance : writer[i].pc # "off"
              \/ \E t \in Task : wk[t].pc # "off"

(* AstrBot loads the plugin again in the same process, after terminate(). *)
HotReload ==
    /\ phase = "stopped"
    /\ cur < MaxInstance
    /\ Fault
    /\ cur' = cur + 1
    /\ FreshMemory
    /\ overlap' = (overlap \/ ThreadLeft)
    /\ UNCHANGED <<writer, wk, executions, synthetic, storeVars>>

-----------------------------------------------------------------------------
Init == /\ LifecycleInit
        /\ StoreInit
        /\ IngressInit
        /\ WorkersInit
        /\ synthetic = {}

IngressNext ==
    /\ \E i \in Instance : WriterStep(i) \/ WriteFails(i)
    /\ UNCHANGED <<workersVars, synthetic, cur, phase, overlap>>

WorkersNext ==
    /\ \E t \in Task : WorkerStep(t) \/ WorkerFault(t)
    /\ UNCHANGED <<ingressVars, synthetic, cur, phase, overlap>>

TimePasses ==
    /\ \E k \in Key : BecomeAvailable(k)
    /\ UNCHANGED <<audit, ingressVars, workersVars, synthetic, lifecycleVars>>

Next ==
    \/ \E k \in Key : MatchedMessage(k)
    \/ \E p \in Platform : OtherMessage(p)
    \/ IngressNext
    \/ WorkersNext
    \/ TimePasses
    \/ BeginShutdown \/ Drain \/ DrainTimesOut
    \/ ProcessRestart
    \/ HotReload

Spec == Init /\ [][Next]_vars

TypeOK == /\ LifecycleTypeOK
          /\ StoreTypeOK
          /\ IngressTypeOK
          /\ WorkersTypeOK
          /\ synthetic \subseteq Key \ MessageIdKeys

-----------------------------------------------------------------------------
(* Who holds what. *)

Owners(k) == {t \in Task : wk[t].pc \in HoldingPC /\ wk[t].key = k}

InHand == {writer[cur].key} \ {NoKey}

(* A processing row nobody works on, and that nobody will look for again
   before the next start of the plugin.                                     *)
Stranded(k) == /\ row[k].status = "processing"
               /\ recovered
               /\ Owners(k) = {}

-----------------------------------------------------------------------------
(* Safety.  overlap says that a hot reload took place while a database thread
   of the old instance was still running; what such a thread may undo is
   stated with that exception.                                              *)

(* No two tasks, nor the late thread of a cancelled one, work on one job: the
   claim's two statements, the recovery and the shutdown never hand a job out
   twice.                                                                   *)
ExclusiveOwner ==
    overlap \/ \A t, u \in Task :
        (/\ wk[t].pc \in HoldingPC /\ wk[u].pc \in HoldingPC
         /\ wk[t].key = wk[u].key) => t = u

(* Whoever holds a job finds its row in processing, so that the updates by id
   never overwrite a row that somebody else has already settled.            *)
OwnedIsProcessing ==
    overlap \/ \A t \in Task :
        wk[t].pc \in HoldingPC => row[wk[t].key].status = "processing"

(* A job in work has one owner, and its row says that it is in work. *)
OneOwnerPerRow == ExclusiveOwner /\ OwnedIsProcessing

(* Once the instance has recovered and until it has shut down, a processing row
   without a worker is the trace of a fault: scheduling alone strands no job. *)
StrandedOnlyByFault ==
    \A k \in Key : phase # "stopped" /\ Stranded(k) => faults > 0

(* The outbox never exceeds violation_outbox_max_pending, although the count
   and the INSERT are separate statements.                                  *)
ActiveWithinLimit == overlap \/ Cardinality(Active) <= MaxPending

(* A row has used all its attempts exactly when it is failed: no active row
   is beyond the reach of the claim, which skips exhausted rows.            *)
ExhaustedIffFailed ==
    overlap \/ \A k \in Key :
        row[k].attempts = MaxAttempts <=> row[k].status = "failed"

(* With violation records on, no action is executed for a message that has no
   violation record its row points to.                                      *)
RecordBeforeActions ==
    \A k \in Key :
        RecordsEnabled /\ executions[k] > 0 => row[k].vid \in 1 .. audit[k]

(* No job is marked done without its actions having been executed. *)
DoneMeansExecuted ==
    \A k \in Key : row[k].status = "done" => executions[k] > 0

(* Whatever the faults, actions come after the record and before the end. *)
ActionEvidence == RecordBeforeActions /\ DoneMeansExecuted

(* The actions for a message are executed again, and its violation recorded
   again, only after a fault: at most once more for each.                   *)
RepeatsNeedFaults ==
    overlap \/ \A k \in Key : /\ executions[k] <= 1 + faults
                              /\ audit[k] <= 1 + faults

(* The deduplication set of the ingress writer is exact: it holds the entries
   in the queue and in the writer's hand, each of them once.  A key left in it
   would silence its message for good, a key missing would let it in twice. *)
PendingKeysExact ==
    phase # "stopped" =>
        LET queued == {queue[i] : i \in 1 .. Len(queue)}
        IN  /\ pendingKeys = queued \cup InHand
            /\ queued \cap InHand = {}
            /\ \A i, j \in 1 .. Len(queue) : queue[i] = queue[j] => i = j

-----------------------------------------------------------------------------
(* What a step may never do. *)

(* A done or failed row is never changed again, by nobody. *)
TerminalIsFinal ==
    [][overlap \/ \A k \in Key :
           row[k].status \in {"done", "failed"} => row'[k] = row[k]]_vars

(* An accepted entry leaves the memory of a running instance only into the
   outbox, because the outbox is full, or after its last write attempt.     *)
AcceptedUntilSettled ==
    [][\A k \in pendingKeys \ pendingKeys' :
           \/ k \in Persisted'
           \/ OutboxFull
           \/ writer[cur].failures + 1 >= MaxAttempts
           \/ writer'[cur].pc = "off"
           \/ phase' = "stopped"]_vars

(* A shutdown drops nothing unnoticed: the counter rises by at least the number
   of accepted entries that are not in the outbox.  It may say more: entries
   whose message is in the outbox already count too, and the one in the writer's
   hand twice, in shutdown() and in the cancelled writer.                    *)
LossIsCounted ==
    [][phase = "draining" /\ phase' = "stopped" =>
           dropped' - dropped \in Cardinality(pendingKeys \ Persisted)
                                  .. Cardinality(pendingKeys) + Cardinality(InHand)]_vars

(* When shutdown() has ended, no task of the instance is scheduled any more. *)
ShutdownEndsTasks ==
    phase \in {"raised", "stopped"} =>
        /\ ~(WriterLive(cur) /\ writer[cur].pc # "off")
        /\ \A t \in Task : ~(WorkerLive(t) /\ wk[t].pc # "off")

-----------------------------------------------------------------------------
(* Liveness. *)

(* The event loop runs every task that can run, a running thread ends, delays
   pass, the drain of a shutdown ends, and messages keep arriving on every
   platform.  Nothing is assumed of faults, shutdowns and restarts.         *)
Fairness ==
    /\ WF_vars(IngressNext /\ UNCHANGED faults)
    /\ \A t \in Task : WF_vars(/\ WorkerStep(t)
                                /\ UNCHANGED <<ingressVars, synthetic,
                                               cur, phase, overlap>>)
    /\ \A k \in Key : WF_vars(/\ BecomeAvailable(k)
                               /\ UNCHANGED <<audit, ingressVars, workersVars,
                                              synthetic, lifecycleVars>>)
    /\ \A p \in Platform : WF_vars(OtherMessage(p))

(* Behaviours in which no thread outlives a hot reload. *)
DrainedSpec == Init /\ [][Next /\ ~overlap']_vars /\ Fairness

(* While the plugin stays open, every job in the outbox ends done or failed,
   or is stranded in processing.                                            *)
JobSettles ==
    \A k \in Key :
        row[k].status \in {"pending", "processing"}
            ~> \/ row[k].status \in {"done", "failed"}
               \/ Stranded(k)
               \/ closed

(* An accepted entry does not stay in memory: its key is released, so that a
   later delivery of the message is looked at again.                        *)
EntryLeavesMemory == \A k \in Key : k \in pendingKeys ~> k \notin pendingKeys

-----------------------------------------------------------------------------
Contract == INSTANCE OutboxContract
                WITH state <- [k \in Key |-> row[k].status],
                     attempts <- [k \in Key |-> row[k].attempts],
                     runs <- executions

(* The pipeline implements the outbox contract, as long as no thread of the old
   instance works on after a hot reload.                                    *)
ImplementsContract == Contract!Spec
=============================================================================
