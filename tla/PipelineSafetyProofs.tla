------------------------- MODULE PipelineSafetyProofs -------------------------
(***************************************************************************)
(* Type correctness, the inductive invariant of ViolationPipeline and the  *)
(* safety theorems that follow from it, for every set of keys and tasks    *)
(* and every bound.                                                        *)
(***************************************************************************)
EXTENDS ViolationPipeline, FiniteSetTheorems, TLAPS

-----------------------------------------------------------------------------
(* Type correctness: first the records the actions write, then the actions. *)

(* The workers' records at rest are of their type. *)
LEMMA WorkerRecords ==
    /\ WorkerOff \in Worker
    /\ WorkerWaiting \in Worker
    /\ \A pc \in IdlePC : WorkerAt(pc) \in Worker
  BY DEF WorkerAt, WorkerOff, WorkerWaiting, Worker, IdlePC, NoViolation

(* A worker with a job names the key of a row, and keeps it as it moves on. *)
LEMMA JobRecords ==
    ASSUME TypeOK, NEW t \in Task, wk[t].pc \in JobPC
    PROVE  /\ wk[t].key \in Key /\ wk[t].vid \in Nat /\ wk[t].seen \in Nat
           /\ \A pc \in JobPC : At(t, pc) \in Worker
           /\ \A pc \in JobPC, n \in Nat :
                  /\ [At(t, pc) EXCEPT !.vid = n] \in Worker
                  /\ [At(t, pc) EXCEPT !.seen = n] \in Worker
  <1>1. wk[t] \in [pc: JobPC, key: Key, vid: Nat, seen: Nat]
    BY DEF TypeOK, WorkersTypeOK, Worker, IdlePC, JobPC, HoldingPC
  <1>2. QED
    BY <1>1 DEF At, Worker

(* The writers' records at rest and at the start of a write are of their type. *)
LEMMA WriterRecords ==
    /\ WriterOff \in Writer /\ WriterWaiting \in Writer
    /\ \A k \in Key : [pc |-> "select", key |-> k, failures |-> 0] \in Writer
  BY StoreAssumption DEF Writer, WriterOff, WriterWaiting

(* The types hold at first. *)
LEMMA TypeInit == Init => TypeOK
  <1> SUFFICES ASSUME Init PROVE TypeOK
    OBVIOUS
  <1>1. LifecycleTypeOK
    <2>1. cur \in Instance /\ faults \in 0 .. MaxFaults
      BY LifecycleAssumption DEF Init, LifecycleInit, Instance
    <2>2. phase \in Phase /\ overlap \in BOOLEAN
      BY DEF Init, LifecycleInit, Phase
    <2>3. QED
      BY <2>1, <2>2 DEF LifecycleTypeOK
  <1>2. AbsentRow \in Row
    BY DEF Row, AbsentRow, Status, NoViolation
  <1>3. StoreTypeOK
    BY <1>2 DEF Init, StoreInit, StoreTypeOK
  <1>4. IngressTypeOK
    BY WriterRecords DEF Init, IngressInit, IngressTypeOK
  <1>5. WorkerOff \in Worker
    BY DEF Worker, WorkerOff, WorkerAt, IdlePC, NoViolation
  <1>6. WorkersTypeOK
    BY <1>5 DEF Init, WorkersInit, WorkersTypeOK
  <1>7. QED
    BY <1>1, <1>3, <1>4, <1>6 DEF Init, TypeOK

(* The statements that write a row keep its type. *)
LEMMA RowTypes ==
    ASSUME TypeOK, NEW k, NEW n \in Nat,
           \/ Insert(k) \/ ClaimRow(k) \/ SetRowViolation(k, n)
           \/ MarkRowDone(k, n) \/ RetryRow(k, n) \/ DeferRow(k)
           \/ RecoverRows \/ BecomeAvailable(k)
    PROVE  row' \in [Key -> Row]
  <1>1. CASE Insert(k)
    <2>1. Cardinality(Persisted) \in Nat
      BY StoreAssumption, FS_Subset, FS_CardinalityType DEF Persisted
    <2>2. [status |-> "pending", id |-> Cardinality(Persisted) + 1, attempts |-> 0,
           ready |-> TRUE, vid |-> NoViolation] \in Row
      BY <2>1 DEF Row, Status, NoViolation
    <2>3. QED
      BY <1>1, <2>2 DEF TypeOK, StoreTypeOK, Insert
  <1>2. CASE ClaimRow(k)
    BY <1>2 DEF TypeOK, StoreTypeOK, ClaimRow, Row, Status
  <1>3. CASE SetRowViolation(k, n)
    BY <1>3 DEF TypeOK, StoreTypeOK, SetRowViolation, Row, Status
  <1>4. CASE MarkRowDone(k, n)
    BY <1>4 DEF TypeOK, StoreTypeOK, MarkRowDone, Row, Status
  <1>5. CASE RetryRow(k, n)
    <2> DEFINE next == IF n + 1 >= MaxAttempts THEN "failed" ELSE "pending"
    <2>1. next \in Status /\ n + 1 \in Nat
      BY DEF Status
    <2>2. row' = [row EXCEPT ![k].status = next, ![k].attempts = n + 1,
                             ![k].ready = FALSE]
      BY <1>5 DEF RetryRow
    <2> HIDE DEF next
    <2>3. QED
      BY <2>1, <2>2 DEF TypeOK, StoreTypeOK, Row
  <1>6. CASE DeferRow(k)
    BY <1>6 DEF TypeOK, StoreTypeOK, DeferRow, Row, Status
  <1>7. CASE RecoverRows
    BY <1>7 DEF TypeOK, StoreTypeOK, RecoverRows, Row, Status
  <1>8. CASE BecomeAvailable(k)
    BY <1>8 DEF TypeOK, StoreTypeOK, BecomeAvailable, Row, Status
  <1>9. QED
    BY <1>1, <1>2, <1>3, <1>4, <1>5, <1>6, <1>7, <1>8

(* Finishing an entry keeps the types. *)
LEMMA FinishEntryType ==
    ASSUME TypeOK, NEW i \in Instance, FinishEntry(i)
    PROVE  writer' \in [Instance -> Writer] /\ pendingKeys' \subseteq Key
  BY WriterRecords DEF TypeOK, IngressTypeOK, FinishEntry

(* Resuming a worker keeps the types. *)
LEMMA ResumeType ==
    ASSUME TypeOK, NEW t \in Task, NEW next \in Worker, Resume(t, next)
    PROVE  wk' \in [Task -> Worker]
  BY WorkerRecords DEF TypeOK, WorkersTypeOK, Resume

(* Faults are counted within their bound. *)
LEMMA FaultType ==
    ASSUME TypeOK, Fault \/ UNCHANGED faults
    PROVE  faults' \in 0 .. MaxFaults
  BY LifecycleAssumption DEF TypeOK, LifecycleTypeOK, Fault

(* The writers' steps keep the types. *)
LEMMA IngressType == TypeOK /\ IngressNext => TypeOK'
  <1> SUFFICES ASSUME TypeOK, IngressNext PROVE TypeOK'
    OBVIOUS
  <1>1. PICK i \in Instance : WriterStep(i) \/ WriteFails(i)
    BY DEF IngressNext
  <1>2. WorkersTypeOK' /\ (synthetic \subseteq Key \ MessageIdKeys)'
    BY DEF TypeOK, WorkersTypeOK, IngressNext, workersVars, Worker, IdlePC, JobPC,
       HoldingPC
  <1>3. LifecycleTypeOK'
    <2>1. Fault \/ UNCHANGED faults
      BY <1>1 DEF WriterStep, WriteFails, TakeEntry, CheckEntry, InsertEntry, RetryWrite
    <2>2. UNCHANGED <<cur, phase, overlap>>
      BY DEF IngressNext
    <2>3. QED
      BY <2>1, <2>2, FaultType DEF TypeOK, LifecycleTypeOK, Instance, Phase
  <1>4. StoreTypeOK'
    <2>1. UNCHANGED audit
      BY <1>1 DEF WriterStep, WriteFails, TakeEntry, CheckEntry, InsertEntry,
         RetryWrite, storeVars
    <2>2. UNCHANGED row \/ Insert(writer[i].key)
      BY <1>1 DEF WriterStep, WriteFails, TakeEntry, CheckEntry, InsertEntry,
         RetryWrite, storeVars
    <2>3. row' \in [Key -> Row]
      BY <2>2, RowTypes DEF TypeOK, StoreTypeOK
    <2>4. QED
      BY <2>1, <2>3 DEF TypeOK, StoreTypeOK, Row, Status
  <1>5. IngressTypeOK'
    <2> USE WriterRecords DEF TypeOK, IngressTypeOK
    <2>1. /\ queue' \in Seq(Key) /\ dropped' \in Nat
          /\ pendingKeys' \subseteq Key /\ writer' \in [Instance -> Writer]
      <3>1. CASE TakeEntry(i)
        <4>1. Head(queue) \in Key /\ Tail(queue) \in Seq(Key)
          BY <3>1 DEF TakeEntry
        <4>2. QED
          BY <3>1, <4>1 DEF TakeEntry
      <3>2. CASE CheckEntry(i)
        <4>1. [writer[i] EXCEPT !.pc = "insert"] \in Writer
          BY <3>2 DEF CheckEntry, Writer
        <4>2. QED
          BY <3>2, <4>1, FinishEntryType DEF CheckEntry
      <3>3. CASE InsertEntry(i)
        BY <3>3, FinishEntryType DEF InsertEntry
      <3>4. CASE WriteFails(i)
        <4>1. CASE writer[i].failures + 1 < MaxAttempts
          <5>1. [writer[i] EXCEPT !.pc = "sleep", !.failures = @ + 1] \in Writer
            <6>1. writer[i] \in [pc: {"select", "insert", "sleep"}, key: Key,
                                 failures: 0 .. MaxAttempts - 1]
              BY <3>4 DEF WriteFails, Writer
            <6>2. writer[i].failures + 1 \in 0 .. MaxAttempts - 1
              BY <4>1, <6>1, StoreAssumption
            <6>3. QED
              BY <6>1, <6>2 DEF Writer
          <5>2. QED
            BY <3>4, <5>1, FinishEntryType DEF WriteFails
        <4>2. QED
          BY <3>4, <4>1, FinishEntryType DEF WriteFails
      <3>5. CASE RetryWrite(i)
        <4>1. [writer[i] EXCEPT !.pc = "select"] \in Writer
          BY <3>5 DEF RetryWrite, Writer
        <4>2. QED
          BY <3>5, <4>1 DEF RetryWrite
      <3>6. QED
        BY <1>1, <3>1, <3>2, <3>3, <3>4, <3>5 DEF WriterStep
    <2>2. QED
      BY <2>1 DEF IngressNext, Instance, Writer
  <1>6. QED
    BY <1>2, <1>3, <1>4, <1>5 DEF TypeOK

(* The workers' steps keep the types. *)
LEMMA WorkersType == TypeOK /\ WorkersNext => TypeOK'
  <1> SUFFICES ASSUME TypeOK, WorkersNext PROVE TypeOK'
    OBVIOUS
  <1>1. PICK t \in Task : WorkerStep(t) \/ WorkerFault(t)
    BY DEF WorkersNext
  <1>2. IngressTypeOK' /\ (synthetic \subseteq Key \ MessageIdKeys)'
    BY DEF TypeOK, IngressTypeOK, WorkersNext, ingressVars, Writer, Instance
  <1>3. LifecycleTypeOK'
    <2>1. Fault \/ UNCHANGED faults
      BY <1>1 DEF WorkerStep, WorkerFault, BeginRecovery, Recover, SelectJob, ClaimJob,
         Record, SetViolation, Execute, MarkDone, ReadAttempts, WriteRetry, Defer,
         RecoverFails, ClaimFails, ProcessFails, SettleFails
    <2>2. UNCHANGED <<cur, phase, overlap>>
      BY DEF WorkersNext
    <2>3. QED
      BY <2>1, <2>2, FaultType DEF TypeOK, LifecycleTypeOK, Instance, Phase
  <1>4. /\ row' \in [Key -> Row] /\ audit' \in [Key -> Nat]
        /\ wk' \in [Task -> Worker] /\ recovered' \in BOOLEAN
        /\ registered' \subseteq Platform /\ executions' \in [Key -> Nat]
    <2> USE WorkerRecords, JobRecords, ResumeType, RowTypes
        DEF TypeOK, StoreTypeOK, WorkersTypeOK, storeVars
    <2>1. CASE BeginRecovery(t)
      BY <2>1 DEF BeginRecovery, IdlePC
    <2>2. CASE Recover(t)
      BY <2>2 DEF Recover
    <2>3. CASE SelectJob(t)
      <3>1. \A k \in NextClaimable :
               [pc |-> "claim", key |-> k, vid |-> row[k].vid, seen |-> 0] \in Worker
        BY DEF NextClaimable, Claimable, Worker, JobPC, Row
      <3>2. QED
        BY <2>3, <3>1 DEF SelectJob
    <2>4. CASE ClaimJob(t)
      <3>1. At(t, FirstStep(t)) \in Worker
        BY <2>4 DEF ClaimJob, FirstStep, JobPC, HoldingPC
      <3>2. QED
        BY <2>4, <3>1 DEF ClaimJob
    <2>5. CASE Record(t)
      <3>1. wk[t].key \in Key
        BY <2>5 DEF Record, JobPC, HoldingPC
      <3>2. RecordedViolation(wk[t].key) \in Nat
        BY <3>1 DEF RecordedViolation
      <3>3. [At(t, "setvid") EXCEPT !.vid = RecordedViolation(wk[t].key)] \in Worker
        BY <2>5, <3>2 DEF Record, JobPC, HoldingPC
      <3>4. audit' \in [Key -> Nat]
        BY <2>5, <3>2 DEF Record, RecordViolation
      <3>5. QED
        BY <2>5, <3>3, <3>4 DEF Record
    <2>6. CASE SetViolation(t)
      BY <2>6 DEF SetViolation, JobPC, HoldingPC
    <2>7. CASE Execute(t)
      <3>1. At(t, "done") \in Worker
        BY <2>7 DEF Execute, JobPC, HoldingPC
      <3>2. wk' \in [Task -> Worker]
        BY <2>7, <3>1 DEF Execute
      <3>3. executions' \in [Key -> Nat]
        <4> DEFINE n == executions[wk[t].key] + 1
        <4>1. n \in Nat
          BY <2>7 DEF Execute, JobPC, HoldingPC
        <4>2. executions' = [executions EXCEPT ![wk[t].key] = n]
          BY <2>7 DEF Execute
        <4> HIDE DEF n
        <4>3. QED
          BY <4>1, <4>2
      <3>4. QED
        BY <2>7, <3>2, <3>3 DEF Execute
    <2>8. CASE MarkDone(t)
      BY <2>8 DEF MarkDone, JobPC, HoldingPC
    <2>9. CASE ReadAttempts(t)
      <3>1. wk[t].key \in Key
        BY <2>9 DEF ReadAttempts, JobPC, HoldingPC
      <3>2. row[wk[t].key].attempts \in Nat
        BY <3>1 DEF Row
      <3>3. [At(t, "rewrite") EXCEPT !.seen = row[wk[t].key].attempts] \in Worker
        BY <2>9, <3>2 DEF ReadAttempts, JobPC, HoldingPC
      <3>4. QED
        BY <2>9, <3>3 DEF ReadAttempts
    <2>10. CASE WriteRetry(t)
      BY <2>10 DEF WriteRetry, JobPC, HoldingPC
    <2>11. CASE Defer(t)
      BY <2>11 DEF Defer
    <2>12. CASE RecoverFails(t)
      BY <2>12 DEF RecoverFails
    <2>13. CASE ClaimFails(t)
      BY <2>13 DEF ClaimFails
    <2>14. CASE ProcessFails(t)
      BY <2>14 DEF ProcessFails, JobPC, HoldingPC
    <2>15. CASE SettleFails(t)
      BY <2>15 DEF SettleFails
    <2>16. QED
      BY <1>1, <2>1, <2>2, <2>3, <2>4, <2>5, <2>6, <2>7, <2>8, <2>9, <2>10, <2>11,
         <2>12, <2>13, <2>14, <2>15 DEF WorkerStep, WorkerFault
  <1>5. StoreTypeOK' /\ WorkersTypeOK'
    BY <1>4 DEF StoreTypeOK, WorkersTypeOK, Row, Status, Worker, IdlePC, JobPC, HoldingPC
  <1>6. QED
    BY <1>2, <1>3, <1>5 DEF TypeOK

(* The empty queue is a queue, and so is one with a key more. *)
LEMMA QueueTypes ==
    /\ <<>> \in Seq(Key)
    /\ \A q \in Seq(Key), k \in Key : Append(q, k) \in Seq(Key)
  OBVIOUS

(* Starting the tasks keeps the types. *)
LEMMA StartType ==
    ASSUME TypeOK, StartTasks
    PROVE  writer' \in [Instance -> Writer] /\ wk' \in [Task -> Worker]
  <1>1. WorkerAt("start") \in Worker
    BY WorkerRecords DEF IdlePC
  <1>2. CASE closed
    BY <1>2 DEF StartTasks, TypeOK, IngressTypeOK, WorkersTypeOK
  <1>3. CASE ~closed
    <2>1. writer' \in [Instance -> Writer]
      BY <1>3, WriterRecords DEF StartTasks, StartWriter, TypeOK, IngressTypeOK
    <2>2. wk' \in [Task -> Worker]
      BY <1>1, <1>3 DEF StartTasks, StartWorkers, TypeOK, WorkersTypeOK
    <2>3. QED
      BY <2>1, <2>2
  <1>4. QED
    BY <1>2, <1>3

(* Cancelling the tasks keeps the types. *)
LEMMA CancelType ==
    ASSUME TypeOK
    PROVE  /\ CancelWorkers => wk' \in [Task -> Worker]
           /\ CancelWriter => writer' \in [Instance -> Writer]
  BY WorkerRecords, WriterRecords
  DEF TypeOK, WorkersTypeOK, IngressTypeOK, CancelWorkers, CancelWriter

(* Every step keeps the types. *)
LEMMA TypeStep == TypeOK /\ [Next]_vars => TypeOK'
  <1> SUFFICES ASSUME TypeOK, [Next]_vars PROVE TypeOK'
    OBVIOUS
  <1> USE LifecycleAssumption, StoreAssumption
  (* What there is to show, in terms of the primed variables alone. *)
  <1>a. /\ cur \in Instance /\ phase \in Phase /\ faults \in 0 .. MaxFaults
        /\ overlap \in BOOLEAN
        /\ row \in [Key -> Row] /\ audit \in [Key -> Nat]
        /\ queue \in Seq(Key) /\ pendingKeys \subseteq Key
        /\ writer \in [Instance -> Writer] /\ dropped \in Nat
        /\ wk \in [Task -> Worker] /\ recovered \in BOOLEAN
        /\ registered \subseteq Platform /\ executions \in [Key -> Nat]
        /\ synthetic \subseteq Key \ MessageIdKeys
    BY DEF TypeOK, LifecycleTypeOK, StoreTypeOK, IngressTypeOK, WorkersTypeOK
  <1>b. ASSUME cur' \in Instance, phase' \in Phase, faults' \in 0 .. MaxFaults,
               overlap' \in BOOLEAN
        PROVE  LifecycleTypeOK'
    BY <1>b DEF LifecycleTypeOK, Instance, Phase
  <1>c. ASSUME row' \in [Key -> Row], audit' \in [Key -> Nat]
        PROVE  StoreTypeOK'
    BY <1>c DEF StoreTypeOK, Row, Status
  <1>d. ASSUME queue' \in Seq(Key), pendingKeys' \subseteq Key,
               writer' \in [Instance -> Writer], dropped' \in Nat
        PROVE  IngressTypeOK'
    BY <1>d DEF IngressTypeOK, Writer, Instance
  <1>e. ASSUME wk' \in [Task -> Worker], recovered' \in BOOLEAN,
               registered' \subseteq Platform, executions' \in [Key -> Nat]
        PROVE  WorkersTypeOK'
    BY <1>e DEF WorkersTypeOK, Worker, IdlePC, JobPC, HoldingPC
  <1>f. ASSUME LifecycleTypeOK', StoreTypeOK', IngressTypeOK', WorkersTypeOK',
               synthetic' \subseteq Key \ MessageIdKeys
        PROVE  TypeOK'
    BY <1>f DEF TypeOK
  <1>1. CASE \E k \in Key : MatchedMessage(k)
    <2>1. PICK k \in Key : MatchedMessage(k)
      BY <1>1
    <2>2. queue' \in Seq(Key) /\ pendingKeys' \subseteq Key
      BY <1>a, <2>1, QueueTypes DEF MatchedMessage, TryEnqueue
    <2>3. writer' \in [Instance -> Writer] /\ wk' \in [Task -> Worker]
      BY <2>1, StartType DEF MatchedMessage
    <2>4. registered' \subseteq Platform /\ synthetic' \subseteq Key \ MessageIdKeys
      BY <1>a, <2>1, WorkersAssumption DEF MatchedMessage, Register
    <2>5. UNCHANGED <<dropped, recovered, executions, storeVars, lifecycleVars>>
      BY <2>1 DEF MatchedMessage
    <2>6. QED
      BY <1>a, <1>b, <1>c, <1>d, <1>e, <1>f, <2>2, <2>3, <2>4, <2>5
      DEF storeVars, lifecycleVars
  <1>2. CASE \E p \in Platform : OtherMessage(p)
    <2>1. PICK p \in Platform : OtherMessage(p)
      BY <1>2
    <2>2. writer' \in [Instance -> Writer] /\ wk' \in [Task -> Worker]
      BY <2>1, StartType DEF OtherMessage
    <2>3. registered' \subseteq Platform
      BY <1>a, <2>1 DEF OtherMessage, Register
    <2>4. UNCHANGED <<queue, pendingKeys, dropped, recovered, executions, synthetic,
                      storeVars, lifecycleVars>>
      BY <2>1 DEF OtherMessage
    <2>5. QED
      BY <1>a, <1>b, <1>c, <1>d, <1>e, <1>f, <2>2, <2>3, <2>4
      DEF storeVars, lifecycleVars
  <1>3. CASE IngressNext
    BY <1>3, IngressType
  <1>4. CASE WorkersNext
    BY <1>4, WorkersType
  <1>5. CASE TimePasses
    <2>1. row' \in [Key -> Row]
      BY <1>5, RowTypes DEF TimePasses
    <2>2. UNCHANGED <<audit, ingressVars, workersVars, synthetic, lifecycleVars>>
      BY <1>5 DEF TimePasses
    <2>3. QED
      BY <1>a, <1>b, <1>c, <1>d, <1>e, <1>f, <2>1, <2>2
      DEF ingressVars, workersVars, lifecycleVars
  <1>6. CASE BeginShutdown \/ Drain \/ DrainTimesOut
    <2>1. writer' \in [Instance -> Writer] /\ wk' \in [Task -> Worker]
      BY <1>a, <1>6, CancelType DEF BeginShutdown, Drain, DrainTimesOut
    <2>2. queue' \in Seq(Key) /\ pendingKeys' \subseteq Key
      BY <1>a, <1>6, QueueTypes DEF BeginShutdown, Drain, DrainTimesOut
    <2>3. phase' \in Phase
      BY <1>6 DEF BeginShutdown, Drain, DrainTimesOut, Phase
    <2>4. dropped' \in Nat
      <3>1. IsFiniteSet(pendingKeys)
        BY <1>a, FS_Subset
      <3>2. DroppedByTimeout \in Nat
        BY <3>1, FS_CardinalityType DEF DroppedByTimeout
      <3>3. QED
        BY <1>a, <1>6, <3>2 DEF BeginShutdown, Drain, DrainTimesOut
    <2>5. UNCHANGED <<cur, faults, overlap, recovered, registered, executions,
                      synthetic, storeVars>>
      BY <1>6 DEF BeginShutdown, Drain, DrainTimesOut
    <2>6. QED
      BY <1>a, <1>b, <1>c, <1>d, <1>e, <1>f, <2>1, <2>2, <2>3, <2>4, <2>5
      DEF storeVars
  <1>7. CASE ProcessRestart \/ HotReload
    <2>1. writer' \in [Instance -> Writer] /\ wk' \in [Task -> Worker]
      BY <1>a, <1>7, WorkerRecords, WriterRecords DEF ProcessRestart, HotReload
    <2>2. /\ queue' \in Seq(Key) /\ pendingKeys' \subseteq Key /\ dropped' \in Nat
          /\ registered' \subseteq Platform /\ phase' \in Phase
      <3>1. FreshMemory
        BY <1>7 DEF ProcessRestart, HotReload
      <3>2. queue' \in Seq(Key)
        BY <3>1, QueueTypes DEF FreshMemory
      <3>3. /\ pendingKeys' \subseteq Key /\ dropped' \in Nat
            /\ registered' \subseteq Platform
        BY <3>1 DEF FreshMemory
      <3>4. phase' \in Phase
        BY <3>1 DEF FreshMemory, Phase
      <3>5. QED
        BY <3>2, <3>3, <3>4
    <2>3. cur' \in Instance
      BY <1>a, <1>7 DEF ProcessRestart, HotReload, Instance
    <2>4. faults' \in 0 .. MaxFaults
      BY <1>7, FaultType DEF ProcessRestart, HotReload
    <2>5. recovered' \in BOOLEAN
      BY <1>7 DEF ProcessRestart, HotReload, FreshMemory
    <2>6. overlap' \in BOOLEAN
      BY <1>a, <1>7, Zenon DEF ProcessRestart, HotReload
    <2>7. UNCHANGED <<executions, synthetic, storeVars>>
      BY <1>7 DEF ProcessRestart, HotReload
    <2>8. QED
      BY <1>a, <1>b, <1>c, <1>d, <1>e, <1>f, <2>1, <2>2, <2>3, <2>4, <2>5, <2>6, <2>7
      DEF storeVars
  <1>8. CASE UNCHANGED vars
    BY <1>a, <1>b, <1>c, <1>d, <1>e, <1>f, <1>8 DEF vars
  <1>9. QED
    BY <1>1, <1>2, <1>3, <1>4, <1>5, <1>6, <1>7, <1>8 DEF Next

(* Every variable keeps the type its module declares: in particular a worker
   past its claim and a writer past the queue always have a job.            *)
THEOREM TypeCorrect == Spec => []TypeOK
  BY TypeInit, TypeStep, PTL DEF Spec

-----------------------------------------------------------------------------
(* The parts of the inductive invariant. *)

(* Without an overlap, only tasks of the current instance are still there. *)
OldInstancesGone ==
    overlap \/ /\ \A t \in Task : TeamOf[t] # cur => wk[t].pc = "off"
               /\ \A i \in Instance : i # cur => writer[i].pc = "off"

(* One worker recovers, before any worker of the instance claims. *)
RecoveryFirst ==
    overlap \/ /\ \A t \in Task : wk[t].pc = "recover" => ~recovered
               /\ \A t, u \in Task :
                     wk[t].pc = "recover" /\ wk[u].pc = "recover" => t = u
               /\ \A t \in Task : ~recovered => wk[t].pc \in {"off", "start", "recover"}

(* The attempts a retry has read are still those of the row. *)
AttemptsExact ==
    overlap \/ /\ \A k \in Key : row[k].attempts <= MaxAttempts
               /\ \A t \in Task : wk[t].pc = "rewrite"
                                     => wk[t].seen = row[wk[t].key].attempts

(* A job is a row, and a row that was never inserted has never been executed. *)
JobsPersisted ==
    /\ \A t \in Task : wk[t].pc \in JobPC => wk[t].key \in Persisted
    /\ \A k \in Key : row[k].status = "absent"
                         => row[k].vid = NoViolation /\ executions[k] = 0

(* Violation ids in rows and in snapshots are those of existing records, and a
   worker that executes has seen to it that its row has one.                *)
ViolationIdsExist ==
    /\ \A k \in Key : row[k].vid <= audit[k]
    /\ \A t \in Task : wk[t].pc \in JobPC => wk[t].vid <= audit[wk[t].key]
    /\ \A t \in Task : wk[t].pc = "setvid" => wk[t].vid # NoViolation
    /\ \A t \in Task : wk[t].pc = "claim" /\ wk[t].vid # NoViolation
                          => row[wk[t].key].vid # NoViolation
    /\ \A t \in Task : RecordsEnabled /\ wk[t].pc \in {"execute", "done"}
                          => row[wk[t].key].vid # NoViolation

(* A worker about to mark its job done has executed it. *)
DoneAfterExecute ==
    \A t \in Task : wk[t].pc = "done" => executions[wk[t].key] > 0

(* Before the first fault, a processing row always has a worker, whether the
   instance has recovered or not.                                           *)
FaultFreeOwned ==
    faults = 0 => /\ ~overlap
                  /\ phase # "stopped" =>
                        \A k \in Key : row[k].status = "processing"
                                          => \E t \in Task : /\ wk[t].pc \in HoldingPC
                                                             /\ wk[t].key = k

Ownership == /\ OldInstancesGone
             /\ RecoveryFirst
             /\ ExclusiveOwner
             /\ OwnedIsProcessing

Evidence == /\ JobsPersisted
            /\ ViolationIdsExist
            /\ DoneAfterExecute
            /\ RecordBeforeActions
            /\ DoneMeansExecuted

IInv == /\ TypeOK
        /\ Ownership
        /\ AttemptsExact
        /\ ExhaustedIffFailed
        /\ Evidence
        /\ FaultFreeOwned

-----------------------------------------------------------------------------
(* What the actions do to a worker. *)

(* A worker moved to another point keeps the fields not named. *)
LEMMA AtFields ==
    ASSUME TypeOK, NEW t \in Task, NEW pc, NEW n
    PROVE  /\ At(t, pc).pc = pc /\ At(t, pc).key = wk[t].key
           /\ At(t, pc).vid = wk[t].vid /\ At(t, pc).seen = wk[t].seen
           /\ [At(t, pc) EXCEPT !.vid = n].pc = pc
           /\ [At(t, pc) EXCEPT !.vid = n].key = wk[t].key
           /\ [At(t, pc) EXCEPT !.vid = n].vid = n
           /\ [At(t, pc) EXCEPT !.seen = n].pc = pc
           /\ [At(t, pc) EXCEPT !.seen = n].key = wk[t].key
           /\ [At(t, pc) EXCEPT !.seen = n].seen = n
           /\ [At(t, pc) EXCEPT !.seen = n].vid = wk[t].vid
  BY DEF TypeOK, WorkersTypeOK, Worker, At

(* The points of the records at rest. *)
LEMMA IdleFields ==
    /\ \A pc : WorkerAt(pc).pc = pc
    /\ WorkerOff.pc = "off" /\ WorkerWaiting.pc = "wait"
  BY DEF WorkerAt, WorkerOff, WorkerWaiting

(* Resuming a worker moves it alone, or ends it if its instance is gone. *)
LEMMA ResumeFields ==
    ASSUME TypeOK, NEW t \in Task, NEW next, Resume(t, next)
    PROVE  /\ wk'[t] = IF WorkerLive(t) THEN next ELSE WorkerOff
           /\ \A u \in Task \ {t} : wk'[u] = wk[u]
  BY DEF TypeOK, WorkersTypeOK, Resume

(* A worker's step moves that worker alone, and none that is off. *)
LEMMA WorkerFrame ==
    ASSUME TypeOK, NEW t \in Task, WorkerStep(t) \/ WorkerFault(t)
    PROVE  wk[t].pc # "off" /\ \A u \in Task \ {t} : wk'[u] = wk[u]
  <1>1. CASE WorkerStep(t)
    BY <1>1, ResumeFields
    DEF TypeOK, WorkersTypeOK, WorkerStep, BeginRecovery, Recover, SelectJob, ClaimJob,
        Record, SetViolation, Execute, MarkDone, ReadAttempts, WriteRetry, Defer
  <1>2. CASE WorkerFault(t)
    BY <1>2, ResumeFields
    DEF TypeOK, WorkersTypeOK, WorkerFault, RecoverFails, ClaimFails, ProcessFails,
        SettleFails
  <1>3. QED
    BY <1>1, <1>2

(* The steps that let go of a job, or never had one, end without one. *)
LEMMA LettingGo ==
    ASSUME TypeOK, NEW t \in Task,
           \/ SelectJob(t) \/ ClaimFails(t) \/ MarkDone(t)
           \/ WriteRetry(t) \/ Defer(t) \/ SettleFails(t)
    PROVE  wk'[t].pc \in {"off", "wait", "claim"}
  <1>1. CASE SelectJob(t)
    BY <1>1, ResumeFields, IdleFields DEF TypeOK, WorkersTypeOK, SelectJob
  <1>2. CASE ClaimFails(t)
    BY <1>2, IdleFields DEF TypeOK, WorkersTypeOK, ClaimFails
  <1>3. CASE MarkDone(t) \/ WriteRetry(t) \/ Defer(t) \/ SettleFails(t)
    BY <1>3, ResumeFields, IdleFields DEF MarkDone, WriteRetry, Defer, SettleFails
  <1>4. QED
    BY <1>1, <1>2, <1>3

(* The steps in the middle of a job stay with it, unless the thread was left
   over from a cancelled task, and touch no status.                         *)
LEMMA Carrying ==
    ASSUME TypeOK, NEW t \in Task,
           \/ Record(t) \/ SetViolation(t) \/ Execute(t)
           \/ ProcessFails(t) \/ ReadAttempts(t)
    PROVE  /\ wk[t].pc \in HoldingPC
           /\ \/ wk'[t].pc = "off"
              \/ wk'[t].pc \in HoldingPC /\ wk'[t].key = wk[t].key
           /\ \A k \in Key : /\ row'[k].status = row[k].status
                              /\ row'[k].attempts = row[k].attempts
  <1>1. \/ Record(t) \/ SetViolation(t) \/ ProcessFails(t) \/ ReadAttempts(t)
        \/ Execute(t)
        => wk[t].pc \in HoldingPC
    BY DEF Record, SetViolation, Execute, ProcessFails, ReadAttempts, HoldingPC
  <1>2. \/ wk'[t].pc = "off"
        \/ wk'[t].pc \in HoldingPC /\ wk'[t].key = wk[t].key
    <2>1. CASE Record(t)
      <3> DEFINE next == [At(t, "setvid") EXCEPT !.vid = RecordedViolation(wk[t].key)]
      <3>1. Resume(t, next)
        BY <2>1 DEF Record
      <3>2. next.pc = "setvid" /\ next.key = wk[t].key
        BY AtFields
      <3> HIDE DEF next
      <3>3. QED
        BY <3>1, <3>2, ResumeFields, IdleFields DEF HoldingPC
    <2>2. CASE SetViolation(t)
      BY <2>2, ResumeFields, IdleFields, AtFields DEF SetViolation, HoldingPC
    <2>3. CASE ProcessFails(t)
      BY <2>3, ResumeFields, IdleFields, AtFields DEF ProcessFails, HoldingPC
    <2>4. CASE Execute(t)
      BY <2>4, AtFields DEF Execute, HoldingPC, TypeOK, WorkersTypeOK
    <2>5. CASE ReadAttempts(t)
      BY <2>5, AtFields DEF ReadAttempts, HoldingPC, TypeOK, WorkersTypeOK
    <2>6. QED
      BY <2>1, <2>2, <2>3, <2>4, <2>5
  <1>4. \A k \in Key : /\ row'[k].status = row[k].status
                      /\ row'[k].attempts = row[k].attempts
    <2>1. CASE SetViolation(t)
      BY <2>1 DEF SetViolation, SetRowViolation, TypeOK, StoreTypeOK, Row
    <2>2. CASE Record(t) \/ Execute(t) \/ ProcessFails(t) \/ ReadAttempts(t)
      BY <2>2 DEF Record, Execute, ProcessFails, ReadAttempts, storeVars
    <2>3. QED
      BY <2>1, <2>2
  <1>5. QED
    BY <1>1, <1>2, <1>4

-----------------------------------------------------------------------------
(* Ownership: the steps of the workers. *)

(* A step of t that takes no new job, and takes a row out of processing only
   when t lets go of it, leaves every job to one owner.                     *)
LEMMA OwnershipKept ==
    ASSUME TypeOK, Ownership, ~overlap, NEW t \in Task,
           \A u \in Task \ {t} : wk'[u] = wk[u],
           wk'[t].pc \in HoldingPC =>
               wk[t].pc \in HoldingPC /\ wk'[t].key = wk[t].key,
           \A k \in Key : \/ row'[k].status = row[k].status
                          \/ row[k].status # "processing"
                          \/ /\ wk[t].pc \in HoldingPC /\ wk[t].key = k
                             /\ wk'[t].pc \notin HoldingPC
    PROVE  ExclusiveOwner' /\ OwnedIsProcessing'
  <1>1. ExclusiveOwner'
    BY DEF Ownership, ExclusiveOwner
  <1>2. ASSUME NEW u \in Task, wk'[u].pc \in HoldingPC
        PROVE  row'[wk'[u].key].status = "processing"
    <2>1. wk[u].pc \in HoldingPC /\ wk'[u].key = wk[u].key
      BY <1>2
    <2>2. wk[u].key \in Key /\ row[wk[u].key].status = "processing"
      BY <2>1, JobRecords DEF Ownership, OwnedIsProcessing, JobPC
    <2>3. ~(wk[t].pc \in HoldingPC /\ wk[t].key = wk[u].key /\ wk'[t].pc \notin HoldingPC)
      BY <1>2, <2>1 DEF Ownership, ExclusiveOwner
    <2>4. QED
      BY <2>1, <2>2, <2>3
  <1>3. QED
    BY <1>1, <1>2 DEF OwnedIsProcessing

(* The workers' steps leave replaced instances gone. *)
LEMMA WorkersOldGone ==
    ASSUME TypeOK, Ownership, ~overlap, WorkersNext
    PROVE  OldInstancesGone'
  <1>1. PICK t \in Task : WorkerStep(t) \/ WorkerFault(t)
    BY DEF WorkersNext
  <1>2. UNCHANGED <<writer, cur>>
    BY DEF WorkersNext, ingressVars
  <1>3. QED
    BY <1>1, <1>2, WorkerFrame DEF Ownership, OldInstancesGone, Instance

(* The workers' steps lease nothing before the recovery. *)
LEMMA WorkersRecovery ==
    ASSUME TypeOK, Ownership, ~overlap, NEW t \in Task, WorkerStep(t) \/ WorkerFault(t)
    PROVE  RecoveryFirst'
  <1>0. \A u \in Task \ {t} : wk'[u] = wk[u]
    BY WorkerFrame
  <1>1. CASE BeginRecovery(t)
    <2>1. TeamOf[t] = cur /\ wk[t].pc = "start" /\ UNCHANGED recovered
          /\ (\A u \in Task : wk[u].pc # "recover")
          /\ wk'[t].pc = IF recovered THEN "wait" ELSE "recover"
      BY <1>1, IdleFields
      DEF BeginRecovery, WorkerLive, Team, Ownership, OldInstancesGone, TypeOK, WorkersTypeOK
    <2>2. QED
      BY <1>0, <2>1 DEF Ownership, RecoveryFirst
  <1>2. CASE Recover(t) \/ RecoverFails(t)
    <2>1. /\ wk[t].pc = "recover" /\ ~recovered
          /\ \/ recovered' /\ wk'[t].pc = "wait"
             \/ ~recovered' /\ wk'[t].pc = "off"
      BY <1>2, ResumeFields, IdleFields
      DEF Recover, RecoverFails, Ownership, RecoveryFirst
    <2>2. QED
      BY <1>0, <2>1 DEF Ownership, RecoveryFirst
  <1>3. CASE ~(BeginRecovery(t) \/ Recover(t) \/ RecoverFails(t))
    <2>1. wk[t].pc \notin {"off", "start", "recover"} /\ recovered' = recovered
      BY <1>3 DEF WorkerStep, WorkerFault, SelectJob, ClaimJob, Record, SetViolation, Execute,
         MarkDone, ReadAttempts, WriteRetry, Defer, ClaimFails, ProcessFails, SettleFails
    <2>2. wk'[t].pc # "recover"
      <3>1. CASE ClaimJob(t)
        BY <3>1, ResumeFields, IdleFields, AtFields DEF ClaimJob, FirstStep
      <3>2. CASE ~ClaimJob(t)
        BY <1>3, <3>2, LettingGo, Carrying DEF WorkerStep, WorkerFault, HoldingPC
      <3>3. QED
        BY <3>1, <3>2
    <2>3. QED
      BY <1>0, <2>1, <2>2 DEF Ownership, RecoveryFirst
  <1>4. QED
    BY <1>1, <1>2, <1>3

(* The workers' steps give a job no second owner. *)
LEMMA WorkersOwnership ==
    ASSUME TypeOK, Ownership, ~overlap, NEW t \in Task, WorkerStep(t) \/ WorkerFault(t)
    PROVE  ExclusiveOwner' /\ OwnedIsProcessing'
  <1>0. \A u \in Task \ {t} : wk'[u] = wk[u]
    BY WorkerFrame
  <1>1. CASE BeginRecovery(t)
    <2>1. wk'[t].pc \notin HoldingPC /\ UNCHANGED row
      BY <1>1, IdleFields DEF BeginRecovery, HoldingPC, TypeOK, WorkersTypeOK, storeVars
    <2>2. QED
      BY <1>0, <2>1, OwnershipKept
  <1>2. CASE Recover(t) \/ RecoverFails(t)
    <2>1. \A u \in Task : wk'[u].pc \notin HoldingPC
      <3>1. wk'[t].pc \notin HoldingPC
        BY <1>2, ResumeFields, IdleFields DEF Recover, RecoverFails, HoldingPC
      <3>2. ~recovered
        BY <1>2 DEF Recover, RecoverFails, Ownership, RecoveryFirst
      <3>3. QED
        BY <1>0, <3>1, <3>2 DEF Ownership, RecoveryFirst, HoldingPC
    <2>2. QED
      BY <2>1 DEF ExclusiveOwner, OwnedIsProcessing
  <1>3. CASE ClaimJob(t)
    <2>1. CASE row[wk[t].key].status = "pending"
      <3>1. wk[t].key \in Key
        BY <1>3, JobRecords DEF ClaimJob, JobPC
      <3>2. row'[wk[t].key].status = "processing"
        BY <1>3, <2>1, <3>1 DEF ClaimJob, ClaimRow, TypeOK, StoreTypeOK, Row
      <3>3. \A k \in Key \ {wk[t].key} : row'[k] = row[k]
        BY <1>3, <2>1, <3>1 DEF ClaimJob, ClaimRow, TypeOK, StoreTypeOK
      <3>4. \/ wk'[t].pc = "off"
            \/ wk'[t].key = wk[t].key
        BY <1>3, <2>1, ResumeFields, IdleFields, AtFields DEF ClaimJob
      <3>5. \A u \in Task \ {t} : wk[u].pc \in HoldingPC =>
                 wk[u].key # wk[t].key /\ wk[u].key \in Key
        BY <2>1, JobRecords DEF Ownership, OwnedIsProcessing, JobPC
      <3>6. ExclusiveOwner'
        BY <1>0, <3>4, <3>5 DEF Ownership, ExclusiveOwner, HoldingPC
      <3>7. OwnedIsProcessing'
        BY <1>0, <3>2, <3>3, <3>4, <3>5 DEF Ownership, OwnedIsProcessing, HoldingPC
      <3>8. QED
        BY <3>6, <3>7
    <2>2. CASE row[wk[t].key].status # "pending"
      <3>1. wk'[t].pc \notin HoldingPC /\ UNCHANGED row
        BY <1>3, <2>2, ResumeFields, IdleFields DEF ClaimJob, ClaimRow, HoldingPC
      <3>2. QED
        BY <1>0, <3>1, OwnershipKept
    <2>3. QED
      BY <2>1, <2>2
  <1>4. CASE \/ Record(t) \/ SetViolation(t) \/ Execute(t)
             \/ ProcessFails(t) \/ ReadAttempts(t)
    BY <1>0, <1>4, Carrying, OwnershipKept DEF HoldingPC
  <1>5. CASE SelectJob(t) \/ ClaimFails(t) \/ SettleFails(t)
    <2>1. wk'[t].pc \notin HoldingPC
      BY <1>5, LettingGo DEF HoldingPC
    <2>2. UNCHANGED row
      BY <1>5 DEF SelectJob, ClaimFails, SettleFails, storeVars
    <2>3. QED
      BY <1>0, <2>1, <2>2, OwnershipKept
  <1>6. CASE MarkDone(t) \/ WriteRetry(t) \/ Defer(t)
    <2>1. wk'[t].pc \notin HoldingPC
      BY <1>6, LettingGo DEF HoldingPC
    <2>2. wk[t].pc \in HoldingPC
      BY <1>6 DEF MarkDone, WriteRetry, Defer, HoldingPC
    <2>3. \A k \in Key \ {wk[t].key} : row'[k] = row[k]
      BY <1>6 DEF MarkDone, WriteRetry, Defer, MarkRowDone, RetryRow, DeferRow, TypeOK,
         StoreTypeOK
    <2>4. QED
      BY <1>0, <2>1, <2>2, <2>3, OwnershipKept
  <1>7. QED
    BY <1>1, <1>2, <1>3, <1>4, <1>5, <1>6 DEF WorkerStep, WorkerFault

-----------------------------------------------------------------------------
(* Ownership: the other steps. *)

(* A step after which every worker is where it was, off, or newly started in
   the current instance.                                                    *)
Quiet == /\ \A t \in Task : \/ wk'[t] = wk[t]
                            \/ wk'[t].pc = "off"
                            \/ wk'[t].pc = "start" /\ TeamOf[t] = cur
         /\ \A i \in Instance : i # cur => writer'[i].pc \in {"off", writer[i].pc}
         /\ UNCHANGED <<recovered, cur, overlap>>

(* A step that moves no worker and releases no row keeps ownership. *)
LEMMA OwnershipQuiet ==
    ASSUME TypeOK, Ownership, ~overlap, Quiet,
           \A k \in Key : row[k].status = "processing" => row'[k].status = "processing"
    PROVE  Ownership'
  <1>1. OldInstancesGone'
    BY DEF Ownership, OldInstancesGone, Quiet, Instance
  <1>2. RecoveryFirst'
    BY DEF Ownership, RecoveryFirst, Quiet
  <1>3. ExclusiveOwner'
    BY DEF Ownership, ExclusiveOwner, Quiet, HoldingPC
  <1>4. OwnedIsProcessing'
    BY JobRecords DEF Ownership, OwnedIsProcessing, Quiet, HoldingPC, JobPC
  <1>5. QED
    BY <1>1, <1>2, <1>3, <1>4 DEF Ownership

(* Starting the tasks starts only workers of the current instance that are off. *)
LEMMA StartEffect ==
    ASSUME TypeOK, StartTasks
    PROVE  /\ \A t \in Task : \/ wk'[t] = wk[t]
                              \/ /\ wk[t].pc = "off" /\ wk'[t].pc = "start"
                                 /\ TeamOf[t] = cur
           /\ \A i \in Instance : i # cur => writer'[i] = writer[i]
  <1>1. \A i \in Instance : i # cur => writer'[i] = writer[i]
    BY DEF StartTasks, StartWriter, TypeOK, IngressTypeOK
  <1>2. ASSUME NEW t \in Task
        PROVE  \/ wk'[t] = wk[t]
               \/ wk[t].pc = "off" /\ wk'[t].pc = "start" /\ TeamOf[t] = cur
    BY IdleFields DEF StartTasks, StartWorkers, Team, TypeOK, WorkersTypeOK
  <1>3. QED
    BY <1>1, <1>2

(* Cancelling only turns workers off, and only the current writer. *)
LEMMA CancelEffect ==
    ASSUME TypeOK
    PROVE  /\ CancelWorkers => \A t \in Task : wk'[t] = wk[t] \/ wk'[t].pc = "off"
           /\ CancelWriter => \A i \in Instance : i # cur => writer'[i] = writer[i]
  BY IdleFields
  DEF TypeOK, WorkersTypeOK, IngressTypeOK, CancelWorkers, CancelWriter

(* Every step but those of the workers and of a new instance is quiet. *)
LEMMA QuietSteps ==
    ASSUME TypeOK, Ownership, ~overlap,
           \/ \E k \in Key : MatchedMessage(k)
           \/ \E p \in Platform : OtherMessage(p)
           \/ IngressNext \/ TimePasses
           \/ BeginShutdown \/ Drain \/ DrainTimesOut
           \/ UNCHANGED vars
    PROVE  Quiet
  <1>1. CASE \E k \in Key : MatchedMessage(k)
    BY <1>1, StartEffect DEF MatchedMessage, Quiet, lifecycleVars
  <1>2. CASE \E p \in Platform : OtherMessage(p)
    BY <1>2, StartEffect DEF OtherMessage, Quiet, lifecycleVars
  <1>3. CASE IngressNext
    <2>1. PICK i \in Instance : WriterStep(i) \/ WriteFails(i)
      BY <1>3 DEF IngressNext
    <2>2. \A j \in Instance \ {i} : writer'[j] = writer[j]
      BY <2>1 DEF WriterStep, WriteFails, TakeEntry, CheckEntry, InsertEntry, RetryWrite,
         FinishEntry, TypeOK, IngressTypeOK
    <2>3. writer[i].pc # "off"
      BY <2>1 DEF WriterStep, WriteFails, TakeEntry, CheckEntry, InsertEntry, RetryWrite
    <2>4. i = cur
      BY <2>3 DEF Ownership, OldInstancesGone
    <2>5. QED
      BY <1>3, <2>2, <2>4 DEF IngressNext, workersVars, Quiet
  <1>4. CASE TimePasses
    BY <1>4 DEF TimePasses, ingressVars, workersVars, lifecycleVars, Quiet
  <1>5. CASE BeginShutdown
    BY <1>5, CancelEffect DEF BeginShutdown, Quiet
  <1>6. CASE Drain
    BY <1>6, CancelEffect DEF Drain, Quiet
  <1>7. CASE DrainTimesOut
    BY <1>7, CancelEffect DEF DrainTimesOut, Quiet
  <1>8. CASE UNCHANGED vars
    BY <1>8 DEF vars, Quiet
  <1>9. QED
    BY <1>1, <1>2, <1>3, <1>4, <1>5, <1>6, <1>7, <1>8

(* And it changes no row that is in the table, except that it may become
   available.                                                               *)
LEMMA QuietRows ==
    ASSUME TypeOK,
           \/ \E k \in Key : MatchedMessage(k)
           \/ \E p \in Platform : OtherMessage(p)
           \/ IngressNext \/ TimePasses
           \/ BeginShutdown \/ Drain \/ DrainTimesOut
           \/ ProcessRestart \/ HotReload
           \/ UNCHANGED vars,
           NEW k \in Key
    PROVE  \/ /\ row'[k].status = row[k].status
              /\ row'[k].attempts = row[k].attempts
              /\ row'[k].vid = row[k].vid
              /\ row[k].status \in {"done", "failed"} => row'[k] = row[k]
           \/ /\ row[k].status = "absent" /\ row'[k].status = "pending"
              /\ row'[k].attempts = 0 /\ row'[k].vid = NoViolation
  <1>1. CASE IngressNext
    <2>1. PICK i \in Instance : WriterStep(i) \/ WriteFails(i)
      BY <1>1 DEF IngressNext
    <2>2. CASE UNCHANGED row
      BY <2>2
    <2>3. CASE ~UNCHANGED row
      <3>1. writer[i].key \notin Persisted /\ Insert(writer[i].key)
        BY <2>1, <2>3 DEF WriterStep, WriteFails, TakeEntry, CheckEntry, InsertEntry,
           RetryWrite, storeVars
      <3>2. CASE k = writer[i].key
        BY <3>1, <3>2 DEF Insert, Persisted, TypeOK, StoreTypeOK
      <3>3. CASE k # writer[i].key
        BY <3>1, <3>3 DEF Insert, TypeOK, StoreTypeOK
      <3>4. QED
        BY <3>2, <3>3
    <2>4. QED
      BY <2>2, <2>3
  <1>2. CASE TimePasses
    BY <1>2 DEF TimePasses, BecomeAvailable, TypeOK, StoreTypeOK, Row
  <1>3. CASE ~(IngressNext \/ TimePasses)
    <2>1. UNCHANGED row
      BY <1>3 DEF MatchedMessage, OtherMessage, BeginShutdown, Drain, DrainTimesOut,
         ProcessRestart, HotReload, vars, storeVars
    <2>2. QED
      BY <2>1
  <1>4. QED
    BY <1>1, <1>2, <1>3

(* Every step keeps ownership. *)
LEMMA OwnershipStep == TypeOK /\ Ownership /\ [Next]_vars => Ownership'
  <1> SUFFICES ASSUME TypeOK, Ownership, [Next]_vars, ~overlap'
               PROVE  Ownership'
    BY DEF Ownership, OldInstancesGone, RecoveryFirst, ExclusiveOwner, OwnedIsProcessing
  <1>1. CASE WorkersNext
    <2>1. PICK t \in Task : WorkerStep(t) \/ WorkerFault(t)
      BY <1>1 DEF WorkersNext
    <2>2. ~overlap
      BY <1>1 DEF WorkersNext
    <2>3. QED
      BY <1>1, <2>1, <2>2, WorkersOldGone, WorkersRecovery, WorkersOwnership DEF Ownership
  <1>2. CASE ProcessRestart \/ HotReload
    <2>1. \A t \in Task : wk'[t].pc = "off"
      BY <1>2, IdleFields DEF ProcessRestart, HotReload, ThreadLeft
    <2>2. \A i \in Instance : writer'[i].pc = "off"
      <3>1. CASE ProcessRestart
        BY <3>1 DEF ProcessRestart, WriterOff
      <3>2. CASE HotReload
        BY <3>2 DEF HotReload, ThreadLeft
      <3>3. QED
        BY <1>2, <3>1, <3>2
    <2>3. QED
      BY <2>1, <2>2 DEF Ownership, OldInstancesGone, RecoveryFirst, ExclusiveOwner,
         OwnedIsProcessing, HoldingPC, Instance
  <1>3. CASE \/ \E k \in Key : MatchedMessage(k)
             \/ \E p \in Platform : OtherMessage(p)
             \/ IngressNext \/ TimePasses
             \/ BeginShutdown \/ Drain \/ DrainTimesOut
             \/ UNCHANGED vars
    <2>1. UNCHANGED overlap
      BY <1>3 DEF MatchedMessage, OtherMessage, IngressNext, TimePasses, BeginShutdown,
         Drain, DrainTimesOut, vars, lifecycleVars
    <2>2. \A k \in Key : row[k].status = "processing" => row'[k].status = "processing"
      BY <1>3, QuietRows
    <2>3. QED
      BY <1>3, <2>1, <2>2, QuietSteps, OwnershipQuiet
  <1>4. QED
    BY <1>1, <1>2, <1>3 DEF Next

-----------------------------------------------------------------------------
(* Attempts. *)

(* The steps of the workers on the attempts and the status of a row. *)
LEMMA WorkerRows ==
    ASSUME TypeOK, Ownership, AttemptsExact, ExhaustedIffFailed, ~overlap,
           NEW t \in Task, WorkerStep(t) \/ WorkerFault(t), NEW k \in Key
    PROVE  /\ row'[k].attempts <= MaxAttempts
           /\ row'[k].attempts = MaxAttempts <=> row'[k].status = "failed"
           /\ row'[k].attempts = row[k].attempts \/ (WriteRetry(t) /\ wk[t].key = k)
  <1> USE StoreAssumption DEF TypeOK, StoreTypeOK, Row
  <1>1. /\ row[k].attempts <= MaxAttempts
        /\ row[k].attempts = MaxAttempts <=> row[k].status = "failed"
    BY DEF AttemptsExact, ExhaustedIffFailed
  <1>2. wk[t].pc \in HoldingPC /\ wk[t].key = k => row[k].status = "processing"
    BY DEF Ownership, OwnedIsProcessing
  <1>3. CASE Recover(t)
    BY <1>1, <1>3 DEF Recover, RecoverRows
  <1>4. CASE ClaimJob(t)
    BY <1>1, <1>4 DEF ClaimJob, ClaimRow
  <1>5. CASE MarkDone(t)
    BY <1>1, <1>2, <1>5 DEF MarkDone, MarkRowDone, HoldingPC
  <1>6. CASE Defer(t)
    BY <1>1, <1>2, <1>6 DEF Defer, DeferRow, HoldingPC
  <1>7. CASE WriteRetry(t)
    <2>1. CASE wk[t].key = k
      <3> DEFINE n == wk[t].seen
                 next == IF n + 1 >= MaxAttempts THEN "failed" ELSE "pending"
      <3>1. n = row[k].attempts /\ n < MaxAttempts /\ n \in Nat
        BY <1>1, <1>2, <1>7, <2>1 DEF WriteRetry, HoldingPC, AttemptsExact
      <3>2. row'[k].attempts = n + 1 /\ row'[k].status = next
        BY <1>7, <2>1 DEF WriteRetry, RetryRow
      <3>3. QED
        BY <1>7, <2>1, <3>1, <3>2
    <2>2. CASE wk[t].key # k
      BY <1>1, <1>7, <2>2 DEF WriteRetry, RetryRow
    <2>3. QED
      BY <2>1, <2>2
  <1>8. CASE \/ Record(t) \/ SetViolation(t) \/ Execute(t)
             \/ ProcessFails(t) \/ ReadAttempts(t)
    BY <1>1, <1>8, Carrying
  <1>9. CASE BeginRecovery(t) \/ SelectJob(t) \/ RecoverFails(t) \/ ClaimFails(t) \/ SettleFails(t)
    BY <1>1, <1>9 DEF BeginRecovery, SelectJob, RecoverFails, ClaimFails, SettleFails, storeVars
  <1>10. QED
    BY <1>3, <1>4, <1>5, <1>6, <1>7, <1>8, <1>9 DEF WorkerStep, WorkerFault

(* Every step keeps the attempts counted. *)
LEMMA AttemptsStep ==
    ASSUME TypeOK, Ownership, AttemptsExact, ExhaustedIffFailed, [Next]_vars
    PROVE  AttemptsExact' /\ ExhaustedIffFailed'
  <1> SUFFICES ASSUME ~overlap'
               PROVE  AttemptsExact' /\ ExhaustedIffFailed'
    BY DEF AttemptsExact, ExhaustedIffFailed
  <1>0. ~overlap
    BY DEF Next, MatchedMessage, OtherMessage, IngressNext, WorkersNext, TimePasses, vars,
       BeginShutdown, Drain, DrainTimesOut, ProcessRestart, HotReload, lifecycleVars
  <1>1. ASSUME NEW u \in Task, wk[u].pc = "rewrite"
        PROVE  /\ wk[u].key \in Key /\ row[wk[u].key].status = "processing"
               /\ wk[u].seen = row[wk[u].key].attempts
    BY <1>0, <1>1, JobRecords
    DEF JobPC, HoldingPC, Ownership, OwnedIsProcessing, AttemptsExact
  <1>2. CASE WorkersNext
    <2>1. PICK t \in Task : WorkerStep(t) \/ WorkerFault(t)
      BY <1>2 DEF WorkersNext
    <2>2. \A k \in Key : /\ row'[k].attempts <= MaxAttempts
                         /\ row'[k].attempts = MaxAttempts <=> row'[k].status = "failed"
      BY <1>0, <2>1, WorkerRows
    <2>3. ASSUME NEW u \in Task, wk'[u].pc = "rewrite"
          PROVE  wk'[u].seen = row'[wk'[u].key].attempts
      <3>1. CASE ReadAttempts(t) /\ u = t
        <4>1. /\ wk[t].key \in Key /\ UNCHANGED row
              /\ wk'[t].key = wk[t].key /\ wk'[t].seen = row[wk[t].key].attempts
          BY <3>1, JobRecords, AtFields
          DEF ReadAttempts, TypeOK, WorkersTypeOK, storeVars, JobPC, HoldingPC
        <4>2. QED
          BY <3>1, <4>1
      <3>2. CASE u # t
        <4>1. wk'[u] = wk[u]
          BY <2>1, <3>2, WorkerFrame
        <4>2. ~(WriteRetry(t) /\ wk[t].key = wk[u].key)
          BY <1>0, <2>3, <3>2, <4>1
          DEF WriteRetry, HoldingPC, Ownership, ExclusiveOwner
        <4>3. row'[wk[u].key].attempts = row[wk[u].key].attempts
          BY <1>0, <1>1, <2>1, <2>3, <4>1, <4>2, WorkerRows
        <4>4. QED
          BY <1>1, <2>3, <4>1, <4>3
      <3>3. CASE u = t /\ ~ReadAttempts(t)
        <4>1. ~(Record(t) \/ SetViolation(t) \/ Execute(t) \/ ProcessFails(t))
          <5>1. ~Record(t)
            <6> DEFINE next == [At(t, "setvid") EXCEPT !.vid = RecordedViolation(wk[t].key)]
            <6>1. next.pc = "setvid"
              BY AtFields
            <6>2. Record(t) => Resume(t, next)
              BY DEF Record
            <6> HIDE DEF next
            <6>3. QED
              BY <2>3, <3>3, <6>1, <6>2, ResumeFields, IdleFields
          <5>2. ~SetViolation(t) /\ ~ProcessFails(t)
            BY <2>3, <3>3, ResumeFields, IdleFields, AtFields DEF SetViolation, ProcessFails
          <5>3. ~Execute(t)
            BY <2>3, <3>3, AtFields DEF Execute, TypeOK, WorkersTypeOK
          <5>4. QED
            BY <5>1, <5>2, <5>3
        <4>2. ~(BeginRecovery(t) \/ Recover(t) \/ RecoverFails(t) \/ ClaimJob(t))
          BY <2>3, <3>3, ResumeFields, IdleFields, AtFields
          DEF BeginRecovery, Recover, RecoverFails, ClaimJob, FirstStep, TypeOK, WorkersTypeOK
        <4>3. QED
          BY <2>1, <2>3, <3>3, <4>1, <4>2, LettingGo DEF WorkerStep, WorkerFault
      <3>4. QED
        BY <3>1, <3>2, <3>3
    <2>4. QED
      BY <2>2, <2>3 DEF AttemptsExact, ExhaustedIffFailed
  <1>3. CASE ~WorkersNext
    <2>1. \A k \in Key : \/ /\ row'[k].status = row[k].status
                            /\ row'[k].attempts = row[k].attempts
                         \/ /\ row[k].status = "absent" /\ row'[k].status = "pending"
                            /\ row'[k].attempts = 0
      BY <1>3, QuietRows DEF Next
    <2>2. \A u \in Task : wk'[u].pc = "rewrite" => wk'[u] = wk[u]
      <3>1. CASE ProcessRestart \/ HotReload
        BY <3>1, IdleFields DEF ProcessRestart, HotReload
      <3>2. CASE ~(ProcessRestart \/ HotReload)
        BY <1>0, <1>3, <3>2, QuietSteps DEF Next, Quiet
      <3>3. QED
        BY <3>1, <3>2
    <2>3. ExhaustedIffFailed'
      BY <1>0, <2>1, StoreAssumption DEF ExhaustedIffFailed
    <2>4. AttemptsExact'
      BY <1>0, <1>1, <2>1, <2>2, StoreAssumption DEF AttemptsExact
    <2>5. QED
      BY <2>3, <2>4
  <1>4. QED
    BY <1>2, <1>3

-----------------------------------------------------------------------------
(* Evidence.  These parts hold with an overlap too. *)

(* What recording a violation does to the worker, the audit and nothing else. *)
LEMMA RecordFields ==
    ASSUME TypeOK, NEW t \in Task, Record(t)
    PROVE  /\ wk[t].pc = "record" /\ wk[t].key \in Key
           /\ \/ wk'[t].pc = "off"
              \/ /\ wk'[t].pc = "setvid" /\ wk'[t].key = wk[t].key
                 /\ wk'[t].vid = RecordedViolation(wk[t].key)
           /\ audit'[wk[t].key] >= RecordedViolation(wk[t].key)
           /\ RecordedViolation(wk[t].key) \in Nat \ {0}
           /\ \A k \in Key : audit'[k] >= audit[k]
           /\ UNCHANGED <<row, executions>>
  <1> DEFINE v == RecordedViolation(wk[t].key)
             next == [At(t, "setvid") EXCEPT !.vid = v]
  <1>1. wk[t].pc = "record" /\ wk[t].key \in Key /\ UNCHANGED <<row, executions>>
    BY JobRecords DEF Record, JobPC, HoldingPC
  <1>2. next.pc = "setvid" /\ next.key = wk[t].key /\ next.vid = v
    BY AtFields
  <1>3. Resume(t, next)
    BY DEF Record
  <1>4. v \in Nat \ {0}
    BY <1>1 DEF RecordedViolation, TypeOK, StoreTypeOK
  <1>5. /\ audit'[wk[t].key] >= v
        /\ \A k \in Key : audit'[k] >= audit[k]
    BY <1>1, <1>4 DEF Record, RecordViolation, TypeOK, StoreTypeOK
  <1> HIDE DEF v, next
  <1>6. \/ wk'[t].pc = "off"
        \/ wk'[t].pc = "setvid" /\ wk'[t].key = wk[t].key /\ wk'[t].vid = v
    BY <1>2, <1>3, ResumeFields, IdleFields
  <1>7. QED
    BY <1>1, <1>4, <1>5, <1>6 DEF v

(* What executing does to the worker, the executions and nothing else. *)
LEMMA ExecuteFields ==
    ASSUME TypeOK, NEW t \in Task, Execute(t)
    PROVE  /\ wk[t].pc = "execute" /\ wk[t].key \in Key
           /\ wk'[t].pc = "done" /\ wk'[t].key = wk[t].key /\ wk'[t].vid = wk[t].vid
           /\ executions'[wk[t].key] = executions[wk[t].key] + 1
           /\ \A k \in Key \ {wk[t].key} : executions'[k] = executions[k]
           /\ UNCHANGED <<row, audit>>
  <1>1. wk[t].pc = "execute" /\ wk[t].key \in Key /\ UNCHANGED <<row, audit>>
    BY JobRecords DEF Execute, JobPC, HoldingPC, storeVars
  <1>2. wk'[t].pc = "done" /\ wk'[t].key = wk[t].key /\ wk'[t].vid = wk[t].vid
    BY AtFields DEF Execute, TypeOK, WorkersTypeOK
  <1>3. /\ executions'[wk[t].key] = executions[wk[t].key] + 1
        /\ \A k \in Key \ {wk[t].key} : executions'[k] = executions[k]
    BY <1>1 DEF Execute, TypeOK, WorkersTypeOK
  <1>4. QED
    BY <1>1, <1>2, <1>3

(* The counters of records and executions only grow. *)
LEMMA CountersGrow ==
    ASSUME TypeOK, NEW t \in Task, WorkerStep(t) \/ WorkerFault(t), NEW k \in Key
    PROVE  /\ audit'[k] >= audit[k]
           /\ executions'[k] >= executions[k]
           /\ executions'[k] = executions[k] \/ (Execute(t) /\ wk[t].key = k)
  <1>1. CASE Record(t)
    BY <1>1, RecordFields DEF TypeOK, WorkersTypeOK
  <1>2. CASE Execute(t)
    BY <1>2, ExecuteFields DEF TypeOK, StoreTypeOK, WorkersTypeOK
  <1>3. CASE ~Record(t) /\ ~Execute(t)
    <2>1. UNCHANGED <<audit, executions>>
      BY <1>3 DEF WorkerStep, WorkerFault, BeginRecovery, Recover, SelectJob, ClaimJob,
         SetViolation, MarkDone, ReadAttempts, WriteRetry, Defer, RecoverFails, ClaimFails,
         ProcessFails, SettleFails, storeVars
    <2>2. QED
      BY <2>1 DEF TypeOK, StoreTypeOK, WorkersTypeOK
  <1>4. QED
    BY <1>1, <1>2, <1>3

(* The steps of the workers on the status and the violation id of a row. *)
LEMMA WorkerEvidence ==
    ASSUME TypeOK, JobsPersisted, NEW t \in Task, WorkerStep(t) \/ WorkerFault(t),
           NEW k \in Key
    PROVE  /\ row'[k].status = "absent" <=> row[k].status = "absent"
           /\ \/ row'[k].vid = row[k].vid
              \/ /\ k = wk[t].key /\ row[k].status # "absent"
                 /\ row'[k].vid = wk[t].vid
                 /\ \/ wk[t].pc = "setvid"
                    \/ wk[t].pc = "done" /\ wk[t].vid # NoViolation
           /\ \/ row'[k].status # "done" \/ row[k].status = "done"
              \/ wk[t].pc = "done" /\ k = wk[t].key
  <1> USE DEF TypeOK, StoreTypeOK, Row
  <1>1. wk[t].pc \in JobPC /\ k = wk[t].key => row[k].status # "absent"
    BY DEF JobsPersisted, Persisted
  <1>2. CASE Recover(t)
    BY <1>2 DEF Recover, RecoverRows
  <1>3. CASE ClaimJob(t)
    BY <1>3 DEF ClaimJob, ClaimRow
  <1>4. CASE SetViolation(t)
    BY <1>1, <1>4 DEF SetViolation, SetRowViolation, JobPC, HoldingPC
  <1>5. CASE MarkDone(t)
    BY <1>1, <1>5 DEF MarkDone, MarkRowDone, JobPC, HoldingPC
  <1>6. CASE WriteRetry(t)
    BY <1>1, <1>6 DEF WriteRetry, RetryRow, JobPC, HoldingPC
  <1>7. CASE Defer(t)
    BY <1>1, <1>7 DEF Defer, DeferRow, JobPC, HoldingPC
  <1>8. CASE ~(\/ Recover(t) \/ ClaimJob(t) \/ SetViolation(t) \/ MarkDone(t)
               \/ WriteRetry(t) \/ Defer(t))
    <2>1. UNCHANGED row
      BY <1>8 DEF WorkerStep, WorkerFault, BeginRecovery, SelectJob, Record, Execute,
         ReadAttempts, RecoverFails, ClaimFails, ProcessFails, SettleFails, storeVars
    <2>2. QED
      BY <2>1
  <1>9. QED
    BY <1>2, <1>3, <1>4, <1>5, <1>6, <1>7, <1>8

(* What Evidence says of one worker. *)
JobFacts(t) ==
    wk[t].pc \in JobPC =>
        /\ row[wk[t].key].status # "absent"
        /\ wk[t].vid <= audit[wk[t].key]
        /\ wk[t].pc = "setvid" => wk[t].vid # NoViolation
        /\ wk[t].pc = "claim" /\ wk[t].vid # NoViolation
              => row[wk[t].key].vid # NoViolation
        /\ RecordsEnabled /\ wk[t].pc \in {"execute", "done"}
              => row[wk[t].key].vid # NoViolation
        /\ wk[t].pc = "done" => executions[wk[t].key] > 0

(* The evidence, spelt out for each worker and each job. *)
LEMMA EvidenceByJob ==
    ASSUME TypeOK
    PROVE  (/\ \A t \in Task : JobFacts(t)
            /\ \A k \in Key : row[k].status = "absent"
                                 => row[k].vid = NoViolation /\ executions[k] = 0
            /\ \A k \in Key : row[k].vid <= audit[k])
           <=> (JobsPersisted /\ ViolationIdsExist /\ DoneAfterExecute)
  <1>1. \A t \in Task : wk[t].pc \in JobPC => wk[t].key \in Key
    BY JobRecords
  <1>2. QED
    BY <1>1 DEF JobFacts, JobsPersisted, ViolationIdsExist, DoneAfterExecute, Persisted,
       JobPC, HoldingPC

(* The facts about a worker survive the steps of the others. *)
LEMMA JobFactsKept ==
    ASSUME TypeOK, NEW t \in Task, JobFacts(t), wk'[t] = wk[t],
           \A k \in Key : /\ row[k].status # "absent" => row'[k].status # "absent"
                          /\ row[k].status # "absent" /\ row[k].vid # NoViolation
                                => row'[k].vid # NoViolation
                          /\ audit[k] <= audit'[k]
                          /\ executions[k] <= executions'[k],
           TypeOK'
    PROVE  JobFacts(t)'
  <1> SUFFICES ASSUME wk[t].pc \in JobPC
               PROVE  JobFacts(t)'
    BY DEF JobFacts
  <1>1. wk[t].key \in Key /\ wk[t].vid \in Nat
    BY JobRecords
  <1>2. \A k \in Key : /\ audit[k] \in Nat /\ audit'[k] \in Nat
                       /\ executions[k] \in Nat /\ executions'[k] \in Nat
    BY DEF TypeOK, StoreTypeOK, WorkersTypeOK
  <1>3. QED
    BY <1>1, <1>2 DEF JobFacts

(* And its own. *)
LEMMA JobFactsStep ==
    ASSUME TypeOK, TypeOK', Evidence, NEW t \in Task, WorkerStep(t) \/ WorkerFault(t)
    PROVE  JobFacts(t)'
  <1>1. /\ JobFacts(t)
        /\ \A k \in Key : row[k].vid <= audit[k]
        /\ wk[t].pc \in JobPC => wk[t].key \in Key
    BY EvidenceByJob, JobRecords DEF Evidence
  <1>2. \A k \in Key : /\ audit[k] \in Nat /\ audit'[k] \in Nat /\ row[k].vid \in Nat
                       /\ executions[k] \in Nat /\ executions'[k] \in Nat
    BY DEF TypeOK, StoreTypeOK, WorkersTypeOK, Row
  <1>3. CASE SelectJob(t)
    <2>1. UNCHANGED <<row, audit>>
      BY <1>3 DEF SelectJob, storeVars
    <2>2. \/ \E k \in Key : /\ row[k].status = "pending"
                            /\ wk'[t].pc = "claim" /\ wk'[t].key = k
                            /\ wk'[t].vid = row[k].vid
          \/ wk'[t].pc \notin JobPC
      <3>1. CASE Claimable = {} /\ Resume(t, WorkerWaiting)
        BY <3>1, ResumeFields, IdleFields DEF JobPC, HoldingPC
      <3>2. QED
        BY <1>3, <3>1
        DEF SelectJob, NextClaimable, Claimable, TypeOK, WorkersTypeOK
    <2>3. CASE wk'[t].pc \notin JobPC
      BY <2>3 DEF JobFacts, JobPC, HoldingPC
    <2>4. ASSUME NEW k \in Key, row[k].status = "pending",
                 wk'[t].pc = "claim", wk'[t].key = k, wk'[t].vid = row[k].vid
          PROVE  JobFacts(t)'
      BY <1>1, <2>1, <2>4 DEF JobFacts
    <2>5. QED
      BY <2>2, <2>3, <2>4
  <1>4. CASE ClaimJob(t)
    <2>1. wk[t].pc = "claim" /\ UNCHANGED audit
      BY <1>4 DEF ClaimJob
    <2>2. /\ row'[wk[t].key].status # "absent"
          /\ row'[wk[t].key].vid = row[wk[t].key].vid
      BY <1>1, <1>4, <2>1 DEF JobFacts, JobPC, ClaimJob, ClaimRow, TypeOK, StoreTypeOK, Row
    <2>3. \/ wk'[t].pc \notin JobPC
          \/ /\ wk'[t].pc = FirstStep(t)
             /\ wk'[t].key = wk[t].key /\ wk'[t].vid = wk[t].vid
      BY <1>4, ResumeFields, IdleFields, AtFields DEF ClaimJob, JobPC, HoldingPC
    <2>4. \/ FirstStep(t) \in {"defer", "record"}
          \/ /\ FirstStep(t) = "execute"
             /\ RecordsEnabled => wk[t].vid # NoViolation
      BY DEF FirstStep
    <2>5. QED
      BY <1>1, <2>1, <2>2, <2>3, <2>4 DEF JobFacts, JobPC
  <1>5. CASE Record(t)
    BY <1>1, <1>2, <1>5, RecordFields DEF JobFacts, JobPC, HoldingPC, NoViolation
  <1>6. CASE SetViolation(t)
    <2>1. wk[t].pc = "setvid" /\ UNCHANGED audit
      BY <1>6 DEF SetViolation
    <2>2. /\ row'[wk[t].key].status # "absent"
          /\ row'[wk[t].key].vid = wk[t].vid
      BY <1>1, <1>6, <2>1
      DEF JobFacts, JobPC, HoldingPC, SetViolation, SetRowViolation, TypeOK, StoreTypeOK, Row
    <2>3. \/ wk'[t].pc \notin JobPC
          \/ wk'[t].pc = "execute" /\ wk'[t].key = wk[t].key /\ wk'[t].vid = wk[t].vid
      BY <1>6, ResumeFields, IdleFields, AtFields DEF SetViolation, JobPC, HoldingPC
    <2>4. QED
      BY <1>1, <2>1, <2>2, <2>3 DEF JobFacts, JobPC, HoldingPC
  <1>7. CASE Execute(t)
    BY <1>1, <1>2, <1>7, ExecuteFields DEF JobFacts, JobPC, HoldingPC
  <1>8. CASE ProcessFails(t) \/ ReadAttempts(t)
    <2>1. wk[t].pc \in JobPC /\ UNCHANGED <<row, audit>>
      BY <1>8 DEF ProcessFails, ReadAttempts, JobPC, HoldingPC, storeVars
    <2>2. \/ wk'[t].pc \notin JobPC
          \/ /\ wk'[t].pc \in {"retry", "rewrite"}
             /\ wk'[t].key = wk[t].key /\ wk'[t].vid = wk[t].vid
      <3>1. CASE ProcessFails(t)
        BY <3>1, ResumeFields, IdleFields, AtFields DEF ProcessFails, JobPC, HoldingPC
      <3>2. CASE ReadAttempts(t)
        BY <3>2, AtFields DEF ReadAttempts, TypeOK, WorkersTypeOK
      <3>3. QED
        BY <1>8, <3>1, <3>2
    <2>3. QED
      BY <1>1, <2>1, <2>2 DEF JobFacts, JobPC, HoldingPC
  <1>9. CASE \/ BeginRecovery(t) \/ Recover(t) \/ RecoverFails(t)
             \/ ClaimFails(t) \/ MarkDone(t) \/ WriteRetry(t) \/ Defer(t) \/ SettleFails(t)
    <2>1. wk'[t].pc \notin JobPC
      <3>1. CASE BeginRecovery(t)
        BY <3>1, IdleFields DEF BeginRecovery, JobPC, HoldingPC, TypeOK, WorkersTypeOK
      <3>2. CASE \/ Recover(t) \/ RecoverFails(t) \/ MarkDone(t) \/ WriteRetry(t)
                 \/ Defer(t) \/ SettleFails(t)
        BY <3>2, ResumeFields, IdleFields
        DEF Recover, RecoverFails, MarkDone, WriteRetry, Defer, SettleFails, JobPC, HoldingPC
      <3>3. CASE ClaimFails(t)
        BY <3>3, IdleFields DEF ClaimFails, JobPC, HoldingPC, TypeOK, WorkersTypeOK
      <3>4. QED
        BY <1>9, <3>1, <3>2, <3>3
    <2>2. QED
      BY <2>1 DEF JobFacts, JobPC, HoldingPC
  <1>10. QED
    BY <1>3, <1>4, <1>5, <1>6, <1>7, <1>8, <1>9 DEF WorkerStep, WorkerFault

(* The steps that are not a worker's move no worker on. *)
LEMMA OtherSteps ==
    ASSUME TypeOK, [Next]_vars, ~WorkersNext
    PROVE  /\ \A t \in Task : wk'[t] = wk[t] \/ wk'[t].pc \in {"off", "start"}
           /\ UNCHANGED <<audit, executions>>
  <1>1. CASE (\E k \in Key : MatchedMessage(k)) \/ (\E p \in Platform : OtherMessage(p))
    BY <1>1, StartEffect DEF MatchedMessage, OtherMessage, storeVars
  <1>2. CASE IngressNext
    BY <1>2 DEF IngressNext, WriterStep, WriteFails, TakeEntry, CheckEntry, InsertEntry,
       RetryWrite, workersVars, storeVars
  <1>3. CASE TimePasses
    BY <1>3 DEF TimePasses, workersVars
  <1>4. CASE BeginShutdown \/ Drain \/ DrainTimesOut
    BY <1>4, CancelEffect DEF BeginShutdown, Drain, DrainTimesOut, storeVars
  <1>5. CASE ProcessRestart \/ HotReload
    BY <1>5, IdleFields DEF ProcessRestart, HotReload, storeVars
  <1>6. CASE UNCHANGED vars
    BY <1>6 DEF vars
  <1>7. QED
    BY <1>1, <1>2, <1>3, <1>4, <1>5, <1>6 DEF Next

(* Every step keeps the evidence. *)
LEMMA EvidenceStep == TypeOK /\ TypeOK' /\ Evidence /\ [Next]_vars => Evidence'
  <1> SUFFICES ASSUME TypeOK, TypeOK', Evidence, [Next]_vars
               PROVE  Evidence'
    OBVIOUS
  <1>1. /\ \A t \in Task : JobFacts(t)
        /\ \A k \in Key : row[k].status = "absent"
                             => row[k].vid = NoViolation /\ executions[k] = 0
        /\ \A k \in Key : row[k].vid <= audit[k]
    BY EvidenceByJob DEF Evidence
  <1>2. \A k \in Key : /\ audit[k] \in Nat /\ audit'[k] \in Nat
                       /\ row[k].vid \in Nat /\ row'[k].vid \in Nat
                       /\ executions[k] \in Nat /\ executions'[k] \in Nat
    BY DEF TypeOK, StoreTypeOK, WorkersTypeOK, Row
  <1>3. ASSUME /\ \A t \in Task : JobFacts(t)'
               /\ \A k \in Key : row'[k].status = "absent"
                                    => row'[k].vid = NoViolation /\ executions'[k] = 0
               /\ \A k \in Key : row'[k].vid <= audit'[k]
        PROVE  JobsPersisted' /\ ViolationIdsExist' /\ DoneAfterExecute'
    <2>1. \A t \in Task : wk'[t].pc \in JobPC => wk'[t].key \in Key
      BY DEF TypeOK, WorkersTypeOK, Worker, IdlePC, JobPC, HoldingPC
    <2>2. QED
      BY <1>3, <2>1 DEF JobFacts, JobsPersisted, ViolationIdsExist, DoneAfterExecute,
         Persisted, JobPC, HoldingPC
  <1>4. CASE WorkersNext
    <2>1. PICK t \in Task : WorkerStep(t) \/ WorkerFault(t)
      BY <1>4 DEF WorkersNext
    <2>2. wk[t].pc \in JobPC => /\ wk[t].key \in Key /\ wk[t].vid \in Nat
                                /\ wk[t].vid <= audit[wk[t].key]
      BY <1>1, JobRecords DEF JobFacts
    <2>3. ASSUME NEW k \in Key
          PROVE  /\ row'[k].status = "absent" <=> row[k].status = "absent"
                 /\ \/ row'[k].vid = row[k].vid
                    \/ /\ k = wk[t].key /\ row[k].status # "absent"
                       /\ row'[k].vid = wk[t].vid /\ wk[t].vid # NoViolation
                       /\ wk[t].vid <= audit[k]
                 /\ audit'[k] >= audit[k] /\ executions'[k] >= executions[k]
      <3>1. wk[t].pc = "setvid" => wk[t].vid # NoViolation
        BY <1>1 DEF JobFacts, JobPC, HoldingPC
      <3>2. QED
        BY <2>1, <2>2, <3>1, WorkerEvidence, CountersGrow
        DEF Evidence, JobPC, HoldingPC
    <2>4. \A u \in Task : JobFacts(u)'
      <3>1. ASSUME NEW u \in Task \ {t} PROVE JobFacts(u)'
        BY <1>1, <1>2, <2>1, <2>3, WorkerFrame, JobFactsKept
      <3>2. JobFacts(t)'
        BY <2>1, JobFactsStep
      <3>3. QED
        BY <3>1, <3>2
    <2>5. \A k \in Key : row'[k].vid <= audit'[k]
      BY <1>1, <1>2, <2>3
    <2>6. \A k \in Key : executions'[k] = executions[k] \/ (Execute(t) /\ wk[t].key = k)
      BY <2>1, CountersGrow
    <2>7. Execute(t) => /\ row[wk[t].key].status # "absent"
                        /\ RecordsEnabled => row[wk[t].key].vid # NoViolation
                        /\ UNCHANGED row
      BY <1>1 DEF Execute, JobFacts, JobPC, HoldingPC, storeVars
    <2>8. \A k \in Key : row'[k].status = "absent"
                            => row'[k].vid = NoViolation /\ executions'[k] = 0
      BY <1>1, <2>3, <2>6, <2>7
    <2>9. RecordBeforeActions'
      <3>1. ASSUME NEW k \in Key, RecordsEnabled, executions'[k] > 0
            PROVE  row'[k].vid # NoViolation
        <4>1. CASE executions[k] > 0
          BY <1>1, <1>2, <2>3, <3>1, <4>1
          DEF Evidence, RecordBeforeActions, NoViolation
        <4>2. CASE executions[k] = 0
          BY <2>6, <2>7, <3>1, <4>2
        <4>3. QED
          BY <1>2, <4>1, <4>2
      <3>2. QED
        BY <1>2, <2>5, <3>1 DEF RecordBeforeActions, NoViolation
    <2>10. DoneMeansExecuted'
      <3>1. wk[t].pc = "done" => executions[wk[t].key] > 0
        BY <1>1 DEF JobFacts, JobPC, HoldingPC
      <3>2. \A k \in Key : \/ row'[k].status # "done" \/ row[k].status = "done"
                           \/ wk[t].pc = "done" /\ k = wk[t].key
        BY <2>1, WorkerEvidence DEF Evidence
      <3>3. QED
        BY <1>2, <2>3, <3>1, <3>2 DEF Evidence, DoneMeansExecuted
    <2>11. QED
      BY <1>3, <2>4, <2>5, <2>8, <2>9, <2>10 DEF Evidence
  <1>5. CASE ~WorkersNext
    <2>1. /\ \A t \in Task : wk'[t] = wk[t] \/ wk'[t].pc \in {"off", "start"}
          /\ UNCHANGED <<audit, executions>>
      BY <1>5, OtherSteps
    <2>2. \A k \in Key : \/ /\ row'[k].status = row[k].status
                            /\ row'[k].vid = row[k].vid
                         \/ /\ row[k].status = "absent" /\ row'[k].status = "pending"
                            /\ row'[k].vid = NoViolation
      BY <1>5, QuietRows DEF Next
    <2>3. \A t \in Task : JobFacts(t)'
      <3>1. ASSUME NEW t \in Task, wk'[t] = wk[t] PROVE JobFacts(t)'
        BY <1>1, <1>2, <2>1, <2>2, <3>1, JobFactsKept
      <3>2. ASSUME NEW t \in Task, wk'[t].pc \in {"off", "start"} PROVE JobFacts(t)'
        BY <3>2 DEF JobFacts, JobPC, HoldingPC
      <3>3. QED
        BY <2>1, <3>1, <3>2
    <2>4. \A k \in Key : row'[k].status = "absent"
                            => row'[k].vid = NoViolation /\ executions'[k] = 0
      BY <1>1, <2>1, <2>2
    <2>5. \A k \in Key : row'[k].vid <= audit'[k]
      BY <1>1, <1>2, <2>1, <2>2 DEF NoViolation
    <2>6. RecordBeforeActions' /\ DoneMeansExecuted'
      <3>1. \A k \in Key : executions[k] > 0 => row[k].status # "absent"
        BY <1>1
      <3>2. QED
        BY <2>1, <2>2, <3>1 DEF Evidence, RecordBeforeActions, DoneMeansExecuted
    <2>7. QED
      BY <1>3, <2>3, <2>4, <2>5, <2>6 DEF Evidence
  <1>6. QED
    BY <1>4, <1>5

-----------------------------------------------------------------------------
(* Stranding. *)

(* Before the first fault: no fault action has been taken. *)
LEMMA FaultFreeStep ==
    ASSUME TypeOK, [Next]_vars, faults' = 0
    PROVE  /\ faults = 0 /\ UNCHANGED overlap
           /\ ~ProcessRestart /\ ~HotReload
           /\ \A t \in Task : ~WorkerFault(t)
           /\ phase = "stopped" => phase' = "stopped"
  <1>1. faults \in Nat /\ ~Fault
    BY LifecycleAssumption DEF TypeOK, LifecycleTypeOK, Fault
  <1>2. ~ProcessRestart /\ ~HotReload
    BY <1>1 DEF ProcessRestart, HotReload
  <1>3. \A t \in Task : ~WorkerFault(t)
    BY <1>1 DEF WorkerFault, RecoverFails, ClaimFails, ProcessFails, SettleFails
  <1>4. faults = 0 /\ UNCHANGED overlap /\ (phase = "stopped" => phase' = "stopped")
    <2>1. CASE IngressNext
      BY <1>1, <2>1 DEF IngressNext, WriterStep, WriteFails, TakeEntry, CheckEntry,
         InsertEntry, RetryWrite
    <2>2. CASE WorkersNext
      BY <1>3, <2>2 DEF WorkersNext, WorkerStep, BeginRecovery, Recover, SelectJob, ClaimJob,
         Record, SetViolation, Execute, MarkDone, ReadAttempts, WriteRetry, Defer
    <2>3. CASE ~IngressNext /\ ~WorkersNext
      BY <1>2, <2>3 DEF Next, MatchedMessage, OtherMessage, TimePasses, BeginShutdown, Drain,
         DrainTimesOut, vars, lifecycleVars
    <2>4. QED
      BY <2>1, <2>2, <2>3
  <1>5. QED
    BY <1>2, <1>3, <1>4

(* Without faults a worker's step leaves each leased row with a holder. *)
LEMMA FaultFreeWorker ==
    ASSUME TypeOK, Ownership, FaultFreeOwned, faults = 0, ~overlap, phase # "stopped",
           NEW t \in Task, WorkerStep(t), NEW k \in Key, row'[k].status = "processing"
    PROVE  \E u \in Task : wk'[u].pc \in HoldingPC /\ wk'[u].key = k
  <1>0. \A u \in Task \ {t} : wk'[u] = wk[u]
    BY WorkerFrame
  <1>1. WorkerLive(t)
    BY WorkerFrame DEF Ownership, OldInstancesGone, WorkerLive
  <1>2. ASSUME row[k].status = "processing", wk[t].pc \in HoldingPC => wk[t].key # k
        PROVE  \E u \in Task : wk'[u].pc \in HoldingPC /\ wk'[u].key = k
    BY <1>0, <1>2 DEF FaultFreeOwned
  <1>3. CASE Recover(t)
    BY <1>3 DEF Recover, RecoverRows, TypeOK, StoreTypeOK, Row
  <1>4. CASE ClaimJob(t)
    <2>1. wk[t].pc = "claim"
      BY <1>4 DEF ClaimJob
    <2>2. CASE row[k].status = "processing"
      BY <1>2, <2>1, <2>2 DEF HoldingPC
    <2>3. CASE row[k].status # "processing"
      <3>1. row[wk[t].key].status = "pending" /\ wk[t].key = k
        BY <1>4, <2>3 DEF ClaimJob, ClaimRow, TypeOK, StoreTypeOK, Row
      <3>2. wk'[t] = At(t, FirstStep(t))
        BY <1>1, <1>4, <3>1, ResumeFields DEF ClaimJob
      <3>3. wk'[t].pc \in HoldingPC /\ wk'[t].key = k
        BY <3>1, <3>2, AtFields DEF FirstStep, HoldingPC
      <3>4. QED
        BY <3>3
    <2>4. QED
      BY <2>2, <2>3
  <1>5. CASE Record(t) \/ SetViolation(t) \/ Execute(t) \/ ReadAttempts(t)
    <2>1. row[k].status = "processing" /\ wk[t].pc \in HoldingPC
      BY <1>5, Carrying
    <2>2. wk'[t].pc \in HoldingPC /\ wk'[t].key = wk[t].key
      <3>1. CASE Record(t)
        <4> DEFINE next == [At(t, "setvid") EXCEPT !.vid = RecordedViolation(wk[t].key)]
        <4>1. Resume(t, next) /\ next.pc = "setvid" /\ next.key = wk[t].key
          BY <3>1, AtFields DEF Record
        <4> HIDE DEF next
        <4>2. QED
          BY <1>1, <4>1, ResumeFields DEF HoldingPC
      <3>2. CASE SetViolation(t)
        BY <1>1, <3>2, ResumeFields, AtFields DEF SetViolation, HoldingPC
      <3>3. CASE Execute(t)
        BY <3>3, ExecuteFields DEF HoldingPC
      <3>4. CASE ReadAttempts(t)
        BY <3>4, AtFields DEF ReadAttempts, HoldingPC, TypeOK, WorkersTypeOK
      <3>5. QED
        BY <1>5, <3>1, <3>2, <3>3, <3>4
    <2>3. CASE wk[t].key = k
      BY <2>2, <2>3
    <2>4. CASE wk[t].key # k
      BY <1>2, <2>1, <2>4
    <2>5. QED
      BY <2>3, <2>4
  <1>6. CASE MarkDone(t) \/ WriteRetry(t) \/ Defer(t)
    <2>1. wk[t].key \in Key
      BY <1>6, JobRecords DEF MarkDone, WriteRetry, Defer, JobPC, HoldingPC
    <2>2. row'[wk[t].key].status # "processing"
      BY <1>6, <2>1 DEF MarkDone, WriteRetry, Defer, MarkRowDone, RetryRow, DeferRow,
         TypeOK, StoreTypeOK, Row
    <2>3. wk[t].key # k
      BY <2>2
    <2>4. row[k].status = "processing"
      BY <1>6, <2>3 DEF MarkDone, WriteRetry, Defer, MarkRowDone, RetryRow, DeferRow,
         TypeOK, StoreTypeOK
    <2>5. QED
      BY <1>2, <2>3, <2>4
  <1>7. CASE SelectJob(t) \/ BeginRecovery(t)
    <2>1. row[k].status = "processing" /\ wk[t].pc \notin HoldingPC
      BY <1>7 DEF SelectJob, BeginRecovery, HoldingPC, storeVars
    <2>2. QED
      BY <1>2, <2>1
  <1>8. QED
    BY <1>3, <1>4, <1>5, <1>6, <1>7 DEF WorkerStep

(* Every step keeps leased rows held while there are no faults. *)
LEMMA FaultFreeKept ==
    ASSUME TypeOK, Ownership, FaultFreeOwned, [Next]_vars
    PROVE  FaultFreeOwned'
  <1> SUFFICES ASSUME faults' = 0
               PROVE  (/\ ~overlap
                       /\ phase # "stopped" =>
                             \A k \in Key : row[k].status = "processing"
                                  => \E t \in Task : /\ wk[t].pc \in HoldingPC
                                                     /\ wk[t].key = k)'
    BY DEF FaultFreeOwned
  <1>1. faults = 0 /\ ~overlap /\ ~overlap'
    BY FaultFreeStep DEF FaultFreeOwned
  <1>2. SUFFICES ASSUME phase' # "stopped", NEW k \in Key, row'[k].status = "processing"
                 PROVE  \E t \in Task : wk'[t].pc \in HoldingPC /\ wk'[t].key = k
    BY <1>1
  <1>3. phase # "stopped"
    BY <1>2, FaultFreeStep
  <1>4. CASE WorkersNext
    BY <1>1, <1>2, <1>3, <1>4, FaultFreeStep, FaultFreeWorker DEF WorkersNext
  <1>5. CASE ~WorkersNext
    <2>1. row[k].status = "processing"
      BY <1>2, <1>5, QuietRows DEF Next
    <2>2. PICK t \in Task : wk[t].pc \in HoldingPC /\ wk[t].key = k
      BY <1>1, <1>3, <2>1 DEF FaultFreeOwned
    <2>3. wk'[t] = wk[t]
      <3>1. CASE (\E j \in Key : MatchedMessage(j)) \/ (\E p \in Platform : OtherMessage(p))
        BY <2>2, <3>1, StartEffect DEF MatchedMessage, OtherMessage, HoldingPC
      <3>2. CASE IngressNext \/ TimePasses \/ UNCHANGED vars
        BY <3>2 DEF IngressNext, TimePasses, vars, workersVars
      <3>3. CASE BeginShutdown \/ Drain \/ DrainTimesOut
        BY <1>2, <3>3 DEF BeginShutdown, Drain, DrainTimesOut
      <3>4. QED
        BY <1>5, <3>1, <3>2, <3>3, FaultFreeStep DEF Next
    <2>4. QED
      BY <2>2, <2>3
  <1>6. QED
    BY <1>4, <1>5

-----------------------------------------------------------------------------
(* The theorems. *)

(* The inductive invariant holds at first. *)
LEMMA IInvInit == Init => IInv
  <1> SUFFICES ASSUME Init PROVE IInv
    OBVIOUS
  <1> USE IdleFields DEF Init, LifecycleInit, StoreInit, IngressInit, WorkersInit, AbsentRow
  <1>1. TypeOK
    BY TypeInit
  <1>2. \A t \in Task : wk[t].pc = "off"
    OBVIOUS
  <1>3. \A k \in Key : /\ row[k].status = "absent" /\ row[k].attempts = 0
                       /\ row[k].vid = NoViolation
                       /\ audit[k] = 0 /\ executions[k] = 0
    OBVIOUS
  <1>4. Ownership
    BY <1>2 DEF Ownership, OldInstancesGone, RecoveryFirst, ExclusiveOwner,
       OwnedIsProcessing, WriterOff, HoldingPC
  <1>5. AttemptsExact /\ ExhaustedIffFailed
    BY <1>2, <1>3, StoreAssumption DEF AttemptsExact, ExhaustedIffFailed
  <1>6. Evidence
    BY <1>2, <1>3 DEF Evidence, JobsPersisted, ViolationIdsExist, DoneAfterExecute,
       RecordBeforeActions, DoneMeansExecuted, JobPC, HoldingPC, NoViolation
  <1>7. FaultFreeOwned
    BY <1>3 DEF FaultFreeOwned
  <1>8. QED
    BY <1>1, <1>4, <1>5, <1>6, <1>7 DEF IInv

(* Every step keeps the inductive invariant. *)
LEMMA IInvStep == IInv /\ [Next]_vars => IInv'
  <1> SUFFICES ASSUME IInv, [Next]_vars PROVE IInv'
    OBVIOUS
  <1>1. TypeOK'
    BY TypeStep DEF IInv
  <1>2. QED
    BY <1>1, OwnershipStep, AttemptsStep, EvidenceStep, FaultFreeKept DEF IInv

(* The inductive invariant holds always. *)
LEMMA Inductive == Spec => []IInv
  BY IInvInit, IInvStep, PTL DEF Spec

(* No two tasks, nor the late thread of a cancelled one, work on one job, and the
   updates by id of its worker always meet the row they are meant for.       *)
THEOREM OneOwner == Spec => []OneOwnerPerRow
  <1>1. IInv => OneOwnerPerRow
    BY DEF IInv, Ownership, OneOwnerPerRow
  <1>2. QED
    BY <1>1, Inductive, PTL

(* A row that has used its attempts is failed, so the claim, which skips it,
   leaves no active row behind.                                             *)
THEOREM NoExhaustedActiveRow == Spec => []ExhaustedIffFailed
  <1>1. IInv => ExhaustedIffFailed
    BY DEF IInv
  <1>2. QED
    BY <1>1, Inductive, PTL

(* No action without a violation record, and no done job without actions, even
   when threads outlive their instance.                                     *)
THEOREM ActionsHaveEvidence == Spec => []ActionEvidence
  <1>1. IInv => ActionEvidence
    BY DEF IInv, Evidence, ActionEvidence
  <1>2. QED
    BY <1>1, Inductive, PTL

(* Scheduling alone strands no job: there was a fault before. *)
THEOREM StrandingNeedsFault == Spec => []StrandedOnlyByFault
  <1>1. IInv => StrandedOnlyByFault
    BY LifecycleAssumption
    DEF IInv, TypeOK, LifecycleTypeOK, FaultFreeOwned, StrandedOnlyByFault, Stranded, Owners
  <1>2. QED
    BY <1>1, Inductive, PTL

(* A worker's step leaves settled rows alone. *)
LEMMA WorkerKeepsTerminal ==
    ASSUME TypeOK, Ownership, ~overlap, NEW t \in Task, WorkerStep(t) \/ WorkerFault(t),
           NEW k \in Key, row[k].status \in {"done", "failed"}
    PROVE  row'[k] = row[k]
  <1> USE DEF TypeOK, StoreTypeOK
  <1>1. wk[t].pc \in HoldingPC => wk[t].key # k
    BY DEF Ownership, OwnedIsProcessing
  <1>2. CASE Recover(t)
    BY <1>2 DEF Recover, RecoverRows
  <1>3. CASE ClaimJob(t)
    BY <1>3 DEF ClaimJob, ClaimRow
  <1>4. CASE SetViolation(t) \/ MarkDone(t) \/ WriteRetry(t) \/ Defer(t)
    BY <1>1, <1>4 DEF SetViolation, MarkDone, WriteRetry, Defer, SetRowViolation,
       MarkRowDone, RetryRow, DeferRow, HoldingPC
  <1>5. CASE ~(\/ Recover(t) \/ ClaimJob(t) \/ SetViolation(t) \/ MarkDone(t)
               \/ WriteRetry(t) \/ Defer(t))
    BY <1>5 DEF WorkerStep, WorkerFault, BeginRecovery, SelectJob, Record, Execute,
       ReadAttempts, RecoverFails, ClaimFails, ProcessFails, SettleFails, storeVars
  <1>6. QED
    BY <1>2, <1>3, <1>4, <1>5

(* Whatever is still running when a job is done or failed leaves its row as it
   is.                                                                      *)
THEOREM DoneStaysDone == Spec => TerminalIsFinal
  <1>1. IInv /\ [Next]_vars =>
            [overlap \/ \A k \in Key :
                 row[k].status \in {"done", "failed"} => row'[k] = row[k]]_vars
    <2> SUFFICES ASSUME IInv, [Next]_vars, ~overlap,
                        NEW k \in Key, row[k].status \in {"done", "failed"}
                 PROVE  row'[k] = row[k]
      OBVIOUS
    <2>1. CASE WorkersNext
      BY <2>1, WorkerKeepsTerminal DEF IInv, WorkersNext
    <2>2. CASE ~WorkersNext
      BY <2>2, QuietRows DEF Next, IInv
    <2>3. QED
      BY <2>1, <2>2
  <1>2. QED
    BY <1>1, Inductive, PTL DEF Spec, TerminalIsFinal
=============================================================================
