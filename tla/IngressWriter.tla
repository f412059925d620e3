---------------------------- MODULE IngressWriter ----------------------------
(***************************************************************************)
(* runtime/violation_ingress_writer.py: the bounded memory queue in front  *)
(* of the outbox and the single task that writes it to SQLite.             *)
(*                                                                         *)
(* writer[i] is the writer task of plugin instance i together with the     *)
(* asyncio.to_thread call it awaits.  Cancelling a task does not stop a    *)
(* call that a thread has begun: the writer of an instance that has shut   *)
(* down may therefore still be in "select" or "insert".                    *)
(***************************************************************************)
EXTENDS OutboxStore, PluginLifecycle, Sequences

CONSTANTS NoKey,              \* the task holds no entry
          TimeoutErrorIsBuiltin  \* asyncio.TimeoutError is TimeoutError (Python >= 3.11)

ASSUME IngressAssumption == /\ NoKey \notin Key
                            /\ TimeoutErrorIsBuiltin \in BOOLEAN

VARIABLES
    queue,         \* _queue: entries accepted and not yet taken by the writer
    pendingKeys,   \* _pending_keys: entries in the queue or in the writer's hand
    writer,        \* writer[i]: the writer task of instance i
    dropped        \* counter violation_job.ingress.dropped.total

ingressVars == <<queue, pendingKeys, writer, dropped>>

Writer == [pc: {"off", "get"}, key: {NoKey}, failures: {0}]
          \cup [pc: {"select", "insert", "sleep"}, key: Key,
                failures: 0 .. MaxAttempts - 1]

WriterOff     == [pc |-> "off", key |-> NoKey, failures |-> 0]
WriterWaiting == [pc |-> "get", key |-> NoKey, failures |-> 0]

(* The task is still scheduled, rather than a thread left over from one. *)
WriterLive(i) == i = cur /\ phase # "stopped"

-----------------------------------------------------------------------------
(* try_enqueue: the part between the closed check and the metrics. *)
TryEnqueue(k) ==
    IF k \notin pendingKeys /\ Len(queue) < MaxPending
    THEN /\ queue' = Append(queue, k)
         /\ pendingKeys' = pendingKeys \cup {k}
    ELSE UNCHANGED <<queue, pendingKeys>>

StartWriter ==
    writer' = IF writer[cur].pc = "off"
              THEN [writer EXCEPT ![cur] = WriterWaiting]
              ELSE writer

-----------------------------------------------------------------------------
(* _writer_loop and _persist. *)

TakeEntry(i) ==
    /\ WriterLive(i)
    /\ writer[i].pc = "get"
    /\ queue # <<>>
    /\ writer' = [writer EXCEPT ![i] = [pc |-> "select", key |-> Head(queue),
                                        failures |-> 0]]
    /\ queue' = Tail(queue)
    /\ UNCHANGED <<pendingKeys, dropped, storeVars, faults>>

(* Mutant: the key of a finished entry is not forgotten. *)
FinishEntryKeepsKey(i) ==
    /\ writer' = [writer EXCEPT ![i] = IF WriterLive(i) THEN WriterWaiting ELSE WriterOff]
    /\ UNCHANGED pendingKeys

(* The finally clause: whatever became of the entry, its key is forgotten. A
   cancelled task has already run it; only its thread is left to end.       *)
FinishEntry(i) ==
    IF WriterLive(i)
    THEN /\ writer' = [writer EXCEPT ![i] = WriterWaiting]
         /\ pendingKeys' = pendingKeys \ {writer[i].key}
    ELSE /\ writer' = [writer EXCEPT ![i] = WriterOff]
         /\ UNCHANGED pendingKeys

(* enqueue_violation_outbox, the two SELECTs: duplicate and backpressure end
   the entry, otherwise the INSERT follows.                                 *)
CheckEntry(i) ==
    /\ writer[i].pc = "select"
    /\ IF writer[i].key \in Persisted \/ OutboxFull
       THEN FinishEntry(i)
       ELSE /\ writer' = [writer EXCEPT ![i].pc = "insert"]
            /\ UNCHANGED pendingKeys
    /\ UNCHANGED <<queue, dropped, storeVars, faults>>

(* The INSERT; an IntegrityError on the key is reported as a duplicate. *)
InsertEntry(i) ==
    /\ writer[i].pc = "insert"
    /\ IF writer[i].key \in Persisted THEN UNCHANGED row ELSE Insert(writer[i].key)
    /\ FinishEntry(i)
    /\ UNCHANGED <<queue, dropped, audit, faults>>

(* Mutant: the first error ends the entry. *)
WriteFailsOnce(i) ==
    /\ writer[i].pc \in {"select", "insert"}
    /\ Fault
    /\ FinishEntry(i)
    /\ UNCHANGED <<queue, dropped, storeVars>>

(* The call raises: back off and try again, or give the entry up. *)
WriteFails(i) ==
    /\ writer[i].pc \in {"select", "insert"}
    /\ Fault
    /\ IF WriterLive(i) /\ writer[i].failures + 1 < MaxAttempts
       THEN /\ writer' = [writer EXCEPT ![i].pc = "sleep", ![i].failures = @ + 1]
            /\ UNCHANGED pendingKeys
       ELSE FinishEntry(i)
    /\ UNCHANGED <<queue, dropped, storeVars>>

RetryWrite(i) ==
    /\ WriterLive(i)
    /\ writer[i].pc = "sleep"
    /\ writer' = [writer EXCEPT ![i].pc = "select"]
    /\ UNCHANGED <<queue, pendingKeys, dropped, storeVars, faults>>

WriterStep(i) == TakeEntry(i) \/ CheckEntry(i) \/ InsertEntry(i) \/ RetryWrite(i)

-----------------------------------------------------------------------------
(* shutdown, once the instance is closed. *)

(* queue.join() returns: no entry in the queue, none in the writer's hand. *)
Drained == queue = <<>> /\ writer[cur].pc = "get"

(* task.cancel(): the thread of a call in flight may go on without its task. *)
CancelWriter ==
    \/ writer' = [writer EXCEPT ![cur] = WriterOff]
    \/ writer[cur].pc \in {"select", "insert"} /\ UNCHANGED writer

(* Mutant: shutdown() does not count the entries still in the queue. *)
DroppedByTimeoutInHand == IF writer[cur].pc = "get" THEN 0 ELSE 1

(* Entries dropped according to the counter: those still pending when the
   drain times out and, in the CancelledError handler, the one in hand.     *)
DroppedByTimeout ==
    Cardinality(pendingKeys) + (IF writer[cur].pc = "get" THEN 0 ELSE 1)

IngressTypeOK == /\ queue \in Seq(Key)
                 /\ pendingKeys \subseteq Key
                 /\ writer \in [Instance -> Writer]
                 /\ dropped \in Nat

IngressInit == /\ queue = <<>>
               /\ pendingKeys = {}
               /\ writer = [i \in Instance |-> WriterOff]
               /\ dropped = 0
=============================================================================
