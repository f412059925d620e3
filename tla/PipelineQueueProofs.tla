------------------------- MODULE PipelineQueueProofs -------------------------
(***************************************************************************)
(* The bounds and the bookkeeping of ViolationPipeline: the memory queue   *)
(* of the ingress writer, the limit of the outbox, the counters, and the   *)
(* refinement of OutboxContract.  Everything rests on the invariant IInv   *)
(* of PipelineSafetyProofs.                                                *)
(***************************************************************************)
EXTENDS PipelineSafetyProofs, SequenceTheorems

-----------------------------------------------------------------------------
(* The ingress writer. *)

(* An instance that was not loaded yet has no writer task. *)
LaterWritersOff == \A i \in Instance : i > cur => writer[i].pc = "off"

(* The pending keys do not outlive shutdown(). *)
StoppedForgets == phase = "stopped" => pendingKeys = {}

(* shutdown() waits for the queue only where there is a writer to drain it. *)
DrainingHasWriter == phase = "draining" => writer[cur].pc # "off"

QueueInv == /\ LaterWritersOff
            /\ StoppedForgets
            /\ DrainingHasWriter
            /\ PendingKeysExact

Queued == {queue[i] : i \in 1 .. Len(queue)}

NothingTwice == \A i, j \in 1 .. Len(queue) : queue[i] = queue[j] => i = j

(* A writer has a key in hand just while it writes one. *)
LEMMA WriterFields ==
    ASSUME TypeOK, NEW i \in Instance
    PROVE  /\ writer[i].pc \in {"off", "get"} => writer[i].key = NoKey
           /\ writer[i].pc \notin {"off", "get"}
                => /\ writer[i].pc \in {"select", "insert", "sleep"}
                   /\ writer[i].key \in Key /\ writer[i].key # NoKey
                   /\ writer[i].failures \in Nat
  BY IngressAssumption DEF TypeOK, IngressTypeOK, Writer

(* A writer that is off or waits has nothing in hand. *)
LEMMA WaitingFields ==
    /\ WriterOff.pc = "off" /\ WriterOff.key = NoKey
    /\ WriterWaiting.pc = "get" /\ WriterWaiting.key = NoKey
  BY DEF WriterOff, WriterWaiting

(* The three ways in which the writer moves: it takes the next entry, goes on
   with the one it has, or finishes it.                                     *)
GoesOn(i) == /\ writer'[i].pc \in {"select", "insert", "sleep"}
             /\ writer'[i].key = writer[i].key
             /\ UNCHANGED <<queue, pendingKeys>>

Finishes(i) == /\ UNCHANGED queue
               /\ \/ /\ WriterLive(i)
                     /\ writer'[i].pc = "get" /\ writer'[i].key = NoKey
                     /\ pendingKeys' = pendingKeys \ {writer[i].key}
                  \/ /\ ~WriterLive(i)
                     /\ writer'[i].pc = "off" /\ writer'[i].key = NoKey
                     /\ UNCHANGED pendingKeys

(* Finishing an entry empties the hands of that writer and of no other. *)
LEMMA FinishFields ==
    ASSUME TypeOK, NEW i \in Instance, FinishEntry(i), UNCHANGED queue
    PROVE  Finishes(i) /\ \A j \in Instance \ {i} : writer'[j] = writer[j]
  BY WaitingFields DEF TypeOK, IngressTypeOK, FinishEntry, Finishes

(* A writer's step takes an entry, goes on with it, or finishes it. *)
LEMMA WriterMoves ==
    ASSUME TypeOK, NEW i \in Instance, WriterStep(i) \/ WriteFails(i)
    PROVE  /\ \A j \in Instance \ {i} : writer'[j] = writer[j]
           /\ UNCHANGED dropped
           /\ \/ TakeEntry(i)
              \/ /\ writer[i].pc \in {"select", "insert", "sleep"}
                 /\ GoesOn(i) \/ Finishes(i)
  <1> USE DEF TypeOK, IngressTypeOK
  <1>1. CASE TakeEntry(i)
    BY <1>1 DEF TakeEntry
  <1>2. CASE RetryWrite(i)
    BY <1>2 DEF RetryWrite, GoesOn
  <1>3. CASE CheckEntry(i)
    <2>1. CASE FinishEntry(i)
      BY <1>3, <2>1, FinishFields DEF CheckEntry
    <2>2. CASE ~FinishEntry(i)
      <3>1. writer' = [writer EXCEPT ![i].pc = "insert"]
        BY <1>3, <2>2 DEF CheckEntry
      <3>2. writer'[i].pc = "insert" /\ writer'[i].key = writer[i].key
        BY <3>1 DEF Writer
      <3>3. QED
        BY <1>3, <2>2, <3>1, <3>2 DEF CheckEntry, GoesOn
    <2>3. QED
      BY <2>1, <2>2
  <1>4. CASE InsertEntry(i)
    BY <1>4, FinishFields DEF InsertEntry
  <1>5. CASE WriteFails(i)
    <2>1. CASE FinishEntry(i)
      BY <1>5, <2>1, FinishFields DEF WriteFails
    <2>2. CASE ~FinishEntry(i)
      <3>1. writer' = [writer EXCEPT ![i].pc = "sleep", ![i].failures = @ + 1]
        BY <1>5, <2>2 DEF WriteFails
      <3>2. writer'[i].pc = "sleep" /\ writer'[i].key = writer[i].key
        BY <3>1 DEF Writer
      <3>3. QED
        BY <1>5, <2>2, <3>1, <3>2 DEF WriteFails, GoesOn
    <2>3. QED
      BY <2>1, <2>2
  <1>6. QED
    BY <1>1, <1>2, <1>3, <1>4, <1>5 DEF WriterStep

(* Taking the first entry out of the queue. *)
LEMMA TakenFromQueue ==
    ASSUME queue \in Seq(Key), queue # <<>>, queue' = Tail(queue), NothingTwice
    PROVE  /\ Queued = Queued' \cup {Head(queue)}
           /\ Head(queue) \notin Queued'
           /\ NothingTwice'
  <1>1. /\ Len(queue) \in Nat \ {0} /\ Len(queue') = Len(queue) - 1
        /\ \A i \in 1 .. Len(queue') : queue'[i] = queue[i + 1]
        /\ Head(queue) = queue[1]
    BY HeadTailProperties, EmptySeq, LenProperties
  <1>2. Queued = Queued' \cup {Head(queue)}
    <2>1. \A i \in 1 .. Len(queue) : i = 1 \/ (i - 1 \in 1 .. Len(queue') /\ queue[i] = queue'[i - 1])
      BY <1>1
    <2>2. \A i \in 1 .. Len(queue') : i + 1 \in 1 .. Len(queue) /\ queue[i + 1] = queue'[i]
      BY <1>1
    <2>3. 1 \in 1 .. Len(queue)
      BY <1>1
    <2>4. ASSUME NEW k \in Queued PROVE k \in Queued' \cup {Head(queue)}
      <3>1. PICK i \in 1 .. Len(queue) : k = queue[i]
        BY DEF Queued
      <3>2. CASE i = 1
        BY <1>1, <3>1, <3>2
      <3>3. CASE i # 1
        <4>1. i - 1 \in 1 .. Len(queue') /\ k = queue'[i - 1]
          BY <2>1, <3>1, <3>3
        <4>2. QED
          BY <4>1 DEF Queued
      <3>4. QED
        BY <3>2, <3>3
    <2>5. Queued' \cup {Head(queue)} \subseteq Queued
      BY <1>1, <2>2, <2>3 DEF Queued
    <2>6. QED
      BY <2>4, <2>5
  <1>3. Head(queue) \notin Queued'
    <2>1. \A i \in 1 .. Len(queue') : queue[i + 1] # queue[1]
      BY <1>1 DEF NothingTwice
    <2>2. QED
      BY <1>1, <2>1 DEF Queued
  <1>4. NothingTwice'
    <2>1. ASSUME NEW i \in 1 .. Len(queue'), NEW j \in 1 .. Len(queue'), queue'[i] = queue'[j]
          PROVE  i = j
      <3>1. i + 1 \in 1 .. Len(queue) /\ j + 1 \in 1 .. Len(queue)
        BY <1>1
      <3>2. queue[i + 1] = queue[j + 1]
        BY <1>1, <2>1
      <3>3. i + 1 = j + 1
        BY <3>1, <3>2 DEF NothingTwice
      <3>4. QED
        BY <3>3
    <2>2. QED
      BY <2>1 DEF NothingTwice
  <1>5. QED
    BY <1>2, <1>3, <1>4

(* Putting a new entry behind the others. *)
LEMMA AddedToQueue ==
    ASSUME NEW k \in Key, queue \in Seq(Key), queue' = Append(queue, k),
           NothingTwice, k \notin Queued
    PROVE  Queued' = Queued \cup {k} /\ NothingTwice'
  <1>1. /\ Len(queue) \in Nat /\ Len(queue') = Len(queue) + 1
        /\ \A i \in 1 .. Len(queue) : queue'[i] = queue[i]
        /\ queue'[Len(queue) + 1] = k
    BY AppendProperties, LenProperties
  <1>2. 1 .. Len(queue') = (1 .. Len(queue)) \cup {Len(queue) + 1}
    BY <1>1
  <1>3. Queued' = Queued \cup {k}
    BY <1>1, <1>2 DEF Queued
  <1>4. NothingTwice'
    <2>1. \A i \in 1 .. Len(queue) : queue[i] # k
      BY DEF Queued
    <2>2. QED
      BY <1>1, <1>2, <2>1 DEF NothingTwice
  <1>5. QED
    BY <1>3, <1>4

-----------------------------------------------------------------------------
(* The queue and the pending keys, step by step. *)

(* PendingKeysExact, spelt out before and after a step. *)
LEMMA QueueFacts ==
    /\ PendingKeysExact <=> (phase # "stopped" => /\ pendingKeys = Queued \cup InHand
                                                  /\ Queued \cap InHand = {}
                                                  /\ NothingTwice)
    /\ PendingKeysExact' <=> (phase' # "stopped" => /\ pendingKeys' = Queued' \cup InHand'
                                                    /\ Queued' \cap InHand' = {}
                                                    /\ NothingTwice')
  BY DEF PendingKeysExact, Queued, NothingTwice

(* The writers' steps keep the queue's invariant. *)
LEMMA QueueIngress ==
    ASSUME TypeOK, QueueInv, IngressNext
    PROVE  QueueInv'
  <1>1. PICK i \in Instance : WriterStep(i) \/ WriteFails(i)
    BY DEF IngressNext
  <1>2. /\ \A j \in Instance \ {i} : writer'[j] = writer[j]
        /\ \/ TakeEntry(i)
           \/ /\ writer[i].pc \in {"select", "insert", "sleep"}
              /\ GoesOn(i) \/ Finishes(i)
    BY <1>1, WriterMoves
  <1>3. UNCHANGED <<cur, phase>> /\ cur \in Instance /\ (i > cur => writer[i].pc = "off")
    BY DEF IngressNext, QueueInv, LaterWritersOff, TypeOK, LifecycleTypeOK
  <1>4. cur \in Nat /\ i \in Nat /\ Instance' = Instance
    BY <1>3 DEF Instance
  <1>5. CASE TakeEntry(i)
    <2>1. /\ i = cur /\ phase # "stopped" /\ writer[i].pc = "get"
          /\ queue # <<>> /\ queue' = Tail(queue) /\ UNCHANGED pendingKeys
          /\ writer'[i].pc = "select" /\ writer'[i].key = Head(queue)
      BY <1>5 DEF TakeEntry, WriterLive, TypeOK, IngressTypeOK
    <2>2. queue \in Seq(Key) /\ Head(queue) \in Key
      BY <2>1 DEF TypeOK, IngressTypeOK
    <2>3. InHand = {} /\ InHand' = {Head(queue)}
      BY <1>3, <2>1, <2>2, WriterFields, IngressAssumption DEF InHand
    <2>4. pendingKeys = Queued /\ NothingTwice
      BY <2>1, <2>3, QueueFacts DEF QueueInv
    <2>5. /\ Queued = Queued' \cup {Head(queue)}
          /\ Head(queue) \notin Queued' /\ NothingTwice'
      BY <2>1, <2>2, <2>4, TakenFromQueue
    <2>6. PendingKeysExact'
      BY <2>1, <2>3, <2>4, <2>5, QueueFacts
    <2>7. LaterWritersOff' /\ StoppedForgets' /\ DrainingHasWriter'
      BY <1>2, <1>3, <1>4, <2>1
      DEF QueueInv, LaterWritersOff, StoppedForgets, DrainingHasWriter
    <2>8. QED
      BY <2>6, <2>7 DEF QueueInv
  <1>6. CASE writer[i].pc \in {"select", "insert", "sleep"} /\ (GoesOn(i) \/ Finishes(i))
    <2>1. ~(i > cur)
      BY <1>3, <1>6
    <2>2. LaterWritersOff'
      BY <1>2, <1>3, <1>4, <2>1 DEF QueueInv, LaterWritersOff
    <2>3. StoppedForgets'
      BY <1>3, <1>6 DEF QueueInv, StoppedForgets, GoesOn, Finishes, WriterLive
    <2>4. DrainingHasWriter'
      BY <1>2, <1>3, <1>6
      DEF QueueInv, DrainingHasWriter, GoesOn, Finishes, WriterLive
    <2>5. UNCHANGED queue
      BY <1>6 DEF GoesOn, Finishes
    <2>6. Queued' = Queued /\ (NothingTwice' <=> NothingTwice)
      BY <2>5 DEF Queued, NothingTwice
    <2>7. PendingKeysExact'
      <3>1. CASE i # cur \/ GoesOn(i)
        <4>1. InHand' = InHand /\ UNCHANGED pendingKeys
          BY <1>2, <1>3, <1>6, <3>1 DEF InHand, GoesOn, Finishes, WriterLive
        <4>2. QED
          BY <1>3, <2>6, <4>1, QueueFacts DEF QueueInv
      <3>2. CASE i = cur /\ Finishes(i)
        <4>1. InHand = {writer[i].key} /\ InHand' = {}
          BY <1>3, <1>6, <3>2, WriterFields DEF InHand, Finishes
        <4>2. phase # "stopped" => pendingKeys' = pendingKeys \ {writer[i].key}
          BY <3>2 DEF Finishes, WriterLive
        <4>3. QED
          BY <1>3, <2>6, <4>1, <4>2, QueueFacts DEF QueueInv
      <3>3. QED
        BY <1>6, <3>1, <3>2
    <2>8. QED
      BY <2>2, <2>3, <2>4, <2>7 DEF QueueInv
  <1>7. QED
    BY <1>2, <1>5, <1>6

(* Starting the tasks starts at most the current writer, empty-handed. *)
LEMMA StartWriterEffect ==
    ASSUME TypeOK, StartTasks
    PROVE  /\ \A i \in Instance \ {cur} : writer'[i] = writer[i]
           /\ writer'[cur].key = writer[cur].key
           /\ closed => writer' = writer
  <1>1. cur \in Instance
    BY DEF TypeOK, LifecycleTypeOK
  <1>2. \A i \in Instance \ {cur} : writer'[i] = writer[i]
    BY DEF StartTasks, StartWriter, TypeOK, IngressTypeOK
  <1>3. writer'[cur].key = writer[cur].key
    <2>1. writer' = writer \/ (writer[cur].pc = "off" /\ writer'[cur] = WriterWaiting)
      BY <1>1 DEF StartTasks, StartWriter, TypeOK, IngressTypeOK
    <2>2. QED
      BY <1>1, <2>1, WriterFields, WaitingFields
  <1>4. closed => writer' = writer
    BY DEF StartTasks
  <1>5. QED
    BY <1>2, <1>3, <1>4

(* A message that arrives keeps the queue's invariant. *)
LEMMA QueueMessage ==
    ASSUME TypeOK, QueueInv,
           \/ \E k \in Key : MatchedMessage(k)
           \/ \E p \in Platform : OtherMessage(p)
    PROVE  QueueInv'
  <1>1. /\ StartTasks /\ UNCHANGED <<cur, phase>> /\ cur \in Instance
        /\ \/ UNCHANGED <<queue, pendingKeys>>
           \/ ~closed /\ \E k \in Key : TryEnqueue(k)
    BY DEF MatchedMessage, OtherMessage, TypeOK, LifecycleTypeOK, lifecycleVars
  <1>2. cur \in Nat /\ Instance' = Instance /\ (\A i \in Instance : i > cur => i # cur)
    BY <1>1 DEF Instance
  <1>3. /\ \A i \in Instance \ {cur} : writer'[i] = writer[i]
        /\ writer'[cur].key = writer[cur].key
        /\ closed => writer' = writer
    BY <1>1, StartWriterEffect
  <1>4. LaterWritersOff'
    BY <1>1, <1>2, <1>3 DEF QueueInv, LaterWritersOff
  <1>5. StoppedForgets' /\ DrainingHasWriter'
    BY <1>1, <1>3 DEF QueueInv, StoppedForgets, DrainingHasWriter, closed
  <1>6. InHand' = InHand
    BY <1>1, <1>3 DEF InHand
  <1>7. PendingKeysExact'
    <2>1. CASE UNCHANGED <<queue, pendingKeys>>
      <3>1. Queued' = Queued /\ (NothingTwice' <=> NothingTwice)
        BY <2>1 DEF Queued, NothingTwice
      <3>2. QED
        BY <1>1, <1>6, <2>1, <3>1, QueueFacts DEF QueueInv
    <2>2. ASSUME ~closed, NEW k \in Key, TryEnqueue(k), ~UNCHANGED <<queue, pendingKeys>>
          PROVE  PendingKeysExact'
      <3>1. /\ k \notin pendingKeys /\ queue' = Append(queue, k)
            /\ pendingKeys' = pendingKeys \cup {k} /\ queue \in Seq(Key)
        BY <2>2 DEF TryEnqueue, TypeOK, IngressTypeOK
      <3>2. pendingKeys = Queued \cup InHand /\ Queued \cap InHand = {} /\ NothingTwice
        BY <2>2, QueueFacts DEF QueueInv, closed
      <3>3. k \notin Queued /\ k \notin InHand
        BY <3>1, <3>2
      <3>4. Queued' = Queued \cup {k} /\ NothingTwice'
        BY <3>1, <3>2, <3>3, AddedToQueue
      <3>5. QED
        BY <1>6, <3>1, <3>2, <3>3, <3>4, QueueFacts
    <2>3. QED
      BY <1>1, <2>1, <2>2
  <1>8. QED
    BY <1>4, <1>5, <1>7 DEF QueueInv

(* Steps that do not reach the queue keep its invariant. *)
LEMMA QueueOther ==
    ASSUME TypeOK, QueueInv,
           \/ WorkersNext \/ TimePasses
           \/ BeginShutdown \/ Drain \/ DrainTimesOut
           \/ ProcessRestart \/ HotReload \/ UNCHANGED vars
    PROVE  QueueInv'
  <1>0. /\ cur \in Instance /\ cur \in Nat /\ Instance' = Instance
        /\ \A i \in Instance : i \in Nat
    BY DEF TypeOK, LifecycleTypeOK, Instance
  <1>1. CASE UNCHANGED <<queue, pendingKeys, writer, cur, phase>>
    <2>1. /\ Queued' = Queued /\ (NothingTwice' <=> NothingTwice) /\ InHand' = InHand
          /\ (PendingKeysExact' <=> PendingKeysExact)
      BY <1>1, QueueFacts DEF Queued, NothingTwice, InHand
    <2>2. QED
      BY <1>0, <1>1, <2>1
      DEF QueueInv, LaterWritersOff, StoppedForgets, DrainingHasWriter
  <1>2. CASE /\ phase' = "stopped" /\ pendingKeys' = {} /\ UNCHANGED cur
             /\ \A i \in Instance : i # cur => writer'[i] = writer[i]
    <2>1. LaterWritersOff'
      BY <1>0, <1>2 DEF QueueInv, LaterWritersOff
    <2>2. QED
      BY <1>2, <2>1, QueueFacts DEF QueueInv, StoppedForgets, DrainingHasWriter
  <1>3. CASE /\ phase' = "open" /\ queue' = <<>> /\ pendingKeys' = {}
             /\ writer'[cur'].key = NoKey /\ LaterWritersOff'
    <2>1. Queued' = {} /\ NothingTwice'
      BY <1>3 DEF Queued, NothingTwice
    <2>2. InHand' = {}
      BY <1>3 DEF InHand
    <2>3. QED
      BY <1>3, <2>1, <2>2, QueueFacts DEF QueueInv, StoppedForgets, DrainingHasWriter
  <1>4. CASE WorkersNext \/ TimePasses \/ UNCHANGED vars
    BY <1>1, <1>4 DEF WorkersNext, TimePasses, vars, ingressVars, lifecycleVars
  <1>5. CASE BeginShutdown
    <2>1. CASE writer[cur].pc = "off"
      BY <1>2, <1>5, <2>1 DEF BeginShutdown
    <2>2. CASE writer[cur].pc # "off"
      <3>1. phase = "open" /\ phase' = "draining" /\ UNCHANGED <<cur, writer, queue, pendingKeys>>
        BY <1>5, <2>2 DEF BeginShutdown
      <3>2. Queued' = Queued /\ (NothingTwice' <=> NothingTwice) /\ InHand' = InHand
        BY <3>1 DEF Queued, NothingTwice, InHand
      <3>3. PendingKeysExact'
        BY <3>1, <3>2, QueueFacts DEF QueueInv
      <3>4. QED
        BY <1>0, <2>2, <3>1, <3>3
        DEF QueueInv, LaterWritersOff, StoppedForgets, DrainingHasWriter
    <2>3. QED
      BY <2>1, <2>2
  <1>6. CASE Drain
    BY <1>2, <1>6, CancelEffect DEF Drain
  <1>7. CASE DrainTimesOut
    <2>1. CASE TimeoutErrorIsBuiltin
      BY <1>2, <1>7, <2>1, CancelEffect DEF DrainTimesOut
    <2>2. CASE ~TimeoutErrorIsBuiltin
      <3>1. phase = "draining" /\ phase' = "raised" /\ UNCHANGED <<cur, writer, queue, pendingKeys>>
        BY <1>7, <2>2 DEF DrainTimesOut
      <3>2. Queued' = Queued /\ (NothingTwice' <=> NothingTwice) /\ InHand' = InHand
        BY <3>1 DEF Queued, NothingTwice, InHand
      <3>3. PendingKeysExact'
        BY <3>1, <3>2, QueueFacts DEF QueueInv
      <3>4. QED
        BY <1>0, <3>1, <3>3
        DEF QueueInv, LaterWritersOff, StoppedForgets, DrainingHasWriter
    <2>3. QED
      BY <2>1, <2>2
  <1>8. CASE ProcessRestart
    <2>1. \A i \in Instance : writer'[i].pc = "off" /\ writer'[i].key = NoKey
      BY <1>8, WaitingFields DEF ProcessRestart
    <2>2. QED
      BY <1>0, <1>3, <1>8, <2>1 DEF ProcessRestart, FreshMemory, LaterWritersOff
  <1>9. CASE HotReload
    <2>1. cur' \in Instance /\ cur' = cur + 1 /\ UNCHANGED writer
      BY <1>0, <1>9, LifecycleAssumption DEF HotReload, Instance
    <2>2. writer[cur'].pc = "off" /\ writer[cur'].key = NoKey
      BY <1>0, <2>1, WriterFields DEF QueueInv, LaterWritersOff
    <2>3. LaterWritersOff'
      BY <1>0, <2>1 DEF QueueInv, LaterWritersOff
    <2>4. QED
      BY <1>3, <1>9, <2>1, <2>2, <2>3 DEF HotReload, FreshMemory
  <1>10. QED
    BY <1>4, <1>5, <1>6, <1>7, <1>8, <1>9

(* The queue's invariant holds at first. *)
LEMMA QueueInit == Init => QueueInv
  <1> SUFFICES ASSUME Init PROVE QueueInv
    OBVIOUS
  <1>1. queue = <<>> /\ pendingKeys = {} /\ phase = "open"
    BY DEF Init, IngressInit, LifecycleInit
  <1>2. cur \in Instance /\ \A i \in Instance : writer[i].pc = "off" /\ writer[i].key = NoKey
    BY LifecycleAssumption, WaitingFields DEF Init, IngressInit, LifecycleInit, Instance
  <1>3. Queued = {} /\ NothingTwice /\ InHand = {}
    BY <1>1, <1>2 DEF Queued, NothingTwice, InHand
  <1>4. QED
    BY <1>1, <1>2, <1>3, QueueFacts
    DEF QueueInv, LaterWritersOff, StoppedForgets, DrainingHasWriter

(* Every step keeps the queue's invariant. *)
LEMMA QueueStep == TypeOK /\ QueueInv /\ [Next]_vars => QueueInv'
  BY QueueIngress, QueueMessage, QueueOther DEF Next

(* The queue's invariant holds always. *)
LEMMA QueueInductive == Spec => [](IInv /\ QueueInv)
  <1>1. Init => IInv /\ QueueInv
    BY IInvInit, QueueInit
  <1>2. IInv /\ QueueInv /\ [Next]_vars => (IInv /\ QueueInv)'
    BY IInvStep, QueueStep DEF IInv
  <1>3. QED
    BY <1>1, <1>2, PTL DEF Spec

(* The deduplication set of the ingress writer holds exactly the entries in the
   queue and in the hand of the writer task.                                *)
THEOREM PendingKeysAreExact == Spec => []PendingKeysExact
  <1>1. QueueInv => PendingKeysExact
    BY DEF QueueInv
  <1>2. QED
    BY <1>1, QueueInductive, PTL

-----------------------------------------------------------------------------
(* What leaves the memory, and what the shutdown counts. *)

(* The writer forgets a key only with the entry it has settled. *)
LEMMA WriterForgets ==
    ASSUME TypeOK, NEW i \in Instance, WriterStep(i) \/ WriteFails(i),
           NEW k \in pendingKeys \ pendingKeys'
    PROVE  \/ k \in Persisted'
           \/ OutboxFull
           \/ writer[cur].failures + 1 >= MaxAttempts
  <1>1. /\ UNCHANGED pendingKeys \/ (WriterLive(i) /\ pendingKeys' = pendingKeys \ {writer[i].key})
        /\ FinishEntry(i)
    BY DEF WriterStep, WriteFails, TakeEntry, CheckEntry, InsertEntry, RetryWrite, FinishEntry
  <1>2. i = cur /\ k = writer[i].key /\ WriterLive(i) /\ k \in Key
    BY <1>1 DEF WriterLive, TypeOK, IngressTypeOK
  <1>3. CASE CheckEntry(i)
    <2>1. writer'[i].pc = "get"
      BY <1>1, <1>2, WaitingFields DEF FinishEntry, TypeOK, IngressTypeOK
    <2>2. writer[i].key \in Persisted \/ OutboxFull
      <3>1. [writer EXCEPT ![i].pc = "insert"][i].pc = "insert"
        BY DEF TypeOK, IngressTypeOK, Writer
      <3>2. QED
        BY <1>3, <2>1, <3>1 DEF CheckEntry
    <2>3. Persisted' = Persisted
      BY <1>3 DEF CheckEntry, storeVars, Persisted
    <2>4. QED
      BY <1>2, <2>2, <2>3
  <1>4. CASE InsertEntry(i)
    <2>1. row'[k].status # "absent"
      BY <1>2, <1>4 DEF InsertEntry, Insert, Persisted, TypeOK, StoreTypeOK
    <2>2. QED
      BY <1>2, <2>1 DEF Persisted
  <1>5. CASE WriteFails(i)
    <2>1. writer[i].failures \in Nat
      BY <1>2, <1>5, WriterFields DEF WriteFails
    <2>2. ~(writer[i].failures + 1 < MaxAttempts)
      BY <1>2, <1>5 DEF WriteFails
    <2>3. QED
      BY <1>2, <2>1, <2>2, StoreAssumption
  <1>6. CASE TakeEntry(i) \/ RetryWrite(i)
    BY <1>6 DEF TakeEntry, RetryWrite
  <1>7. QED
    BY <1>3, <1>4, <1>5, <1>6 DEF WriterStep

(* An accepted message is not forgotten before it is in the outbox, refused by
   a full outbox or given up, as long as its instance runs.                 *)
THEOREM AcceptedIsSettled == Spec => AcceptedUntilSettled
  <1>1. IInv /\ QueueInv /\ [Next]_vars =>
            [\A k \in pendingKeys \ pendingKeys' :
                \/ k \in Persisted'
                \/ OutboxFull
                \/ writer[cur].failures + 1 >= MaxAttempts
                \/ writer'[cur].pc = "off"
                \/ phase' = "stopped"]_vars
    <2> SUFFICES ASSUME TypeOK, QueueInv, [Next]_vars, NEW k \in pendingKeys \ pendingKeys'
                 PROVE  \/ k \in Persisted'
                        \/ OutboxFull
                        \/ writer[cur].failures + 1 >= MaxAttempts
                        \/ writer'[cur].pc = "off"
                        \/ phase' = "stopped"
      BY DEF IInv
    <2>1. CASE IngressNext
      BY <2>1, WriterForgets DEF IngressNext
    <2>2. CASE BeginShutdown \/ Drain \/ DrainTimesOut
      BY <2>2 DEF BeginShutdown, Drain, DrainTimesOut
    <2>3. CASE ProcessRestart
      BY <2>3, WaitingFields DEF ProcessRestart, TypeOK, LifecycleTypeOK
    <2>4. CASE HotReload
      BY <2>4 DEF HotReload, QueueInv, StoppedForgets
    <2>5. CASE \/ \E j \in Key : MatchedMessage(j)
               \/ \E p \in Platform : OtherMessage(p)
               \/ WorkersNext \/ TimePasses \/ UNCHANGED vars
      BY <2>5 DEF MatchedMessage, TryEnqueue, OtherMessage, WorkersNext, TimePasses,
         ingressVars, vars
    <2>6. QED
      BY <2>1, <2>2, <2>3, <2>4, <2>5 DEF Next
  <1>2. QED
    BY <1>1, QueueInductive, PTL DEF Spec, AcceptedUntilSettled

(* The counter of dropped messages rises with a shutdown by at least the number
   of accepted messages that are not in the outbox, and by at most one more
   than were pending.                                                       *)
THEOREM NoSilentLoss == Spec => LossIsCounted
  <1>1. IInv /\ QueueInv /\ [Next]_vars =>
            [phase = "draining" /\ phase' = "stopped" =>
                dropped' - dropped \in Cardinality(pendingKeys \ Persisted)
                                       .. Cardinality(pendingKeys) + Cardinality(InHand)]_vars
    <2> SUFFICES ASSUME TypeOK, QueueInv, [Next]_vars, phase = "draining", phase' = "stopped"
                 PROVE  dropped' - dropped
                          \in Cardinality(pendingKeys \ Persisted)
                              .. Cardinality(pendingKeys) + Cardinality(InHand)
      BY DEF IInv
    <2> DEFINE pending == Cardinality(pendingKeys)
               unsaved == Cardinality(pendingKeys \ Persisted)
               inHand  == Cardinality(InHand)
    <2>1. /\ pendingKeys \subseteq Key /\ dropped \in Nat /\ cur \in Instance
          /\ pendingKeys = Queued \cup InHand
      BY QueueFacts DEF TypeOK, IngressTypeOK, LifecycleTypeOK, QueueInv
    <2>2. IsFiniteSet(pendingKeys)
      BY <2>1, StoreAssumption, FS_Subset
    <2>3. pending \in Nat /\ unsaved \in Nat /\ unsaved <= pending
      BY <2>2, FS_Subset, FS_CardinalityType
    <2>4. inHand = IF writer[cur].pc = "get" THEN 0 ELSE 1
      <3>1. writer[cur].pc # "off"
        BY DEF QueueInv, DrainingHasWriter
      <3>2. CASE writer[cur].pc = "get"
        <4>1. InHand = {}
          BY <2>1, <3>2, WriterFields DEF InHand
        <4>2. QED
          BY <3>2, <4>1, FS_EmptySet
      <3>3. CASE writer[cur].pc # "get"
        <4>1. InHand = {writer[cur].key}
          BY <2>1, <3>1, <3>3, WriterFields DEF InHand
        <4>2. QED
          BY <3>3, <4>1, FS_Singleton
      <3>4. QED
        BY <3>2, <3>3
    <2>5. CASE Drain
      <3>1. queue = <<>> /\ writer[cur].pc = "get" /\ UNCHANGED dropped
        BY <2>5 DEF Drain, Drained
      <3>2. InHand = {} /\ Queued = {}
        BY <2>1, <3>1, WriterFields DEF InHand, Queued
      <3>3. pending = 0 /\ inHand = 0
        BY <2>1, <2>4, <3>1, <3>2, FS_EmptySet
      <3>4. QED
        BY <2>1, <2>3, <3>1, <3>3
    <2>6. CASE DrainTimesOut
      <3>1. dropped' = dropped + (pending + inHand)
        BY <2>4, <2>6 DEF DrainTimesOut, DroppedByTimeout
      <3> HIDE DEF pending, unsaved, inHand
      <3>2. dropped' - dropped \in unsaved .. (pending + inHand)
        BY <2>1, <2>3, <2>4, <3>1
      <3>3. QED
        BY <3>2 DEF pending, unsaved, inHand
    <2>7. Drain \/ DrainTimesOut
      BY DEF Next, vars, MatchedMessage, OtherMessage, IngressNext, WorkersNext, TimePasses,
         BeginShutdown, ProcessRestart, HotReload, FreshMemory, lifecycleVars
    <2>8. QED
      BY <2>5, <2>6, <2>7
  <1>2. QED
    BY <1>1, QueueInductive, PTL DEF Spec, LossIsCounted

-----------------------------------------------------------------------------
(* The limit of the outbox. *)

(* Between its count and its INSERT the writer still has the room it has seen:
   without an overlap there is one writer, and nobody else makes a row active. *)
InsertHasRoom ==
    overlap \/ \A i \in Instance :
        writer[i].pc = "insert" /\ writer[i].key \notin Persisted
            => Cardinality(Active) < MaxPending

OutboxBound == ActiveWithinLimit /\ InsertHasRoom

(* Active and persisted rows are finitely many. *)
LEMMA ActiveFinite ==
    ASSUME TypeOK
    PROVE  /\ IsFiniteSet(Active) /\ Cardinality(Active) \in Nat
           /\ IsFiniteSet(Persisted) /\ Cardinality(Persisted) \in Nat
  <1>1. Active \subseteq Key /\ Persisted \subseteq Key
    BY DEF Active, Persisted
  <1>2. QED
    BY <1>1, StoreAssumption, FS_Subset, FS_CardinalityType

(* Only the INSERT makes a row active, or puts one into the table. *)
LEMMA ActiveKept ==
    ASSUME IInv, ~overlap, [Next]_vars,
           IngressNext => UNCHANGED row
    PROVE  Active' \subseteq Active /\ Persisted' = Persisted
  <1>1. \A k \in Key : row[k].status \in Status /\ row'[k].status \in Status
    BY IInvStep DEF IInv, TypeOK, StoreTypeOK, Row
  <1>2. CASE WorkersNext
    <2>1. PICK t \in Task : WorkerStep(t) \/ WorkerFault(t)
      BY <1>2 DEF WorkersNext
    <2>2. \A k \in Key : row'[k].status = "absent" <=> row[k].status = "absent"
      BY <2>1, WorkerEvidence DEF IInv, Evidence
    <2>3. \A k \in Key : row[k].status \in {"done", "failed"} => row'[k] = row[k]
      BY <2>1, WorkerKeepsTerminal DEF IInv
    <2>4. QED
      BY <1>1, <2>2, <2>3 DEF Active, Persisted, Status
  <1>3. CASE TimePasses
    BY <1>3 DEF TimePasses, BecomeAvailable, Active, Persisted, IInv, TypeOK, StoreTypeOK, Row
  <1>4. CASE ~WorkersNext /\ ~TimePasses
    <2>1. UNCHANGED row
      BY <1>4 DEF Next, MatchedMessage, OtherMessage, BeginShutdown, Drain, DrainTimesOut,
         ProcessRestart, HotReload, vars, storeVars
    <2>2. QED
      BY <2>1 DEF Active, Persisted
  <1>5. QED
    BY <1>2, <1>3, <1>4

(* How the writer gets to the INSERT, and how it leaves it. *)
LEMMA InsertSteps ==
    ASSUME TypeOK, Ownership, ~overlap, [Next]_vars, ~overlap',
           NEW i \in Instance, writer'[i].pc = "insert"
    PROVE  /\ writer'[i].key = writer[i].key
           /\ \/ writer[i].pc = "insert"
              \/ /\ writer[i].pc = "select" /\ UNCHANGED row
                 /\ Cardinality(Active) < MaxPending
           /\ IngressNext => UNCHANGED row
  <1> USE DEF TypeOK, IngressTypeOK
  <1>1. CASE IngressNext
    <2>1. PICK j \in Instance : WriterStep(j) \/ WriteFails(j)
      BY <1>1 DEF IngressNext
    <2>2. \A l \in Instance \ {j} : writer'[l] = writer[l]
      BY <2>1, WriterMoves
    <2>3. writer[j].pc # "off"
      BY <2>1 DEF WriterStep, WriteFails, TakeEntry, CheckEntry, InsertEntry, RetryWrite
    <2>4. i = j
      <3>1. i # j => writer[i].pc = "insert"
        BY <2>2
      <3>2. QED
        BY <2>3, <3>1 DEF Ownership, OldInstancesGone
    <2>5. ~FinishEntry(i)
      BY WaitingFields DEF FinishEntry
    <2>6. CASE CheckEntry(i)
      <3>1. /\ writer[i].pc = "select" /\ ~OutboxFull /\ UNCHANGED row
            /\ writer' = [writer EXCEPT ![i].pc = "insert"]
        BY <2>5, <2>6 DEF CheckEntry, storeVars
      <3>2. writer'[i].key = writer[i].key
        BY <3>1 DEF Writer
      <3>3. Cardinality(Active) < MaxPending
        BY <3>1, ActiveFinite, StoreAssumption DEF OutboxFull
      <3>4. QED
        BY <3>1, <3>2, <3>3
    <2>7. ~TakeEntry(i)
      BY DEF TakeEntry
    <2>8. ~InsertEntry(i)
      BY <2>5 DEF InsertEntry
    <2>9. ~WriteFails(i)
      <3>1. WriteFails(i) => writer' = [writer EXCEPT ![i].pc = "sleep", ![i].failures = @ + 1]
        BY <2>5 DEF WriteFails
      <3>2. WriteFails(i) => writer'[i].pc = "sleep"
        BY <3>1 DEF Writer
      <3>3. QED
        BY <3>2
    <2>10. ~RetryWrite(i)
      <3>1. RetryWrite(i) => writer'[i].pc = "select"
        BY DEF RetryWrite, Writer
      <3>2. QED
        BY <3>1
    <2>11. QED
      BY <2>1, <2>4, <2>6, <2>7, <2>8, <2>9, <2>10 DEF WriterStep
  <1>2. CASE ~IngressNext
    <2>1. writer'[i] = writer[i]
      <3>1. CASE (\E k \in Key : MatchedMessage(k)) \/ (\E p \in Platform : OtherMessage(p))
        <4>1. StartTasks
          BY <3>1 DEF MatchedMessage, OtherMessage
        <4>2. QED
          BY <4>1, WaitingFields DEF StartTasks, StartWriter, LifecycleTypeOK
      <3>2. CASE BeginShutdown \/ Drain \/ DrainTimesOut
        BY <3>2, WaitingFields
        DEF BeginShutdown, Drain, DrainTimesOut, CancelWriter, LifecycleTypeOK
      <3>3. CASE ProcessRestart
        BY <3>3, WaitingFields DEF ProcessRestart
      <3>4. CASE HotReload \/ WorkersNext \/ TimePasses \/ UNCHANGED vars
        BY <3>4 DEF HotReload, WorkersNext, TimePasses, ingressVars, vars
      <3>5. QED
        BY <1>2, <3>1, <3>2, <3>3, <3>4 DEF Next
    <2>2. QED
      BY <1>2, <2>1
  <1>3. QED
    BY <1>1, <1>2

(* Instances that have overlapped stay noted as such. *)
LEMMA OverlapLasts ==
    ASSUME [Next]_vars, ~overlap'
    PROVE  ~overlap
  BY DEF Next, MatchedMessage, OtherMessage, IngressNext, WorkersNext, TimePasses, vars,
     BeginShutdown, Drain, DrainTimesOut, ProcessRestart, HotReload, lifecycleVars

(* Every step keeps the active rows within the limit. *)
LEMMA BoundStep ==
    ASSUME IInv, OutboxBound, [Next]_vars
    PROVE  OutboxBound'
  <1> SUFFICES ASSUME ~overlap' PROVE OutboxBound'
    BY DEF OutboxBound, ActiveWithinLimit, InsertHasRoom
  <1>0. ~overlap /\ TypeOK /\ Ownership
    BY OverlapLasts DEF IInv
  <1>1. /\ Cardinality(Active) <= MaxPending /\ Cardinality(Active) \in Nat
        /\ Cardinality(Active') \in Nat /\ IsFiniteSet(Active) /\ MaxPending \in Nat
    <2>1. Cardinality(Active') \in Nat
      <3>1. Active' \subseteq Key
        BY DEF Active
      <3>2. QED
        BY <3>1, StoreAssumption, FS_Subset, FS_CardinalityType
    <2>2. QED
      BY <1>0, <2>1, ActiveFinite, StoreAssumption DEF OutboxBound, ActiveWithinLimit
  <1>2. CASE IngressNext => UNCHANGED row
    <2>1. Active' \subseteq Active /\ Persisted' = Persisted
      BY <1>0, <1>2, ActiveKept
    <2>2. Cardinality(Active') <= Cardinality(Active)
      BY <1>1, <2>1, FS_Subset
    <2>3. ActiveWithinLimit'
      BY <1>1, <2>2 DEF ActiveWithinLimit
    <2>4. ASSUME NEW i \in Instance, writer'[i].pc = "insert", writer'[i].key \notin Persisted'
          PROVE  Cardinality(Active') < MaxPending
      <3>1. /\ writer'[i].key = writer[i].key
            /\ \/ writer[i].pc = "insert"
               \/ Cardinality(Active) < MaxPending
        BY <1>0, <2>4, InsertSteps
      <3>2. Cardinality(Active) < MaxPending
        BY <1>0, <2>1, <2>4, <3>1 DEF OutboxBound, InsertHasRoom
      <3>3. QED
        BY <1>1, <2>2, <3>2
    <2>5. InsertHasRoom'
      BY <2>4 DEF InsertHasRoom, Instance
    <2>6. QED
      BY <2>3, <2>5 DEF OutboxBound
  <1>3. CASE IngressNext /\ ~UNCHANGED row
    <2>1. PICK i \in Instance : WriterStep(i) \/ WriteFails(i)
      BY <1>3 DEF IngressNext
    <2>2. InsertEntry(i) /\ writer[i].key \notin Persisted /\ Insert(writer[i].key)
      BY <1>3, <2>1
      DEF WriterStep, WriteFails, TakeEntry, CheckEntry, InsertEntry, RetryWrite, storeVars
    <2>3. Cardinality(Active) < MaxPending
      BY <1>0, <2>2 DEF OutboxBound, InsertHasRoom, InsertEntry
    <2>4. Active' \subseteq Active \cup {writer[i].key}
      BY <1>0, <2>2 DEF Insert, Active, TypeOK, StoreTypeOK
    <2>5. Cardinality(Active') <= Cardinality(Active) + 1
      <3> DEFINE larger == Active \cup {writer[i].key}
      <3>1. /\ IsFiniteSet(larger) /\ Cardinality(larger) \in Nat
            /\ Cardinality(larger) <= Cardinality(Active) + 1
        <4>1. /\ IsFiniteSet(larger)
              /\ Cardinality(larger) = IF writer[i].key \in Active
                                       THEN Cardinality(Active) ELSE Cardinality(Active) + 1
          BY <1>1, FS_AddElement
        <4> HIDE DEF larger
        <4>2. QED
          BY <1>1, <4>1
      <3>2. Active' \subseteq larger
        BY <2>4
      <3> HIDE DEF larger
      <3>3. Cardinality(Active') <= Cardinality(larger)
        BY <3>1, <3>2, FS_Subset
      <3>4. QED
        BY <1>1, <3>1, <3>3
    <2>6. ActiveWithinLimit'
      BY <1>1, <2>3, <2>5 DEF ActiveWithinLimit
    <2>7. InsertHasRoom'
      BY <1>0, <1>3, InsertSteps DEF InsertHasRoom, Instance
    <2>8. QED
      BY <2>6, <2>7 DEF OutboxBound
  <1>4. QED
    BY <1>2, <1>3

(* The outbox never holds more unfinished jobs than its limit, although the
   count and the INSERT are separate statements.                            *)
THEOREM OutboxIsBounded == Spec => []ActiveWithinLimit
  <1>1. Init => OutboxBound
    <2> SUFFICES ASSUME Init PROVE OutboxBound
      OBVIOUS
    <2>1. Active = {}
      BY DEF Init, StoreInit, AbsentRow, Active
    <2>2. Cardinality(Active) = 0
      BY <2>1, FS_EmptySet
    <2>3. \A i \in Instance : writer[i].pc = "off"
      BY WaitingFields DEF Init, IngressInit
    <2>4. QED
      BY <2>2, <2>3, StoreAssumption DEF OutboxBound, ActiveWithinLimit, InsertHasRoom
  <1>2. IInv /\ OutboxBound /\ [Next]_vars => OutboxBound'
    BY BoundStep
  <1>3. OutboxBound => ActiveWithinLimit
    BY DEF OutboxBound
  <1>4. QED
    BY <1>1, <1>2, <1>3, Inductive, PTL DEF Spec

-----------------------------------------------------------------------------
(* Repeated executions and records. *)

HolderAt(k, pcs) == \E t \in Task : wk[t].key = k /\ wk[t].pc \in pcs

(* Without another fault, job k does not come to an earlier step than those in
   last any more: it is finished, or its worker has got that far, or it was cut
   off there by the shutdown.                                               *)
NoMore(k, last) == \/ row[k].status \in {"done", "failed"}
                   \/ HolderAt(k, last)
                   \/ phase = "stopped" /\ ~HolderAt(k, {"record"})

RunLast    == {"done"}
RecordLast == {"setvid", "execute", "done"}

(* An execution or a record beyond the number of faults is the last one. *)
RepeatsPaid ==
    overlap \/ \A k \in Key :
        /\ executions[k] <= 1 + faults
        /\ executions[k] = 1 + faults => NoMore(k, RunLast)
        /\ audit[k] <= 1 + faults
        /\ audit[k] = 1 + faults => NoMore(k, RecordLast)

(* A fault adds one to the count and nothing to executions or records; no other step counts. *)
LEMMA FaultsCounted ==
    ASSUME TypeOK, [Next]_vars
    PROVE  \/ faults' = faults + 1 /\ UNCHANGED <<executions, audit>>
           \/ /\ faults' = faults /\ ~ProcessRestart /\ ~HotReload
              /\ \A t \in Task : ~WorkerFault(t)
  <1>1. faults \in Nat /\ (faults' = faults => ~Fault)
    BY LifecycleAssumption DEF TypeOK, LifecycleTypeOK, Fault
  <1>2. /\ faults' = faults => ~ProcessRestart /\ ~HotReload
        /\ faults' = faults => \A t \in Task : ~WorkerFault(t)
    BY <1>1 DEF ProcessRestart, HotReload, WorkerFault, RecoverFails, ClaimFails,
       ProcessFails, SettleFails
  <1>3. CASE IngressNext
    <2>1. UNCHANGED <<executions, audit>>
      BY <1>3 DEF IngressNext, WriterStep, WriteFails, TakeEntry, CheckEntry, InsertEntry,
         RetryWrite, workersVars, storeVars
    <2>2. faults' = faults \/ faults' = faults + 1
      BY <1>3 DEF IngressNext, WriterStep, WriteFails, TakeEntry, CheckEntry, InsertEntry,
         RetryWrite, Fault
    <2>3. QED
      BY <1>2, <2>1, <2>2
  <1>4. CASE WorkersNext
    <2>1. PICK t \in Task : WorkerStep(t) \/ WorkerFault(t)
      BY <1>4 DEF WorkersNext
    <2>2. CASE WorkerStep(t)
      BY <1>2, <2>2 DEF WorkerStep, BeginRecovery, Recover, SelectJob, ClaimJob,
         Record, SetViolation, Execute, MarkDone, ReadAttempts, WriteRetry, Defer
    <2>3. CASE WorkerFault(t)
      BY <2>3 DEF WorkerFault, RecoverFails, ClaimFails, ProcessFails, SettleFails, Fault,
         storeVars
    <2>4. QED
      BY <2>1, <2>2, <2>3
  <1>5. CASE ProcessRestart \/ HotReload
    BY <1>5 DEF ProcessRestart, HotReload, Fault, storeVars
  <1>6. CASE ~IngressNext /\ ~WorkersNext /\ ~ProcessRestart /\ ~HotReload
    <2>1. faults' = faults
      BY <1>6 DEF Next, MatchedMessage, OtherMessage, TimePasses, BeginShutdown, Drain,
         DrainTimesOut, vars, lifecycleVars
    <2>2. QED
      BY <1>2, <2>1
  <1>7. QED
    BY <1>3, <1>4, <1>5, <1>6

(* Which step of a worker executes or records, and by how much. *)
LEMMA CountersByOne ==
    ASSUME TypeOK, NEW t \in Task, WorkerStep(t), NEW k \in Key
    PROVE  /\ \/ executions'[k] = executions[k]
              \/ Execute(t) /\ wk[t].key = k /\ executions'[k] = executions[k] + 1
           /\ \/ audit'[k] = audit[k]
              \/ Record(t) /\ wk[t].key = k /\ audit'[k] = audit[k] + 1
  <1>1. CASE Record(t)
    <2>1. /\ wk[t].key \in Key /\ audit \in [Key -> Nat] /\ UNCHANGED executions
      BY <1>1, RecordFields DEF TypeOK, StoreTypeOK
    <2>2. \A j \in Key \ {wk[t].key} : audit'[j] = audit[j]
      BY <1>1, <2>1 DEF Record, RecordViolation
    <2>3. audit'[wk[t].key] \in {audit[wk[t].key], audit[wk[t].key] + 1}
      BY <1>1, <2>1 DEF Record, RecordViolation, RecordedViolation
    <2>4. QED
      BY <1>1, <2>1, <2>2, <2>3
  <1>2. CASE Execute(t)
    BY <1>2, ExecuteFields
  <1>3. CASE ~Record(t) /\ ~Execute(t)
    BY <1>3 DEF WorkerStep, BeginRecovery, Recover, SelectJob, ClaimJob,
       SetViolation, MarkDone, ReadAttempts, WriteRetry, Defer, storeVars
  <1>4. QED
    BY <1>1, <1>2, <1>3

(* A worker far enough in its job stays there, finishes it, or has been cut off. *)
LEMMA FarWorker ==
    ASSUME TypeOK, Ownership, ~overlap, NEW t \in Task, WorkerStep(t),
           wk[t].pc \in RecordLast
    PROVE  /\ wk[t].key \in Key
           /\ \/ MarkDone(t) /\ row'[wk[t].key].status = "done"
              \/ /\ wk'[t].key = wk[t].key /\ wk'[t].pc \in RecordLast
                 /\ wk[t].pc # "done"
              \/ phase = "stopped"
  <1>1. wk[t].key \in Key
    BY JobRecords DEF RecordLast, JobPC, HoldingPC
  <1>2. CASE SetViolation(t)
    BY <1>1, <1>2, ResumeFields, AtFields
    DEF SetViolation, RecordLast, WorkerLive, Ownership, OldInstancesGone
  <1>3. CASE Execute(t)
    BY <1>1, <1>3, ExecuteFields DEF RecordLast
  <1>4. CASE MarkDone(t)
    BY <1>1, <1>4 DEF MarkDone, MarkRowDone, TypeOK, StoreTypeOK, Row
  <1>5. QED
    BY <1>2, <1>3, <1>4
    DEF WorkerStep, RecordLast, BeginRecovery, Recover, SelectJob, ClaimJob, Record,
        ReadAttempts, WriteRetry, Defer

(* After the shutdown no worker comes to "record" any more. *)
LEMMA NoNewRecord ==
    ASSUME TypeOK, Ownership, NEW t \in Task, WorkerStep(t), phase = "stopped",
           wk'[t].pc = "record"
    PROVE  FALSE
  <1>1. ~WorkerLive(t)
    BY DEF WorkerLive
  <1>2. wk'[t].pc = "off" \/ Execute(t) \/ ReadAttempts(t) \/ BeginRecovery(t) \/ SelectJob(t)
    BY <1>1, ResumeFields, IdleFields
    DEF WorkerStep, Recover, ClaimJob, Record, SetViolation, MarkDone, WriteRetry, Defer
  <1>3. CASE ReadAttempts(t)
    BY <1>3, AtFields DEF ReadAttempts, TypeOK, WorkersTypeOK
  <1>4. CASE SelectJob(t)
    BY <1>4, LettingGo
  <1>5. QED
    BY <1>1, <1>2, <1>3, <1>4 DEF Execute, BeginRecovery

(* Without a fault, a job that may not run or be recorded again still may not. *)
LEMMA NoMoreKept ==
    ASSUME IInv, ~overlap, [Next]_vars, faults' = faults,
           NEW k \in Key, NEW last, last = RunLast \/ last = RecordLast,
           NoMore(k, last)
    PROVE  NoMore(k, last)'
  <1>0. /\ TypeOK /\ Ownership /\ ~ProcessRestart /\ ~HotReload
        /\ \A t \in Task : ~WorkerFault(t)
        /\ last \subseteq RecordLast /\ "done" \in last
        /\ \A pc \in last : pc \in HoldingPC /\ pc # "record"
    BY FaultsCounted, LifecycleAssumption
    DEF IInv, TypeOK, LifecycleTypeOK, RunLast, RecordLast, HoldingPC
  <1>1. HolderAt(k, last) => ~HolderAt(k, {"record"})
    BY <1>0 DEF HolderAt, Ownership, ExclusiveOwner, HoldingPC
  <1>2. CASE WorkersNext
    <2>1. PICK t \in Task : WorkerStep(t)
      BY <1>0, <1>2 DEF WorkersNext
    <2>2. /\ phase' = phase
          /\ \A u \in Task \ {t} : wk'[u] = wk[u]
      BY <1>0, <1>2, <2>1, WorkerFrame DEF WorkersNext
    <2>3. CASE row[k].status \in {"done", "failed"}
      BY <1>0, <2>1, <2>3, WorkerKeepsTerminal DEF NoMore
    <2>4. CASE phase = "stopped" /\ ~HolderAt(k, {"record"})
      <3>1. wk'[t].pc # "record"
        BY <1>0, <2>1, <2>4, NoNewRecord
      <3>2. ~HolderAt(k, {"record"})'
        BY <2>2, <2>4, <3>1 DEF HolderAt
      <3>3. QED
        BY <2>2, <2>4, <3>2 DEF NoMore
    <2>5. CASE HolderAt(k, last)
      <3>1. PICK u \in Task : wk[u].key = k /\ wk[u].pc \in last
        BY <2>5 DEF HolderAt
      <3>2. CASE u # t
        BY <2>2, <3>1, <3>2 DEF NoMore, HolderAt
      <3>3. CASE u = t
        <4>1. \/ row'[k].status = "done"
              \/ wk'[t].key = k /\ wk'[t].pc \in RecordLast /\ wk[t].pc # "done"
              \/ phase = "stopped"
          BY <1>0, <2>1, <3>1, <3>3, FarWorker
        <4>2. wk[t].pc # "done" => last = RecordLast
          BY <3>1, <3>3 DEF RunLast
        <4>3. CASE phase = "stopped"
          BY <1>1, <2>4, <2>5, <4>3
        <4>4. CASE row'[k].status = "done"
          BY <4>4 DEF NoMore
        <4>5. CASE wk'[t].key = k /\ wk'[t].pc \in RecordLast /\ wk[t].pc # "done"
          BY <4>2, <4>5 DEF NoMore, HolderAt
        <4>6. QED
          BY <4>1, <4>3, <4>4, <4>5
      <3>4. QED
        BY <3>2, <3>3
    <2>6. QED
      BY <2>3, <2>4, <2>5 DEF NoMore
  <1>3. CASE ~WorkersNext
    <2>1. CASE row[k].status \in {"done", "failed"}
      BY <1>0, <1>3, <2>1, QuietRows DEF Next, NoMore
    <2>2. \A t \in Task : wk'[t] = wk[t] \/ wk'[t].pc \in {"off", "start"}
      BY <1>0, <1>3, OtherSteps
    <2>3. ~HolderAt(k, {"record"}) => ~HolderAt(k, {"record"})'
      BY <2>2 DEF HolderAt
    <2>4. phase = "stopped" => phase' = "stopped"
      BY <1>0, <1>3
      DEF Next, MatchedMessage, OtherMessage, IngressNext, TimePasses, BeginShutdown, Drain,
          DrainTimesOut, vars, lifecycleVars
    <2>5. CASE phase' = "stopped" /\ HolderAt(k, last)
      BY <1>1, <2>3, <2>5 DEF NoMore
    <2>6. CASE phase = "stopped" /\ ~HolderAt(k, {"record"})
      BY <2>3, <2>4, <2>6 DEF NoMore
    <2>7. CASE phase' # "stopped" /\ HolderAt(k, last)
      <3>1. PICK t \in Task : wk[t].key = k /\ wk[t].pc \in last
        BY <2>7 DEF HolderAt
      <3>2. wk[t].pc # "off"
        BY <1>0, <3>1 DEF HoldingPC
      <3>3. wk'[t] = wk[t]
        <4>1. CASE (\E j \in Key : MatchedMessage(j)) \/ (\E p \in Platform : OtherMessage(p))
          BY <1>0, <3>2, <4>1, StartEffect DEF MatchedMessage, OtherMessage
        <4>2. CASE IngressNext \/ TimePasses \/ UNCHANGED vars
          BY <4>2 DEF IngressNext, TimePasses, vars, workersVars
        <4>3. CASE BeginShutdown \/ Drain \/ DrainTimesOut
          BY <2>7, <4>3 DEF BeginShutdown, Drain, DrainTimesOut
        <4>4. QED
          BY <1>0, <1>3, <4>1, <4>2, <4>3 DEF Next
      <3>4. QED
        BY <3>1, <3>3 DEF NoMore, HolderAt
    <2>8. QED
      BY <2>1, <2>5, <2>6, <2>7 DEF NoMore
  <1>4. QED
    BY <1>2, <1>3

(* Every step keeps repeats paid for by faults. *)
LEMMA PaidStep ==
    ASSUME IInv, RepeatsPaid, [Next]_vars
    PROVE  RepeatsPaid'
  <1> SUFFICES ASSUME ~overlap', NEW k \in Key
               PROVE  /\ executions'[k] <= 1 + faults'
                      /\ executions'[k] = 1 + faults' => NoMore(k, RunLast)'
                      /\ audit'[k] <= 1 + faults'
                      /\ audit'[k] = 1 + faults' => NoMore(k, RecordLast)'
    BY DEF RepeatsPaid, RunLast, RecordLast
  <1>0. /\ ~overlap /\ TypeOK /\ Ownership /\ faults \in Nat
        /\ executions[k] \in Nat /\ audit[k] \in Nat
    BY OverlapLasts, LifecycleAssumption
    DEF IInv, TypeOK, LifecycleTypeOK, WorkersTypeOK, StoreTypeOK
  <1>1. /\ executions[k] <= 1 + faults /\ audit[k] <= 1 + faults
        /\ executions[k] = 1 + faults => NoMore(k, RunLast)
        /\ audit[k] = 1 + faults => NoMore(k, RecordLast)
    BY <1>0 DEF RepeatsPaid
  <1>2. CASE faults' = faults + 1 /\ UNCHANGED <<executions, audit>>
    BY <1>0, <1>1, <1>2
  <1>3. CASE faults' = faults /\ UNCHANGED <<executions, audit>>
    BY <1>0, <1>1, <1>3, NoMoreKept
  <1>4. CASE faults' = faults /\ WorkersNext
    <2>1. PICK t \in Task : WorkerStep(t)
      BY <1>0, <1>4, FaultsCounted DEF WorkersNext
    <2>2. executions'[k] <= 1 + faults /\ (executions'[k] = 1 + faults => NoMore(k, RunLast)')
      <3>1. CASE executions'[k] = executions[k]
        BY <1>0, <1>1, <1>4, <3>1, NoMoreKept
      <3>2. CASE Execute(t) /\ wk[t].key = k /\ executions'[k] = executions[k] + 1
        <4>1. wk[t].pc = "execute" /\ phase # "stopped"
          BY <3>2 DEF Execute, WorkerLive
        <4>2. ~NoMore(k, RunLast)
          BY <1>0, <3>2, <4>1
          DEF NoMore, RunLast, HolderAt, Ownership, ExclusiveOwner, OwnedIsProcessing, HoldingPC
        <4>3. NoMore(k, RunLast)'
          BY <1>0, <3>2, ExecuteFields DEF NoMore, RunLast, HolderAt
        <4>4. QED
          BY <1>0, <1>1, <3>2, <4>2, <4>3
      <3>3. QED
        BY <1>0, <2>1, <3>1, <3>2, CountersByOne
    <2>3. audit'[k] <= 1 + faults /\ (audit'[k] = 1 + faults => NoMore(k, RecordLast)')
      <3>1. CASE audit'[k] = audit[k]
        BY <1>0, <1>1, <1>4, <3>1, NoMoreKept
      <3>2. CASE Record(t) /\ wk[t].key = k /\ audit'[k] = audit[k] + 1
        <4>1. wk[t].pc = "record" /\ UNCHANGED phase
          BY <1>4, <3>2 DEF Record, WorkersNext
        <4>2. ~NoMore(k, RecordLast)
          BY <1>0, <3>2, <4>1
          DEF NoMore, RecordLast, HolderAt, Ownership, ExclusiveOwner, OwnedIsProcessing,
              HoldingPC
        <4>3. NoMore(k, RecordLast)'
          <5>1. CASE wk'[t].pc = "setvid"
            BY <1>0, <3>2, <5>1, RecordFields DEF NoMore, RecordLast, HolderAt
          <5>2. CASE wk'[t].pc = "off"
            <6>1. phase = "stopped"
              <7>1. ~WorkerLive(t)
                <8> DEFINE next == [At(t, "setvid") EXCEPT !.vid = RecordedViolation(wk[t].key)]
                <8>1. Resume(t, next) /\ next.pc = "setvid"
                  BY <1>0, <3>2, AtFields DEF Record
                <8> HIDE DEF next
                <8>2. QED
                  BY <1>0, <5>2, <8>1, ResumeFields
              <7>2. QED
                BY <1>0, <4>1, <7>1 DEF WorkerLive, Ownership, OldInstancesGone
            <6>2. \A u \in Task \ {t} : wk'[u] = wk[u] /\ ~(wk[u].key = k /\ wk[u].pc = "record")
              BY <1>0, <2>1, <3>2, <4>1, WorkerFrame DEF Ownership, ExclusiveOwner, HoldingPC
            <6>3. ~HolderAt(k, {"record"})'
              BY <5>2, <6>2 DEF HolderAt
            <6>4. QED
              BY <4>1, <6>1, <6>3 DEF NoMore
          <5>3. QED
            BY <1>0, <3>2, <5>1, <5>2, RecordFields
        <4>4. QED
          BY <1>0, <1>1, <3>2, <4>2, <4>3
      <3>3. QED
        BY <1>0, <2>1, <3>1, <3>2, CountersByOne
    <2>4. QED
      BY <1>4, <2>2, <2>3
  <1>5. QED
    BY <1>0, <1>2, <1>3, <1>4, FaultsCounted, OtherSteps

(* The actions for a message are executed again, and its violation recorded
   again, only after a fault, at most once more for each.                   *)
THEOREM RepeatsArePaid == Spec => []RepeatsNeedFaults
  <1>1. Init => RepeatsPaid
    <2> SUFFICES ASSUME Init, NEW k \in Key
                 PROVE  /\ executions[k] <= 1 + faults /\ executions[k] # 1 + faults
                        /\ audit[k] <= 1 + faults /\ audit[k] # 1 + faults
      BY DEF RepeatsPaid
    <2>1. executions[k] = 0 /\ audit[k] = 0 /\ faults = 0
      BY DEF Init, WorkersInit, StoreInit, LifecycleInit
    <2>2. QED
      BY <2>1
  <1>2. IInv /\ RepeatsPaid /\ [Next]_vars => RepeatsPaid'
    BY PaidStep
  <1>3. RepeatsPaid => RepeatsNeedFaults
    BY DEF RepeatsPaid, RepeatsNeedFaults
  <1>4. QED
    BY <1>1, <1>2, <1>3, Inductive, PTL DEF Spec

-----------------------------------------------------------------------------
(* The refinement of OutboxContract: every step of the pipeline is a step of
   the contract, or changes nothing the contract talks about.               *)

SameJob(k) == row'[k].status = row[k].status /\ row'[k].attempts = row[k].attempts

(* A row that is not in the table has no attempts to inherit. *)
AbsentUntried == \A k \in Key : row[k].status = "absent" => row[k].attempts = 0

(* Every step keeps jobs that are not stored free of attempts. *)
LEMMA UntriedStep == IInv /\ AbsentUntried /\ [Next]_vars => AbsentUntried'
  <1> SUFFICES ASSUME IInv, AbsentUntried, [Next]_vars,
                      NEW k \in Key, row'[k].status = "absent"
               PROVE  row'[k].attempts = 0
    BY DEF AbsentUntried
  <1>1. CASE WorkersNext
    <2>1. PICK t \in Task : WorkerStep(t) \/ WorkerFault(t)
      BY <1>1 DEF WorkersNext
    <2>2. row[k].status = "absent"
      BY <2>1, WorkerEvidence DEF IInv, Evidence
    <2>3. ~(wk[t].pc \in JobPC /\ wk[t].key = k)
      BY <2>2 DEF IInv, Evidence, JobsPersisted, Persisted
    <2>4. row'[k].attempts = row[k].attempts
      <3> USE DEF IInv, TypeOK, StoreTypeOK, Row
      <3>1. CASE Recover(t)
        BY <3>1 DEF Recover, RecoverRows
      <3>2. CASE ClaimJob(t)
        BY <3>2 DEF ClaimJob, ClaimRow
      <3>3. CASE SetViolation(t) \/ MarkDone(t) \/ WriteRetry(t) \/ Defer(t)
        BY <2>3, <3>3 DEF SetViolation, MarkDone, WriteRetry, Defer, SetRowViolation,
           MarkRowDone, RetryRow, DeferRow, JobPC, HoldingPC
      <3>4. CASE ~(\/ Recover(t) \/ ClaimJob(t) \/ SetViolation(t) \/ MarkDone(t)
                   \/ WriteRetry(t) \/ Defer(t))
        BY <2>1, <3>4
        DEF WorkerStep, WorkerFault, BeginRecovery, SelectJob, Record, Execute,
            ReadAttempts, RecoverFails, ClaimFails, ProcessFails, SettleFails, storeVars
      <3>5. QED
        BY <3>1, <3>2, <3>3, <3>4
    <2>5. QED
      BY <2>2, <2>4 DEF AbsentUntried
  <1>2. CASE ~WorkersNext
    BY <1>2, QuietRows DEF IInv, Next, AbsentUntried
  <1>3. QED
    BY <1>1, <1>2

(* A step that changes no job is a stutter of the contract. *)
LEMMA ContractStutters ==
    ASSUME \A k \in Key : SameJob(k), UNCHANGED executions
    PROVE  UNCHANGED Contract!contractVars
  BY DEF SameJob, Contract!contractVars

(* Storing a new row is the contract's submission. *)
LEMMA ContractSubmit ==
    ASSUME NEW k \in Key, row[k].status = "absent", row'[k].status = "pending",
           row'[k].attempts = row[k].attempts, UNCHANGED executions,
           \A j \in Key \ {k} : SameJob(j)
    PROVE  Contract!Next
  <1>1. Contract!Submit(k)
    BY DEF SameJob, Contract!Submit
  <1>2. QED
    BY <1>1 DEF Contract!Next

(* Giving leased rows back is one of the contract's steps. *)
LEMMA ContractRelease ==
    ASSUME NEW jobs \in SUBSET Key, \A k \in jobs : row[k].status = "processing",
           \A k \in Key : /\ row'[k].status = IF k \in jobs THEN "pending" ELSE row[k].status
                          /\ row'[k].attempts = row[k].attempts,
           UNCHANGED executions
    PROVE  Contract!Next
  <1>1. Contract!Release(jobs)
    BY DEF Contract!Release
  <1>2. QED
    BY <1>1 DEF Contract!Next

(* A step of one job under the contract is a step of the contract. *)
LEMMA ContractJob ==
    ASSUME NEW k \in Key,
           \/ Contract!Lease(k) \/ Contract!Run(k)
           \/ Contract!Complete(k) \/ Contract!FailAttempt(k)
    PROVE  Contract!Next
  BY DEF Contract!Next

(* Every row has an attempt left, or is failed. *)
LEMMA AttemptsLeft ==
    ASSUME IInv, ~overlap, NEW k \in Key, row[k].status # "failed"
    PROVE  /\ row[k].attempts \in Nat /\ MaxAttempts \in Nat
           /\ row[k].attempts < MaxAttempts
  <1>1. row[k].attempts \in Nat /\ MaxAttempts \in Nat
    BY StoreAssumption DEF IInv, TypeOK, StoreTypeOK, Row
  <1>2. row[k].attempts <= MaxAttempts /\ row[k].attempts # MaxAttempts
    BY DEF IInv, AttemptsExact, ExhaustedIffFailed
  <1>3. QED
    BY <1>1, <1>2

(* The steps of the workers that settle or run a job. *)
LEMMA ContractWorker ==
    ASSUME IInv, ~overlap, NEW t \in Task, WorkerStep(t) \/ WorkerFault(t)
    PROVE  Contract!Next \/ UNCHANGED Contract!contractVars
  <1>1. /\ TypeOK /\ Ownership /\ row \in [Key -> Row]
        /\ wk[t].pc \in JobPC => wk[t].key \in Key
        /\ wk[t].pc \in HoldingPC => row[wk[t].key].status = "processing"
    BY JobRecords DEF IInv, TypeOK, StoreTypeOK, Ownership, OwnedIsProcessing
  <1> USE DEF Row
  <1>2. CASE Recover(t)
    <2> DEFINE jobs == {j \in Key : row[j].status = "processing"}
    <2>1. /\ \A j \in jobs : row[j].status = "processing"
          /\ jobs \in SUBSET Key
          /\ UNCHANGED executions
      BY <1>2 DEF Recover
    <2>2. \A j \in Key : /\ row'[j].status = IF j \in jobs THEN "pending" ELSE row[j].status
                         /\ row'[j].attempts = row[j].attempts
      BY <1>1, <1>2 DEF Recover, RecoverRows
    <2> HIDE DEF jobs
    <2>3. QED
      BY <2>1, <2>2, ContractRelease
  <1>3. CASE ClaimJob(t)
    <2>1. PICK k \in Key : k = wk[t].key
      BY <1>1, <1>3 DEF ClaimJob, JobPC
    <2>2. CASE row[k].status = "pending"
      <3>1. /\ row' = [row EXCEPT ![k].status = "processing"]
            /\ UNCHANGED executions
        <4>1. ClaimRow(k) /\ UNCHANGED executions
          BY <1>3, <2>1 DEF ClaimJob
        <4>2. QED
          BY <2>2, <4>1 DEF ClaimRow
      <3>2. row[k].attempts < MaxAttempts
        BY <2>2, AttemptsLeft
      <3>3. /\ row'[k].status = "processing" /\ row'[k].attempts = row[k].attempts
            /\ \A j \in Key \ {k} : row'[j] = row[j]
        BY <1>1, <3>1
      <3>4. UNCHANGED executions
        BY <3>1
      <3>5. Contract!Lease(k)
        BY <2>2, <3>2, <3>3, <3>4 DEF Contract!Lease
      <3>6. QED
        BY <3>5, ContractJob
    <2>3. CASE row[k].status # "pending"
      BY <1>3, <2>1, <2>3, ContractStutters DEF ClaimJob, ClaimRow, SameJob
    <2>4. QED
      BY <2>2, <2>3
  <1>4. CASE Execute(t)
    <2>1. PICK k \in Key : k = wk[t].key
      BY <1>1, <1>4 DEF Execute, JobPC, HoldingPC
    <2>2. /\ row[k].status = "processing" /\ UNCHANGED row
          /\ executions' = [executions EXCEPT ![k] = @ + 1]
      BY <1>1, <1>4, <2>1 DEF Execute, HoldingPC, storeVars
    <2>3. Contract!Run(k)
      BY <2>2 DEF Contract!Run
    <2>4. QED
      BY <2>3, ContractJob
  <1>5. CASE MarkDone(t)
    <2>1. PICK k \in Key : k = wk[t].key
      BY <1>1, <1>5 DEF MarkDone, JobPC, HoldingPC
    <2>2. row[k].status = "processing" /\ UNCHANGED executions /\ executions[k] > 0
      BY <1>1, <1>5, <2>1 DEF MarkDone, HoldingPC, IInv, Evidence, DoneAfterExecute
    <2>3. /\ row'[k].status = "done" /\ row'[k].attempts = row[k].attempts
          /\ \A j \in Key \ {k} : row'[j] = row[j]
      BY <1>1, <1>5, <2>1 DEF MarkDone, MarkRowDone
    <2>4. Contract!Complete(k)
      BY <2>2, <2>3 DEF Contract!Complete
    <2>5. QED
      BY <2>4, ContractJob
  <1>6. CASE WriteRetry(t)
    <2>1. PICK k \in Key : k = wk[t].key
      BY <1>1, <1>6 DEF WriteRetry, JobPC, HoldingPC
    <2> DEFINE n == row[k].attempts
               next == IF n + 1 = MaxAttempts THEN "failed" ELSE "pending"
    <2>2. row[k].status = "processing" /\ UNCHANGED executions /\ wk[t].seen = n
      BY <1>1, <1>6, <2>1 DEF WriteRetry, HoldingPC, IInv, AttemptsExact
    <2>3. n \in Nat /\ n < MaxAttempts /\ MaxAttempts \in Nat
      BY <2>2, AttemptsLeft
    <2>4. (IF n + 1 >= MaxAttempts THEN "failed" ELSE "pending") = next
      BY <2>3
    <2>5. row' = [row EXCEPT ![k].status = next, ![k].attempts = n + 1, ![k].ready = FALSE]
      BY <1>6, <2>1, <2>2, <2>4 DEF WriteRetry, RetryRow
    <2> HIDE DEF next
    <2>6. /\ row'[k].status = next /\ row'[k].attempts = n + 1
          /\ \A j \in Key \ {k} : row'[j] = row[j]
      BY <1>1, <2>5
    <2>7. Contract!FailAttempt(k)
      BY <2>2, <2>3, <2>6 DEF Contract!FailAttempt, next
    <2>8. QED
      BY <2>7, ContractJob
  <1>7. CASE Defer(t)
    <2>1. PICK k \in Key : k = wk[t].key
      BY <1>1, <1>7 DEF Defer, JobPC, HoldingPC
    <2>2. row[k].status = "processing" /\ UNCHANGED executions
      BY <1>1, <1>7, <2>1 DEF Defer, HoldingPC
    <2>3. \A j \in Key : /\ row'[j].status = IF j \in {k} THEN "pending" ELSE row[j].status
                         /\ row'[j].attempts = row[j].attempts
      BY <1>1, <1>7, <2>1 DEF Defer, DeferRow
    <2>4. {k} \in SUBSET Key /\ \A j \in {k} : row[j].status = "processing"
      BY <2>2
    <2>5. QED
      BY <2>2, <2>3, <2>4, ContractRelease
  <1>8. CASE Record(t) \/ SetViolation(t) \/ ProcessFails(t) \/ ReadAttempts(t)
    <2>1. UNCHANGED executions
      BY <1>8 DEF Record, SetViolation, ProcessFails, ReadAttempts
    <2>2. QED
      BY <1>1, <1>8, <2>1, Carrying, ContractStutters DEF SameJob
  <1>9. CASE BeginRecovery(t) \/ SelectJob(t) \/ RecoverFails(t) \/ ClaimFails(t) \/ SettleFails(t)
    BY <1>9, ContractStutters
    DEF BeginRecovery, SelectJob, RecoverFails, ClaimFails, SettleFails, storeVars, SameJob
  <1>10. QED
    BY <1>2, <1>3, <1>4, <1>5, <1>6, <1>7, <1>8, <1>9 DEF WorkerStep, WorkerFault

(* Every step of the pipeline without overlap is one of the contract or a stutter. *)
LEMMA ContractNext ==
    ASSUME IInv, AbsentUntried, [Next]_vars, ~overlap'
    PROVE  Contract!Next \/ UNCHANGED Contract!contractVars
  <1>1. CASE WorkersNext
    BY <1>1, OverlapLasts, ContractWorker DEF WorkersNext
  <1>2. CASE IngressNext /\ ~UNCHANGED row
    <2>1. PICK i \in Instance : WriterStep(i) \/ WriteFails(i)
      BY <1>2 DEF IngressNext
    <2>2. /\ writer[i].pc = "insert" /\ writer[i].key \notin Persisted
          /\ Insert(writer[i].key) /\ UNCHANGED executions
      BY <1>2, <2>1
      DEF IngressNext, workersVars, WriterStep, WriteFails, TakeEntry, CheckEntry,
          InsertEntry, RetryWrite, storeVars
    <2>3. writer[i].key \in Key /\ row \in [Key -> Row]
      BY <2>2, WriterFields DEF IInv, TypeOK, StoreTypeOK
    <2>4. /\ row[writer[i].key].status = "absent" /\ row'[writer[i].key].status = "pending"
          /\ row'[writer[i].key].attempts = row[writer[i].key].attempts
          /\ \A k \in Key \ {writer[i].key} : SameJob(k)
      BY <2>2, <2>3 DEF Persisted, Insert, AbsentUntried, SameJob
    <2>5. QED
      BY <2>2, <2>3, <2>4, ContractSubmit
  <1>3. CASE ~WorkersNext /\ (IngressNext => UNCHANGED row)
    <2>1. \A k \in Key : SameJob(k)
      <3>1. CASE TimePasses
        BY <3>1 DEF TimePasses, BecomeAvailable, SameJob, IInv, TypeOK, StoreTypeOK, Row
      <3>2. CASE ~TimePasses
        BY <1>3, <3>2
        DEF Next, MatchedMessage, OtherMessage, BeginShutdown, Drain, DrainTimesOut,
            ProcessRestart, HotReload, vars, storeVars, SameJob
      <3>3. QED
        BY <3>1, <3>2
    <2>2. UNCHANGED executions
      BY <1>3, OtherSteps DEF IInv
    <2>3. QED
      BY <2>1, <2>2, ContractStutters
  <1>4. QED
    BY <1>1, <1>2, <1>3

(* The pipeline implements the outbox contract: a job is leased to one worker at
   a time, executed before it is done, given up after its last attempt, and never
   touched again when it is finished.                                       *)
THEOREM PipelineImplementsContract == DrainedSpec => ImplementsContract
  <1>1. Init => IInv /\ AbsentUntried
    BY IInvInit DEF Init, StoreInit, AbsentRow, AbsentUntried
  <1>2. IInv /\ AbsentUntried /\ [Next /\ ~overlap']_vars => (IInv /\ AbsentUntried)'
    BY IInvStep, UntriedStep
  <1>3. Init => Contract!Init
    BY DEF Init, StoreInit, WorkersInit, AbsentRow, Contract!Init
  <1>4. IInv /\ AbsentUntried /\ [Next /\ ~overlap']_vars => [Contract!Next]_(Contract!contractVars)
    <2>1. CASE UNCHANGED vars
      <3>1. UNCHANGED <<row, executions>>
        BY <2>1 DEF vars
      <3>2. \A k \in Key : SameJob(k)
        BY <3>1 DEF SameJob
      <3>3. QED
        BY <3>1, <3>2, ContractStutters
    <2>2. CASE Next /\ ~overlap'
      BY <2>2, ContractNext
    <2>3. QED
      BY <2>1, <2>2
  <1>5. QED
    BY <1>1, <1>2, <1>3, <1>4, PTL DEF DrainedSpec, ImplementsContract, Contract!Spec
=============================================================================
