------------------------- MODULE SceneBuilderProofs -------------------------
(***************************************************************************)
(* Proofs about SceneBuilder.                                              *)
(***************************************************************************)
EXTENDS SceneBuilder, SequenceTheorems, FiniteSetTheorems, WellFoundedInduction, TLAPS

LEMMA UpdateOrdersType ==
  ASSUME NEW updates \in [Nodes -> SUBSET Parents], NEW ops \in UpdateOrders(updates)
  PROVE  ops \in Seq(Ops)
<1> DEFINE U == UpdatedNodes(updates)
<1>1. PICK s \in SetToSeqs(U) : ops = [i \in DOMAIN s |-> Update(s[i], updates[s[i]])]
  BY DEF UpdateOrders
<1>2. IsFiniteSet(U)
  BY NodesAssumption, FS_Subset DEF UpdatedNodes
<1>3. Cardinality(U) \in Nat
  BY <1>2, FS_CardinalityType
<1>4. s \in [1..Cardinality(U) -> Nodes]
  BY DEF SetToSeqs, UpdatedNodes
<1>5. \A i \in 1..Cardinality(U) : Update(s[i], updates[s[i]]) \in Ops
  BY <1>4 DEF Update, Ops
<1>6. ops \in [1..Cardinality(U) -> Ops]
  BY <1>1, <1>4, <1>5
<1> QED BY <1>3, <1>6, SeqDef

LEMMA InitType == Init => TypeOK
<1> SUFFICES ASSUME Init PROVE TypeOK
  OBVIOUS
<1>1. NoUpdates \in [Nodes -> SUBSET Parents]
  BY DEF NoUpdates
<1>2. \A S : <<>> \in Seq(S)
  BY EmptySeq
<1> QED BY <1>1, <1>2 DEF Init, TypeOK
-----------------------------------------------------------------------------
(* The inductive invariant.                                                *)

IInv == TypeOK /\ PipelineInOrder /\ ClosedLast

LEMMA InitIInv == Init => IInv
<1> SUFFICES ASSUME Init PROVE IInv
  OBVIOUS
<1>1. TypeOK
  BY InitType
<1>2. PipelineInOrder
  BY DEF Init, PipelineInOrder, Landed, HasWriteInHand, NextInQueue, Failed, Thrown
<1>3. ClosedLast
  BY DEF Init, ClosedLast, Thrown, Nothing, Close
<1> QED BY <1>1, <1>2, <1>3 DEF IInv

\* What PipelineInOrder speaks about.
pipelineVars == <<accepted, queue, cpc, inHand, bulk, applied, consumerException>>

LEMMA PipelineUnchanged ==
  ASSUME PipelineInOrder, UNCHANGED pipelineVars
  PROVE  PipelineInOrder'
BY DEF PipelineInOrder, pipelineVars, Landed, HasWriteInHand, NextInQueue, Failed, Thrown

LEMMA ImporterIInv == IInv /\ Importer => IInv'
<1> SUFFICES ASSUME IInv, Importer PROVE IInv'
  OBVIOUS
<1> USE DEF IInv
<1>1. UNCHANGED <<accepted, sharedVars, consumerVars>>
  BY DEF Importer, AddNode, AddMesh, HoldNode, ReleaseNode, AddParent, Finalise, ImportFails, Destroy
<1>2. PipelineInOrder'
  BY <1>1, PipelineUnchanged DEF pipelineVars, sharedVars, consumerVars, bulkVars
<1>3. pc = "ready" /\ pc' \in {"ready", "push", "terminated"}
  BY DEF Importer, AddNode, AddMesh, HoldNode, ReleaseNode, AddParent, Finalise, ImportFails, Destroy,
         Begin, control
<1>4. ClosedLast'
  BY <1>1, <1>3 DEF ClosedLast, sharedVars, consumerVars, Thrown
<1>5. TypeOK'
  <2>1. ASSUME NEW n \in Nodes PROVE Insert(n) \in Ops /\ <<Insert(n)>> \in Seq(Ops)
    <3>1. Insert(n) \in Ops
      BY DEF Insert, Ops
    <3> QED BY <3>1
  <2>2. ASSUME NEW n \in Nodes, AddNode(n) PROVE TypeOK'
    BY <2>1, <2>2, <1>1 DEF AddNode, Begin, TypeOK, builderVars, sharedVars, consumerVars, bulkVars
  <2>3. ASSUME NEW n \in Nodes, HoldNode(n) PROVE TypeOK'
    BY <2>3, <1>1 DEF HoldNode, TypeOK, sharedVars, consumerVars, bulkVars
  <2>4. ASSUME NEW n \in Nodes, ReleaseNode(n) PROVE TypeOK'
    BY <2>1, <2>4, <1>1 DEF ReleaseNode, Begin, TypeOK, sharedVars, consumerVars, bulkVars
  <2>5. ASSUME NEW n \in Nodes, NEW p \in Parents, AddParent(n, p) PROVE TypeOK'
    <3>1. /\ parentUpdates' \in [Nodes -> SUBSET Parents]
          /\ requested' \in [Nodes -> SUBSET Parents]
      BY <2>5 DEF AddParent, TypeOK
    <3>2. pending' \in Seq(Ops)
      BY <2>5, <3>1, UpdateOrdersType DEF AddParent, Begin, TypeOK
    <3>3. /\ pc' \in {"push", "ready"}
          /\ call' \in {"commit", call}
      BY <2>5 DEF AddParent, Begin
    <3> QED BY <2>5, <3>1, <3>2, <3>3, <1>1 DEF AddParent, TypeOK, sharedVars, consumerVars, bulkVars
  <2>6. CASE Finalise
    <3>1. pending' \in Seq(Ops)
      BY <2>6, UpdateOrdersType DEF Finalise, Begin, TypeOK
    <3> QED BY <2>6, <3>1, <1>1 DEF Finalise, Begin, TypeOK, builderVars, sharedVars, consumerVars, bulkVars
  <2>7. CASE Destroy
    BY <2>7, <1>1, EmptySeq DEF Destroy, Begin, TypeOK, builderVars, sharedVars, consumerVars, bulkVars
  <2>8. CASE ImportFails
    BY <2>8, <1>1 DEF ImportFails, TypeOK, control, sharedVars, consumerVars, bulkVars
  <2>9. ASSUME NEW n \in Nodes, NEW m \in Nodes, AddMesh(n, m) PROVE TypeOK'
    <3>1. <<Insert(m), Insert(n)>> \in Seq(Ops)
      BY <2>1
    <3> QED BY <2>9, <3>1, <1>1 DEF AddMesh, Begin, TypeOK, builderVars, sharedVars, consumerVars, bulkVars
  <2> QED BY <2>2, <2>3, <2>4, <2>5, <2>6, <2>7, <2>8, <2>9 DEF Importer
<1> QED BY <1>2, <1>4, <1>5

-----------------------------------------------------------------------------
(* The steps of the importer's thread.                                     *)

LEMMA OpSizeType == \A o \in Ops : OpSize(o) \in Nat
BY SizesAssumption DEF OpSize, Ops

LEMMA PushIInv == IInv /\ Push => IInv'
<1> SUFFICES ASSUME IInv, Push PROVE IInv'
  OBVIOUS
<1> USE DEF IInv
<1> DEFINE o == Head(pending)
           new == Len(accepted) + 1
<1>1. /\ o \in Ops /\ Tail(pending) \in Seq(Ops) /\ OpSize(o) \in Nat
      /\ pending \in Seq(Ops) /\ pending # <<>>
  BY OpSizeType, HeadTailProperties DEF Push, TypeOK
<1>2. /\ accepted' = Append(accepted, o) /\ queue' = Append(queue, Write(new))
      /\ pc = "counted" /\ pc' = "push"
      /\ UNCHANGED <<cpc, inHand, bulk, applied, consumerException>>
  BY DEF Push, consumerVars, bulkVars
<1>3. /\ accepted \in Seq(Ops) /\ queue \in Seq(Entries)
      /\ Write(new) \in Entries /\ Write(new).ptr = new /\ IsWrite(Write(new))
      /\ Write(new) # Close
      /\ new \in Nat /\ Len(queue) \in Nat
  BY DEF TypeOK, Entries, Write, IsWrite, Close
<1>4. /\ Len(accepted') = new
      /\ Len(queue') = Len(queue) + 1
      /\ \A i \in 1..Len(queue) : queue'[i] = queue[i]
      /\ queue'[Len(queue) + 1] = Write(new)
  BY <1>1, <1>2, <1>3, AppendProperties
<1>5. TypeOK'
  BY <1>1, <1>2, <1>3 DEF TypeOK, Push, builderVars, consumerVars, bulkVars
<1>6. ClosedLast'
  <2>1. cpc = "stopped" => Thrown
    BY <1>2 DEF ClosedLast
  <2>2. inHand # Close /\ cpc # "flush"
    BY <1>2 DEF ClosedLast
  <2>3. \A i \in DOMAIN queue' : queue'[i] # Close
    <3>1. \A i \in DOMAIN queue : queue[i] # Close
      BY <1>2 DEF ClosedLast
    <3> QED BY <3>1, <1>2, <1>3, <1>4
  <2> QED BY <1>2, <2>1, <2>2, <2>3 DEF ClosedLast, Thrown
<1>7. PipelineInOrder'
  <2>1. /\ Landed' = Landed /\ (HasWriteInHand' <=> HasWriteInHand)
        /\ NextInQueue' = NextInQueue /\ (Failed' <=> Failed)
        /\ Landed \in Nat /\ NextInQueue \in Nat
    BY <1>2 DEF Landed, HasWriteInHand, NextInQueue, Failed, Thrown, TypeOK
  <2>2. CASE Failed
    BY <1>2, <1>3, <1>4, <2>1, <2>2 DEF PipelineInOrder
  <2>3. CASE ~Failed
    <3>1. /\ NextInQueue <= new
          /\ \A i \in 1..Len(queue) :
               IsWrite(queue[i]) => queue[i].ptr \in NextInQueue..Len(accepted)
          /\ \A i, j \in 1..Len(queue) :
               i < j /\ IsWrite(queue[i]) /\ IsWrite(queue[j]) => queue[i].ptr < queue[j].ptr
          /\ \A k \in NextInQueue..Len(accepted) : \E i \in 1..Len(queue) : queue[i] = Write(k)
      BY <1>3, <2>3 DEF PipelineInOrder
    <3>2. DOMAIN queue' = 1..(Len(queue) + 1)
      BY <1>2, <1>3, <1>4
    <3>3. \A i \in DOMAIN queue' :
             IsWrite(queue'[i]) => queue'[i].ptr \in NextInQueue..new
      BY <1>3, <1>4, <2>1, <3>1, <3>2
    <3>4. ASSUME NEW i \in DOMAIN queue', NEW j \in DOMAIN queue',
                 i < j, IsWrite(queue'[i]), IsWrite(queue'[j])
          PROVE  queue'[i].ptr < queue'[j].ptr
      <4>1. i \in 1..Len(queue) /\ queue'[i] = queue[i]
        BY <1>3, <1>4, <3>2, <3>4
      <4>2. CASE j = Len(queue) + 1
        BY <1>3, <1>4, <2>1, <3>1, <3>4, <4>1, <4>2
      <4>3. CASE j \in 1..Len(queue)
        BY <1>3, <1>4, <3>1, <3>4, <4>1, <4>3
      <4> QED BY <1>3, <3>2, <4>2, <4>3
    <3>5. ASSUME NEW k \in NextInQueue..new
          PROVE  \E i \in DOMAIN queue' : queue'[i] = Write(k)
      <4>1. CASE k = new
        BY <1>3, <1>4, <3>2, <4>1
      <4>2. CASE k # new
        <5>1. k \in NextInQueue..Len(accepted)
          BY <1>3, <2>1, <4>2
        <5>2. PICK i \in 1..Len(queue) : queue[i] = Write(k)
          BY <3>1, <5>1
        <5> QED BY <1>3, <1>4, <3>2, <5>2
      <4> QED BY <4>1, <4>2
    <3>6. NextInQueue' <= Len(accepted') + 1
      BY <1>3, <1>4, <2>1, <3>1
    <3>7. /\ \A i \in DOMAIN queue' :
               IsWrite(queue'[i]) => queue'[i].ptr \in NextInQueue'..Len(accepted')
          /\ \A k \in NextInQueue'..Len(accepted') : \E i \in DOMAIN queue' : queue'[i] = Write(k)
      BY <1>4, <2>1, <3>3, <3>5
    <3>8. /\ \A i \in 1..Len(applied') : applied'[i] = i
          /\ \A i \in 1..Len(bulk') : bulk'[i] = Len(applied') + i
          /\ HasWriteInHand' => inHand'.ptr = Landed' + 1
      BY <1>2, <2>1 DEF PipelineInOrder
    <3> QED BY <2>1, <2>3, <3>4, <3>6, <3>7, <3>8 DEF PipelineInOrder
  <2> QED BY <2>2, <2>3
<1> QED BY <1>5, <1>6, <1>7

\* An entry that is not a write joins the queue.
LEMMA ControlEntryInOrder ==
  ASSUME TypeOK, PipelineInOrder, NEW e \in {Notify, Close}, queue' = Append(queue, e),
         UNCHANGED <<accepted, cpc, inHand, bulk, applied, consumerException>>
  PROVE  PipelineInOrder'
<1>1. e \in Entries /\ ~IsWrite(e) /\ queue \in Seq(Entries) /\ Len(queue) \in Nat
  BY DEF TypeOK, Entries, Notify, Close, IsWrite
<1>2. /\ DOMAIN queue' = 1..(Len(queue) + 1) /\ DOMAIN queue = 1..Len(queue)
      /\ \A i \in 1..Len(queue) : queue'[i] = queue[i]
      /\ queue'[Len(queue) + 1] = e
  BY <1>1, AppendProperties
<1>3. /\ Landed' = Landed /\ (HasWriteInHand' <=> HasWriteInHand)
      /\ NextInQueue' = NextInQueue /\ (Failed' <=> Failed)
  BY DEF Landed, HasWriteInHand, NextInQueue, Failed, Thrown
<1>4. CASE Failed
  BY <1>3, <1>4 DEF PipelineInOrder
<1>5. CASE ~Failed
  <2>1. \A i \in DOMAIN queue' : IsWrite(queue'[i]) => i \in DOMAIN queue
    BY <1>1, <1>2
  <2> QED BY <1>1, <1>2, <1>3, <1>5, <2>1 DEF PipelineInOrder
<1> QED BY <1>4, <1>5

LEMMA RequestNotifyIInv == IInv /\ RequestNotify => IInv'
<1> SUFFICES ASSUME IInv, RequestNotify PROVE IInv'
  OBVIOUS
<1> USE DEF IInv
<1>1. PipelineInOrder'
  BY ControlEntryInOrder DEF RequestNotify, consumerVars, bulkVars
<1>2. TypeOK'
  BY DEF RequestNotify, TypeOK, Entries, Notify, builderVars, consumerVars, bulkVars
<1>3. ClosedLast'
  <2>1. queue \in Seq(Entries) /\ Notify \in Entries /\ Notify # Close
    BY DEF TypeOK, Entries, Notify, Close
  <2>2. \A i \in DOMAIN queue : queue[i] # Close
    BY DEF ClosedLast, RequestNotify
  <2>3. \A i \in DOMAIN queue' : queue'[i] # Close
    BY <2>1, <2>2, AppendProperties DEF RequestNotify
  <2> QED BY <2>3 DEF ClosedLast, RequestNotify, consumerVars, bulkVars, Thrown
<1> QED BY <1>1, <1>2, <1>3

LEMMA CloseQueueIInv == IInv /\ CloseQueue => IInv'
<1> SUFFICES ASSUME IInv, CloseQueue PROVE IInv'
  OBVIOUS
<1> USE DEF IInv
<1>1. PipelineInOrder'
  BY ControlEntryInOrder DEF CloseQueue, consumerVars, bulkVars
<1>2. TypeOK'
  <2>1. parentUpdates' \in [Nodes -> SUBSET Parents]
    BY DEF CloseQueue, TypeOK, NoUpdates
  <2> QED BY <2>1 DEF CloseQueue, TypeOK, Entries, Close, consumerVars, bulkVars
<1>3. ClosedLast'
  <2>1. queue \in Seq(Entries) /\ Close \in Entries
    BY DEF TypeOK, Entries, Close
  <2>2. \A i \in DOMAIN queue : queue[i] # Close
    BY DEF ClosedLast, CloseQueue
  <2>3. \A i \in DOMAIN queue' : queue'[i] = Close => i = Len(queue')
    BY <2>1, <2>2, AppendProperties DEF CloseQueue
  <2> QED BY <2>3 DEF ClosedLast, CloseQueue, consumerVars, bulkVars, Thrown
<1> QED BY <1>1, <1>2, <1>3

LEMMA JoinFinaliseIInv == IInv /\ JoinFinalise => IInv'
<1> SUFFICES ASSUME IInv, JoinFinalise PROVE IInv'
  OBVIOUS
<1> USE DEF IInv
<1>1. TypeOK'
  BY EmptySeq DEF JoinFinalise, TypeOK, bulkVars
<1>2. /\ bulk = <<>> /\ queue = <<>> /\ ~Failed /\ ~HasWriteInHand
      /\ inHand # Close /\ Landed \in Nat /\ Len(accepted) \in Nat
  <2>1. inHand # Close
    BY DEF ClosedLast, JoinFinalise, TypeOK
  <2> QED BY <2>1 DEF ClosedLast, JoinFinalise, Failed, HasWriteInHand, Landed, TypeOK
<1>3. PipelineInOrder'
  BY <1>2 DEF JoinFinalise, PipelineInOrder, Landed, HasWriteInHand, NextInQueue, Failed, Thrown, bulkVars
<1>4. ClosedLast'
  BY <1>2 DEF JoinFinalise, ClosedLast, Thrown
<1> QED BY <1>1, <1>3, <1>4

\* The steps that only move the importer's thread along.
Moves == Count \/ Suspend \/ Acquire \/ Timeout \/ Recheck \/ Rethrow \/ Return
           \/ JoinFailed \/ JoinDestroy

LEMMA MovesIInv == IInv /\ Moves => IInv'
<1> SUFFICES ASSUME IInv, Moves PROVE IInv'
  OBVIOUS
<1> USE DEF IInv
<1>1. UNCHANGED <<accepted, requested, held, finalises, queue, consumerException, consumerVars>>
  BY DEF Moves, Count, Suspend, Acquire, Timeout, Recheck, Rethrow, Return, JoinFailed, JoinDestroy,
         builderVars, sharedVars
<1>2. PipelineInOrder'
  BY <1>1, PipelineUnchanged DEF pipelineVars, consumerVars, bulkVars
<1>3. TypeOK'
  <2>1. /\ pending' \in {pending, <<>>} /\ stack' \in {stack, "unwinding"}
        /\ parentUpdates' \in {parentUpdates, NoUpdates}
        /\ call' \in {call, "none"}
        /\ pc' \in {"ready", "push", "counted", "blocked", "awake", "destroyed", "terminated"}
    BY DEF Moves, Count, Suspend, Acquire, Timeout, Recheck, Rethrow, Return, JoinFailed, JoinDestroy, builderVars
  <2>2. permits' \in Nat
    BY DEF Moves, Count, Suspend, Acquire, Timeout, Recheck, Rethrow, Return, JoinFailed, JoinDestroy, sharedVars, TypeOK
  <2>3. parentUpdates' \in [Nodes -> SUBSET Parents]
    BY <2>1 DEF TypeOK, NoUpdates
  <2>4. pending' \in Seq(Ops)
    BY <2>1, EmptySeq DEF TypeOK
  <2>5. queueSize' \in Int
    <3>1. CASE Count
      <4>1. Head(pending) \in Ops /\ queueSize \in Int
        BY <3>1, HeadTailProperties DEF Count, TypeOK
      <4>2. OpSize(Head(pending)) \in Nat
        BY <4>1, OpSizeType
      <4> QED BY <3>1, <4>1, <4>2 DEF Count
    <3>2. CASE ~Count
      BY <3>2 DEF Moves, Suspend, Acquire, Timeout, Recheck, Rethrow, Return, JoinFailed, JoinDestroy,
             sharedVars, TypeOK
    <3> QED BY <3>1, <3>2
  <2> QED BY <1>1, <2>1, <2>2, <2>3, <2>4, <2>5 DEF TypeOK, consumerVars, bulkVars
<1>4. ClosedLast'
  <2>1. CASE pc \in {"notified", "blocked", "awake", "push"} /\ pc' # "destroyed"
    BY <1>1, <2>1 DEF ClosedLast, consumerVars, bulkVars, Thrown
  <2>2. CASE JoinFailed \/ JoinDestroy
    BY <1>1, <2>2 DEF JoinFailed, JoinDestroy, ClosedLast, consumerVars, bulkVars, Thrown
  <2> QED BY <2>1, <2>2 DEF Moves, Count, Suspend, Acquire, Timeout, Recheck, Rethrow, Return
<1> QED BY <1>2, <1>3, <1>4

LEMMA ProducerIInv == IInv /\ Producer => IInv'
BY PushIInv, RequestNotifyIInv, CloseQueueIInv, JoinFinaliseIInv, MovesIInv DEF Producer, Moves
-----------------------------------------------------------------------------
(* The steps of the worker's thread.                                       *)

LEMMA ConsumerStartIInv == IInv /\ ConsumerStart => IInv'
<1> SUFFICES ASSUME IInv, ConsumerStart PROVE IInv'
  OBVIOUS
<1> USE DEF IInv
<1>1. /\ UNCHANGED <<producerVars, queue, inHand, bulk, applied>>
      /\ cpc = "starting"
      /\ \/ cpc' = "waiting" /\ consumerException' = consumerException
         \/ cpc' = "stopped" /\ consumerException' = "set"
  BY DEF ConsumerStart, bulkVars
<1>2. TypeOK'
  BY <1>1 DEF ConsumerStart, TypeOK, producerVars, control, builderVars, bulkVars
<1>3. ClosedLast'
  <2>1. ~Thrown /\ inHand # Close /\ pc # "destroyed" /\ pc' = pc
    BY <1>1 DEF ClosedLast, producerVars, control
  <2> QED BY <1>1, <2>1 DEF ClosedLast, Thrown
<1>4. PipelineInOrder'
  <2>1. ~Thrown /\ ~Failed /\ ~HasWriteInHand
    BY <1>1 DEF ClosedLast, Failed, HasWriteInHand, Thrown
  <2>2. accepted' = accepted /\ Landed' = Landed /\ ~HasWriteInHand' /\ NextInQueue' = NextInQueue
        /\ NextInQueue = Landed + 1
    BY <1>1, <2>1 DEF producerVars, Landed, HasWriteInHand, NextInQueue
  <2>3. Landed \in Nat /\ Len(accepted) \in Nat
    BY DEF Landed, TypeOK
  <2>4. Landed <= Len(accepted)
    BY <2>1, <2>2, <2>3 DEF PipelineInOrder
  <2> QED BY <1>1, <2>1, <2>2, <2>4 DEF PipelineInOrder, Failed, Thrown
<1> QED BY <1>2, <1>3, <1>4

LEMMA DequeueIInv == IInv /\ Dequeue => IInv'
<1> SUFFICES ASSUME IInv, Dequeue PROVE IInv'
  OBVIOUS
<1> USE DEF IInv
<1>1. /\ queue \in Seq(Entries) /\ queue # <<>> /\ inHand' = Head(queue) /\ queue' = Tail(queue)
      /\ cpc = "waiting" /\ cpc' = "taken"
      /\ UNCHANGED <<producerVars, consumerException, bulk, applied>>
  BY DEF Dequeue, TypeOK, bulkVars
<1>2. /\ Head(queue) = queue[1] /\ Head(queue) \in Entries /\ queue' \in Seq(Entries)
      /\ Len(queue) \in Nat \ {0} /\ Len(queue') = Len(queue) - 1
      /\ \A i \in 1..Len(queue') : queue'[i] = queue[i + 1]
      /\ DOMAIN queue = 1..Len(queue) /\ DOMAIN queue' = 1..Len(queue')
  BY <1>1, HeadTailProperties, EmptySeq
<1>3. TypeOK'
  BY <1>1, <1>2 DEF Dequeue, TypeOK, producerVars, control, builderVars, bulkVars
<1>4. pc' = pc /\ accepted' = accepted
  BY <1>1 DEF producerVars, control
<1>5. ClosedLast'
  <2>1. \A i \in DOMAIN queue' : queue'[i] = Close => i = Len(queue') /\ pc \in {"joining", "terminated"}
    <3> SUFFICES ASSUME NEW i \in DOMAIN queue', queue'[i] = Close
                 PROVE  i = Len(queue') /\ pc \in {"joining", "terminated"}
      OBVIOUS
    <3>1. i + 1 \in DOMAIN queue /\ queue[i + 1] = Close
      BY <1>2
    <3> QED BY <1>2, <3>1 DEF ClosedLast
  <2>2. inHand' = Close => queue' = <<>> /\ pc \in {"joining", "terminated"}
    <3> SUFFICES ASSUME inHand' = Close PROVE queue' = <<>> /\ pc \in {"joining", "terminated"}
      OBVIOUS
    <3>1. 1 \in DOMAIN queue /\ queue[1] = Close
      BY <1>1, <1>2
    <3>2. 1 = Len(queue) /\ pc \in {"joining", "terminated"}
      BY <3>1 DEF ClosedLast
    <3>3. queue' \in Seq(Entries) /\ Len(queue') = Len(queue) - 1
      BY <1>2
    <3>4. Len(queue') = 0
      BY <3>2, <3>3
    <3> QED BY <3>2, <3>3, <3>4, EmptySeq
  <2>3. ~Thrown /\ pc # "destroyed"
    BY <1>1 DEF ClosedLast
  <2> QED BY <1>1, <1>4, <2>1, <2>2, <2>3 DEF ClosedLast, Thrown
<1>6. PipelineInOrder'
  <2>1. ~Failed /\ ~Failed' /\ ~HasWriteInHand /\ NextInQueue = Landed + 1
        /\ Landed' = Landed /\ Landed \in Nat /\ Len(accepted) \in Nat
        /\ (HasWriteInHand' <=> IsWrite(queue[1]))
        /\ NextInQueue' = Landed + (IF IsWrite(queue[1]) THEN 2 ELSE 1)
    <3>1. ~Failed /\ ~Failed'
      BY <1>1 DEF Failed, ClosedLast, Thrown
    <3>2. Landed' = Landed /\ Landed \in Nat /\ Len(accepted) \in Nat
      BY <1>1 DEF Landed, TypeOK
    <3>3. ~HasWriteInHand /\ (HasWriteInHand' <=> IsWrite(queue[1]))
      BY <1>1, <1>2 DEF HasWriteInHand, IsWrite
    <3>4. NextInQueue = Landed + 1 /\ NextInQueue' = Landed + (IF IsWrite(queue[1]) THEN 2 ELSE 1)
      BY <3>2, <3>3 DEF NextInQueue
    <3> QED BY <3>1, <3>2, <3>3, <3>4
  <2>2. /\ Landed <= Len(accepted)
        /\ \A i \in DOMAIN queue : IsWrite(queue[i]) => queue[i].ptr \in (Landed + 1)..Len(accepted)
        /\ \A i, j \in DOMAIN queue :
             i < j /\ IsWrite(queue[i]) /\ IsWrite(queue[j]) => queue[i].ptr < queue[j].ptr
        /\ \A k \in (Landed + 1)..Len(accepted) : \E i \in DOMAIN queue : queue[i] = Write(k)
    BY <2>1 DEF PipelineInOrder
  <2>3. \A k \in Nat : IsWrite(Write(k)) /\ Write(k).ptr = k
    BY DEF IsWrite, Write
  <2>4. IsWrite(queue[1]) => queue[1].ptr = Landed + 1
    <3> SUFFICES ASSUME IsWrite(queue[1]) PROVE queue[1].ptr = Landed + 1
      OBVIOUS
    <3>1. queue[1].ptr \in (Landed + 1)..Len(accepted)
      BY <1>2, <2>2
    <3>2. PICK i \in DOMAIN queue : queue[i] = Write(Landed + 1)
      BY <2>1, <2>2, <3>1
    <3>3. IsWrite(queue[i]) /\ queue[i].ptr = Landed + 1
      BY <2>1, <2>3, <3>2
    <3>4. CASE i # 1
      <4>1. 1 \in DOMAIN queue /\ 1 < i
        BY <1>2, <3>2, <3>4
      <4>2. queue[1].ptr < Landed + 1
        BY <2>2, <3>2, <3>3, <4>1
      <4> QED BY <2>1, <3>1, <4>2
    <3> QED BY <3>3, <3>4
  <2>5. \A i \in DOMAIN queue' : IsWrite(queue'[i]) => queue'[i].ptr \in NextInQueue'..Len(accepted)
    <3> SUFFICES ASSUME NEW i \in DOMAIN queue', IsWrite(queue'[i])
                 PROVE  queue'[i].ptr \in NextInQueue'..Len(accepted)
      OBVIOUS
    <3>1. i + 1 \in DOMAIN queue /\ queue'[i] = queue[i + 1] /\ 1 \in DOMAIN queue /\ 1 < i + 1
      BY <1>2
    <3>2. queue[i + 1].ptr \in (Landed + 1)..Len(accepted)
      BY <2>2, <3>1
    <3>3. IsWrite(queue[1]) => queue[1].ptr < queue[i + 1].ptr
      BY <2>2, <3>1
    <3> QED BY <2>1, <2>4, <3>1, <3>2, <3>3
  <2>6. \A i, j \in DOMAIN queue' :
           i < j /\ IsWrite(queue'[i]) /\ IsWrite(queue'[j]) => queue'[i].ptr < queue'[j].ptr
    <3> SUFFICES ASSUME NEW i \in DOMAIN queue', NEW j \in DOMAIN queue', i < j,
                        IsWrite(queue'[i]), IsWrite(queue'[j])
                 PROVE  queue'[i].ptr < queue'[j].ptr
      OBVIOUS
    <3>1. /\ i + 1 \in DOMAIN queue /\ j + 1 \in DOMAIN queue /\ i + 1 < j + 1
          /\ queue'[i] = queue[i + 1] /\ queue'[j] = queue[j + 1]
      BY <1>2
    <3> QED BY <2>2, <3>1
  <2>7. \A k \in NextInQueue'..Len(accepted) : \E i \in DOMAIN queue' : queue'[i] = Write(k)
    <3> SUFFICES ASSUME NEW k \in NextInQueue'..Len(accepted)
                 PROVE  \E i \in DOMAIN queue' : queue'[i] = Write(k)
      OBVIOUS
    <3>1. k \in (Landed + 1)..Len(accepted) /\ k \in Nat
      BY <2>1
    <3>2. PICK i \in DOMAIN queue : queue[i] = Write(k)
      BY <2>2, <3>1
    <3>3. i # 1
      BY <2>1, <2>3, <2>4, <3>1, <3>2
    <3>4. i - 1 \in DOMAIN queue' /\ queue'[i - 1] = queue[i]
      BY <1>2, <3>3
    <3> QED BY <3>2, <3>4
  <2>8. NextInQueue' <= Len(accepted) + 1
    <3>1. IsWrite(queue[1]) => Landed + 1 <= Len(accepted)
      BY <1>2, <2>1, <2>2, <2>4
    <3> QED BY <2>1, <2>2, <3>1
  <2>9. /\ \A i \in 1..Len(applied') : applied'[i] = i
        /\ \A i \in 1..Len(bulk') : bulk'[i] = Len(applied') + i
        /\ HasWriteInHand' => inHand'.ptr = Landed' + 1
    BY <1>1, <1>2, <2>1, <2>4 DEF PipelineInOrder
  <2> QED BY <1>4, <2>1, <2>5, <2>6, <2>7, <2>8, <2>9 DEF PipelineInOrder
<1> QED BY <1>3, <1>5, <1>6

\* The write in hand is the next to land.
LEMMA WriteInHand ==
  ASSUME IInv, HasWriteInHand
  PROVE  /\ inHand.ptr = Landed + 1 /\ inHand.ptr \in 1..Len(accepted)
         /\ Landed \in Nat /\ ~Failed /\ NextInQueue = Landed + 2
         /\ EntrySize(inHand) \in Nat
<1> USE DEF IInv
<1>1. Landed \in Nat /\ Len(accepted) \in Nat
  BY DEF Landed, TypeOK
<1>2. ~Failed
  BY DEF ClosedLast, HasWriteInHand, Failed, Thrown
<1>3. NextInQueue = Landed + 2 /\ inHand.ptr = Landed + 1 /\ NextInQueue <= Len(accepted) + 1
  BY <1>1, <1>2 DEF PipelineInOrder, NextInQueue
<1>4. inHand.ptr \in 1..Len(accepted)
  BY <1>1, <1>3
<1>5. accepted[inHand.ptr] \in Ops
  BY <1>4 DEF TypeOK
<1>6. EntrySize(inHand) \in Nat
  BY <1>5, OpSizeType DEF EntrySize, HasWriteInHand
<1> QED BY <1>1, <1>2, <1>3, <1>4, <1>6

LEMMA AccountIInv == IInv /\ Account => IInv'
<1> SUFFICES ASSUME IInv, Account PROVE IInv'
  OBVIOUS
<1> USE DEF IInv
<1>1. /\ UNCHANGED <<producerVars, queue, permits, consumerException, inHand, bulkVars>>
      /\ cpc = "taken" /\ cpc' = "visit"
      /\ UNCHANGED <<accepted, pc, bulk, applied>>
  BY DEF Account, producerVars, control, bulkVars
<1>2. EntrySize(inHand) \in Nat
  BY <1>1, WriteInHand DEF HasWriteInHand, EntrySize
<1>3. TypeOK'
  BY <1>1, <1>2 DEF Account, TypeOK, producerVars, control, builderVars, bulkVars
<1>4. ClosedLast'
  BY <1>1 DEF ClosedLast, Thrown
<1>5. PipelineInOrder'
  <2>1. /\ Landed' = Landed /\ (HasWriteInHand' <=> HasWriteInHand)
        /\ (Failed' <=> Failed)
    BY <1>1 DEF Landed, HasWriteInHand, Failed, Thrown
  <2>2. NextInQueue' = NextInQueue
    BY <2>1 DEF NextInQueue
  <2> QED BY <1>1, <2>1, <2>2 DEF PipelineInOrder
<1> QED BY <1>3, <1>4, <1>5

\* The executed writes, and after them those of a bulk write b.
InOrder(a, b) ==
  /\ \A i \in 1..Len(a) : a[i] = i
  /\ \A i \in 1..Len(b) : b[i] = Len(a) + i

LEMMA AppendedInOrder ==
  ASSUME NEW a \in Seq(Nat), NEW b \in Seq(Nat), InOrder(a, b),
         NEW ptr \in Nat, ptr = Len(a) + Len(b) + 1
  PROVE  /\ InOrder(a, Append(b, ptr))
         /\ Append(b, ptr) \in Seq(Nat) /\ Len(Append(b, ptr)) = Len(b) + 1
<1>1. /\ Len(a) \in Nat /\ Len(b) \in Nat
      /\ Append(b, ptr) \in Seq(Nat) /\ Len(Append(b, ptr)) = Len(b) + 1
      /\ \A i \in 1..Len(b) : Append(b, ptr)[i] = b[i]
      /\ Append(b, ptr)[Len(b) + 1] = ptr
  BY AppendProperties, LenProperties
<1>2. ASSUME NEW i \in 1..(Len(b) + 1) PROVE Append(b, ptr)[i] = Len(a) + i
  <2>1. CASE i = Len(b) + 1
    BY <1>1, <2>1
  <2>2. CASE i # Len(b) + 1
    <3>1. i \in 1..Len(b)
      BY <1>1, <2>2
    <3> QED BY <1>1, <3>1 DEF InOrder
  <2> QED BY <2>1, <2>2
<1> QED BY <1>1, <1>2 DEF InOrder

\* Executing the first k writes of a bulk write moves them over.
LEMMA ExecutedInOrder ==
  ASSUME NEW a \in Seq(Nat), NEW b \in Seq(Nat), InOrder(a, b), NEW k \in 0..Len(b)
  PROVE  /\ a \o SubSeq(b, 1, k) \in Seq(Nat)
         /\ SubSeq(b, k + 1, Len(b)) \in Seq(Nat)
         /\ InOrder(a \o SubSeq(b, 1, k), SubSeq(b, k + 1, Len(b)))
         /\ Len(a \o SubSeq(b, 1, k)) = Len(a) + k
         /\ Len(SubSeq(b, k + 1, Len(b))) = Len(b) - k
<1> DEFINE f == SubSeq(b, 1, k)
           r == SubSeq(b, k + 1, Len(b))
           e == a \o f
           m == Len(a)
           n == Len(b)
<1>1. m \in Nat /\ n \in Nat /\ k \in Nat /\ k <= n
  BY LenProperties
<1>2. /\ f \in Seq(Nat) /\ Len(f) = k
      /\ \A i \in 1..k : f[i] = b[i]
  <2>1. \A i \in 1..k : b[i] \in Nat
    BY <1>1, ElementOfSeq
  <2>2. /\ f \in Seq(Nat) /\ Len(f) = IF 1 <= k THEN k - 1 + 1 ELSE 0
        /\ \A i \in 1..(k - 1 + 1) : f[i] = b[1 + i - 1]
    BY <1>1, <2>1, SubSeqProperties
  <2> QED BY <1>1, <2>2
<1>3. /\ r \in Seq(Nat) /\ Len(r) = n - k
      /\ \A i \in 1..(n - k) : r[i] = b[k + i]
  <2>1. \A i \in (k + 1)..n : b[i] \in Nat
    BY <1>1, ElementOfSeq
  <2>2. /\ r \in Seq(Nat) /\ Len(r) = IF k + 1 <= n THEN n - (k + 1) + 1 ELSE 0
        /\ \A i \in 1..(n - (k + 1) + 1) : r[i] = b[(k + 1) + i - 1]
    BY <1>1, <2>1, SubSeqProperties
  <2> QED BY <1>1, <2>2
<1>4. /\ e \in Seq(Nat) /\ Len(e) = m + k
      /\ \A i \in 1..(m + k) : e[i] = IF i <= m THEN a[i] ELSE f[i - m]
  BY <1>1, <1>2, ConcatProperties
<1>5. /\ \A i \in 1..m : a[i] = i
      /\ \A i \in 1..n : b[i] = m + i
  BY DEF InOrder
<1> HIDE DEF f, r, e, m, n
<1>6. \A i \in 1..(m + k) : e[i] = i
  <2>1. ASSUME NEW i \in 1..k PROVE f[i] = m + i
    <3>1. i \in 1..n
      BY <1>1
    <3>2. f[i] = b[i]
      BY <1>2
    <3> QED BY <1>5, <3>1, <3>2
  <2>2. ASSUME NEW i \in 1..(m + k), i <= m PROVE e[i] = i
    <3>1. i \in 1..m
      BY <1>1, <2>2
    <3> QED BY <1>4, <1>5, <2>2, <3>1
  <2>3. ASSUME NEW i \in 1..(m + k), ~(i <= m) PROVE e[i] = i
    <3>1. i - m \in 1..k
      BY <1>1, <2>3
    <3>2. e[i] = f[i - m]
      BY <1>4, <2>3
    <3>3. f[i - m] = m + (i - m)
      BY <2>1, <3>1
    <3> QED BY <1>1, <3>2, <3>3
  <2> QED BY <2>2, <2>3
<1>7. \A i \in 1..(n - k) : r[i] = (m + k) + i
  BY <1>1, <1>3, <1>5
<1>8. InOrder(e, r)
  BY <1>3, <1>4, <1>6, <1>7 DEF InOrder
<1> QED BY <1>3, <1>4, <1>8 DEF e, f, r, m, n

\* A step of the worker after which the writes have landed in order, and
\* nothing but the worker's own variables has changed.
LEMMA LandedInOrder ==
  ASSUME IInv, UNCHANGED <<accepted, queue>>, ~HasWriteInHand', InOrder(applied', bulk'),
         Landed' = IF HasWriteInHand THEN Landed + 1 ELSE Landed,
         Failed => Failed'
  PROVE  PipelineInOrder'
<1> USE DEF IInv
<1>1. Landed \in Nat /\ Len(accepted) \in Nat
  BY DEF Landed, TypeOK
<1>2. NextInQueue' = NextInQueue /\ NextInQueue = Landed' + 1
  BY <1>1 DEF NextInQueue
<1>3. Landed' <= Len(accepted)
  <2>1. CASE HasWriteInHand
    BY <1>1, <2>1, WriteInHand
  <2>2. CASE ~HasWriteInHand
    BY <1>1, <1>2, <2>2 DEF PipelineInOrder
  <2> QED BY <2>1, <2>2
<1>4. CASE Failed'
  BY <1>3, <1>4 DEF PipelineInOrder, InOrder
<1>5. CASE ~Failed'
  <2>1. ~Failed
    BY <1>5
  <2> QED BY <1>2, <1>5, <2>1 DEF PipelineInOrder, InOrder
<1> QED BY <1>4, <1>5

\* The bulk write with the write in hand appended to it.
LEMMA WithWriteInHand ==
  ASSUME IInv, HasWriteInHand
  PROVE  /\ Append(bulk, inHand.ptr) \in Seq(Nat)
         /\ InOrder(applied, Append(bulk, inHand.ptr))
         /\ Len(applied) + Len(Append(bulk, inHand.ptr)) = Landed + 1
         /\ Len(applied) \in Nat /\ applied \in Seq(Nat)
<1> USE DEF IInv
<1>1. /\ applied \in Seq(Nat) /\ bulk \in Seq(Nat)
      /\ Len(applied) \in Nat /\ Len(bulk) \in Nat
  BY DEF TypeOK
<1>2. inHand.ptr = Len(applied) + Len(bulk) + 1 /\ inHand.ptr \in Nat
  BY <1>1, WriteInHand DEF Landed
<1>3. InOrder(applied, bulk)
  BY DEF PipelineInOrder, InOrder
<1>4. /\ InOrder(applied, Append(bulk, inHand.ptr))
      /\ Append(bulk, inHand.ptr) \in Seq(Nat)
      /\ Len(Append(bulk, inHand.ptr)) = Len(bulk) + 1
  BY <1>1, <1>2, <1>3, AppendedInOrder
<1> QED BY <1>1, <1>4 DEF Landed

\* Executing all of a bulk write b.
LEMMA AllExecutedInOrder ==
  ASSUME NEW a \in Seq(Nat), NEW b \in Seq(Nat), InOrder(a, b)
  PROVE  /\ a \o b \in Seq(Nat) /\ Len(a \o b) = Len(a) + Len(b)
         /\ InOrder(a \o b, <<>>)
<1>1. Len(b) \in Nat /\ Len(b) \in 0..Len(b)
  BY LenProperties
<1>2. SubSeq(b, 1, Len(b)) = b /\ SubSeq(b, Len(b) + 1, Len(b)) = <<>>
  BY <1>1, SubSeqFull, SubSeqEmpty
<1>3. /\ a \o SubSeq(b, 1, Len(b)) \in Seq(Nat)
      /\ InOrder(a \o SubSeq(b, 1, Len(b)), SubSeq(b, Len(b) + 1, Len(b)))
      /\ Len(a \o SubSeq(b, 1, Len(b))) = Len(a) + Len(b)
  BY <1>1, ExecutedInOrder
<1> QED BY <1>2, <1>3

LEMMA VisitBufferedIInv == IInv /\ VisitBuffered => IInv'
<1> SUFFICES ASSUME IInv, VisitBuffered PROVE IInv'
  OBVIOUS
<1> USE DEF IInv
<1>1. /\ HasWriteInHand /\ cpc = "visit" /\ cpc' = "waiting"
      /\ bulk' = Append(bulk, inHand.ptr) /\ inHand' = Nothing
      /\ UNCHANGED <<producerVars, sharedVars, applied, bulkState>>
      /\ UNCHANGED <<accepted, pc, queue, consumerException>>
  BY DEF VisitBuffered, HasWriteInHand, producerVars, control, sharedVars
<1>2. bulkSize' \in Nat
  BY SMTT(30), <1>1, WriteInHand DEF VisitBuffered, TypeOK
<1>3. TypeOK'
  BY <1>1, <1>2, WithWriteInHand DEF TypeOK, producerVars, control, builderVars, sharedVars
<1>4. PipelineInOrder'
  <2>1. InOrder(applied', bulk') /\ Landed' = Landed + 1
    BY <1>1, WithWriteInHand DEF Landed
  <2>2. ~HasWriteInHand' /\ ~Failed
    BY <1>1, WriteInHand DEF HasWriteInHand
  <2> QED BY <1>1, <2>1, <2>2, LandedInOrder
<1>5. ClosedLast'
  BY <1>1 DEF ClosedLast, Thrown, Nothing, Close
<1> QED BY <1>3, <1>4, <1>5

LEMMA VisitExecutedIInv == IInv /\ VisitExecuted => IInv'
<1> SUFFICES ASSUME IInv, VisitExecuted PROVE IInv'
  OBVIOUS
<1> USE DEF IInv
<1> DEFINE b == Append(bulk, inHand.ptr)
<1>1. /\ HasWriteInHand /\ cpc = "visit" /\ cpc' = "waiting"
      /\ applied' = applied \o b /\ bulk' = <<>> /\ bulkSize' = 0 /\ inHand' = Nothing
      /\ UNCHANGED <<producerVars, sharedVars, bulkState>>
      /\ UNCHANGED <<accepted, pc, queue, consumerException>>
  BY DEF VisitExecuted, HasWriteInHand, producerVars, control, sharedVars
<1>2. /\ b \in Seq(Nat) /\ InOrder(applied, b) /\ Len(applied) + Len(b) = Landed + 1
      /\ applied \in Seq(Nat)
  BY <1>1, WithWriteInHand
<1> HIDE DEF b
<1>3. /\ applied' \in Seq(Nat) /\ Len(applied') = Landed + 1
      /\ InOrder(applied', bulk')
  BY <1>1, <1>2, AllExecutedInOrder
<1>4. TypeOK'
  BY <1>1, <1>3, EmptySeq DEF TypeOK, producerVars, control, builderVars, sharedVars
<1>5. PipelineInOrder'
  <2>1. Landed' = Landed + 1
    BY <1>1, <1>3, WriteInHand, EmptySeq DEF Landed
  <2>2. ~HasWriteInHand' /\ ~Failed
    BY <1>1, WriteInHand DEF HasWriteInHand
  <2> QED BY <1>1, <1>3, <2>1, <2>2, LandedInOrder
<1>6. ClosedLast'
  BY <1>1 DEF ClosedLast, Thrown, Nothing, Close
<1> QED BY <1>4, <1>5, <1>6

LEMMA VisitExecuteFailsIInv == IInv /\ VisitExecuteFails => IInv'
<1> SUFFICES ASSUME IInv, VisitExecuteFails PROVE IInv'
  OBVIOUS
<1> USE DEF IInv
<1> DEFINE b == Append(bulk, inHand.ptr)
<1>1. /\ HasWriteInHand /\ cpc = "visit" /\ cpc' = "unwind" /\ inHand' = Nothing
      /\ UNCHANGED <<producerVars, sharedVars>>
      /\ UNCHANGED <<accepted, pc, queue, consumerException>>
      /\ bulkSize' = bulkSize + EntrySize(inHand)
  BY DEF VisitExecuteFails, HasWriteInHand, producerVars, control, sharedVars
<1>2. /\ b \in Seq(Nat) /\ InOrder(applied, b) /\ Len(applied) + Len(b) = Landed + 1
      /\ applied \in Seq(Nat)
  BY <1>1, WithWriteInHand
<1>3. PICK k \in 0..Len(b) : PartlyApply(b, k)
  BY DEF VisitExecuteFails
<1>4. /\ applied' = applied \o SubSeq(b, 1, k)
      /\ bulk' = SubSeq(b, k + 1, Len(b)) /\ bulkState' \in {"repeats", bulkState}
  BY <1>3 DEF PartlyApply
<1> HIDE DEF b
<1>5. /\ applied' \in Seq(Nat) /\ bulk' \in Seq(Nat) /\ InOrder(applied', bulk')
      /\ Len(applied') = Len(applied) + k /\ Len(bulk') = Len(b) - k
  BY <1>2, <1>4, ExecutedInOrder
<1>6. bulkSize' \in Nat
  BY SMTT(30), <1>1, WriteInHand DEF TypeOK
<1>7. TypeOK'
  BY <1>1, <1>4, <1>5, <1>6 DEF TypeOK, producerVars, control, builderVars, sharedVars
<1>8. PipelineInOrder'
  <2>1. Landed' = Landed + 1
    <3>1. Len(applied) \in Nat /\ Len(b) \in Nat /\ k \in Int
      BY <1>2, LenProperties
    <3>2. Landed' = (Len(applied) + k) + (Len(b) - k)
      BY <1>5 DEF Landed
    <3> QED BY <1>2, <3>1, <3>2
  <2>2. ~HasWriteInHand' /\ ~Failed
    BY <1>1, WriteInHand DEF HasWriteInHand
  <2> QED BY <1>1, <1>5, <2>1, <2>2, LandedInOrder
<1>9. ClosedLast'
  BY <1>1 DEF ClosedLast, Thrown, Nothing, Close
<1> QED BY <1>7, <1>8, <1>9

\* The steps that leave the bulk write and the collection alone.
Skips == VisitAppendFails \/ VisitNotify \/ VisitClose

LEMMA SkipsIInv == IInv /\ Skips => IInv'
<1> SUFFICES ASSUME IInv, Skips PROVE IInv'
  OBVIOUS
<1> USE DEF IInv
<1>1. /\ cpc = "visit" /\ inHand' = Nothing /\ cpc' \in {"waiting", "flush", "unwind"}
      /\ UNCHANGED <<producerVars, queue, queueSize, consumerException, bulkVars>>
      /\ UNCHANGED <<accepted, pc, bulk, applied>>
      /\ cpc' = "flush" => inHand = Close
      /\ cpc' # "unwind" => ~IsWrite(inHand)
  BY DEF Skips, VisitAppendFails, VisitNotify, VisitClose, producerVars, control,
         sharedVars, bulkVars, IsWrite, Notify, Close
<1>2. permits' \in Nat
  BY DEF Skips, VisitAppendFails, VisitNotify, VisitClose, sharedVars, TypeOK
<1>3. TypeOK'
  BY <1>1, <1>2 DEF TypeOK, producerVars, control, builderVars, bulkVars
<1>4. PipelineInOrder'
  <2>1. /\ Landed' = Landed /\ ~HasWriteInHand' /\ NextInQueue' = Landed + 1
        /\ Landed \in Nat /\ Len(accepted) \in Nat
    BY <1>1 DEF Landed, HasWriteInHand, NextInQueue, TypeOK
  <2>2. CASE cpc' = "unwind"
    <3>1. Failed' /\ Landed <= Len(accepted)
      BY <1>1, <2>1, <2>2 DEF Failed, PipelineInOrder, NextInQueue
    <3> QED BY <1>1, <2>1, <3>1 DEF PipelineInOrder
  <2>3. CASE cpc' # "unwind"
    <3>1. ~HasWriteInHand /\ NextInQueue = Landed + 1 /\ (Failed' <=> Failed)
      BY <1>1, <2>1, <2>3 DEF HasWriteInHand, NextInQueue, Failed, Thrown
    <3> QED BY <1>1, <2>1, <3>1 DEF PipelineInOrder
  <2> QED BY <2>2, <2>3
<1>5. ClosedLast'
  BY <1>1 DEF ClosedLast, Thrown, Nothing, Close
<1> QED BY <1>3, <1>4, <1>5

LEMMA FlushContextIInv == IInv /\ FlushContext => IInv'
<1> SUFFICES ASSUME IInv, FlushContext PROVE IInv'
  OBVIOUS
<1> USE DEF IInv
<1>1. /\ cpc \in {"flush", "unwind"} /\ cpc' = "stopped" /\ Running
      /\ consumerException' = IF cpc = "unwind" THEN "set" ELSE consumerException
      /\ applied' = applied \o bulk /\ bulk' = <<>> /\ bulkSize' = 0
      /\ UNCHANGED <<producerVars, queue, queueSize, permits, inHand, bulkState>>
      /\ UNCHANGED <<accepted, pc>>
  BY DEF FlushContext, Stop, producerVars, control
<1>2. /\ applied \in Seq(Nat) /\ bulk \in Seq(Nat) /\ InOrder(applied, bulk)
  BY DEF TypeOK, PipelineInOrder, InOrder
<1>3. /\ applied' \in Seq(Nat) /\ Len(applied') = Len(applied) + Len(bulk)
      /\ InOrder(applied', bulk')
  BY <1>1, <1>2, AllExecutedInOrder
<1>4. TypeOK'
  BY <1>1, <1>3, EmptySeq DEF TypeOK, producerVars, control, builderVars
<1>5. PipelineInOrder'
  <2>1. Landed' = Landed
    <3>1. Len(applied) \in Nat /\ Len(bulk) \in Nat /\ Len(bulk') = 0
      BY <1>1, <1>2, LenProperties, EmptySeq
    <3> QED BY <1>3, <3>1 DEF Landed
  <2>2. ~HasWriteInHand /\ ~HasWriteInHand' /\ (Failed => Failed')
    BY <1>1 DEF HasWriteInHand, Failed, Thrown
  <2> QED BY <1>1, <1>3, <2>1, <2>2, LandedInOrder
<1>6. ClosedLast'
  BY <1>1 DEF ClosedLast, Thrown, Running
<1> QED BY <1>4, <1>5, <1>6

LEMMA FlushContextFailsIInv == IInv /\ FlushContextFails => IInv'
<1> SUFFICES ASSUME IInv, FlushContextFails PROVE IInv'
  OBVIOUS
<1> USE DEF IInv
<1>1. /\ cpc \in {"flush", "unwind"} /\ pc' = "terminated" /\ Running
      /\ UNCHANGED <<call, pending, builderVars, accepted, sharedVars, cpc, inHand, bulkSize>>
      /\ UNCHANGED <<queue, consumerException>>
  BY DEF FlushContextFails, sharedVars
<1>2. /\ applied' \in Seq(Nat) /\ bulk' \in Seq(Nat) /\ bulkState' \in {bulkState, "repeats"}
      /\ InOrder(applied', bulk') /\ Landed' = Landed
  <2>1. /\ applied \in Seq(Nat) /\ bulk \in Seq(Nat) /\ InOrder(applied, bulk)
        /\ Len(applied) \in Nat /\ Len(bulk) \in Nat /\ Landed \in Nat
    BY DEF TypeOK, PipelineInOrder, InOrder, Landed
  <2>2. CASE UNCHANGED <<applied, bulk, bulkState>>
    BY <2>1, <2>2 DEF Landed
  <2>3. ASSUME NEW k \in 0..Len(bulk), PartlyApply(bulk, k)
        PROVE /\ applied' \in Seq(Nat) /\ bulk' \in Seq(Nat) /\ bulkState' \in {bulkState, "repeats"}
              /\ InOrder(applied', bulk') /\ Landed' = Landed
    <3>1. /\ applied' = applied \o SubSeq(bulk, 1, k)
          /\ bulk' = SubSeq(bulk, k + 1, Len(bulk)) /\ bulkState' \in {bulkState, "repeats"}
      BY <2>3 DEF PartlyApply
    <3>2. /\ applied' \in Seq(Nat) /\ bulk' \in Seq(Nat) /\ InOrder(applied', bulk')
          /\ Len(applied') = Len(applied) + k /\ Len(bulk') = Len(bulk) - k
      BY <2>1, <3>1, ExecutedInOrder
    <3>3. Landed' = Landed
      BY <2>1, <3>2 DEF Landed
    <3> QED BY <3>1, <3>2, <3>3
  <2>4. Len(bulk) \in 0..Len(bulk)
    BY <2>1
  <2> QED BY <2>2, <2>3, <2>4 DEF FlushContextFails
<1>3. TypeOK'
  BY <1>1, <1>2 DEF TypeOK, builderVars, sharedVars
<1>4. PipelineInOrder'
  <2>1. ~HasWriteInHand /\ ~HasWriteInHand' /\ (Failed => Failed')
    BY <1>1 DEF HasWriteInHand, Failed, Thrown
  <2> QED BY <1>1, <1>2, <2>1, LandedInOrder
<1>5. ClosedLast'
  BY <1>1 DEF ClosedLast, Thrown
<1> QED BY <1>3, <1>4, <1>5

LEMMA ConsumerIInv == IInv /\ Consumer => IInv'
BY ConsumerStartIInv, DequeueIInv, AccountIInv, VisitBufferedIInv, VisitExecutedIInv,
   VisitExecuteFailsIInv, SkipsIInv, FlushContextIInv, FlushContextFailsIInv
   DEF Consumer, Skips

LEMMA StutterIInv == IInv /\ UNCHANGED vars => IInv'
<1> SUFFICES ASSUME IInv, UNCHANGED vars PROVE IInv'
  OBVIOUS
<1> USE DEF IInv, vars, producerVars, control, builderVars, sharedVars, consumerVars, bulkVars
<1>1. TypeOK'
  BY DEF TypeOK
<1>2. PipelineInOrder'
  BY PipelineUnchanged DEF pipelineVars
<1>3. ClosedLast'
  BY DEF ClosedLast, Thrown
<1> QED BY <1>1, <1>2, <1>3

LEMMA NextIInv == IInv /\ [Next]_vars => IInv'
BY ImporterIInv, ProducerIInv, ConsumerIInv, StutterIInv DEF Next, Stopped
-----------------------------------------------------------------------------
(* The theorems.                                                           *)

\* The inductive invariant holds for any nodes, parents, sizes and limits,
\* and whichever of the worker's database calls fail.
THEOREM Inductive == Spec => []IInv
<1>1. Init => IInv
  BY InitIInv
<1>2. IInv /\ [Next]_vars => IInv'
  BY NextIInv
<1> QED BY <1>1, <1>2, PTL DEF Spec

\* Every variable of the builder, the queue and the worker keeps its type;
\* in particular the semaphore's count never goes below zero.
THEOREM TypeCorrect == Spec => []TypeOK
<1>1. IInv => TypeOK
  BY DEF IInv
<1> QED BY <1>1, Inductive, PTL

\* AsyncImpl's queue and bulk write lose, repeat and reorder nothing: what is
\* on the collection is always a prefix of what the importer handed over.
THEOREM WritesInOrder == Spec => []PipelineInOrder
<1>1. IInv => PipelineInOrder
  BY DEF IInv
<1> QED BY <1>1, Inductive, PTL

\* The worker of an AsyncImpl that was joined without an exception has
\* executed everything it was given, and sees nothing after its Close.
THEOREM NothingAfterClose == Spec => []ClosedLast
<1>1. IInv => ClosedLast
  BY DEF IInv
<1> QED BY <1>1, Inductive, PTL
-----------------------------------------------------------------------------
(* No wake-up is lost.                                                     *)

\* The worker holds an entry exactly while it accounts for it and visits it.
InHandWhileBusy == cpc \notin {"taken", "visit"} <=> inHand = Nothing

WInv == IInv /\ InHandWhileBusy /\ NoLostWakeup

LEMMA InitWInv == Init => WInv
BY InitIInv DEF Init, WInv, InHandWhileBusy, NoLostWakeup

LEMMA ProducerWInv == WInv /\ Producer => InHandWhileBusy' /\ NoLostWakeup'
<1> SUFFICES ASSUME WInv, Producer PROVE InHandWhileBusy' /\ NoLostWakeup'
  OBVIOUS
<1>1. InHandWhileBusy'
  <2>1. CASE JoinFinalise
    BY <2>1 DEF JoinFinalise, WInv, InHandWhileBusy, bulkVars
  <2>2. CASE ~JoinFinalise
    BY <2>2 DEF Producer, Count, Push, RequestNotify, Suspend, Acquire, Timeout, Recheck, Rethrow, Return,
           CloseQueue, JoinFailed, JoinDestroy, consumerVars, WInv, InHandWhileBusy
  <2> QED BY <2>1, <2>2
<1>2. NoLostWakeup'
  <2>1. CASE RequestNotify
    <3>1. queue \in Seq(Entries) /\ queue' = Append(queue, Notify) /\ Notify \in Entries
      BY <2>1 DEF RequestNotify, WInv, IInv, TypeOK, Entries, Notify
    <3>2. Len(queue) + 1 \in DOMAIN queue' /\ queue'[Len(queue) + 1] = Notify
      BY <3>1, AppendProperties
    <3> QED BY <3>2 DEF NoLostWakeup
  <2>2. CASE Suspend
    BY <2>2 DEF Suspend, WInv, NoLostWakeup, sharedVars, consumerVars
  <2>3. CASE ~RequestNotify /\ ~Suspend
    <3>1. pc' \notin {"notified", "blocked"}
      BY <2>3 DEF Producer, Count, Push, Acquire, Timeout, Recheck, Rethrow, Return,
             CloseQueue, JoinFailed, JoinFinalise, JoinDestroy
    <3> QED BY <3>1 DEF NoLostWakeup
  <2> QED BY <2>1, <2>2, <2>3
<1> QED BY <1>1, <1>2

LEMMA ConsumerWInv == WInv /\ Consumer => InHandWhileBusy' /\ NoLostWakeup'
<1> SUFFICES ASSUME WInv, Consumer PROVE InHandWhileBusy' /\ NoLostWakeup'
  OBVIOUS
<1> USE DEF WInv
<1>1. CASE Dequeue
  <2>1. /\ queue \in Seq(Entries) /\ queue # <<>> /\ inHand' = Head(queue)
        /\ queue' = Tail(queue) /\ cpc = "waiting" /\ cpc' = "taken"
        /\ pc' = pc /\ permits' = permits
    BY <1>1 DEF Dequeue, IInv, TypeOK, producerVars, control
  <2>2. /\ Head(queue) \in Entries /\ Head(queue) = queue[1]
        /\ Len(queue) \in Nat \ {0} /\ Len(queue') = Len(queue) - 1
        /\ \A i \in 1..Len(queue') : queue'[i] = queue[i + 1]
        /\ DOMAIN queue = 1..Len(queue) /\ DOMAIN queue' = 1..Len(queue')
    BY <2>1, HeadTailProperties, EmptySeq
  <2>3. InHandWhileBusy'
    BY <2>1, <2>2 DEF InHandWhileBusy, Entries, Nothing
  <2>4. NoLostWakeup'
    <3> SUFFICES ASSUME pc \in {"notified", "blocked"}, ~(permits > 0)
                 PROVE  inHand' = Notify \/ \E i \in DOMAIN queue' : queue'[i] = Notify
      BY <2>1 DEF NoLostWakeup
    <3>1. inHand # Notify
      BY <2>1 DEF InHandWhileBusy, Nothing, Notify
    <3>2. PICK i \in DOMAIN queue : queue[i] = Notify
      BY <2>1, <3>1 DEF NoLostWakeup
    <3>3. CASE i = 1
      BY <2>1, <2>2, <3>2, <3>3
    <3>4. CASE i # 1
      <4>1. i - 1 \in DOMAIN queue' /\ queue'[i - 1] = queue[i]
        BY <2>2, <3>2, <3>4
      <4> QED BY <3>2, <4>1
    <3> QED BY <3>3, <3>4
  <2> QED BY <2>3, <2>4
<1>2. CASE Account
  BY <1>2 DEF Account, InHandWhileBusy, NoLostWakeup, producerVars, control
<1>3. CASE VisitNotify
  <2>1. permits' > 0
    BY <1>3 DEF VisitNotify, IInv, TypeOK
  <2> QED BY <1>3, <2>1 DEF VisitNotify, InHandWhileBusy, NoLostWakeup
<1>4. CASE VisitClose \/ FlushContext \/ FlushContextFails \/ VisitExecuteFails \/ VisitAppendFails
  <2>1. InHandWhileBusy'
    BY <1>4 DEF VisitClose, FlushContext, FlushContextFails, VisitExecuteFails, VisitAppendFails,
           Stop, InHandWhileBusy
  <2>2. NoLostWakeup'
    <3>1. cpc' \in {"unwind", "stopped"} \/ pc' \notin {"notified", "blocked"}
      BY <1>4 DEF VisitClose, FlushContext, FlushContextFails, VisitExecuteFails, VisitAppendFails,
             Stop, IInv, ClosedLast, producerVars, control
    <3> QED BY <3>1 DEF NoLostWakeup
  <2> QED BY <2>1, <2>2
<1>5. CASE ConsumerStart
  BY <1>5 DEF ConsumerStart, InHandWhileBusy, NoLostWakeup, producerVars, control
<1>6. CASE VisitBuffered \/ VisitExecuted
  <2>1. /\ inHand # Notify /\ inHand' = Nothing /\ cpc = "visit" /\ cpc' = "waiting"
        /\ pc' = pc /\ queue' = queue /\ permits' = permits
    BY <1>6 DEF VisitBuffered, VisitExecuted, IsWrite, Notify, producerVars, control, sharedVars
  <2> QED BY <2>1 DEF InHandWhileBusy, NoLostWakeup
<1> QED BY <1>1, <1>2, <1>3, <1>4, <1>5, <1>6 DEF Consumer

LEMMA NextWInv == WInv /\ [Next]_vars => WInv'
<1> SUFFICES ASSUME WInv, [Next]_vars PROVE WInv'
  OBVIOUS
<1>1. IInv'
  BY NextIInv DEF WInv
<1>2. CASE Importer
  <2>1. UNCHANGED consumerVars /\ pc' \notin {"notified", "blocked"}
    BY <1>2 DEF Importer, AddNode, AddMesh, HoldNode, ReleaseNode, AddParent, Finalise, ImportFails,
           Destroy, Begin, control
  <2> QED BY <1>1, <2>1 DEF WInv, InHandWhileBusy, NoLostWakeup, consumerVars
<1>3. CASE UNCHANGED vars
  BY <1>1, <1>3 DEF WInv, InHandWhileBusy, NoLostWakeup, vars, producerVars, control, sharedVars, consumerVars
<1> QED BY <1>1, <1>2, <1>3, ProducerWInv, ConsumerWInv DEF Next, Stopped, WInv

\* The importer never enters its wait without a wake-up on its way, however
\* push's Notify races with the worker's release; a wait that only the
\* timeout can end means that the worker has thrown.
THEOREM WakeupOnItsWay == Spec => []NoLostWakeup
<1>1. WInv => NoLostWakeup
  BY DEF WInv
<1> QED BY <1>1, InitWInv, NextWInv, PTL DEF Spec
-----------------------------------------------------------------------------
(* The builder implements its abstract promise.                            *)

StoredOps == [i \in DOMAIN applied |-> accepted[applied[i]]]

\* What has been executed is a prefix of what has been accepted.
StoredIsPrefix ==
  /\ Len(applied) \in Nat /\ Len(accepted) \in Nat /\ Len(applied) <= Len(accepted)
  /\ StoredOps \in Seq(Ops) /\ Len(StoredOps) = Len(applied)
  /\ \A i \in 1..Len(applied) : StoredOps[i] = accepted[i]
  /\ StoredOps = [i \in 1..Len(applied) |-> accepted[i]]

LEMMA StoredPrefix == IInv => StoredIsPrefix
<1> SUFFICES ASSUME IInv PROVE StoredIsPrefix
  OBVIOUS
<1> USE DEF IInv
<1>1. /\ applied \in Seq(Nat) /\ bulk \in Seq(Nat) /\ accepted \in Seq(Ops)
      /\ Len(applied) \in Nat /\ Len(bulk) \in Nat /\ Len(accepted) \in Nat
      /\ DOMAIN applied = 1..Len(applied)
  BY DEF TypeOK
<1>2. Len(applied) <= Len(accepted)
  <2>1. Landed <= Len(accepted)
    BY <1>1 DEF PipelineInOrder, NextInQueue, Landed
  <2> QED BY <1>1, <2>1 DEF Landed
<1>3. \A i \in 1..Len(applied) : applied[i] = i /\ accepted[i] \in Ops
  BY <1>1, <1>2 DEF PipelineInOrder
<1>4. StoredOps = [i \in 1..Len(applied) |-> accepted[i]]
  BY <1>1, <1>3 DEF StoredOps
<1>5. StoredOps \in [1..Len(applied) -> Ops]
  BY <1>3, <1>4
<1>6. Len(applied) \in Nat
  BY <1>1
<1>7. StoredOps \in Seq(Ops)
  BY <1>5, <1>6, SeqDef
<1>8. Len(StoredOps) = Len(applied)
  <2>1. DOMAIN StoredOps = 1..Len(StoredOps) /\ Len(StoredOps) \in Nat
    BY <1>7, LenProperties
  <2>2. DOMAIN StoredOps = 1..Len(applied)
    BY <1>4
  <2> QED BY <1>6, <2>1, <2>2
<1> QED BY <1>1, <1>2, <1>4, <1>7, <1>8 DEF StoredIsPrefix

LEMMA StoredPrefixNext == IInv' => StoredIsPrefix'
BY StoredPrefix, PTL

LEMMA MapsToGrow ==
  ASSUME IInv, IInv', accepted' = accepted, Len(applied) <= Len(applied')
  PROVE  Store!Grow
<1>1. StoredIsPrefix /\ StoredIsPrefix'
  BY StoredPrefix, StoredPrefixNext
<1>2. \A i \in 1..Len(applied) : i \in 1..Len(applied')
  BY <1>1 DEF StoredIsPrefix
<1>3. Store!IsPrefixOf(StoredOps, StoredOps')
  BY <1>1, <1>2 DEF StoredIsPrefix, Store!IsPrefixOf
<1>4. Store!IsPrefixOf(StoredOps', accepted)
  BY <1>1 DEF StoredIsPrefix, Store!IsPrefixOf
<1>5. StoredOps' \in Seq(Ops)
  BY <1>1 DEF StoredIsPrefix
<1> QED BY <1>3, <1>4, <1>5 DEF Store!Grow, StoredOps

\* Any step that accepts nothing and returns from nothing lets the collection
\* grow, or ends the process with it grown.
LEMMA GrowsOrFails ==
  ASSUME IInv, IInv', accepted' = accepted, finalises' = finalises,
         Len(applied) <= Len(applied'), Running, pc' # "destroyed"
  PROVE  Store!Next
<1>1. Store!Grow
  BY MapsToGrow
<1>2. CASE pc' = "terminated"
  BY <1>1, <1>2 DEF Store!Next, Store!Fail, Running
<1>3. CASE pc' # "terminated"
  BY <1>1, <1>3 DEF Store!Next, Store!Store, Running
<1> QED BY <1>2, <1>3

LEMMA PushAccepts ==
  ASSUME IInv, IInv', Push
  PROVE  Store!Next
<1>1. /\ pc = "counted" /\ pc' = "push" /\ finalises' = finalises /\ applied' = applied
      /\ accepted' = Append(accepted, Head(pending))
  BY DEF Push, builderVars, consumerVars, bulkVars
<1>2. Head(pending) \in Ops /\ accepted \in Seq(Ops)
  BY HeadTailProperties DEF Push, IInv, TypeOK
<1>3. StoredOps' = StoredOps
  <2>1. /\ Len(applied) \in Nat /\ Len(accepted) \in Nat /\ Len(applied) <= Len(accepted)
        /\ StoredOps = [i \in 1..Len(applied) |-> accepted[i]]
        /\ StoredOps' = [i \in 1..Len(applied') |-> accepted'[i]]
    BY StoredPrefix, StoredPrefixNext DEF StoredIsPrefix
  <2>2. \A i \in 1..Len(applied) : accepted'[i] = accepted[i]
    <3>1. \A i \in 1..Len(accepted) : accepted'[i] = accepted[i]
      BY <1>1, <1>2, AppendProperties
    <3>2. \A i \in 1..Len(applied) : i \in 1..Len(accepted)
      BY <2>1
    <3> QED BY <3>1, <3>2
  <2> QED BY <1>1, <2>1, <2>2
<1> QED BY <1>1, <1>2, <1>3 DEF Store!Next, Store!Accept, StoredOps

LEMMA JoinStoredAll ==
  ASSUME IInv, JoinFinalise \/ JoinDestroy
  PROVE  StoredOps = accepted
<1>1. bulk = <<>> /\ queue = <<>> /\ ~Failed /\ ~HasWriteInHand
  BY DEF JoinFinalise, JoinDestroy, IInv, ClosedLast, Failed, HasWriteInHand
<1>2. /\ Len(applied) \in Nat /\ Len(accepted) \in Nat /\ Len(applied) <= Len(accepted)
      /\ StoredOps \in Seq(Ops) /\ Len(StoredOps) = Len(applied) /\ accepted \in Seq(Ops)
      /\ \A i \in 1..Len(applied) : StoredOps[i] = accepted[i]
  BY StoredPrefix DEF StoredIsPrefix, IInv, TypeOK
<1>3. Len(applied) = Len(accepted)
  <2>1. NextInQueue = Len(applied) + 1
    BY <1>1, <1>2 DEF NextInQueue, Landed
  <2>2. \A k \in (Len(applied) + 1)..Len(accepted) : FALSE
    BY <1>1, <2>1 DEF IInv, PipelineInOrder
  <2> QED BY <1>2, <2>2
<1> QED BY <1>2, <1>3, SeqEqual

\* Only the worker executes writes, and none is taken back.
LEMMA ConsumerGrows ==
  ASSUME IInv, Consumer
  PROVE  Len(applied) <= Len(applied')
<1>1. applied \in Seq(Nat) /\ bulk \in Seq(Nat) /\ Len(applied) \in Nat
  BY DEF IInv, TypeOK
<1>2. ASSUME NEW t \in Seq(Nat), applied' = applied \o t PROVE Len(applied) <= Len(applied')
  BY <1>1, <1>2, ConcatProperties, LenProperties
<1>3. ASSUME NEW b \in Seq(Nat), NEW k \in 0..Len(b), PartlyApply(b, k)
      PROVE  Len(applied) <= Len(applied')
  <2>1. k \in Nat /\ \A i \in 1..k : b[i] \in Nat
    BY LenProperties, ElementOfSeq
  <2>2. SubSeq(b, 1, k) \in Seq(Nat)
    BY <2>1, SubSeqProperties
  <2> QED BY <1>2, <1>3, <2>2 DEF PartlyApply
<1>4. CASE VisitExecuted \/ VisitExecuteFails
  <2>1. Append(bulk, inHand.ptr) \in Seq(Nat)
    BY <1>4, WithWriteInHand DEF VisitExecuted, VisitExecuteFails, HasWriteInHand
  <2> QED BY <1>2, <1>3, <1>4, <2>1 DEF VisitExecuted, VisitExecuteFails
<1>5. CASE FlushContext \/ FlushContextFails
  <2>1. Len(bulk) \in 0..Len(bulk)
    BY <1>1, LenProperties
  <2> QED BY <1>1, <1>2, <1>3, <1>5, <2>1 DEF FlushContext, FlushContextFails
<1>6. CASE ~(VisitExecuted \/ VisitExecuteFails \/ FlushContext \/ FlushContextFails)
  <2>1. applied' = applied
    BY <1>6 DEF Consumer, ConsumerStart, Dequeue, Account, VisitBuffered, VisitAppendFails,
           VisitNotify, VisitClose, bulkVars
  <2> QED BY <1>1, <2>1
<1> QED BY <1>4, <1>5, <1>6

LEMMA StepImplements ==
  ASSUME IInv, IInv', [Next]_vars
  PROVE  [Store!Next]_(Store!vars)
<1>1. Len(applied) \in Nat
  BY DEF IInv, TypeOK
<1>2. CASE Importer
  <2>1. /\ accepted' = accepted /\ finalises' = finalises /\ applied' = applied
        /\ pc = "ready" /\ pc' # "destroyed"
    BY <1>2 DEF Importer, AddNode, AddMesh, HoldNode, ReleaseNode, AddParent, Finalise, ImportFails,
           Destroy, Begin, control, builderVars, consumerVars, bulkVars
  <2> QED BY <1>1, <2>1, GrowsOrFails DEF Running
<1>3. CASE Push
  BY <1>3, PushAccepts
<1>4. CASE JoinFinalise
  <2>1. /\ accepted' = accepted /\ finalises' = finalises + 1 /\ applied' = applied
        /\ pc = "joining" /\ pc' = "ready" /\ StoredOps = accepted
    BY <1>4, JoinStoredAll DEF JoinFinalise, bulkVars
  <2> QED BY <2>1 DEF Store!Next, Store!Flush, StoredOps
<1>5. CASE JoinDestroy
  <2>1. /\ accepted' = accepted /\ finalises' = finalises /\ applied' = applied
        /\ pc = "joining" /\ pc' = "destroyed" /\ StoredOps = accepted
    BY <1>5, JoinStoredAll DEF JoinDestroy, builderVars, consumerVars, bulkVars
  <2> QED BY <2>1 DEF Store!Next, Store!Close, StoredOps
<1>6. CASE Producer /\ ~(Push \/ JoinFinalise \/ JoinDestroy)
  <2>1. /\ accepted' = accepted /\ finalises' = finalises /\ applied' = applied
        /\ pc' # "destroyed" /\ Running
    BY <1>6 DEF Producer, Count, RequestNotify, Suspend, Acquire, Timeout, Recheck, Rethrow, Return,
           CloseQueue, JoinFailed, builderVars, consumerVars, bulkVars, Running
  <2> QED BY <1>1, <2>1, GrowsOrFails
<1>7. CASE Consumer
  <2>1. /\ accepted' = accepted /\ finalises' = finalises /\ Running /\ pc' # "destroyed"
    BY <1>7 DEF Consumer, ConsumerStart, Dequeue, Account, VisitBuffered, VisitExecuted,
           VisitExecuteFails, VisitAppendFails, VisitNotify, VisitClose, FlushContext,
           FlushContextFails, producerVars, control, builderVars, Running
  <2>2. Len(applied) <= Len(applied')
    BY <1>7, ConsumerGrows
  <2> QED BY <2>1, <2>2, GrowsOrFails
<1>8. CASE UNCHANGED vars
  BY <1>8 DEF vars, producerVars, control, builderVars, consumerVars, bulkVars, Store!vars
<1> QED BY <1>2, <1>3, <1>4, <1>5, <1>6, <1>7, <1>8 DEF Next, Stopped, Producer

LEMMA InitImplements == Init => Store!Init
BY DEF Init, Store!Init

\* RepoSceneBuilder, with its thread, queue and write context, does what an
\* importer may expect of a store that executes its writes in order, whose
\* finalise and destructor only ever return when all of them are executed.
THEOREM Refinement == Spec => ImplementsStore
<1>1. Init => Store!Init
  BY InitImplements
<1>2. IInv /\ IInv' /\ [Next]_vars => [Store!Next]_(Store!vars)
  BY StepImplements
<1> QED BY <1>1, <1>2, Inductive, PTL DEF Spec, ImplementsStore, Store!Spec
-----------------------------------------------------------------------------
(* Sums.  Induction over the natural numbers, here by the least of those   *)
(* that are not in a set, shows that TotalSize is the last of the partial  *)
(* sums of its argument.                                                   *)

LEMMA LeastNat ==
  ASSUME NEW T, T \subseteq Nat, T # {}
  PROVE  \E n \in T : \A m \in T : n <= m
<1>1. PICK n \in T : \A m \in T : ~ (<<m, n>> \in OpToRel(<, Nat))
  BY NatLessThanWellFounded, WFMin
<1>2. \A m \in T : ~ (m < n)
  BY <1>1 DEF OpToRel
<1> QED BY <1>2

LEMMA InductiveSet ==
  ASSUME NEW S, 0 \in S, \A n \in Nat : n \in S => n + 1 \in S
  PROVE  Nat \subseteq S
<1> SUFFICES ASSUME Nat \ S # {} PROVE FALSE
  OBVIOUS
<1>1. PICK n \in Nat \ S : \A m \in Nat \ S : n <= m
  BY LeastNat
<1>2. n - 1 \in Nat /\ n - 1 \notin Nat \ S
  BY <1>1
<1> QED BY <1>1, <1>2

\* The function that FoldLeft computes the sum of a sequence with.
IsFold(f, z, n) ==
  f = [S \in SUBSET (1..n) |-> IF S = {} THEN 0 ELSE f[S \ {Max(S)}] + z[Max(S)]]

LEMMA MaxIs ==
  ASSUME NEW S, NEW k \in S, S \subseteq Int, \A i \in S : i <= k
  PROVE  Max(S) = k
<1>1. \A x \in S : (\A y \in S : x >= y) <=> x = k
  OBVIOUS
<1> QED BY <1>1 DEF Max

LEMMA MaxIn ==
  ASSUME NEW n \in Nat, NEW S, S \subseteq 1..n, S # {}
  PROVE  Max(S) \in S
<1> DEFINE T == {n - i : i \in S}
<1>1. T \subseteq Nat /\ T # {}
  <2>1. ASSUME NEW i \in S PROVE n - i \in Nat
    <3>1. i \in 1..n
      OBVIOUS
    <3> QED BY <3>1
  <2>2. PICK i \in S : TRUE
    OBVIOUS
  <2>3. n - i \in T
    OBVIOUS
  <2> QED BY <2>1, <2>3
<1>2. PICK m \in T : \A t \in T : m <= t
  BY <1>1, LeastNat
<1>3. PICK k \in S : m = n - k
  BY <1>2
<1>4. \A i \in S : i <= k
  <2> TAKE i \in S
  <2>1. n - i \in T
    OBVIOUS
  <2>2. m <= n - i
    BY <1>2, <2>1
  <2> QED BY <1>3, <2>2
<1>5. S \subseteq Int
  OBVIOUS
<1> HIDE DEF T
<1> QED BY <1>4, <1>5, MaxIs

LEMMA FoldExists ==
  ASSUME NEW z, NEW n \in Nat
  PROVE  \E f : IsFold(f, z, n)
<1> DEFINE K == {k \in Nat : \E f : IsFold(f, z, k)}
<1>1. 0 \in K
  <2>1. IsFold([S \in SUBSET (1..0) |-> 0], z, 0)
    <3>1. \A S \in SUBSET (1..0) : S = {}
      OBVIOUS
    <3> QED BY <3>1 DEF IsFold
  <2> QED BY <2>1
<1>2. ASSUME NEW k \in Nat, k \in K PROVE k + 1 \in K
  <2>1. PICK f : IsFold(f, z, k)
    BY <1>2
  <2> DEFINE g == [S \in SUBSET (1..k + 1) |->
                     IF k + 1 \in S THEN f[S \ {k + 1}] + z[k + 1] ELSE f[S]]
  <2>2. ASSUME NEW S \in SUBSET (1..k + 1)
        PROVE  g[S] = IF S = {} THEN 0 ELSE g[S \ {Max(S)}] + z[Max(S)]
    <3>1. CASE k + 1 \in S
      <4>1. Max(S) = k + 1
        <5>1. S \subseteq Int /\ \A i \in S : i <= k + 1
          OBVIOUS
        <5> QED BY <3>1, <5>1, MaxIs
      <4>2. S \ {k + 1} \in SUBSET (1..k + 1) /\ S # {}
        BY <3>1
      <4>3. g[S \ {k + 1}] = f[S \ {k + 1}]
        BY <4>2
      <4>4. g[S] = f[S \ {k + 1}] + z[k + 1]
        BY <3>1
      <4> QED BY <4>1, <4>2, <4>3, <4>4
    <3>2. CASE k + 1 \notin S
      <4>1. S \in SUBSET (1..k) /\ g[S] = f[S]
        BY <3>2
      <4>2. f[S] = IF S = {} THEN 0 ELSE f[S \ {Max(S)}] + z[Max(S)]
        BY <2>1, <4>1 DEF IsFold
      <4>3. S \ {Max(S)} \in SUBSET (1..k + 1) /\ k + 1 \notin S \ {Max(S)}
        BY <3>2
      <4>4. g[S \ {Max(S)}] = f[S \ {Max(S)}]
        BY <4>3
      <4> QED BY <4>1, <4>2, <4>4
    <3> QED BY <3>1, <3>2
  <2>3. g = [S \in SUBSET (1..k + 1) |-> g[S]]
    OBVIOUS
  <2> HIDE DEF g
  <2>4. IsFold(g, z, k + 1)
    BY <2>2, <2>3 DEF IsFold
  <2> QED BY <2>4
<1> HIDE DEF K
<1>3. Nat \subseteq K
  BY <1>1, <1>2, InductiveSet
<1> QED BY <1>3 DEF K

\* The partial sums of a sequence.
IsSums(p, z) ==
  /\ p \in [0..Len(z) -> Int]
  /\ p[0] = 0
  /\ \A k \in 1..Len(z) : p[k] = p[k - 1] + z[k]

LEMMA TotalIsFold ==
  ASSUME NEW z \in Seq(Int)
  PROVE  \E f : IsFold(f, z, Len(z)) /\ TotalSize(z) = f[1..Len(z)]
<1>1. TotalSize(z) = (CHOOSE f : f = [S \in SUBSET (DOMAIN z) |->
          IF S = {} THEN 0 ELSE f[S \ {Max(S)}] + z[Max(S)]])[DOMAIN z]
  BY DEF TotalSize, FoldLeft, MapThenFoldSet
<1>2. DOMAIN z = 1..Len(z) /\ Len(z) \in Nat
  OBVIOUS
<1>3. TotalSize(z) = (CHOOSE f : IsFold(f, z, Len(z)))[1..Len(z)]
  BY <1>1, <1>2 DEF IsFold
<1>4. \E f : IsFold(f, z, Len(z))
  BY <1>2, FoldExists
<1> QED BY <1>3, <1>4

LEMMA TotalHasSums ==
  ASSUME NEW z \in Seq(Int)
  PROVE  \E p : IsSums(p, z) /\ TotalSize(z) = p[Len(z)]
<1>1. PICK f : IsFold(f, z, Len(z)) /\ TotalSize(z) = f[1..Len(z)]
  BY TotalIsFold
<1>2. Len(z) \in Nat /\ \A k \in 1..Len(z) : z[k] \in Int
  OBVIOUS
<1>3. f[{}] = 0
  BY <1>1 DEF IsFold
<1>4. ASSUME NEW k \in 1..Len(z) PROVE f[1..k] = f[1..(k - 1)] + z[k]
  <2>0. k \in Nat /\ k \in 1..k /\ k <= Len(z)
    BY <1>2
  <2>1. 1..k \in SUBSET (1..Len(z)) /\ 1..k # {}
    <3>1. \A i \in 1..k : i \in 1..Len(z)
      BY <1>2, <2>0
    <3> QED BY <2>0, <3>1
  <2>2. Max(1..k) = k
    <3>1. 1..k \subseteq Int /\ \A i \in 1..k : i <= k
      BY <2>0
    <3> QED BY <2>0, <3>1, MaxIs
  <2>3. (1..k) \ {k} = 1..(k - 1)
    BY <1>2
  <2>4. f[1..k] = f[(1..k) \ {Max(1..k)}] + z[Max(1..k)]
    BY <1>1, <2>1 DEF IsFold
  <2> QED BY <2>2, <2>3, <2>4
<1> DEFINE p == [k \in 0..Len(z) |-> f[1..k]]
           K == {k \in Nat : k <= Len(z) => f[1..k] \in Int}
<1>5. 0 \in K
  BY <1>3
<1>6. ASSUME NEW k \in Nat, k \in K PROVE k + 1 \in K
  <2> SUFFICES ASSUME k + 1 <= Len(z) PROVE f[1..(k + 1)] \in Int
    OBVIOUS
  <2>1. k + 1 \in 1..Len(z) /\ (k + 1) - 1 = k
    BY <1>2
  <2>2. f[1..(k + 1)] = f[1..k] + z[k + 1]
    BY <1>4, <2>1
  <2> QED BY <1>2, <1>6, <2>1, <2>2
<1>7. Nat \subseteq K
  <2> HIDE DEF K
  <2> QED BY <1>5, <1>6, InductiveSet
<1>8. p \in [0..Len(z) -> Int]
  BY <1>2, <1>7
<1>9. p[0] = 0 /\ TotalSize(z) = p[Len(z)]
  BY <1>1, <1>2, <1>3
<1>10. \A k \in 1..Len(z) : p[k] = p[k - 1] + z[k]
  BY <1>2, <1>4
<1> HIDE DEF p
<1> QED BY <1>8, <1>9, <1>10 DEF IsSums

LEMMA TotalIsLastSum ==
  ASSUME NEW z \in Seq(Int), NEW p, IsSums(p, z)
  PROVE  TotalSize(z) = p[Len(z)]
<1>1. PICK q : IsSums(q, z) /\ TotalSize(z) = q[Len(z)]
  BY TotalHasSums
<1> DEFINE K == {k \in Nat : k <= Len(z) => p[k] = q[k]}
<1>2. 0 \in K
  BY <1>1 DEF IsSums
<1>3. ASSUME NEW k \in Nat, k \in K PROVE k + 1 \in K
  <2> SUFFICES ASSUME k + 1 <= Len(z) PROVE p[k + 1] = q[k + 1]
    OBVIOUS
  <2>1. k + 1 \in 1..Len(z) /\ (k + 1) - 1 = k
    OBVIOUS
  <2> QED BY <1>1, <1>3, <2>1 DEF IsSums
<1>4. Nat \subseteq K
  <2> HIDE DEF K
  <2> QED BY <1>2, <1>3, InductiveSet
<1> QED BY <1>1, <1>4

LEMMA TotalOfNone == TotalSize(<<>>) = 0
<1>1. <<>> \in Seq(Int) /\ Len(<<>>) = 0
  OBVIOUS
<1>2. PICK p : IsSums(p, <<>>) /\ TotalSize(<<>>) = p[Len(<<>>)]
  BY <1>1, TotalHasSums
<1> QED BY <1>1, <1>2 DEF IsSums

LEMMA TotalOfAppend ==
  ASSUME NEW z \in Seq(Int), NEW x \in Int
  PROVE  TotalSize(Append(z, x)) = TotalSize(z) + x
<1>1. PICK p : IsSums(p, z) /\ TotalSize(z) = p[Len(z)]
  BY TotalHasSums
<1> DEFINE q == [k \in 0..(Len(z) + 1) |-> IF k = Len(z) + 1 THEN p[Len(z)] + x ELSE p[k]]
<1>2. /\ Append(z, x) \in Seq(Int) /\ Len(Append(z, x)) = Len(z) + 1 /\ Len(z) \in Nat
      /\ Append(z, x)[Len(z) + 1] = x
      /\ \A k \in 1..Len(z) : Append(z, x)[k] = z[k]
  BY AppendProperties
<1>3. q \in [0..(Len(z) + 1) -> Int] /\ q[0] = 0
  BY <1>1, <1>2 DEF IsSums
<1>4. \A k \in 1..(Len(z) + 1) : q[k] = q[k - 1] + Append(z, x)[k]
  <2> TAKE k \in 1..(Len(z) + 1)
  <2>1. CASE k = Len(z) + 1
    BY <1>2, <2>1
  <2>2. CASE k # Len(z) + 1
    BY <1>1, <1>2, <2>2 DEF IsSums
  <2> QED BY <2>1, <2>2
<1>5. q[Len(z) + 1] = TotalSize(z) + x
  BY <1>1, <1>2
<1> HIDE DEF q
<1>6. IsSums(q, Append(z, x))
  BY <1>2, <1>3, <1>4 DEF IsSums
<1> QED BY <1>2, <1>5, <1>6, TotalIsLastSum

LEMMA TotalOfTail ==
  ASSUME NEW z \in Seq(Int), z # <<>>
  PROVE  TotalSize(Tail(z)) = TotalSize(z) - Head(z)
<1>1. PICK p : IsSums(p, z) /\ TotalSize(z) = p[Len(z)]
  BY TotalHasSums
<1> DEFINE q == [k \in 0..(Len(z) - 1) |-> p[k + 1] - z[1]]
<1>2. /\ Tail(z) \in Seq(Int) /\ Len(Tail(z)) = Len(z) - 1 /\ Len(z) \in Nat \ {0}
      /\ \A k \in 1..(Len(z) - 1) : Tail(z)[k] = z[k + 1]
      /\ z[1] \in Int /\ Head(z) = z[1]
  BY HeadTailProperties, EmptySeq
<1>3. p[1] = z[1] /\ p \in [0..Len(z) -> Int]
  BY <1>1, <1>2 DEF IsSums
<1>4. q \in [0..(Len(z) - 1) -> Int] /\ q[0] = 0
  BY <1>2, <1>3
<1>5. \A k \in 1..(Len(z) - 1) : q[k] = q[k - 1] + Tail(z)[k]
  <2> TAKE k \in 1..(Len(z) - 1)
  <2>1. k + 1 \in 1..Len(z) /\ (k + 1) - 1 = k /\ k \in 0..(Len(z) - 1) /\ k - 1 \in 0..(Len(z) - 1)
        /\ (k - 1) + 1 = k
    BY <1>2
  <2>2. p[k + 1] = p[k] + z[k + 1]
    BY <1>1, <2>1 DEF IsSums
  <2>3. q[k] = p[k + 1] - z[1] /\ q[k - 1] = p[k] - z[1]
    BY <2>1
  <2>4. p[k] \in Int /\ p[k + 1] \in Int /\ z[k + 1] \in Int
    BY <1>2, <1>3, <2>1
  <2>5. Tail(z)[k] = z[k + 1]
    BY <1>2
  <2> QED BY <1>2, <2>2, <2>3, <2>4, <2>5
<1>6. q[Len(z) - 1] = TotalSize(z) - z[1]
  BY <1>1, <1>2
<1> HIDE DEF q
<1>7. IsSums(q, Tail(z))
  BY <1>2, <1>4, <1>5 DEF IsSums
<1> QED BY <1>2, <1>6, <1>7, TotalIsLastSum

\* A total of sizes is at least each of them, and nothing without them.
LEMMA TotalIsAtLeast ==
  ASSUME NEW z \in Seq(Nat)
  PROVE  /\ TotalSize(z) \in Nat
         /\ \A i \in 1..Len(z) : TotalSize(z) >= z[i]
         /\ (\A i \in 1..Len(z) : z[i] = 0) => TotalSize(z) = 0
<1>1. z \in Seq(Int) /\ Len(z) \in Nat /\ \A i \in 1..Len(z) : z[i] \in Nat
  OBVIOUS
<1>2. PICK p : IsSums(p, z) /\ TotalSize(z) = p[Len(z)]
  BY <1>1, TotalHasSums
<1> DEFINE K == {k \in Nat : k <= Len(z) =>
                    /\ p[k] \in Nat
                    /\ \A i \in 1..k : p[k] >= z[i]
                    /\ (\A i \in 1..Len(z) : z[i] = 0) => p[k] = 0}
<1>3. 0 \in K
  BY <1>2 DEF IsSums
<1>4. ASSUME NEW k \in Nat, k \in K PROVE k + 1 \in K
  <2> SUFFICES ASSUME k + 1 <= Len(z)
               PROVE  /\ p[k + 1] \in Nat
                      /\ \A i \in 1..(k + 1) : p[k + 1] >= z[i]
                      /\ (\A i \in 1..Len(z) : z[i] = 0) => p[k + 1] = 0
    OBVIOUS
  <2>1. k + 1 \in 1..Len(z) /\ (k + 1) - 1 = k /\ k <= Len(z)
    BY <1>1
  <2>2. p[k + 1] = p[k] + z[k + 1] /\ z[k + 1] \in Nat
    BY <1>1, <1>2, <2>1 DEF IsSums
  <2>3. /\ p[k] \in Nat
        /\ \A i \in 1..k : p[k] >= z[i]
        /\ (\A i \in 1..Len(z) : z[i] = 0) => p[k] = 0
    BY <1>4, <2>1
  <2>4. \A i \in 1..(k + 1) : p[k + 1] >= z[i]
    <3> TAKE i \in 1..(k + 1)
    <3>1. z[i] \in Nat
      BY <1>1, <2>1
    <3>2. i = k + 1 \/ i \in 1..k
      OBVIOUS
    <3> QED BY <2>2, <2>3, <3>1, <3>2
  <2> QED BY <2>1, <2>2, <2>3, <2>4
<1>5. Nat \subseteq K
  <2> HIDE DEF K
  <2> QED BY <1>3, <1>4, InductiveSet
<1> QED BY <1>1, <1>2, <1>5
-----------------------------------------------------------------------------
(* The estimate of the queue's size.                                       *)

\* Over the threshold there is one size that is not 0.
WithinThreshold(z) ==
  TotalSize(z) > Threshold => \E i \in 1..Len(z) : \A j \in 1..Len(z) : z[j] # 0 <=> j = i

LEMMA WithinAppend ==
  ASSUME NEW z \in Seq(Nat), NEW x \in Nat, WithinThreshold(z),
         x = 0 \/ TotalSize(z) <= (IF Threshold > x THEN Threshold - x ELSE 0)
  PROVE  WithinThreshold(Append(z, x))
<1> DEFINE a == Append(z, x)
<1> HIDE DEF a
<1>1. /\ z \in Seq(Int) /\ x \in Int /\ Len(z) \in Nat /\ Threshold \in Nat
      /\ \A i \in 1..Len(z) : z[i] \in Nat
  BY SizesAssumption
<1>2. /\ Len(a) = Len(z) + 1
      /\ a[Len(z) + 1] = x
      /\ \A k \in 1..Len(z) : a[k] = z[k]
  BY AppendProperties DEF a
<1>3. TotalSize(a) = TotalSize(z) + x
  BY <1>1, TotalOfAppend DEF a
<1>4. TotalSize(z) \in Nat /\ \A i \in 1..Len(z) : TotalSize(z) >= z[i]
  BY TotalIsAtLeast
<1> SUFFICES ASSUME TotalSize(a) > Threshold
             PROVE  \E i \in 1..Len(a) :
                      \A j \in 1..Len(a) : a[j] # 0 <=> j = i
  BY DEF WithinThreshold, a
<1>5. CASE x = 0
  <2>1. PICK i \in 1..Len(z) : \A j \in 1..Len(z) : z[j] # 0 <=> j = i
    BY <1>1, <1>3, <1>4, <1>5 DEF WithinThreshold
  <2>2. \A j \in 1..(Len(z) + 1) : a[j] # 0 <=> j = i
    <3> TAKE j \in 1..(Len(z) + 1)
    <3>1. CASE j = Len(z) + 1
      BY <1>1, <1>2, <1>5, <2>1, <3>1
    <3>2. CASE j \in 1..Len(z)
      BY <1>2, <2>1, <3>2
    <3> QED BY <1>1, <3>1, <3>2
  <2>3. i \in 1..(Len(z) + 1)
    BY <1>1
  <2> QED BY <1>2, <2>2, <2>3
<1>6. CASE x # 0
  <2>1. TotalSize(z) = 0
    BY <1>1, <1>3, <1>4, <1>6
  <2>2. \A i \in 1..Len(z) : z[i] = 0
    BY <1>1, <1>4, <2>1
  <2>3. \A j \in 1..(Len(z) + 1) : a[j] # 0 <=> j = Len(z) + 1
    <3> TAKE j \in 1..(Len(z) + 1)
    <3>1. CASE j = Len(z) + 1
      BY <1>2, <1>6, <3>1
    <3>2. CASE j \in 1..Len(z)
      BY <1>1, <1>2, <2>2, <3>2
    <3> QED BY <1>1, <3>1, <3>2
  <2>4. Len(a) = Len(z) + 1 /\ Len(a) \in 1..Len(a)
    BY <1>1, <1>2
  <2>5. \A j \in 1..Len(a) : a[j] # 0 <=> j = Len(a)
    BY <2>3, <2>4
  <2> QED BY <2>4, <2>5
<1> QED BY <1>5, <1>6

LEMMA WithinTail ==
  ASSUME NEW z \in Seq(Nat), z # <<>>, WithinThreshold(z)
  PROVE  WithinThreshold(Tail(z))
<1>1. z \in Seq(Int) /\ Threshold \in Nat
  BY SizesAssumption
<1>2. /\ Tail(z) \in Seq(Nat) /\ Len(Tail(z)) = Len(z) - 1 /\ Len(z) \in Nat \ {0}
      /\ \A k \in 1..(Len(z) - 1) : Tail(z)[k] = z[k + 1]
      /\ z[1] \in Nat /\ Head(z) = z[1]
  BY HeadTailProperties, EmptySeq
<1>3. TotalSize(Tail(z)) = TotalSize(z) - z[1]
  BY <1>1, <1>2, TotalOfTail
<1>4. TotalSize(z) \in Nat
  BY TotalIsAtLeast
<1> SUFFICES ASSUME TotalSize(Tail(z)) > Threshold
             PROVE  \E i \in 1..Len(Tail(z)) : \A j \in 1..Len(Tail(z)) : Tail(z)[j] # 0 <=> j = i
  BY DEF WithinThreshold
<1>5. PICK i \in 1..Len(z) : \A j \in 1..Len(z) : z[j] # 0 <=> j = i
  BY <1>1, <1>2, <1>3, <1>4 DEF WithinThreshold
<1>6. i # 1
  <2> SUFFICES ASSUME i = 1 PROVE FALSE
    OBVIOUS
  <2>1. \A k \in 1..Len(Tail(z)) : Tail(z)[k] = 0
    BY <1>2, <1>5
  <2>2. TotalSize(Tail(z)) = 0
    BY <1>2, <2>1, TotalIsAtLeast
  <2> QED BY <1>1, <2>2
<1>7. i - 1 \in 1..Len(Tail(z))
  BY <1>2, <1>6
<1>8. \A j \in 1..Len(Tail(z)) : Tail(z)[j] # 0 <=> j = i - 1
  <2> TAKE j \in 1..Len(Tail(z))
  <2>1. j + 1 \in 1..Len(z) /\ Tail(z)[j] = z[j + 1]
    BY <1>2
  <2> QED BY <1>2, <1>5, <2>1
<1> QED BY <1>7, <1>8

\* What the entries point to.
PointersValid ==
  \A i \in DOMAIN Unvisited :
    IsWrite(Unvisited[i]) => Unvisited[i].ptr \in 1..Len(accepted)

ComingIsPending == pc = "counted" => pending # <<>>

EstimateRight == queueSize = TotalSize(Accounted) /\ WithinThreshold(Accounted)

SizeInv == PointersValid /\ ComingIsPending /\ (Running => EstimateRight)

\* What the queue and the worker hold.
Held == Entries \cup {Nothing}

LEMMA UnvisitedType ==
  ASSUME TypeOK
  PROVE  Unvisited \in Seq(Held)
<1>1. inHand \in Held /\ queue \in Seq(Held)
  BY DEF TypeOK, Held
<1>2. <<inHand>> \o queue \in Seq(Held)
  BY <1>1, ConcatProperties
<1> QED BY <1>1, <1>2 DEF Unvisited

SizesMatch ==
  /\ Sizes \in Seq(Nat)
  /\ Len(Sizes) = Len(Unvisited)
  /\ DOMAIN Sizes = DOMAIN Unvisited
  /\ \A i \in DOMAIN Unvisited : IsWrite(Unvisited[i]) <=> Sizes[i] # 0

LEMMA SizesType == TypeOK /\ PointersValid => SizesMatch
<1> SUFFICES ASSUME TypeOK, PointersValid PROVE SizesMatch
  OBVIOUS
<1>1. Unvisited \in Seq(Held) /\ DOMAIN Unvisited = 1..Len(Unvisited) /\ Len(Unvisited) \in Nat
  BY UnvisitedType
<1>2. ASSUME NEW i \in DOMAIN Unvisited
      PROVE  EntrySize(Unvisited[i]) \in Nat /\ (IsWrite(Unvisited[i]) <=> EntrySize(Unvisited[i]) # 0)
  <2>1. CASE IsWrite(Unvisited[i])
    <3>1. Unvisited[i].ptr \in 1..Len(accepted)
      BY <2>1 DEF PointersValid
    <3>2. accepted[Unvisited[i].ptr] \in Ops
      BY <3>1 DEF TypeOK
    <3>3. OpSize(accepted[Unvisited[i].ptr]) \in Nat \ {0}
      BY <3>2, SizesAssumption DEF OpSize, Ops
    <3> QED BY <2>1, <3>3 DEF EntrySize
  <2>2. CASE ~IsWrite(Unvisited[i])
    BY <2>2 DEF EntrySize
  <2> QED BY <2>1, <2>2
<1>3. Sizes \in [1..Len(Unvisited) -> Nat]
  BY <1>1, <1>2 DEF Sizes
<1>4. Sizes \in Seq(Nat) /\ Len(Sizes) = Len(Unvisited)
  BY <1>1, <1>3, SeqDef
<1> QED BY <1>2, <1>4 DEF Sizes, SizesMatch

LEMMA SizesTypeNext == TypeOK' /\ PointersValid' => SizesMatch'
BY SizesType, PTL

\* All the sizes counted.
LEMMA AccountedSizes ==
  ASSUME TypeOK, PointersValid, ComingIsPending
  PROVE  Sizes \in Seq(Nat) /\ Coming \in Seq(Nat) /\ Accounted \in Seq(Nat)
<1>1. Sizes \in Seq(Nat)
  BY SizesType DEF SizesMatch
<1>2. Coming \in Seq(Nat)
  <2>1. CASE pc = "counted"
    <3>1. Head(pending) \in Ops
      BY <2>1, HeadTailProperties DEF ComingIsPending, TypeOK
    <3>2. OpSize(Head(pending)) \in Nat
      BY <3>1, OpSizeType
    <3> QED BY <2>1, <3>2 DEF Coming
  <2>2. CASE pc # "counted"
    BY <2>2, EmptySeq DEF Coming
  <2> QED BY <2>1, <2>2
<1> QED BY <1>1, <1>2, ConcatProperties DEF Accounted

\* Without a write on its way the sizes are those of the entries.
LEMMA NothingComing ==
  ASSUME Sizes \in Seq(Nat), pc # "counted"
  PROVE  Accounted = Sizes
<1>1. Accounted = Sizes \o <<>>
  BY DEF Accounted, Coming
<1> QED BY <1>1, ConcatEmptySeq

LEMMA NothingComingNext ==
  ASSUME Sizes' \in Seq(Nat), pc' # "counted"
  PROVE  Accounted' = Sizes'
<1>1. Accounted' = Sizes' \o <<>>
  BY DEF Accounted, Coming
<1> QED BY <1>1, ConcatEmptySeq

LEMMA SizesUnchanged ==
  ASSUME SizeInv, UNCHANGED <<Unvisited, accepted, queueSize>>, Running' => Running,
         \/ UNCHANGED <<pc, pending>>
         \/ pc # "counted" /\ pc' # "counted"
         \/ pc' = "terminated"
  PROVE  SizeInv'
<1>1. PointersValid' /\ ComingIsPending'
  BY DEF SizeInv, PointersValid, ComingIsPending
<1>2. Sizes' = Sizes
  BY DEF Sizes, EntrySize
<1>3. ASSUME Running' PROVE EstimateRight'
  <2>1. Coming' = Coming
    BY <1>3 DEF Coming, Running
  <2>2. Accounted' = Accounted /\ EstimateRight
    BY <1>2, <1>3, <2>1 DEF Accounted, SizeInv
  <2> QED BY <2>2 DEF EstimateRight, WithinThreshold
<1> QED BY <1>1, <1>3 DEF SizeInv

LEMMA AppendedItems ==
  ASSUME NEW z \in Seq(Nat), NEW x
  PROVE  /\ Append(z, x) = [i \in 1..(Len(z) + 1) |-> Append(z, x)[i]]
         /\ Append(z, x)[Len(z) + 1] = x
         /\ \A i \in 1..Len(z) : Append(z, x)[i] = z[i]
<1>1. z \in Seq(Nat \cup {x}) /\ x \in Nat \cup {x}
  OBVIOUS
<1>2. /\ Append(z, x) \in Seq(Nat \cup {x}) /\ Len(Append(z, x)) = Len(z) + 1
      /\ Append(z, x)[Len(z) + 1] = x
      /\ \A i \in 1..Len(z) : Append(z, x)[i] = z[i]
  BY <1>1, AppendProperties
<1> DEFINE a == Append(z, x)
<1>3. a \in Seq(Nat \cup {x}) /\ Len(a) = Len(z) + 1
  BY <1>2
<1> HIDE DEF a
<1>4. a = [i \in 1..Len(a) |-> a[i]]
  BY <1>3
<1>5. a = [i \in 1..(Len(z) + 1) |-> a[i]]
  BY <1>3, <1>4
<1> QED BY <1>2, <1>5 DEF a

LEMMA TailOfConcat ==
  ASSUME NEW a \in Seq(Nat), NEW b \in Seq(Nat), a # <<>>
  PROVE  /\ a \o b # <<>> /\ Head(a \o b) = Head(a)
         /\ Tail(a \o b) = Tail(a) \o b
<1> DEFINE c == a \o b
           t == Tail(a)
<1>1. /\ c \in Seq(Nat) /\ Len(c) = Len(a) + Len(b)
      /\ \A i \in 1..Len(c) : c[i] = IF i <= Len(a) THEN a[i] ELSE b[i - Len(a)]
      /\ Len(a) \in Nat \ {0} /\ Len(b) \in Nat
  BY ConcatProperties, LenProperties, EmptySeq
<1>2. /\ t \in Seq(Nat) /\ Len(t) = Len(a) - 1 /\ \A i \in 1..(Len(a) - 1) : t[i] = a[i + 1]
  BY HeadTailProperties
<1> HIDE DEF c, t
<1>3. c # <<>> /\ Head(c) = a[1] /\ Head(a) = a[1]
  BY <1>1, HeadTailProperties
<1>4. /\ Tail(c) \in Seq(Nat) /\ Len(Tail(c)) = Len(c) - 1
      /\ \A i \in 1..(Len(c) - 1) : Tail(c)[i] = c[i + 1]
  BY <1>1, <1>3, HeadTailProperties
<1>5. /\ t \o b \in Seq(Nat) /\ Len(t \o b) = Len(c) - 1
      /\ \A i \in 1..(Len(c) - 1) : (t \o b)[i] = IF i <= Len(a) - 1 THEN t[i] ELSE b[i - (Len(a) - 1)]
  <2>1. /\ t \o b \in Seq(Nat) /\ Len(t \o b) = Len(t) + Len(b)
        /\ \A i \in 1..(Len(t) + Len(b)) : (t \o b)[i] = IF i <= Len(t) THEN t[i] ELSE b[i - Len(t)]
    BY <1>2, ConcatProperties
  <2>2. Len(t) + Len(b) = Len(c) - 1 /\ Len(t) = Len(a) - 1
    BY <1>1, <1>2
  <2> QED BY <2>1, <2>2
<1>6. ASSUME NEW i \in 1..(Len(c) - 1) PROVE Tail(c)[i] = (t \o b)[i]
  <2>1. i + 1 \in 1..Len(c) /\ Tail(c)[i] = c[i + 1] /\ i \in Nat /\ Len(a) \in Nat
    <3>1. Len(c) \in Nat /\ Len(a) \in Nat
      BY <1>1
    <3>2. i + 1 \in 1..Len(c) /\ i \in Nat
      BY <3>1
    <3> QED BY <1>4, <3>1, <3>2
  <2>2. CASE i <= Len(a) - 1
    <3>1. i + 1 <= Len(a) /\ i \in 1..(Len(a) - 1)
      BY <2>1, <2>2
    <3>2. c[i + 1] = a[i + 1] /\ t[i] = a[i + 1]
      BY <1>1, <1>2, <2>1, <3>1
    <3> QED BY <1>5, <2>1, <2>2, <3>2
  <2>3. CASE ~(i <= Len(a) - 1)
    <3>1. ~(i + 1 <= Len(a)) /\ (i + 1) - Len(a) = i - (Len(a) - 1)
      BY <2>1, <2>3
    <3>2. c[i + 1] = b[(i + 1) - Len(a)]
      BY <1>1, <2>1, <3>1
    <3>3. (t \o b)[i] = b[i - (Len(a) - 1)]
      BY <1>5, <2>3
    <3> QED BY <2>1, <3>1, <3>2, <3>3
  <2> QED BY <2>2, <2>3
<1>7. Tail(c) = t \o b
  BY <1>4, <1>5, <1>6, SeqEqual
<1> QED BY <1>3, <1>7 DEF c, t

\* An entry joins the queue, and its size the sizes.
LEMMA SizesAppended ==
  ASSUME TypeOK, TypeOK', PointersValid, NEW e \in Entries,
         queue' = Append(queue, e), UNCHANGED <<cpc, inHand>>,
         \A k \in 1..Len(accepted) : accepted'[k] = accepted[k],
         Len(accepted) <= Len(accepted'),
         IsWrite(e) => e.ptr \in 1..Len(accepted')
  PROVE  /\ PointersValid'
         /\ Sizes \in Seq(Nat) /\ EntrySize(e)' \in Nat
         /\ Sizes' = Append(Sizes, EntrySize(e)')
<1>1. Unvisited \in Seq(Held) /\ queue \in Seq(Held) /\ inHand \in Held /\ e \in Held
  BY UnvisitedType DEF TypeOK, Held
<1>2. Unvisited' = Append(Unvisited, e)
  <2>1. <<inHand>> \o Append(queue, e) = Append(<<inHand>> \o queue, e)
    BY <1>1
  <2> QED BY <2>1 DEF Unvisited
<1>3. /\ Len(Unvisited) \in Nat /\ DOMAIN Unvisited = 1..Len(Unvisited)
      /\ DOMAIN Unvisited' = 1..(Len(Unvisited) + 1)
      /\ Unvisited'[Len(Unvisited) + 1] = e
      /\ \A i \in 1..Len(Unvisited) : Unvisited'[i] = Unvisited[i]
  BY <1>1, <1>2, AppendProperties
<1>4. Len(accepted) \in Nat /\ Len(accepted') \in Nat
  <2>1. accepted \in Seq(Ops) /\ accepted' \in Seq(Ops)
    BY DEF TypeOK
  <2> QED BY <2>1
<1>5. PointersValid'
  <2> SUFFICES ASSUME NEW i \in DOMAIN Unvisited', IsWrite(Unvisited'[i])
               PROVE  Unvisited'[i].ptr \in 1..Len(accepted')
    BY DEF PointersValid, IsWrite
  <2>1. CASE i = Len(Unvisited) + 1
    BY <1>3, <2>1
  <2>2. CASE i \in 1..Len(Unvisited)
    <3>1. Unvisited[i].ptr \in 1..Len(accepted)
      BY <1>3, <2>2 DEF PointersValid
    <3> QED BY <1>3, <1>4, <2>2, <3>1
  <2> QED BY <1>3, <2>1, <2>2
<1>6. ASSUME NEW i \in 1..Len(Unvisited) PROVE Sizes'[i] = Sizes[i]
  <2>1. IsWrite(Unvisited[i]) => Unvisited[i].ptr \in 1..Len(accepted)
    BY <1>3 DEF PointersValid
  <2>2. Sizes'[i] = EntrySize(Unvisited[i])'
    BY <1>3 DEF Sizes, EntrySize
  <2> QED BY ZenonT(40), <1>3, <2>1, <2>2 DEF Sizes, EntrySize, OpSize
<1>7. Sizes' = Append(Sizes, EntrySize(e)')
  <2>1. Sizes \in Seq(Nat) /\ Len(Sizes) = Len(Unvisited)
    BY SizesType DEF SizesMatch
  <2>2. Sizes'[Len(Unvisited) + 1] = EntrySize(e)'
    BY <1>3 DEF Sizes, EntrySize
  <2>3. Sizes' = [i \in 1..(Len(Unvisited) + 1) |-> Sizes'[i]]
    BY <1>3 DEF Sizes
  <2> DEFINE z == Append(Sizes, EntrySize(e)')
  <2>4. /\ z = [i \in 1..(Len(Unvisited) + 1) |-> z[i]]
        /\ z[Len(Unvisited) + 1] = EntrySize(e)'
        /\ \A i \in 1..Len(Unvisited) : z[i] = Sizes[i]
    BY <1>3, <2>1, AppendedItems
  <2> HIDE DEF z
  <2>5. \A i \in 1..(Len(Unvisited) + 1) : Sizes'[i] = z[i]
    <3> TAKE i \in 1..(Len(Unvisited) + 1)
    <3>1. i = Len(Unvisited) + 1 \/ i \in 1..Len(Unvisited)
      BY <1>3
    <3> QED BY <1>6, <2>2, <2>4, <3>1
  <2>6. Sizes' = z
    BY <2>3, <2>4, <2>5
  <2> QED BY <2>6 DEF z
<1>8. Sizes \in Seq(Nat) /\ EntrySize(e)' \in Nat
  <2>1. Sizes \in Seq(Nat)
    BY SizesType DEF SizesMatch
  <2>2. EntrySize(e)' = Sizes'[Len(Unvisited) + 1] /\ Len(Unvisited) + 1 \in DOMAIN Unvisited'
    BY <1>3 DEF Sizes, EntrySize
  <2>3. Sizes' \in Seq(Nat) /\ DOMAIN Sizes' = DOMAIN Unvisited'
    BY <1>5, SizesTypeNext DEF SizesMatch
  <2> QED BY <2>1, <2>2, <2>3
<1> QED BY <1>5, <1>7, <1>8

\* Account: the first entry counted is taken off the estimate.
LEMMA SizesTaken ==
  ASSUME TypeOK, SizeInv, Account
  PROVE  SizeInv'
<1>1. /\ cpc = "taken" /\ cpc' = "visit" /\ queueSize' = queueSize - EntrySize(inHand)
      /\ UNCHANGED <<queue, accepted, pc, pending>> /\ Running
  BY DEF Account, producerVars, control
<1>2. /\ queue \in Seq(Held) /\ inHand \in Held
      /\ Unvisited = <<inHand>> \o queue /\ Unvisited' = queue
  BY <1>1 DEF TypeOK, Held, Unvisited
<1>3. /\ Len(queue) \in Nat /\ DOMAIN Unvisited = 1..(Len(queue) + 1) /\ DOMAIN queue = 1..Len(queue)
      /\ Unvisited[1] = inHand
      /\ \A i \in 1..Len(queue) : Unvisited[i + 1] = queue[i]
  BY <1>2
<1>4. Sizes \in Seq(Nat) /\ Len(Sizes) = Len(queue) + 1
  <2>1. Sizes \in Seq(Nat) /\ DOMAIN Sizes = DOMAIN Unvisited
    BY SizesType DEF SizeInv, SizesMatch
  <2> QED BY <1>3, <2>1
<1> DEFINE z == Tail(Sizes)
<1>5. /\ z \in Seq(Nat) /\ Len(z) = Len(queue)
      /\ \A i \in 1..Len(queue) : z[i] = Sizes[i + 1]
      /\ Head(Sizes) = Sizes[1] /\ Sizes # <<>>
  BY <1>3, <1>4, HeadTailProperties, EmptySeq
<1> HIDE DEF z
<1>6. z = [i \in 1..Len(queue) |-> z[i]]
  BY <1>5
<1>7. ASSUME NEW i \in 1..Len(queue) PROVE z[i] = EntrySize(queue[i])
  <2>1. i + 1 \in DOMAIN Unvisited /\ Unvisited[i + 1] = queue[i]
    BY <1>3
  <2> QED BY <1>5, <2>1 DEF Sizes
<1>8. Sizes' = [i \in 1..Len(queue) |-> EntrySize(queue[i])]
  BY <1>1, <1>2, <1>3 DEF Sizes, EntrySize
<1>9. Sizes' = z
  BY <1>6, <1>7, <1>8
<1>10. Head(Sizes) = EntrySize(inHand)
  BY <1>3, <1>5 DEF Sizes
<1>11. /\ Accounted # <<>> /\ Head(Accounted) = EntrySize(inHand)
       /\ Accounted' = Tail(Accounted) /\ Accounted \in Seq(Nat)
  <2>1. Coming \in Seq(Nat) /\ Accounted \in Seq(Nat)
    BY AccountedSizes DEF SizeInv
  <2>2. Coming' = Coming
    BY <1>1 DEF Coming
  <2>3. Accounted' = z \o Coming
    BY <1>9, <2>2 DEF Accounted
  <2>4. /\ Sizes \o Coming # <<>> /\ Head(Sizes \o Coming) = Head(Sizes)
        /\ Tail(Sizes \o Coming) = Tail(Sizes) \o Coming
    BY <1>4, <1>5, <2>1, TailOfConcat
  <2> QED BY <1>10, <2>1, <2>3, <2>4 DEF Accounted, z
<1>12. EstimateRight'
  <2>1. EstimateRight /\ Accounted \in Seq(Int)
    BY <1>1, <1>11 DEF SizeInv
  <2>2. TotalSize(Accounted') = TotalSize(Accounted) - EntrySize(inHand)
    BY <1>11, <2>1, TotalOfTail
  <2>3. WithinThreshold(Tail(Accounted))
    BY <1>11, <2>1, WithinTail DEF EstimateRight
  <2> QED BY <1>1, <1>11, <2>1, <2>2, <2>3 DEF EstimateRight, WithinThreshold
<1>13. PointersValid'
  <2> SUFFICES ASSUME NEW i \in DOMAIN queue, IsWrite(queue[i]) PROVE queue[i].ptr \in 1..Len(accepted)
    BY <1>1, <1>2 DEF PointersValid, IsWrite
  <2>1. i + 1 \in DOMAIN Unvisited /\ Unvisited[i + 1] = queue[i]
    BY <1>3
  <2> QED BY <2>1 DEF SizeInv, PointersValid
<1> QED BY <1>1, <1>12, <1>13 DEF SizeInv, ComingIsPending

\* Count: the size of the write is added before the write is in the queue.
LEMMA CountSize ==
  ASSUME TypeOK, SizeInv, Count
  PROVE  SizeInv'
<1>1. /\ UNCHANGED <<pending, accepted, queue, cpc, inHand>>
      /\ pc = "push" /\ pc' = "counted" /\ pending # <<>> /\ Running
      /\ queueSize' = queueSize + OpSize(Head(pending)) /\ HasSpace(Head(pending))
  BY DEF Count, consumerVars, Running
<1>2. PICK x \in Nat : x = OpSize(Head(pending))
  <2>1. Head(pending) \in Ops
    BY <1>1, HeadTailProperties DEF TypeOK
  <2> QED BY <2>1, OpSizeType
<1>3. Sizes' = Sizes
  BY <1>1 DEF Sizes, Unvisited, EntrySize
<1>4. Sizes \in Seq(Nat) /\ Accounted = Sizes
  BY <1>1, AccountedSizes, NothingComing DEF SizeInv
<1>5. Accounted' = Append(Sizes, x)
  <2>1. Coming' = <<x>>
    BY <1>1, <1>2 DEF Coming
  <2> QED BY <1>3, <1>4, <2>1, AppendIsConcat DEF Accounted
<1>6. EstimateRight'
  <2>1. EstimateRight /\ Sizes \in Seq(Int)
    BY <1>1, <1>4 DEF SizeInv
  <2>2. TotalSize(Accounted') = TotalSize(Sizes) + x
    BY <1>5, <2>1, TotalOfAppend
  <2>3. TotalSize(Sizes) <= (IF Threshold > x THEN Threshold - x ELSE 0)
    BY <1>1, <1>2, <1>4, <2>1 DEF HasSpace, MaxQueueSize, EstimateRight
  <2>4. WithinThreshold(Append(Sizes, x))
    BY <1>4, <2>1, <2>3, WithinAppend DEF EstimateRight
  <2> QED BY <1>1, <1>2, <1>4, <1>5, <2>1, <2>2, <2>4 DEF EstimateRight, WithinThreshold
<1>7. PointersValid' /\ ComingIsPending'
  BY <1>1 DEF SizeInv, PointersValid, ComingIsPending, Unvisited
<1> QED BY <1>6, <1>7 DEF SizeInv

LEMMA PushSize ==
  ASSUME TypeOK, TypeOK', SizeInv, Push
  PROVE  SizeInv'
<1>1. Head(pending) \in Ops /\ accepted \in Seq(Ops) /\ Len(accepted) \in Nat
  BY HeadTailProperties DEF Push, TypeOK
<1>2. PICK o \in Ops : o = Head(pending)
  BY <1>1
<1>3. PICK e \in Entries : e = Write(Len(accepted) + 1)
  <2>1. Len(accepted) + 1 \in Nat
    BY <1>1
  <2>2. Write(Len(accepted) + 1) \in Entries
    BY <2>1 DEF Write, Entries
  <2> QED BY <2>2
<1>4. /\ accepted' = Append(accepted, o)
      /\ queue' = Append(queue, e) /\ UNCHANGED <<cpc, inHand, queueSize>>
      /\ pc = "counted" /\ pc' = "push" /\ Running
  BY <1>2, <1>3 DEF Push, consumerVars, Running
<1>5. IsWrite(e) /\ e.ptr = Len(accepted) + 1
  BY <1>1, <1>3 DEF Write, IsWrite
<1>6. /\ Len(accepted') = Len(accepted) + 1
      /\ accepted'[Len(accepted) + 1] = o
      /\ \A k \in 1..Len(accepted) : accepted'[k] = accepted[k]
  BY <1>1, <1>4, AppendProperties
<1>7. EntrySize(e)' = OpSize(o)
  BY <1>5, <1>6 DEF EntrySize
<1>8. /\ Len(accepted) <= Len(accepted')
      /\ IsWrite(e) => e.ptr \in 1..Len(accepted')
  BY <1>1, <1>5, <1>6
<1>9. /\ PointersValid' /\ Sizes \in Seq(Nat) /\ OpSize(o) \in Nat
      /\ Sizes' = Append(Sizes, OpSize(o))
  BY <1>4, <1>6, <1>7, <1>8, SizesAppended DEF SizeInv
<1>10. Accounted' = Sizes'
  <2>1. Sizes' \in Seq(Nat)
    BY <1>9, AppendProperties
  <2> QED BY <1>4, <2>1, NothingComingNext
<1>11. Accounted = Append(Sizes, OpSize(o))
  <2>1. Coming = <<OpSize(o)>>
    BY <1>2, <1>4 DEF Coming
  <2> QED BY <1>9, <2>1, AppendIsConcat DEF Accounted
<1>12. EstimateRight'
  BY <1>4, <1>9, <1>10, <1>11 DEF SizeInv, EstimateRight, WithinThreshold
<1> QED BY <1>4, <1>9, <1>12 DEF SizeInv, ComingIsPending

\* An entry that is no write.
LEMMA ControlEntrySize ==
  ASSUME TypeOK, TypeOK', SizeInv, RequestNotify \/ CloseQueue
  PROVE  SizeInv'
<1>1. PICK e \in {Notify, Close} :
        /\ queue' = Append(queue, e)
        /\ UNCHANGED <<cpc, inHand, accepted, queueSize>>
        /\ pc = "push" /\ pc' # "counted" /\ Running
  BY DEF RequestNotify, CloseQueue, consumerVars, Running
<1>2. e \in Entries /\ ~IsWrite(e)
  BY DEF Entries, Notify, Close, IsWrite
<1>3. EntrySize(e)' = 0
  BY <1>2 DEF EntrySize
<1>4. Len(accepted) <= Len(accepted') /\ queueSize' = queueSize + 0
  BY <1>1 DEF TypeOK
<1>5. PointersValid' /\ Sizes \in Seq(Nat) /\ Sizes' = Append(Sizes, 0)
  BY <1>1, <1>2, <1>3, <1>4, SizesAppended DEF SizeInv
<1>6. Accounted = Sizes /\ Accounted' = Sizes'
  <2>1. Sizes' \in Seq(Nat)
    BY <1>5, AppendProperties
  <2> QED BY <1>1, <1>5, <2>1, NothingComing, NothingComingNext
<1>7. EstimateRight'
  <2>1. EstimateRight /\ Sizes \in Seq(Int)
    BY <1>1, <1>5 DEF SizeInv
  <2>2. TotalSize(Accounted') = TotalSize(Sizes) + 0
    BY <1>5, <1>6, <2>1, TotalOfAppend
  <2>3. WithinThreshold(Append(Sizes, 0))
    BY <1>5, <1>6, <2>1, WithinAppend DEF EstimateRight
  <2> QED BY <1>4, <1>5, <1>6, <2>1, <2>2, <2>3 DEF EstimateRight, WithinThreshold
<1> QED BY <1>1, <1>5, <1>7 DEF SizeInv, ComingIsPending

LEMMA NoneIsRight == TotalSize(<<>>) = 0 /\ WithinThreshold(<<>>)
<1>1. Threshold \in Nat
  BY SizesAssumption
<1> QED BY <1>1, TotalOfNone DEF WithinThreshold

LEMMA JoinFinaliseSize ==
  ASSUME JoinFinalise
  PROVE  SizeInv'
<1>1. Unvisited' = <<>> /\ queueSize' = 0 /\ pc' = "ready"
  BY DEF JoinFinalise, Unvisited
<1>2. Sizes' = <<>>
  BY <1>1 DEF Sizes
<1>3. Accounted' = <<>>
  BY <1>1, <1>2, EmptySeq, NothingComingNext
<1> QED BY <1>1, <1>3, NoneIsRight DEF SizeInv, PointersValid, ComingIsPending, EstimateRight, WithinThreshold

LEMMA DequeueSize ==
  ASSUME TypeOK, SizeInv, Dequeue
  PROVE  SizeInv'
<1>1. queue = <<Head(queue)>> \o Tail(queue)
  BY DEF Dequeue, TypeOK
<1>2. Unvisited' = Unvisited
  BY <1>1 DEF Dequeue, Unvisited
<1> QED BY <1>2, SizesUnchanged DEF Dequeue, producerVars, control

LEMMA NextSize == IInv /\ SizeInv /\ [Next]_vars => SizeInv'
<1> SUFFICES ASSUME IInv, SizeInv, [Next]_vars PROVE SizeInv'
  OBVIOUS
<1>1. TypeOK /\ TypeOK'
  BY NextIInv DEF IInv
<1>2. CASE Importer
  <2>1. UNCHANGED <<accepted, queue, queueSize, cpc, inHand>>
    BY <1>2 DEF Importer, AddNode, AddMesh, HoldNode, ReleaseNode, AddParent, Finalise, ImportFails, Destroy,
           sharedVars, consumerVars
  <2>2. pc = "ready" /\ pc' # "counted"
    BY <1>2 DEF Importer, AddNode, AddMesh, HoldNode, ReleaseNode, AddParent, Finalise, ImportFails, Destroy,
           Begin, control
  <2> QED BY <2>1, <2>2, SizesUnchanged DEF Unvisited, Running
<1>3. CASE Count
  BY <1>1, <1>3, CountSize
<1>4. CASE Push
  BY <1>1, <1>4, PushSize
<1>5. CASE RequestNotify \/ CloseQueue
  BY <1>1, <1>5, ControlEntrySize
<1>6. CASE JoinFinalise
  BY <1>6, JoinFinaliseSize
<1>7. CASE Suspend \/ Acquire \/ Timeout \/ Recheck \/ Rethrow \/ Return \/ JoinFailed \/ JoinDestroy
  <2>1. UNCHANGED <<accepted, queue, queueSize, cpc, inHand>>
    BY <1>7 DEF Suspend, Acquire, Timeout, Recheck, Rethrow, Return, JoinFailed, JoinDestroy,
           builderVars, sharedVars, consumerVars
  <2>2. pc \in {"notified", "blocked", "awake", "push", "joining"} /\ pc' # "counted"
    BY <1>7 DEF Suspend, Acquire, Timeout, Recheck, Rethrow, Return, JoinFailed, JoinDestroy
  <2> QED BY <2>1, <2>2, SizesUnchanged DEF Unvisited, Running
<1>8. CASE Dequeue
  BY <1>1, <1>8, DequeueSize
<1>9. CASE Account
  BY <1>1, <1>9, SizesTaken
<1>10. CASE Consumer /\ ~Dequeue /\ ~Account
  <2>1. UNCHANGED <<accepted, queue, queueSize>> /\ cpc # "taken" /\ cpc' # "taken"
    BY <1>10 DEF Consumer, ConsumerStart, VisitBuffered, VisitExecuted, VisitExecuteFails, VisitAppendFails,
           VisitNotify, VisitClose, FlushContext, FlushContextFails, Stop, producerVars, sharedVars
  <2>2. /\ UNCHANGED <<pc, pending>> \/ pc' = "terminated"
        /\ Running
    BY <1>10 DEF Consumer, ConsumerStart, VisitBuffered, VisitExecuted, VisitExecuteFails, VisitAppendFails,
           VisitNotify, VisitClose, FlushContext, FlushContextFails, Stop, producerVars, control
  <2> QED BY <2>1, <2>2, SizesUnchanged DEF Unvisited
<1>11. CASE UNCHANGED vars
  BY <1>11, SizesUnchanged DEF vars, producerVars, control, sharedVars, consumerVars, Unvisited, Running
<1> QED
  BY <1>2, <1>3, <1>4, <1>5, <1>6, <1>7, <1>8, <1>9, <1>10, <1>11 DEF Next, Producer, Stopped

LEMMA InitSize == Init => SizeInv
<1> SUFFICES ASSUME Init PROVE SizeInv
  OBVIOUS
<1>1. Unvisited = <<>> /\ queueSize = 0 /\ pc = "ready"
  BY DEF Init, Unvisited
<1>2. Sizes = <<>>
  BY <1>1 DEF Sizes
<1>3. Accounted = <<>>
  BY <1>1, <1>2, EmptySeq, NothingComing
<1> QED BY <1>1, <1>3, NoneIsRight DEF SizeInv, PointersValid, ComingIsPending, EstimateRight

\* The estimate that push and the worker keep without a lock between them is
\* exact at every step of the two: it is the sum of the sizes of the writes that
\* push has counted, whether it has enqueued them yet or not, and that the worker
\* has not taken off.
THEOREM EstimateExact == Spec => []QueueSizeExact
<1>1. SizeInv => QueueSizeExact
  BY DEF SizeInv, EstimateRight, QueueSizeExact
<1> QED BY <1>1, InitIInv, NextIInv, InitSize, NextSize, PTL DEF Spec

\* The queue holds more than its threshold only for one write that is larger by
\* itself: push lets nothing in beside it, and the worker takes it out whole.
THEOREM QueueHeldToThreshold == Spec => []QueueBounded
<1>1. IInv /\ SizeInv => QueueBounded
  <2> SUFFICES ASSUME IInv, SizeInv, Running, queueSize > Threshold
               PROVE  Cardinality({i \in DOMAIN Accounted : Accounted[i] # 0}) = 1
    BY DEF QueueBounded
  <2>1. Accounted \in Seq(Nat)
    BY AccountedSizes DEF IInv, SizeInv
  <2>2. TotalSize(Accounted) > Threshold /\ WithinThreshold(Accounted)
    BY DEF SizeInv, EstimateRight
  <2>3. PICK i \in 1..Len(Accounted) : \A j \in 1..Len(Accounted) : Accounted[j] # 0 <=> j = i
    BY <2>2 DEF WithinThreshold
  <2>4. DOMAIN Accounted = 1..Len(Accounted)
    BY <2>1
  <2>5. {j \in DOMAIN Accounted : Accounted[j] # 0} = {i}
    BY <2>3, <2>4
  <2> QED BY <2>5, FS_Singleton
<1> QED BY <1>1, InitIInv, NextIInv, InitSize, NextSize, PTL DEF Spec
-----------------------------------------------------------------------------
(* Nodes and their parents.                                                *)

InsertsOf(s, n) == {i \in DOMAIN s : s[i].op = "insert" /\ s[i].node = n}
UpdatesOf(s, n) == {i \in DOMAIN s : s[i].op = "addParent" /\ s[i].node = n}
ParentsIn(s, n) == UNION {s[i].parents : i \in {k \in DOMAIN s : s[k].node = n}}

\* No node is inserted twice, or while the importer holds it, and no update
\* comes before the insert of its node.
WellOrdered(s, H) ==
  \A n \in Nodes :
    /\ \A i, j \in InsertsOf(s, n) : i = j
    /\ n \in H => InsertsOf(s, n) = {}
    /\ \A j \in UpdatesOf(s, n) : \E i \in InsertsOf(s, n) : i < j
    /\ \A i \in InsertsOf(s, n) : s[i].parents = {}

LEMMA ConcatItems ==
  ASSUME NEW s \in Seq(Ops), NEW t \in Seq(Ops)
  PROVE  /\ s \o t \in Seq(Ops)
         /\ Len(s) \in Nat /\ Len(t) \in Nat
         /\ DOMAIN s = 1..Len(s) /\ DOMAIN t = 1..Len(t)
         /\ DOMAIN (s \o t) = 1..(Len(s) + Len(t))
         /\ \A i \in 1..Len(s) : (s \o t)[i] = s[i]
         /\ \A i \in 1..Len(t) : (s \o t)[Len(s) + i] = t[i]
         /\ \A i \in 1..(Len(s) + Len(t)) : i \in 1..Len(s) \/ \E k \in 1..Len(t) : i = Len(s) + k
<1>1. Len(s) \in Nat /\ Len(t) \in Nat
  OBVIOUS
<1>2. ASSUME NEW i \in 1..(Len(s) + Len(t)), i \notin 1..Len(s)
      PROVE  \E k \in 1..Len(t) : i = Len(s) + k
  <2>1. i - Len(s) \in 1..Len(t) /\ i = Len(s) + (i - Len(s))
    BY <1>1, <1>2
  <2> QED BY <2>1
<1> QED BY <1>1, <1>2, ConcatProperties

LEMMA ParentsOfConcat ==
  ASSUME NEW s \in Seq(Ops), NEW t \in Seq(Ops), NEW n
  PROVE  ParentsIn(s \o t, n) = ParentsIn(s, n) \cup ParentsIn(t, n)
<1> DEFINE st == s \o t
<1>1. /\ Len(s) \in Nat /\ Len(t) \in Nat
      /\ DOMAIN s = 1..Len(s) /\ DOMAIN t = 1..Len(t)
      /\ DOMAIN st = 1..(Len(s) + Len(t))
      /\ \A i \in 1..Len(s) : st[i] = s[i]
      /\ \A i \in 1..Len(t) : st[Len(s) + i] = t[i]
      /\ \A i \in 1..(Len(s) + Len(t)) : i \in 1..Len(s) \/ \E k \in 1..Len(t) : i = Len(s) + k
  BY ConcatItems
<1> HIDE DEF st
<1>2. ASSUME NEW p \in ParentsIn(st, n) PROVE p \in ParentsIn(s, n) \cup ParentsIn(t, n)
  <2>1. PICK i \in DOMAIN st : st[i].node = n /\ p \in st[i].parents
    BY <1>2 DEF ParentsIn
  <2>2. CASE i \in 1..Len(s)
    BY <1>1, <2>1, <2>2 DEF ParentsIn
  <2>3. CASE i \notin 1..Len(s)
    <3>1. PICK k \in 1..Len(t) : i = Len(s) + k
      BY <1>1, <2>1, <2>3
    <3>2. t[k].node = n /\ p \in t[k].parents /\ k \in DOMAIN t
      BY <1>1, <2>1, <3>1
    <3> QED BY <3>2 DEF ParentsIn
  <2> QED BY <2>2, <2>3
<1>3. ASSUME NEW p \in ParentsIn(s, n) PROVE p \in ParentsIn(st, n)
  <2>1. PICK i \in DOMAIN s : s[i].node = n /\ p \in s[i].parents
    BY <1>3 DEF ParentsIn
  <2>2. i \in DOMAIN st /\ st[i] = s[i]
    BY <1>1, <2>1
  <2> QED BY <2>1, <2>2 DEF ParentsIn
<1>4. ASSUME NEW p \in ParentsIn(t, n) PROVE p \in ParentsIn(st, n)
  <2>1. PICK i \in DOMAIN t : t[i].node = n /\ p \in t[i].parents
    BY <1>4 DEF ParentsIn
  <2>2. i \in 1..Len(t)
    BY <1>1, <2>1
  <2>3. Len(s) + i \in 1..(Len(s) + Len(t))
    BY <1>1, <2>2
  <2>4. Len(s) + i \in DOMAIN st /\ st[Len(s) + i] = t[i]
    BY <1>1, <2>2, <2>3
  <2> QED BY <2>1, <2>4 DEF ParentsIn
<1> QED BY <1>2, <1>3, <1>4 DEF st

\* More writes are handed over.
LEMMA OrderedConcat ==
  ASSUME NEW s \in Seq(Ops), NEW t \in Seq(Ops), NEW H, NEW J, WellOrdered(s, H),
         \A n \in Nodes :
           /\ \A i, j \in InsertsOf(t, n) : i = j
           /\ InsertsOf(t, n) # {} => InsertsOf(s, n) = {} /\ n \notin J
           /\ n \in J => n \in H
           /\ UpdatesOf(t, n) # {} => InsertsOf(s, n) # {}
           /\ \A i \in InsertsOf(t, n) : t[i].parents = {}
  PROVE  WellOrdered(s \o t, J)
<1> DEFINE st == s \o t
<1>1. /\ Len(s) \in Nat /\ Len(t) \in Nat
      /\ DOMAIN s = 1..Len(s) /\ DOMAIN t = 1..Len(t)
      /\ DOMAIN st = 1..(Len(s) + Len(t))
      /\ \A i \in 1..Len(s) : st[i] = s[i]
      /\ \A i \in 1..Len(t) : st[Len(s) + i] = t[i]
      /\ \A i \in 1..(Len(s) + Len(t)) : i \in 1..Len(s) \/ \E k \in 1..Len(t) : i = Len(s) + k
  BY ConcatItems
<1> HIDE DEF st
<1> SUFFICES ASSUME NEW n \in Nodes
             PROVE  /\ \A i, j \in InsertsOf(st, n) : i = j
                    /\ n \in J => InsertsOf(st, n) = {}
                    /\ \A j \in UpdatesOf(st, n) : \E i \in InsertsOf(st, n) : i < j
                    /\ \A i \in InsertsOf(st, n) : st[i].parents = {}
  BY DEF WellOrdered, st
<1>2. /\ \A i, j \in InsertsOf(s, n) : i = j
      /\ n \in H => InsertsOf(s, n) = {}
      /\ \A j \in UpdatesOf(s, n) : \E i \in InsertsOf(s, n) : i < j
      /\ \A i \in InsertsOf(s, n) : s[i].parents = {}
  BY DEF WellOrdered
<1>3. \A i \in InsertsOf(st, n) :
         \/ i \in InsertsOf(s, n) /\ st[i] = s[i]
         \/ \E k \in InsertsOf(t, n) : i = Len(s) + k /\ st[i] = t[k]
  <2> TAKE i \in InsertsOf(st, n)
  <2>1. i \in 1..(Len(s) + Len(t)) /\ st[i].op = "insert" /\ st[i].node = n
    BY <1>1 DEF InsertsOf
  <2>2. CASE i \in 1..Len(s)
    BY <1>1, <2>1, <2>2 DEF InsertsOf
  <2>3. CASE i \notin 1..Len(s)
    <3>1. PICK k \in 1..Len(t) : i = Len(s) + k
      BY <1>1, <2>1, <2>3
    <3>2. st[i] = t[k]
      BY <1>1, <3>1
    <3>3. k \in InsertsOf(t, n)
      BY <1>1, <2>1, <3>2 DEF InsertsOf
    <3> QED BY <3>1, <3>2, <3>3
  <2> QED BY <2>2, <2>3
<1>4. \A i \in InsertsOf(s, n) : i \in InsertsOf(st, n) /\ i <= Len(s)
  BY <1>1 DEF InsertsOf
<1>5. \A j \in UpdatesOf(st, n) :
         \/ j \in UpdatesOf(s, n)
         \/ j > Len(s) /\ j \in Nat /\ UpdatesOf(t, n) # {}
  <2> TAKE j \in UpdatesOf(st, n)
  <2>1. j \in 1..(Len(s) + Len(t)) /\ st[j].op = "addParent" /\ st[j].node = n
    BY <1>1 DEF UpdatesOf
  <2>2. CASE j \in 1..Len(s)
    BY <1>1, <2>1, <2>2 DEF UpdatesOf
  <2>3. CASE j \notin 1..Len(s)
    <3>1. PICK k \in 1..Len(t) : j = Len(s) + k
      BY <1>1, <2>1, <2>3
    <3>2. st[j] = t[k]
      BY <1>1, <3>1
    <3>3. k \in UpdatesOf(t, n)
      BY <1>1, <2>1, <3>2 DEF UpdatesOf
    <3>4. j > Len(s) /\ j \in Nat
      BY <1>1, <3>1
    <3> QED BY <3>3, <3>4
  <2> QED BY <2>2, <2>3
<1>6. ASSUME NEW i \in InsertsOf(st, n), NEW j \in InsertsOf(st, n) PROVE i = j
  BY <1>2, <1>3
<1>7. n \in J => InsertsOf(st, n) = {}
  BY <1>2, <1>3
<1>8. ASSUME NEW j \in UpdatesOf(st, n) PROVE \E i \in InsertsOf(st, n) : i < j
  <2>1. CASE j \in UpdatesOf(s, n)
    BY <1>2, <1>4, <2>1
  <2>2. CASE j \notin UpdatesOf(s, n)
    <3>1. j > Len(s) /\ UpdatesOf(t, n) # {} /\ j \in Nat
      BY <1>5, <2>2
    <3>2. PICK i \in InsertsOf(s, n) : TRUE
      BY <3>1
    <3>3. i \in InsertsOf(st, n) /\ i < j
      BY <1>1, <1>4, <3>1, <3>2 DEF InsertsOf
    <3> QED BY <3>3
  <2> QED BY <2>1, <2>2
<1>9. \A i \in InsertsOf(st, n) : st[i].parents = {}
  BY <1>2, <1>3
<1> QED BY <1>6, <1>7, <1>8, <1>9

LEMMA OrderedPrefix ==
  ASSUME NEW s \in Seq(Ops), NEW t \in Seq(Ops), NEW H, WellOrdered(s \o t, H)
  PROVE  WellOrdered(s, H)
<1> DEFINE st == s \o t
<1>1. /\ Len(s) \in Nat /\ Len(t) \in Nat
      /\ DOMAIN s = 1..Len(s)
      /\ DOMAIN st = 1..(Len(s) + Len(t))
      /\ \A i \in 1..Len(s) : st[i] = s[i]
  BY ConcatItems
<1> HIDE DEF st
<1> SUFFICES ASSUME NEW n \in Nodes
             PROVE  /\ \A i, j \in InsertsOf(s, n) : i = j
                    /\ n \in H => InsertsOf(s, n) = {}
                    /\ \A j \in UpdatesOf(s, n) : \E i \in InsertsOf(s, n) : i < j
                    /\ \A i \in InsertsOf(s, n) : s[i].parents = {}
  BY DEF WellOrdered
<1>2. /\ \A i, j \in InsertsOf(st, n) : i = j
      /\ n \in H => InsertsOf(st, n) = {}
      /\ \A j \in UpdatesOf(st, n) : \E i \in InsertsOf(st, n) : i < j
      /\ \A i \in InsertsOf(st, n) : st[i].parents = {}
  BY DEF WellOrdered, st
<1>3. \A i \in InsertsOf(s, n) : i \in InsertsOf(st, n) /\ st[i] = s[i]
  BY <1>1 DEF InsertsOf
<1>4. \A j \in UpdatesOf(s, n) : j \in UpdatesOf(st, n) /\ j \in 1..Len(s)
  BY <1>1 DEF UpdatesOf
<1>5. ASSUME NEW j \in UpdatesOf(s, n) PROVE \E i \in InsertsOf(s, n) : i < j
  <2>1. PICK i \in InsertsOf(st, n) : i < j
    BY <1>2, <1>4
  <2>2. i \in 1..(Len(s) + Len(t)) /\ j \in 1..Len(s)
    BY <1>1, <1>4 DEF InsertsOf
  <2>3. i \in 1..Len(s)
    BY <1>1, <2>1, <2>2
  <2>4. i \in InsertsOf(s, n)
    BY <1>1, <2>3 DEF InsertsOf
  <2> QED BY <2>1, <2>4
<1> QED BY <1>2, <1>3, <1>5

\* commit and finalise push each update once.
LEMMA OrdersAreUpdates ==
  ASSUME NEW updates \in [Nodes -> SUBSET Parents], NEW ops \in UpdateOrders(updates), NEW n \in Nodes
  PROVE  /\ InsertsOf(ops, n) = {}
         /\ UpdatesOf(ops, n) # {} => updates[n] # {}
         /\ ParentsIn(ops, n) = updates[n]
<1> DEFINE U == UpdatedNodes(updates)
           c == Cardinality(U)
<1>1. PICK s \in SetToSeqs(U) : ops = [i \in DOMAIN s |-> Update(s[i], updates[s[i]])]
  BY DEF UpdateOrders
<1>2. IsFiniteSet(U) /\ c \in Nat
  BY NodesAssumption, FS_Subset, FS_CardinalityType DEF UpdatedNodes
<1>3. s \in [1..c -> U] /\ \A i, j \in 1..c : i # j => s[i] # s[j]
  BY DEF SetToSeqs
<1>4. \A u \in U : \E i \in 1..c : s[i] = u
  <2>1. s \in Injection(1..c, U)
    BY <1>3 DEF Injection, IsInjective
  <2>2. Cardinality(1..c) = c
    BY <1>2, FS_Interval
  <2>3. s \in Surjection(1..c, U)
    BY <1>2, <2>1, <2>2, FS_Injection
  <2> QED BY <2>3 DEF Surjection
<1> HIDE DEF c
<1>5. DOMAIN ops = 1..c
  BY <1>1, <1>3
<1>6. \A i \in 1..c : ops[i] = Update(s[i], updates[s[i]]) /\ s[i] \in U
  BY <1>1, <1>3
<1>7. \A i \in DOMAIN ops : ops[i].op = "addParent" /\ ops[i].node = s[i] /\ ops[i].parents = updates[s[i]]
  BY <1>5, <1>6 DEF Update
<1>8. InsertsOf(ops, n) = {} /\ (UpdatesOf(ops, n) # {} => updates[n] # {})
  BY <1>5, <1>6, <1>7 DEF InsertsOf, UpdatesOf, UpdatedNodes
<1>9. ParentsIn(ops, n) \subseteq updates[n]
  BY <1>7 DEF ParentsIn
<1>10. ASSUME NEW p \in updates[n] PROVE p \in ParentsIn(ops, n)
  <2>1. n \in U
    BY DEF UpdatedNodes
  <2>2. PICK i \in 1..c : s[i] = n
    BY <1>4, <2>1
  <2>3. i \in DOMAIN ops /\ ops[i].node = n /\ p \in ops[i].parents
    BY <1>5, <1>7, <2>2
  <2> QED BY <2>3 DEF ParentsIn
<1> QED BY <1>8, <1>9, <1>10

\* All writes that were handed over to the queue, or are about to be.
Given == accepted \o pending

\* Unless the worker has thrown, a parent that addParent was asked for is in an
\* update that is pushed or kept back.
Remembered ==
  ~Thrown => \A n \in Nodes : requested[n] = parentUpdates[n] \cup ParentsIn(Given, n)

\* commit forgets the updates only when all of them are pushed.
Committed ==
  call \in {"commit", "finalise"} => \A n \in Nodes : parentUpdates[n] \subseteq ParentsIn(Given, n)

Phases ==
  /\ pc \in {"ready", "joining", "destroyed"} => pending = <<>>
  /\ pc = "ready" => call = "none"
  /\ call = "destroy" => pending = <<>> /\ (Unwinding \/ parentUpdates = NoUpdates)
  /\ pc = "destroyed" => call = "destroy"
  /\ cpc = "starting" => bulk = <<>>

ParentInv ==
  /\ WellOrdered(Given, held)
  /\ \A n \in Nodes : parentUpdates[n] # {} => InsertsOf(accepted, n) # {}
  /\ Remembered /\ Committed /\ Phases

LEMMA QueuedInserts ==
  ASSUME TypeOK, NEW n \in Nodes
  PROVE  /\ n \notin Queued => InsertsOf(accepted, n) = {} /\ InsertsOf(pending, n) = {}
         /\ n \in Queued /\ pending = <<>> => InsertsOf(accepted, n) # {}
         /\ InsertsOf(accepted, n) # {} => n \in Queued
<1>1. n \notin Queued => InsertsOf(accepted, n) = {} /\ InsertsOf(pending, n) = {}
  BY DEF Queued, InsertsOf
<1>2. n \in Queued /\ pending = <<>> => InsertsOf(accepted, n) # {}
  BY DEF Queued, InsertsOf
<1>3. InsertsOf(accepted, n) # {} => n \in Queued
  BY DEF Queued, InsertsOf
<1> QED BY <1>1, <1>2, <1>3

LEMMA OneInsert ==
  ASSUME NEW n \in Nodes, NEW m \in Nodes, NEW t, t = <<Insert(n)>>
  PROVE  /\ t \in Seq(Ops)
         /\ \A i, j \in InsertsOf(t, m) : i = j
         /\ InsertsOf(t, m) # {} => m = n
         /\ UpdatesOf(t, m) = {} /\ ParentsIn(t, m) = {}
         /\ \A i \in InsertsOf(t, m) : t[i].parents = {}
<1>1. t \in Seq(Ops) /\ DOMAIN t = {1} /\ t[1] = [op |-> "insert", node |-> n, parents |-> {}]
  BY DEF Insert, Ops
<1>2. UpdatesOf(t, m) = {} /\ ParentsIn(t, m) = {}
  BY <1>1 DEF UpdatesOf, ParentsIn
<1> QED BY <1>1, <1>2 DEF InsertsOf

LEMMA TwoInserts ==
  ASSUME NEW n \in Nodes, NEW k \in Nodes, n # k, NEW m \in Nodes, NEW t, t = <<Insert(k), Insert(n)>>
  PROVE  /\ t \in Seq(Ops)
         /\ \A i, j \in InsertsOf(t, m) : i = j
         /\ InsertsOf(t, m) # {} => m \in {n, k}
         /\ UpdatesOf(t, m) = {} /\ ParentsIn(t, m) = {}
         /\ \A i \in InsertsOf(t, m) : t[i].parents = {}
<1>1. /\ t \in Seq(Ops) /\ DOMAIN t = {1, 2}
      /\ t[1] = [op |-> "insert", node |-> k, parents |-> {}]
      /\ t[2] = [op |-> "insert", node |-> n, parents |-> {}]
  BY DEF Insert, Ops
<1>2. UpdatesOf(t, m) = {} /\ ParentsIn(t, m) = {}
  BY <1>1 DEF UpdatesOf, ParentsIn
<1> QED BY <1>1, <1>2 DEF InsertsOf

\* The importer begins to push nodes that the builder does not know yet.
LEMMA InsertsBegin ==
  ASSUME TypeOK, ParentInv, pc = "ready", NEW t \in Seq(Ops), pending' = t, NEW S \in SUBSET Nodes,
         \A m \in Nodes :
           /\ \A i, j \in InsertsOf(t, m) : i = j
           /\ InsertsOf(t, m) # {} => m \in S
           /\ UpdatesOf(t, m) = {} /\ ParentsIn(t, m) = {}
           /\ \A i \in InsertsOf(t, m) : t[i].parents = {},
         \A m \in S : m \notin Queued /\ m \notin held',
         held' \subseteq held,
         pc' = "push", call' \notin {"commit", "finalise", "destroy"},
         UNCHANGED <<parentUpdates, requested, stack, accepted, consumerException, cpc, bulk>>
  PROVE  ParentInv'
<1>1. pending = <<>> /\ accepted \in Seq(Ops)
  BY DEF ParentInv, Phases, TypeOK
<1>2. Given = accepted /\ Given' = accepted \o t
  BY <1>1 DEF Given
<1>3. WellOrdered(accepted, held)
  BY <1>2 DEF ParentInv
<1>4. ASSUME NEW m \in Nodes
      PROVE  /\ InsertsOf(t, m) # {} => InsertsOf(accepted, m) = {} /\ m \notin held'
             /\ m \in held' => m \in held
  BY <1>4, QueuedInserts
<1>5. WellOrdered(accepted \o t, held')
  <2>1. \A m \in Nodes :
          /\ \A i, j \in InsertsOf(t, m) : i = j
          /\ InsertsOf(t, m) # {} => InsertsOf(accepted, m) = {} /\ m \notin held'
          /\ m \in held' => m \in held
          /\ UpdatesOf(t, m) # {} => InsertsOf(accepted, m) # {}
          /\ \A i \in InsertsOf(t, m) : t[i].parents = {}
    BY <1>4
  <2> QED BY <1>1, <1>3, <2>1, OrderedConcat
<1>6. ASSUME NEW m \in Nodes PROVE ParentsIn(accepted \o t, m) = ParentsIn(accepted, m)
  <2>1. ParentsIn(accepted \o t, m) = ParentsIn(accepted, m) \cup ParentsIn(t, m)
    BY <1>1, ParentsOfConcat
  <2>2. ParentsIn(t, m) = {}
    OBVIOUS
  <2> QED BY <2>1, <2>2
<1>7. Remembered'
  BY <1>2, <1>6 DEF ParentInv, Remembered, Thrown
<1>8. Committed' /\ Phases'
  BY DEF ParentInv, Committed, Phases
<1> QED BY <1>2, <1>5, <1>7, <1>8 DEF ParentInv

\* Or to push the updates it has kept back.
LEMMA UpdatesBegin ==
  ASSUME TypeOK, ParentInv, pc = "ready", TypeOK', pending' \in UpdateOrders(parentUpdates'),
         \A n \in Nodes : parentUpdates'[n] # {} => InsertsOf(accepted, n) # {},
         ~Thrown => \A n \in Nodes : requested'[n] = parentUpdates'[n] \cup ParentsIn(accepted, n),
         pc' = "push", call' \in {"commit", "finalise"},
         UNCHANGED <<held, stack, accepted, consumerException, cpc, bulk>>
  PROVE  ParentInv'
<1>1. pending = <<>> /\ accepted \in Seq(Ops) /\ parentUpdates' \in [Nodes -> SUBSET Parents]
  BY DEF ParentInv, Phases, TypeOK
<1>2. PICK t \in UpdateOrders(parentUpdates') : t = pending'
  OBVIOUS
<1>3. t \in Seq(Ops)
  BY <1>1, <1>2, UpdateOrdersType
<1>4. Given = accepted /\ Given' = accepted \o t
  BY <1>1, <1>2 DEF Given
<1>5. WellOrdered(accepted, held)
  BY <1>4 DEF ParentInv
<1>6. ASSUME NEW m \in Nodes
      PROVE  /\ InsertsOf(t, m) = {}
             /\ UpdatesOf(t, m) # {} => InsertsOf(accepted, m) # {}
             /\ ParentsIn(t, m) = parentUpdates'[m]
  BY <1>1, <1>2, OrdersAreUpdates
<1>7. WellOrdered(accepted \o t, held)
  <2>1. \A m \in Nodes :
          /\ \A i, j \in InsertsOf(t, m) : i = j
          /\ InsertsOf(t, m) # {} => InsertsOf(accepted, m) = {} /\ m \notin held
          /\ m \in held => m \in held
          /\ UpdatesOf(t, m) # {} => InsertsOf(accepted, m) # {}
          /\ \A i \in InsertsOf(t, m) : t[i].parents = {}
    BY <1>6
  <2> QED BY <1>1, <1>3, <1>5, <2>1, OrderedConcat
<1>8. \A m \in Nodes : ParentsIn(accepted \o t, m) = ParentsIn(accepted, m) \cup parentUpdates'[m]
  BY <1>1, <1>3, <1>6, ParentsOfConcat
<1>9. Remembered'
  BY <1>4, <1>8 DEF Remembered, Thrown
<1>10. Committed' /\ Phases'
  BY <1>4, <1>8 DEF ParentInv, Committed, Phases
<1> QED BY <1>4, <1>7, <1>9, <1>10 DEF ParentInv

LEMMA ImporterParents ==
  ASSUME ~ParentsWhileHeld, TypeOK, TypeOK', ParentInv, Importer
  PROVE  ParentInv'
<1>1. UNCHANGED <<accepted, consumerException, cpc, bulk>>
  BY DEF Importer, AddNode, AddMesh, HoldNode, ReleaseNode, AddParent, Finalise, ImportFails, Destroy,
         sharedVars, consumerVars, bulkVars
<1>2. pc = "ready" /\ pending = <<>> /\ call = "none" /\ accepted \in Seq(Ops)
  BY DEF Importer, AddNode, AddMesh, HoldNode, ReleaseNode, AddParent, Finalise, ImportFails, Destroy,
         ParentInv, Phases, TypeOK
<1>3. Given = accepted
  BY <1>2 DEF Given
<1>4. \A n \in Nodes : ~Thrown => requested[n] = parentUpdates[n] \cup ParentsIn(accepted, n)
  BY <1>3 DEF ParentInv, Remembered
<1>5. ASSUME NEW n \in Nodes, AddNode(n) PROVE ParentInv'
  <2>1. n \notin Queued /\ n \notin held /\ pending' = <<Insert(n)>>
    BY <1>5 DEF AddNode, Begin, Fresh
  <2>2. PICK t, S : t = <<Insert(n)>> /\ S = {n}
    OBVIOUS
  <2>3. \A m \in S : m \notin Queued /\ m \notin held'
    BY <1>5, <2>1, <2>2 DEF AddNode, builderVars
  <2>4. /\ pc' = "push" /\ call' = "addNode" /\ held' = held
        /\ UNCHANGED <<parentUpdates, requested, stack>>
    BY <1>5 DEF AddNode, Begin, builderVars
  <2>5. /\ t \in Seq(Ops) /\ pending' = t
        /\ \A m \in Nodes :
             /\ \A i, j \in InsertsOf(t, m) : i = j
             /\ InsertsOf(t, m) # {} => m \in S
             /\ UpdatesOf(t, m) = {} /\ ParentsIn(t, m) = {}
             /\ \A i \in InsertsOf(t, m) : t[i].parents = {}
    BY <2>1, <2>2, OneInsert
  <2>6. S \in SUBSET Nodes /\ held' \subseteq held /\ call' \notin {"commit", "finalise", "destroy"}
    BY <2>2, <2>4
  <2> QED BY <1>1, <1>2, <2>3, <2>4, <2>5, <2>6, InsertsBegin
<1>6. ASSUME NEW n \in Nodes, NEW k \in Nodes, AddMesh(n, k) PROVE ParentInv'
  <2>1. {n, k} \subseteq Nodes \ (held \cup Queued) /\ n # k /\ pending' = <<Insert(k), Insert(n)>>
    BY <1>6 DEF AddMesh, Begin, Fresh
  <2>2. PICK t, S : t = <<Insert(k), Insert(n)>> /\ S = {n, k}
    OBVIOUS
  <2>3. \A m \in S : m \notin Queued /\ m \notin held'
    BY <1>6, <2>1, <2>2 DEF AddMesh, builderVars
  <2>4. /\ pc' = "push" /\ call' = "addMesh" /\ held' = held
        /\ UNCHANGED <<parentUpdates, requested, stack>>
    BY <1>6 DEF AddMesh, Begin, builderVars
  <2>5. /\ t \in Seq(Ops) /\ pending' = t
        /\ \A m \in Nodes :
             /\ \A i, j \in InsertsOf(t, m) : i = j
             /\ InsertsOf(t, m) # {} => m \in S
             /\ UpdatesOf(t, m) = {} /\ ParentsIn(t, m) = {}
             /\ \A i \in InsertsOf(t, m) : t[i].parents = {}
    <3>1. n # k /\ pending' = t
      BY <2>1, <2>2
    <3>2. ASSUME NEW m \in Nodes
          PROVE  /\ t \in Seq(Ops)
                 /\ \A i, j \in InsertsOf(t, m) : i = j
                 /\ InsertsOf(t, m) # {} => m \in {n, k}
                 /\ UpdatesOf(t, m) = {} /\ ParentsIn(t, m) = {}
                 /\ \A i \in InsertsOf(t, m) : t[i].parents = {}
      BY SMTT(30), <2>2, <3>1, TwoInserts
    <3> QED BY <2>2, <3>1, <3>2
  <2>6. S \in SUBSET Nodes /\ held' \subseteq held /\ call' \notin {"commit", "finalise", "destroy"}
    BY <2>2, <2>4
  <2> QED BY <1>1, <1>2, <2>3, <2>4, <2>5, <2>6, InsertsBegin
<1>7. ASSUME NEW n \in Nodes, ReleaseNode(n) PROVE ParentInv'
  <2>1. n \in held /\ held' = held \ {n} /\ pending' = <<Insert(n)>>
    BY <1>7 DEF ReleaseNode, Begin
  <2>2. PICK t, S : t = <<Insert(n)>> /\ S = {n}
    OBVIOUS
  <2>3. \A m \in S : m \notin Queued /\ m \notin held'
    <3>1. InsertsOf(accepted, n) = {}
      BY <1>3, <2>1 DEF ParentInv, WellOrdered
    <3>2. n \notin Queued
      BY <1>2, <3>1, QueuedInserts
    <3> QED BY <2>1, <2>2, <3>2
  <2>4. /\ pc' = "push" /\ call' = "release" /\ held' \subseteq held
        /\ UNCHANGED <<parentUpdates, requested, stack>>
    BY <1>7, <2>1 DEF ReleaseNode, Begin
  <2>5. /\ t \in Seq(Ops) /\ pending' = t
        /\ \A m \in Nodes :
             /\ \A i, j \in InsertsOf(t, m) : i = j
             /\ InsertsOf(t, m) # {} => m \in S
             /\ UpdatesOf(t, m) = {} /\ ParentsIn(t, m) = {}
             /\ \A i \in InsertsOf(t, m) : t[i].parents = {}
    BY <2>1, <2>2, OneInsert
  <2>6. S \in SUBSET Nodes /\ held' \subseteq held /\ call' \notin {"commit", "finalise", "destroy"}
    BY <2>2, <2>4
  <2> QED BY <1>1, <1>2, <2>3, <2>4, <2>5, <2>6, InsertsBegin
<1>8. ASSUME NEW n \in Nodes, HoldNode(n) PROVE ParentInv'
  <2>1. InsertsOf(accepted, n) = {} /\ held' = held \cup {n}
    BY <1>8, QueuedInserts DEF HoldNode, Fresh
  <2>2. UNCHANGED <<pc, call, pending, parentUpdates, stack, requested>>
    BY <1>8 DEF HoldNode
  <2>3. WellOrdered(accepted, held')
    BY <1>3, <2>1 DEF ParentInv, WellOrdered
  <2>4. Given' = accepted
    BY <1>1, <1>3, <2>2 DEF Given
  <2> QED BY <1>1, <1>3, <2>2, <2>3, <2>4 DEF ParentInv, Remembered, Committed, Phases, Thrown, Unwinding
<1>9. ASSUME NEW n \in Nodes, NEW p \in Parents, AddParent(n, p) PROVE ParentInv'
  <2>1. /\ InsertsOf(accepted, n) # {}
        /\ requested' = [requested EXCEPT ![n] = @ \cup {p}]
        /\ parentUpdates' = [parentUpdates EXCEPT ![n] = @ \cup {p}]
        /\ UNCHANGED <<held, stack>>
    BY <1>2, <1>9, QueuedInserts DEF AddParent
  <2>2. \A m \in Nodes : parentUpdates'[m] # {} => InsertsOf(accepted, m) # {}
    BY <2>1 DEF ParentInv, TypeOK
  <2>3. ~Thrown => \A m \in Nodes : requested'[m] = parentUpdates'[m] \cup ParentsIn(accepted, m)
    BY <1>4, <2>1 DEF TypeOK
  <2>4. CASE UNCHANGED <<pc, call, pending>>
    <3>1. Given' = accepted /\ call' = "none" /\ pc' = "ready"
      BY <1>1, <1>2, <1>3, <2>4 DEF Given
    <3> QED BY <1>1, <1>3, <2>1, <2>2, <2>3, <2>4, <3>1
            DEF ParentInv, Remembered, Committed, Phases, Thrown
  <2>5. CASE \E ops \in UpdateOrders(parentUpdates') : Begin("commit", ops)
    BY <1>1, <1>2, <2>1, <2>2, <2>3, <2>5, UpdatesBegin DEF Begin
  <2> QED BY <1>9, <2>4, <2>5 DEF AddParent
<1>10. CASE Finalise
  <2>1. /\ pending' \in UpdateOrders(parentUpdates') /\ pc' = "push" /\ call' = "finalise"
        /\ UNCHANGED <<held, stack, parentUpdates, requested>>
    BY <1>10 DEF Finalise, Begin, builderVars
  <2>2. \A m \in Nodes : parentUpdates'[m] # {} => InsertsOf(accepted, m) # {}
    BY <2>1 DEF ParentInv
  <2>3. ~Thrown => \A m \in Nodes : requested'[m] = parentUpdates'[m] \cup ParentsIn(accepted, m)
    BY <1>4, <2>1
  <2> QED BY <1>1, <1>2, <2>1, <2>2, <2>3, UpdatesBegin
<1>11. CASE ImportFails \/ Destroy
  <2>1. UNCHANGED <<held, parentUpdates, requested>> /\ pending' = <<>> /\ stack' \in {stack, "unwinding"}
    BY <1>2, <1>11 DEF ImportFails, Destroy, Begin, builderVars, control
  <2>2. \/ pc' \in {"ready", "terminated"} /\ call' = "none"
        \/ /\ pc' = "push" /\ call' = "destroy"
           /\ Unwinding \/ UpdatedNodes(parentUpdates) = {}
    BY <1>2, <1>11 DEF ImportFails, Destroy, Begin, control
  <2>3. UpdatedNodes(parentUpdates) = {} => parentUpdates = NoUpdates
    BY DEF UpdatedNodes, NoUpdates, TypeOK
  <2>4. Given' = accepted
    BY <1>1, <1>2, <2>1 DEF Given
  <2>5. Phases'
    BY <1>1, <2>1, <2>2, <2>3 DEF ParentInv, Phases, Unwinding
  <2> QED BY <1>1, <1>3, <2>1, <2>2, <2>4, <2>5 DEF ParentInv, Remembered, Committed, Thrown
<1> QED BY <1>5, <1>6, <1>7, <1>8, <1>9, <1>10, <1>11 DEF Importer

LEMMA PushParents ==
  ASSUME TypeOK, ParentInv, Push
  PROVE  ParentInv'
<1> DEFINE o == Head(pending)
<1>1. /\ pending \in Seq(Ops) /\ pending # <<>> /\ accepted \in Seq(Ops)
      /\ accepted' = Append(accepted, o) /\ pending' = Tail(pending)
      /\ pc' = "push"
      /\ UNCHANGED <<call, held, parentUpdates, stack, requested, consumerException, cpc, bulk>>
  BY DEF Push, TypeOK, builderVars, consumerVars, bulkVars
<1>2. o \in Ops /\ Tail(pending) \in Seq(Ops)
  BY <1>1, HeadTailProperties
<1>3. Given' = Given
  BY <1>1, <1>2 DEF Given
<1>4. \A n \in Nodes : InsertsOf(accepted, n) # {} => InsertsOf(accepted', n) # {}
  <2>1. /\ DOMAIN accepted \subseteq DOMAIN accepted'
        /\ \A i \in DOMAIN accepted : accepted'[i] = accepted[i]
    BY <1>1, <1>2
  <2> QED BY <2>1 DEF InsertsOf
<1>5. Phases'
  BY <1>1 DEF Push, ParentInv, Phases, Unwinding
<1> QED BY <1>1, <1>3, <1>4, <1>5 DEF ParentInv, Remembered, Committed, Thrown

LEMMA RethrowParents ==
  ASSUME TypeOK, ParentInv, Rethrow
  PROVE  ParentInv'
<1>1. /\ Thrown /\ accepted \in Seq(Ops) /\ pending \in Seq(Ops)
      /\ UNCHANGED <<held, parentUpdates, requested, accepted, consumerException, cpc, bulk>>
  BY DEF Rethrow, TypeOK, sharedVars, consumerVars, bulkVars
<1>2. CASE UNCHANGED <<call, pending, stack>>
  <2>1. Given' = Given
    BY <1>1, <1>2 DEF Given
  <2>2. \/ pc' \notin {"ready", "joining", "destroyed"}
        \/ /\ pc' = "ready" /\ pending = <<>> /\ call = "none"
    BY <1>2 DEF Rethrow
  <2> QED BY <1>1, <1>2, <2>1, <2>2 DEF ParentInv, Remembered, Committed, Phases, Thrown, Unwinding
<1>3. CASE pc' = "ready" /\ call' = "none" /\ pending' = <<>> /\ stack' = "unwinding"
  <2>1. Given' = accepted
    BY <1>1, <1>3 DEF Given
  <2>2. WellOrdered(accepted, held)
    BY <1>1, OrderedPrefix DEF ParentInv, Given
  <2>3. cpc = "starting" => bulk = <<>>
    BY DEF ParentInv, Phases
  <2> QED BY <1>1, <1>3, <2>1, <2>2, <2>3 DEF ParentInv, Remembered, Committed, Phases, Thrown
<1> QED BY <1>2, <1>3 DEF Rethrow

\* The calls return.
LEMMA ReturnParents ==
  ASSUME TypeOK, ParentInv, Return \/ CloseQueue
  PROVE  ParentInv'
<1>1. /\ pc = "push" /\ pending = <<>> /\ pending' = <<>>
      /\ UNCHANGED <<held, stack, requested, accepted, consumerException, cpc, bulk>>
  BY DEF Return, CloseQueue, sharedVars, consumerVars, bulkVars
<1>2. Given' = Given
  BY <1>1 DEF Given
<1>3. \/ parentUpdates' = parentUpdates
      \/ call \in {"commit", "finalise"} /\ parentUpdates' = NoUpdates
  BY DEF Return, CloseQueue
<1>4. \A n \in Nodes : parentUpdates'[n] # {} => parentUpdates'[n] = parentUpdates[n]
  BY <1>3 DEF NoUpdates
<1>5. Remembered'
  <2>1. CASE parentUpdates' = parentUpdates
    BY <1>1, <1>2, <2>1 DEF ParentInv, Remembered, Thrown
  <2>2. CASE call \in {"commit", "finalise"} /\ parentUpdates' = NoUpdates
    <3>1. \A n \in Nodes : parentUpdates[n] \subseteq ParentsIn(Given, n) /\ parentUpdates'[n] = {}
      BY <2>2 DEF ParentInv, Committed, NoUpdates
    <3> QED BY <1>1, <1>2, <3>1 DEF ParentInv, Remembered, Thrown
  <2> QED BY <1>3, <2>1, <2>2
<1>6. Committed'
  <2>1. call' \in {call, "none"}
    BY DEF Return, CloseQueue
  <2> QED BY <1>2, <1>4, <2>1 DEF ParentInv, Committed
<1>7. Phases'
  <2>1. \/ pc' = "ready" /\ call' = "none"
        \/ pc' = "joining" /\ call' = call /\ (call = "destroy" => parentUpdates' = parentUpdates)
    BY DEF Return, CloseQueue
  <2> QED BY <1>1, <2>1 DEF ParentInv, Phases, Unwinding
<1> QED BY <1>1, <1>2, <1>4, <1>5, <1>6, <1>7 DEF ParentInv

LEMMA NextParents ==
  ASSUME ~ParentsWhileHeld
  PROVE  IInv /\ ParentInv /\ [Next]_vars => ParentInv'
<1> SUFFICES ASSUME IInv, ParentInv, [Next]_vars PROVE ParentInv'
  OBVIOUS
<1>1. TypeOK /\ TypeOK' /\ ClosedLast
  BY NextIInv DEF IInv
<1>2. CASE Importer
  BY <1>1, <1>2, ImporterParents
<1>3. CASE Push
  BY <1>1, <1>3, PushParents
<1>4. CASE Rethrow
  BY <1>1, <1>4, RethrowParents
<1>5. CASE Return \/ CloseQueue
  BY <1>1, <1>5, ReturnParents
<1>6. CASE Count \/ RequestNotify \/ Suspend \/ Acquire \/ Timeout \/ Recheck \/ JoinFailed \/ JoinDestroy
  <2>1. UNCHANGED <<call, pending, held, parentUpdates, stack, accepted, requested, consumerException, cpc, bulk>>
    BY <1>6 DEF Count, RequestNotify, Suspend, Acquire, Timeout, Recheck, JoinFailed, JoinDestroy,
           builderVars, sharedVars, consumerVars, bulkVars
  <2>2. \/ pc' \notin {"ready", "joining", "destroyed"}
        \/ pc = "joining" /\ pc' = "destroyed" /\ call = "destroy"
    BY <1>6 DEF Count, RequestNotify, Suspend, Acquire, Timeout, Recheck, JoinFailed, JoinDestroy
  <2>3. Given' = Given
    BY <2>1 DEF Given
  <2>4. Phases'
    BY <2>1, <2>2 DEF ParentInv, Phases, Unwinding
  <2> QED BY <2>1, <2>3, <2>4 DEF ParentInv, Remembered, Committed, Thrown
<1>7. CASE JoinFinalise
  <2>1. UNCHANGED <<pending, held, parentUpdates, stack, accepted, requested, consumerException, bulk>>
    BY <1>7 DEF JoinFinalise, bulkVars
  <2>2. pc' = "ready" /\ call' = "none" /\ pending = <<>> /\ bulk = <<>>
    BY <1>1, <1>7 DEF JoinFinalise, ParentInv, Phases, ClosedLast
  <2>3. Given' = Given
    BY <2>1 DEF Given
  <2> QED BY <2>1, <2>2, <2>3 DEF ParentInv, Remembered, Committed, Phases, Thrown
<1>8. CASE Consumer
  <2>1. UNCHANGED <<call, pending, held, parentUpdates, stack, accepted, requested>>
    BY <1>8 DEF Consumer, ConsumerStart, Dequeue, Account, VisitBuffered, VisitExecuted, VisitExecuteFails,
           VisitAppendFails, VisitNotify, VisitClose, FlushContext, FlushContextFails,
           producerVars, control, builderVars
  <2>2. \/ cpc' # "starting"
        \/ /\ cpc' = cpc /\ bulk' = bulk
    BY <1>8 DEF Consumer, ConsumerStart, Dequeue, Account, VisitBuffered, VisitExecuted, VisitExecuteFails,
           VisitAppendFails, VisitNotify, VisitClose, FlushContext, FlushContextFails, Stop
  <2>3. pc' \in {pc, "terminated"}
    BY <1>8 DEF Consumer, ConsumerStart, Dequeue, Account, VisitBuffered, VisitExecuted, VisitExecuteFails,
           VisitAppendFails, VisitNotify, VisitClose, FlushContext, FlushContextFails,
           producerVars, control
  <2>4. Thrown => Thrown'
    BY <1>8 DEF Consumer, ConsumerStart, Dequeue, Account, VisitBuffered, VisitExecuted, VisitExecuteFails,
           VisitAppendFails, VisitNotify, VisitClose, FlushContext, FlushContextFails, Stop, sharedVars, Thrown
  <2>5. Given' = Given
    BY <2>1 DEF Given
  <2>6. Phases'
    BY <2>1, <2>2, <2>3 DEF ParentInv, Phases, Unwinding
  <2> QED BY <2>1, <2>4, <2>5, <2>6 DEF ParentInv, Remembered, Committed
<1>9. CASE UNCHANGED vars
  BY <1>9 DEF vars, producerVars, control, builderVars, sharedVars, consumerVars, bulkVars, ParentInv,
         Remembered, Committed, Phases, Given, Thrown, Unwinding
<1> QED
  BY <1>2, <1>3, <1>4, <1>5, <1>6, <1>7, <1>8, <1>9 DEF Next, Producer, Stopped

LEMMA InitParents == Init => ParentInv
<1> SUFFICES ASSUME Init PROVE ParentInv
  OBVIOUS
<1>1. Given = <<>>
  BY DEF Init, Given
<1>2. \A n \in Nodes : InsertsOf(<<>>, n) = {} /\ UpdatesOf(<<>>, n) = {} /\ ParentsIn(<<>>, n) = {}
  BY DEF InsertsOf, UpdatesOf, ParentsIn
<1> QED BY <1>1, <1>2 DEF Init, ParentInv, WellOrdered, Remembered, Committed, Phases, NoUpdates

\* Once finalise has returned, or the builder is gone, everything is executed.
LEMMA AllExecuted ==
  ASSUME IInv, ParentInv, FlushedOut
  PROVE  /\ DOMAIN applied = DOMAIN accepted
         /\ \A i \in DOMAIN applied : applied[i] = i
         /\ pending = <<>> /\ parentUpdates = NoUpdates /\ ~Thrown
<1>1. TypeOK /\ PipelineInOrder /\ ClosedLast
  BY DEF IInv
<1>2. ~Thrown /\ queue = <<>> /\ bulk = <<>> /\ cpc \in {"starting", "stopped"}
  BY <1>1 DEF FlushedOut, ClosedLast, ParentInv, Phases
<1>3. pending = <<>> /\ parentUpdates = NoUpdates
  BY DEF FlushedOut, ParentInv, Phases
<1>4. ~Failed /\ ~HasWriteInHand
  BY <1>2 DEF Failed, HasWriteInHand
<1>5. NextInQueue = Len(applied) + 1 /\ Len(applied) \in Nat /\ Len(accepted) \in Nat
  BY <1>1, <1>2, <1>4 DEF NextInQueue, Landed, TypeOK
<1>6. Len(applied) + 1 <= Len(accepted) + 1
  BY <1>1, <1>4, <1>5 DEF PipelineInOrder
<1>7. \A k \in (Len(applied) + 1)..Len(accepted) : FALSE
  BY <1>1, <1>2, <1>4, <1>5 DEF PipelineInOrder
<1>8. Len(applied) = Len(accepted)
  BY <1>5, <1>6, <1>7
<1>9. DOMAIN applied = 1..Len(applied) /\ DOMAIN accepted = 1..Len(accepted)
  BY <1>1 DEF TypeOK
<1>10. \A i \in 1..Len(applied) : applied[i] = i
  BY <1>1 DEF PipelineInOrder
<1> QED BY <1>2, <1>3, <1>8, <1>9, <1>10

\* Nothing that was handed over to the builder is lost when it is finished:
\* every node is stored once, with every parent that addParent was given, if
\* that is only called for nodes that were handed over before.
THEOREM ParentsAreStored ==
  ASSUME ~ParentsWhileHeld
  PROVE  Spec => []ParentsStored
<1>1. IInv /\ ParentInv => ParentsStored
  <2> SUFFICES ASSUME IInv, ParentInv PROVE ParentsStored
    OBVIOUS
  <2> SUFFICES ASSUME FlushedOut, NEW n \in Nodes, n \in Queued
               PROVE  Cardinality(InsertedAt(n)) = 1 /\ StoredParents(n) = requested[n]
    <3>1. accepted \in Seq(Ops) /\ pending \in Seq(Ops)
      BY DEF IInv, TypeOK
    <3>2. /\ \A i \in DOMAIN accepted : accepted[i] \in Ops
          /\ \A i \in DOMAIN pending : pending[i] \in Ops
      BY <3>1
    <3>3. \A o \in Ops : o.node \in Nodes
      BY DEF Ops
    <3>4. Queued \subseteq Nodes
      BY <3>2, <3>3 DEF Queued
    <3> QED BY <3>4 DEF ParentsStored
  <2>1. /\ DOMAIN applied = DOMAIN accepted
        /\ \A i \in DOMAIN applied : applied[i] = i
        /\ pending = <<>> /\ parentUpdates = NoUpdates /\ ~Thrown
    BY AllExecuted
  <2>2. accepted \in Seq(Ops) /\ Given = accepted
    BY <2>1 DEF IInv, TypeOK, Given
  <2>3. InsertedAt(n) = InsertsOf(accepted, n)
    BY <2>1 DEF InsertedAt, InsertsOf
  <2>4. WellOrdered(accepted, held)
    BY <2>2 DEF ParentInv
  <2>5. PICK i \in InsertsOf(accepted, n) : TRUE
    BY <2>1, QueuedInserts DEF IInv
  <2>6. InsertsOf(accepted, n) = {i}
    BY <2>4, <2>5 DEF WellOrdered
  <2>7. requested[n] = ParentsIn(accepted, n)
    BY ZenonT(40), <2>1, <2>2 DEF ParentInv, Remembered, NoUpdates
  <2>8. ASSUME NEW p \in ParentsIn(accepted, n) PROVE p \in StoredParents(n)
    <3>1. PICK j \in DOMAIN accepted : accepted[j].node = n /\ p \in accepted[j].parents
      BY <2>8 DEF ParentsIn
    <3>2. accepted[j].op \in {"insert", "addParent"}
      <4>1. accepted[j] \in Ops
        BY <2>2, <3>1
      <4> QED BY <4>1 DEF Ops
    <3>3. accepted[j].op # "insert"
      BY <2>4, <3>1 DEF WellOrdered, InsertsOf
    <3>4. j \in UpdatesOf(accepted, n)
      BY <3>1, <3>2, <3>3 DEF UpdatesOf
    <3>5. PICK k \in InsertsOf(accepted, n) : k < j
      BY <2>4, <3>4 DEF WellOrdered
    <3> QED BY <2>1, <2>3, <3>1, <3>5 DEF StoredParents
  <2>9. ASSUME NEW p \in StoredParents(n) PROVE p \in ParentsIn(accepted, n)
    BY <2>1, <2>9 DEF StoredParents, ParentsIn
  <2>10. Cardinality(InsertedAt(n)) = 1
    BY <2>3, <2>6, FS_Singleton
  <2>11. StoredParents(n) = ParentsIn(accepted, n)
    BY <2>8, <2>9
  <2> QED BY <2>7, <2>10, <2>11
<1> QED BY <1>1, InitIInv, NextIInv, InitParents, NextParents, PTL DEF Spec
=============================================================================
