---------------------------- MODULE SceneBuilder ----------------------------
(***************************************************************************)
(* RepoSceneBuilder and its AsyncImpl                                      *)
(* (manipulator/modelutility/repo_scene_builder.cpp), together with the    *)
(* MongoWriteContext its worker thread holds                               *)
(* (core/handler/repo_database_handler_mongo.cpp).                         *)
(*                                                                         *)
(* The importer's thread (the producer) hands nodes and parent updates to  *)
(* the builder, which puts them in a single-producer single-consumer       *)
(* queue; the worker thread (the consumer) takes them out, batches them    *)
(* in a bulk write and executes the batch when it is large enough or when  *)
(* it is destroyed.  When too much is queued the producer asks to be woken *)
(* by putting a Notify in the queue and sleeps on a semaphore, for at most *)
(* a second at a time.                                                     *)
(*                                                                         *)
(* A node is its unique id; a queue entry carries a pointer, modelled as   *)
(* the position of the write among all the writes ever accepted.           *)
(***************************************************************************)
EXTENDS Integers, Sequences, FiniteSets, SequencesExt

CONSTANTS
  Nodes,            \* unique ids of the nodes the importer creates
  Parents,          \* shared ids that are used as parents
  NodeSize,         \* RepoNode::getSize of each node
  UpdateSize,       \* the fixed cost of an AddParent update (100)
  Threshold,        \* AsyncImpl::threshold (DEFAULT_THRESHOLD)
  BulkLimit,        \* the size above which a bulk write is executed (16MiB)
  MaxUpdates,       \* parent updates kept back before a commit (10000)
  Failures,         \* which database calls may throw
  ParentsWhileHeld, \* may addParent name a node whose shared_ptr is alive?
  MaxFinalise,      \* bound: calls of finalise
  MaxNotify         \* bound: Notify entries waiting in the queue at a time

FailurePoints == {"context", "append", "execute"}

ASSUME SizesAssumption ==
  /\ NodeSize \in [Nodes -> Nat \ {0}]
  /\ UpdateSize \in Nat \ {0}
  /\ Threshold \in Nat
  /\ BulkLimit \in Nat
  /\ MaxUpdates \in Nat

ASSUME NodesAssumption == IsFiniteSet(Nodes)

ASSUME FailuresAssumption == Failures \subseteq FailurePoints

ASSUME BoundsAssumption ==
  /\ ParentsWhileHeld \in BOOLEAN
  /\ MaxFinalise \in Nat
  /\ MaxNotify \in Nat

VARIABLES
  \* The producer: RepoSceneBuilder, and AsyncImpl::push on its thread.
  pc,            \* where the producer's thread is
  call,          \* the call of the builder it is in
  pending,       \* the writes this call still has to push
  held,          \* nodes with a live shared_ptr (referenceCounter of them)
  parentUpdates, \* updates kept back: node -> parents, {} for no entry
  stack,         \* "normal", or an exception is "unwinding" the importer
  finalises,     \* calls of finalise that returned
  accepted,      \* every write ever enqueued, in order (history)
  requested,     \* the parents addParent was asked for (history)
  \* Shared between the two threads.
  queue,         \* the SPSC queue
  queueSize,     \* the atomic estimate of what it holds
  permits,       \* the count of the binary semaphore `block`
  consumerException, \* the exception_ptr of the worker: "null" or "set"
  \* The consumer: AsyncImpl::consumerFunction and its write context.
  cpc,           \* where the consumer's thread is
  inHand,        \* the entry it has dequeued
  bulk,          \* the writes appended to the bulk write, as pointers
  bulkSize,      \* MongoWriteContext::bulkSize
  bulkState,     \* would executing it again repeat an insert ("repeats")?
  applied        \* the writes executed on the collection, as pointers

control == <<pc, call, pending>>
builderVars == <<held, parentUpdates, stack, finalises, requested>>
producerVars == <<control, builderVars, accepted>>
sharedVars == <<queue, queueSize, permits, consumerException>>
bulkVars == <<bulk, bulkSize, bulkState, applied>>
consumerVars == <<cpc, inHand, bulkVars>>
vars == <<producerVars, sharedVars, consumerVars>>
-----------------------------------------------------------------------------
(* Writes, queue entries and their sizes.                                  *)

Insert(n) == [op |-> "insert", node |-> n, parents |-> {}]
Update(n, P) == [op |-> "addParent", node |-> n, parents |-> P]

Ops == [op : {"insert", "addParent"}, node : Nodes, parents : SUBSET Parents]

OpSize(o) == IF o.op = "insert" THEN NodeSize[o.node] ELSE UpdateSize

Write(i) == [type |-> "write", ptr |-> i]
Notify == [type |-> "notify", ptr |-> 0]
Close == [type |-> "close", ptr |-> 0]

Nothing == [type |-> "nothing", ptr |-> 0]

Entries == [type : {"write", "notify", "close"}, ptr : Nat]

IsWrite(e) == e.type = "write"
EntrySize(e) == IF IsWrite(e) THEN OpSize(accepted[e.ptr]) ELSE 0

NoUpdates == [n \in Nodes |-> {}]

\* The nodes with an entry in parentUpdates.
UpdatedNodes(updates) == {n \in Nodes : updates[n] # {}}

\* unordered_map iteration order: the updates in any order.
UpdateOrders(updates) ==
  {[i \in DOMAIN s |-> Update(s[i], updates[s[i]])] :
     s \in SetToSeqs(UpdatedNodes(updates))}

\* Nodes whose insert has been pushed, or is about to be by the current call.
Queued == {accepted[i].node : i \in {j \in DOMAIN accepted : accepted[j].op = "insert"}}
            \cup {pending[i].node : i \in {j \in DOMAIN pending : pending[j].op = "insert"}}

Fresh == Nodes \ (held \cup Queued)
-----------------------------------------------------------------------------
(* The importer's calls of the builder.                                    *)

Thrown == consumerException = "set"
Unwinding == stack = "unwinding"
Running == pc \notin {"destroyed", "terminated"}

Begin(c, ops) ==
  /\ pc' = "push"
  /\ call' = c
  /\ pending' = ops

\* addNode(unique_ptr) and addNodes: queueNode straight away.
AddNode(n) ==
  /\ pc = "ready" /\ ~Unwinding
  /\ n \in Fresh
  /\ Begin("addNode", <<Insert(n)>>)
  /\ UNCHANGED <<builderVars, accepted, sharedVars, consumerVars>>

\* addNode of a mesh whose material is new to the builder: makeMaterialNode
\* adds a node m for it first, through a shared_ptr that goes away at once.
AddMesh(n, m) ==
  /\ pc = "ready" /\ ~Unwinding
  /\ {n, m} \subseteq Fresh /\ n # m
  /\ Begin("addMesh", <<Insert(m), Insert(n)>>)
  /\ UNCHANGED <<builderVars, accepted, sharedVars, consumerVars>>

\* addNode(const T&): the importer holds a shared_ptr to the builder's copy.
HoldNode(n) ==
  /\ pc = "ready" /\ ~Unwinding
  /\ n \in Fresh
  /\ held' = held \cup {n}
  /\ UNCHANGED <<pc, call, pending, parentUpdates, stack, finalises,
                 accepted, requested, sharedVars, consumerVars>>

\* The last shared_ptr goes away, also while the stack unwinds: Deleter.
ReleaseNode(n) ==
  /\ pc = "ready"
  /\ n \in held
  /\ held' = held \ {n}
  /\ Begin("release", <<Insert(n)>>)
  /\ UNCHANGED <<parentUpdates, stack, finalises, accepted, requested,
                 sharedVars, consumerVars>>

\* Variant: a second parent replaces the first update of the node.
AddParentReplacing(n, p) ==
  /\ pc = "ready" /\ ~Unwinding
  /\ n \in Queued
  /\ p \notin requested[n]
  /\ requested' = [requested EXCEPT ![n] = @ \cup {p}]
  /\ parentUpdates' = [parentUpdates EXCEPT ![n] = {p}]
  /\ UNCHANGED <<control, held, stack, finalises, accepted, sharedVars,
                 consumerVars>>

\* addParent: merged with the other updates of the node; too many updates
\* are committed at once.  Each (node, parent) pair is asked for only once.
AddParent(n, p) ==
  /\ pc = "ready" /\ ~Unwinding
  /\ n \in Queued \/ (ParentsWhileHeld /\ n \in held)
  /\ p \notin requested[n]
  /\ requested' = [requested EXCEPT ![n] = @ \cup {p}]
  /\ parentUpdates' = [parentUpdates EXCEPT ![n] = @ \cup {p}]
  /\ IF Cardinality(UpdatedNodes(parentUpdates')) > MaxUpdates
       THEN \E ops \in UpdateOrders(parentUpdates') : Begin("commit", ops)
       ELSE UNCHANGED <<pc, call, pending>>
  /\ UNCHANGED <<held, stack, finalises, accepted, sharedVars,
                 consumerVars>>

\* finalise: commit, then replace (and so destroy) the AsyncImpl.
Finalise ==
  /\ pc = "ready" /\ ~Unwinding
  /\ finalises < MaxFinalise
  /\ \E ops \in UpdateOrders(parentUpdates) : Begin("finalise", ops)
  /\ UNCHANGED <<builderVars, accepted, sharedVars, consumerVars>>

\* The importer itself throws, for a reason of its own.
ImportFails ==
  /\ pc = "ready" /\ ~Unwinding
  /\ stack' = "unwinding"
  /\ UNCHANGED <<control, held, parentUpdates, finalises, accepted, requested,
                 sharedVars, consumerVars>>

\* ~RepoSceneBuilder.  Unless the stack is unwinding it throws when something
\* is outstanding, and an exception leaving a destructor ends the process.
\* An exception unwinds the importer's own scope first.
Destroy ==
  /\ pc = "ready"
  /\ Unwinding => held = {}
  /\ IF ~Unwinding /\ (held # {} \/ UpdatedNodes(parentUpdates) # {})
       THEN pc' = "terminated" /\ UNCHANGED <<call, pending>>
       ELSE Begin("destroy", <<>>)
  /\ UNCHANGED <<builderVars, accepted, sharedVars, consumerVars>>
-----------------------------------------------------------------------------
(* AsyncImpl::push, on the producer's thread.                              *)

MaxQueueSize(o) == IF Threshold > OpSize(o) THEN Threshold - OpSize(o) ELSE 0

\* Variant: the size of the write itself is forgotten.
HasSpaceIgnoringWrite(o) == queueSize <= Threshold

HasSpace(o) == queueSize <= MaxQueueSize(o)

\* Room in the queue: count the write.  Between the check and the addition the
\* consumer can only make more room.
Count ==
  /\ pc = "push" /\ pending # <<>>
  /\ HasSpace(Head(pending))
  /\ queueSize' = queueSize + OpSize(Head(pending))
  /\ pc' = "counted"
  /\ UNCHANGED <<call, pending, builderVars, accepted, queue, permits,
                 consumerException, consumerVars>>

\* Then enqueue it.
Push ==
  /\ pc = "counted" /\ pending # <<>>
  /\ accepted' = Append(accepted, Head(pending))
  /\ queue' = Append(queue, Write(Len(accepted) + 1))
  /\ pending' = Tail(pending)
  /\ pc' = "push"
  /\ UNCHANGED <<call, builderVars, queueSize, permits, consumerException,
                 consumerVars>>

\* No room: leave a Notify in the queue.  The consumer may get to it before
\* the producer gets to wait.
RequestNotify ==
  /\ pc = "push" /\ pending # <<>>
  /\ ~HasSpace(Head(pending))
  /\ queue' = Append(queue, Notify)
  /\ pc' = "notified"
  /\ UNCHANGED <<call, pending, builderVars, accepted, queueSize, permits,
                 consumerException, consumerVars>>

\* Enter try_acquire_for.
Suspend ==
  /\ pc = "notified"
  /\ pc' = "blocked"
  /\ UNCHANGED <<call, pending, builderVars, accepted, sharedVars,
                 consumerVars>>

\* Variant: the semaphore is not checked.
AcquireAnyway ==
  /\ pc = "blocked"
  /\ permits' = permits - 1
  /\ pc' = "awake"
  /\ UNCHANGED <<call, pending, builderVars, accepted, queue, queueSize,
                 consumerException, consumerVars>>

\* try_acquire_for succeeds.
Acquire ==
  /\ pc = "blocked"
  /\ permits > 0
  /\ permits' = permits - 1
  /\ pc' = "awake"
  /\ UNCHANGED <<call, pending, builderVars, accepted, queue, queueSize,
                 consumerException, consumerVars>>

WaitingNotifies == Cardinality({i \in DOMAIN queue : queue[i] = Notify})

\* Variant: acquire without a timeout.
TimeoutNever == FALSE /\ UNCHANGED vars

\* try_acquire_for gives up after its second.  Bound: while the consumer is
\* alive, only until MaxNotify entries are waiting for it.
Timeout ==
  /\ pc = "blocked"
  /\ WaitingNotifies < MaxNotify \/ Thrown
  /\ pc' = "awake"
  /\ UNCHANGED <<call, pending, builderVars, accepted, sharedVars,
                 consumerVars>>

\* Check for a consumer exception, and then look at the queue again.
Recheck ==
  /\ pc = "awake" /\ ~Thrown
  /\ pc' = "push"
  /\ UNCHANGED <<call, pending, builderVars, accepted, sharedVars,
                 consumerVars>>

\* The push is made by a Deleter, from the destructor of a shared_ptr.
InDeleter == call = "release" \/ (call = "addMesh" /\ Len(pending) = 2)

\* Rethrow the consumer's exception: into the importer, or, from a Deleter,
\* out of a destructor.
Rethrow ==
  /\ pc = "awake" /\ Thrown
  /\ IF InDeleter
       THEN pc' = "terminated" /\ UNCHANGED <<call, pending, stack>>
       ELSE pc' = "ready" /\ call' = "none" /\ pending' = <<>> /\ stack' = "unwinding"
  /\ UNCHANGED <<held, parentUpdates, finalises, accepted, requested,
                 sharedVars, consumerVars>>

\* Everything is pushed: the call is over; commit has cleared the updates.
Return ==
  /\ pc = "push" /\ pending = <<>>
  /\ call \in {"addNode", "addMesh", "release", "commit"}
  /\ pc' = "ready" /\ call' = "none"
  /\ parentUpdates' = IF call = "commit" THEN NoUpdates ELSE parentUpdates
  /\ UNCHANGED <<pending, held, stack, finalises, accepted, requested,
                 sharedVars, consumerVars>>

\* ~AsyncImpl: push Close, whose size of 0 never waits, and join.
CloseQueue ==
  /\ pc = "push" /\ pending = <<>>
  /\ call \in {"finalise", "destroy"}
  /\ queue' = Append(queue, Close)
  /\ pc' = "joining"
  /\ parentUpdates' = IF call = "finalise" THEN NoUpdates ELSE parentUpdates
  /\ UNCHANGED <<call, pending, held, stack, finalises, accepted,
                 requested, queueSize, permits, consumerException,
                 consumerVars>>

\* Variant: the worker's exception is dropped when it is joined.
JoinFailedIgnored ==
  /\ pc = "joining" /\ cpc = "stopped" /\ Thrown
  /\ call = "destroy"
  /\ pc' = "destroyed"
  /\ UNCHANGED <<call, pending, builderVars, accepted, sharedVars,
                 consumerVars>>

\* The consumer's thread has ended.  ~AsyncImpl rethrows its exception, but
\* the destructor is noexcept: the process terminates.
JoinFailed ==
  /\ pc = "joining" /\ cpc = "stopped" /\ Thrown
  /\ pc' = "terminated"
  /\ UNCHANGED <<call, pending, builderVars, accepted, sharedVars,
                 consumerVars>>

\* finalise returns with a new AsyncImpl, whose thread has just been started.
\* (The code starts it before it closes the old one; the two share nothing.)
JoinFinalise ==
  /\ pc = "joining" /\ cpc = "stopped" /\ ~Thrown
  /\ call = "finalise"
  /\ pc' = "ready" /\ call' = "none"
  /\ finalises' = finalises + 1
  /\ queue' = <<>> /\ queueSize' = 0 /\ permits' = 0
  /\ cpc' = "starting"
  /\ UNCHANGED <<pending, held, parentUpdates, stack, accepted, requested,
                 consumerException, inHand, bulkVars>>

JoinDestroy ==
  /\ pc = "joining" /\ cpc = "stopped" /\ ~Thrown
  /\ call = "destroy"
  /\ pc' = "destroyed"
  /\ UNCHANGED <<call, pending, builderVars, accepted, sharedVars,
                 consumerVars>>
-----------------------------------------------------------------------------
(* AsyncImpl::consumerFunction, on the consumer's thread.                  *)

\* getBulkWriteContext, on the consumer's own thread.
ConsumerStart ==
  /\ Running /\ cpc = "starting"
  /\ \/ /\ cpc' = "waiting"
        /\ UNCHANGED consumerException
     \/ /\ "context" \in Failures
        /\ cpc' = "stopped"
        /\ consumerException' = "set"
  /\ UNCHANGED <<producerVars, queue, queueSize, permits, inHand, bulkVars>>

\* Variant: the queue hands out its newest entry first.
DequeueNewest ==
  /\ Running /\ cpc = "waiting"
  /\ queue # <<>>
  /\ inHand' = Last(queue)
  /\ queue' = Front(queue)
  /\ cpc' = "taken"
  /\ UNCHANGED <<producerVars, queueSize, permits, consumerException,
                 bulkVars>>

\* wait_dequeue.
Dequeue ==
  /\ Running /\ cpc = "waiting"
  /\ queue # <<>>
  /\ inHand' = Head(queue)
  /\ queue' = Tail(queue)
  /\ cpc' = "taken"
  /\ UNCHANGED <<producerVars, queueSize, permits, consumerException,
                 bulkVars>>

\* Variant: the size is subtracted twice.
AccountTwice ==
  /\ Running /\ cpc = "taken"
  /\ queueSize' = queueSize - 2 * EntrySize(inHand)
  /\ cpc' = "visit"
  /\ UNCHANGED <<producerVars, queue, permits, consumerException, inHand,
                 bulkVars>>

\* queueSize -= consumable.size, before the entry is visited.
Account ==
  /\ Running /\ cpc = "taken"
  /\ queueSize' = queueSize - EntrySize(inHand)
  /\ cpc' = "visit"
  /\ UNCHANGED <<producerVars, queue, permits, consumerException, inHand,
                 bulkVars>>

\* A write that stays in the bulk write for now.
VisitBuffered ==
  /\ Running /\ cpc = "visit" /\ IsWrite(inHand)
  /\ bulkSize + EntrySize(inHand) <= BulkLimit
  /\ bulk' = Append(bulk, inHand.ptr)
  /\ bulkSize' = bulkSize + EntrySize(inHand)
  /\ inHand' = Nothing
  /\ cpc' = "waiting"
  /\ UNCHANGED <<producerVars, sharedVars, bulkState, applied>>

\* A write that takes the bulk write over its limit, which executes it.
VisitExecuted ==
  /\ Running /\ cpc = "visit" /\ IsWrite(inHand)
  /\ bulkSize + EntrySize(inHand) > BulkLimit
  /\ applied' = applied \o Append(bulk, inHand.ptr)
  /\ bulk' = <<>> /\ bulkSize' = 0
  /\ inHand' = Nothing
  /\ cpc' = "waiting"
  /\ UNCHANGED <<producerVars, sharedVars, bulkState>>

\* The first k writes of b are on the collection; the bulk write itself is
\* not reset, so executing it again starts from its first write.
PartlyApply(b, k) ==
  /\ applied' = applied \o SubSeq(b, 1, k)
  /\ bulk' = SubSeq(b, k + 1, Len(b))
  /\ bulkState' = IF \E i \in 1..k : accepted[b[i]].op = "insert"
                  THEN "repeats" ELSE bulkState

\* Executing the (ordered) bulk write throws after k of its writes.
VisitExecuteFails ==
  /\ Running /\ cpc = "visit" /\ IsWrite(inHand)
  /\ "execute" \in Failures
  /\ bulkSize + EntrySize(inHand) > BulkLimit
  /\ LET b == Append(bulk, inHand.ptr) IN
       \E k \in 0..Len(b) : PartlyApply(b, k)
  /\ bulkSize' = bulkSize + EntrySize(inHand)
  /\ inHand' = Nothing
  /\ cpc' = "unwind"
  /\ UNCHANGED <<producerVars, sharedVars>>

\* The write is not even appended: its binary data could not be stored.
VisitAppendFails ==
  /\ Running /\ cpc = "visit" /\ IsWrite(inHand)
  /\ "append" \in Failures
  /\ inHand' = Nothing
  /\ cpc' = "unwind"
  /\ UNCHANGED <<producerVars, sharedVars, bulkVars>>

\* Variant: as with a condition variable, a signal nobody waits for is lost.
VisitNotifySignal ==
  /\ Running /\ cpc = "visit" /\ inHand = Notify
  /\ permits' = IF pc = "blocked" THEN 1 ELSE permits
  /\ inHand' = Nothing
  /\ cpc' = "waiting"
  /\ UNCHANGED <<producerVars, queue, queueSize, consumerException, bulkVars>>

\* block.release().  With a Notify left over from a timed-out wait the count
\* may already be 1, above which release is undefined: the builds either
\* count on or stay at 1.
VisitNotify ==
  /\ Running /\ cpc = "visit" /\ inHand = Notify
  /\ permits' \in {1, permits + 1}
  /\ inHand' = Nothing
  /\ cpc' = "waiting"
  /\ UNCHANGED <<producerVars, queue, queueSize, consumerException, bulkVars>>

\* Variant: the worker ends without flushing its write context.
VisitCloseWithoutFlush ==
  /\ Running /\ cpc = "visit" /\ inHand = Close
  /\ inHand' = Nothing
  /\ cpc' = "stopped"
  /\ UNCHANGED <<producerVars, sharedVars, bulkVars>>

\* Leave the loop; the write context is destroyed.
VisitClose ==
  /\ Running /\ cpc = "visit" /\ inHand = Close
  /\ inHand' = Nothing
  /\ cpc' = "flush"
  /\ UNCHANGED <<producerVars, sharedVars, bulkVars>>

Stop ==
  /\ cpc' = "stopped"
  /\ consumerException' = IF cpc = "unwind" THEN "set" ELSE consumerException

\* ~MongoWriteContext executes what is left, also after an execution that
\* failed; that can only succeed if it does not repeat an insert.
FlushContext ==
  /\ Running /\ cpc \in {"flush", "unwind"}
  /\ bulkState = "fresh"
  /\ applied' = applied \o bulk
  /\ bulk' = <<>> /\ bulkSize' = 0
  /\ Stop
  /\ UNCHANGED <<producerVars, queue, queueSize, permits, inHand, bulkState>>

\* The same, failing: executing the bulk write throws, or storing the last of
\* the binary data does, and the exception leaves a destructor.
FlushContextFails ==
  /\ Running /\ cpc \in {"flush", "unwind"}
  /\ \/ bulkState = "repeats" /\ UNCHANGED <<applied, bulk, bulkState>>
     \/ "execute" \in Failures /\ bulkState = "fresh" /\ bulkSize > 0
          /\ \E k \in 0..Len(bulk) : PartlyApply(bulk, k)
     \/ "append" \in Failures /\ bulkState = "fresh" /\ PartlyApply(bulk, Len(bulk))
  /\ pc' = "terminated"
  /\ UNCHANGED <<call, pending, builderVars, accepted, sharedVars, cpc,
                 inHand, bulkSize>>
-----------------------------------------------------------------------------
Init ==
  /\ pc = "ready" /\ call = "none" /\ pending = <<>>
  /\ held = {} /\ parentUpdates = NoUpdates
  /\ stack = "normal" /\ finalises = 0
  /\ accepted = <<>> /\ requested = NoUpdates
  /\ queue = <<>> /\ queueSize = 0 /\ permits = 0
  /\ consumerException = "null"
  /\ cpc = "starting" /\ inHand = Nothing
  /\ bulk = <<>> /\ bulkSize = 0 /\ bulkState = "fresh"
  /\ applied = <<>>

\* What the importer chooses to do next.
Importer ==
  \/ \E n \in Nodes : AddNode(n) \/ HoldNode(n) \/ ReleaseNode(n)
  \/ \E n, m \in Nodes : AddMesh(n, m)
  \/ \E n \in Nodes, p \in Parents : AddParent(n, p)
  \/ Finalise
  \/ ImportFails
  \/ Destroy

\* The steps of a call in progress, on the importer's thread.
Producer ==
  \/ Count \/ Push \/ RequestNotify \/ Suspend \/ Acquire \/ Timeout \/ Recheck \/ Rethrow
  \/ Return \/ CloseQueue \/ JoinFailed \/ JoinFinalise \/ JoinDestroy

Consumer ==
  \/ ConsumerStart \/ Dequeue \/ Account
  \/ VisitBuffered \/ VisitExecuted \/ VisitExecuteFails \/ VisitAppendFails
  \/ VisitNotify \/ VisitClose
  \/ FlushContext \/ FlushContextFails

\* The builder is gone, or the process is.
Stopped == ~Running /\ UNCHANGED vars

Next == Importer \/ Producer \/ Consumer \/ Stopped

\* Both threads are scheduled, and a timed wait ends.
Fairness == WF_vars(Producer) /\ WF_vars(Consumer)

Spec == Init /\ [][Next]_vars /\ Fairness
-----------------------------------------------------------------------------
TypeOK ==
  /\ pc \in {"ready", "push", "counted", "notified", "blocked", "awake", "joining", "destroyed", "terminated"}
  /\ call \in {"none", "addNode", "addMesh", "release", "commit", "finalise", "destroy"}
  /\ pending \in Seq(Ops)
  /\ held \subseteq Nodes
  /\ parentUpdates \in [Nodes -> SUBSET Parents]
  /\ stack \in {"normal", "unwinding"}
  /\ finalises \in Nat
  /\ accepted \in Seq(Ops)
  /\ requested \in [Nodes -> SUBSET Parents]
  /\ queue \in Seq(Entries)
  /\ queueSize \in Int
  /\ permits \in Nat
  /\ consumerException \in {"null", "set"}
  /\ cpc \in {"starting", "waiting", "taken", "visit", "flush", "unwind", "stopped"}
  /\ inHand \in Entries \cup {Nothing}
  /\ bulk \in Seq(Nat)
  /\ bulkSize \in Nat
  /\ bulkState \in {"fresh", "repeats"}
  /\ applied \in Seq(Nat)
-----------------------------------------------------------------------------
(* What the builder guarantees.                                            *)

\* The entries that the worker has not accounted for.
Unvisited == IF cpc = "taken" THEN <<inHand>> \o queue ELSE queue

Sizes == [i \in DOMAIN Unvisited |-> EntrySize(Unvisited[i])]

\* A write that is counted and not enqueued yet.
Coming == IF pc = "counted" THEN <<OpSize(Head(pending))>> ELSE <<>>

\* The sizes that queueSize counts.
Accounted == Sizes \o Coming

TotalSize(sizes) == FoldLeft(LAMBDA sum, size : sum + size, 0, sizes)

\* The backpressure estimate is exact between any two steps of the threads: push
\* counts a write before the worker can get it, and the worker takes it off once,
\* so the unsigned counter never wraps below zero and an empty queue never keeps
\* the importer waiting.
QueueSizeExact == Running => queueSize = TotalSize(Accounted)

\* push holds the queue to its threshold; a write that is larger than the
\* threshold by itself is let in, but only on its own, and nothing joins it.
QueueBounded ==
  Running /\ queueSize > Threshold =>
    Cardinality({i \in DOMAIN Accounted : Accounted[i] # 0}) = 1

\* A waiting importer has a wake-up coming whatever the order of acquire and
\* release (the comment in push): a permit, or a Notify that the worker will
\* reach.  Only when the worker has thrown does it depend on its timeout.
NoLostWakeup ==
  pc \in {"notified", "blocked"} =>
    \/ permits > 0
    \/ inHand = Notify
    \/ \E i \in DOMAIN queue : queue[i] = Notify
    \/ cpc \in {"unwind", "stopped"}

\* Where the insert of node n is among the executed writes, if it is.
InsertedAt(n) ==
  {i \in DOMAIN applied :
     accepted[applied[i]].op = "insert" /\ accepted[applied[i]].node = n}

\* The parents node n has in the collection: an update that is executed
\* before the insert matches no document and changes nothing.
StoredParents(n) ==
  UNION {accepted[applied[j]].parents :
           j \in {k \in DOMAIN applied :
                    /\ accepted[applied[k]].node = n
                    /\ \E i \in InsertedAt(n) : i < k}}

\* finalise has just returned, or the importer is done with the builder.
FlushedOut ==
  \/ pc = "destroyed" /\ ~Unwinding
  \/ /\ pc = "ready" /\ finalises > 0
     /\ cpc = "starting" /\ queue = <<>> /\ parentUpdates = NoUpdates

\* By then every node that was handed over is stored exactly once, with every
\* parent addParent was asked to give it: no update is dropped when it is
\* merged or committed, and none reaches the collection before its node.
ParentsStored ==
  FlushedOut =>
    \A n \in Queued :
      /\ Cardinality(InsertedAt(n)) = 1
      /\ StoredParents(n) = requested[n]

\* The writes are on their way in order: those executed, then those in the
\* bulk write, then the one in hand, then those in the queue.  A worker that
\* has thrown may have lost the rest, but never one from the middle.
Landed == Len(applied) + Len(bulk)
HasWriteInHand == cpc \in {"taken", "visit"} /\ IsWrite(inHand)
NextInQueue == Landed + (IF HasWriteInHand THEN 2 ELSE 1)
Failed == cpc = "unwind" \/ Thrown

PipelineInOrder ==
  /\ \A i \in 1..Len(applied) : applied[i] = i
  /\ \A i \in 1..Len(bulk) : bulk[i] = Len(applied) + i
  /\ HasWriteInHand => inHand.ptr = Landed + 1
  /\ IF Failed
       THEN Landed <= Len(accepted)
       ELSE /\ NextInQueue <= Len(accepted) + 1
            /\ \A i \in DOMAIN queue :
                 IsWrite(queue[i]) => queue[i].ptr \in NextInQueue..Len(accepted)
            /\ \A i, j \in DOMAIN queue :
                 i < j /\ IsWrite(queue[i]) /\ IsWrite(queue[j])
                   => queue[i].ptr < queue[j].ptr
            /\ \A k \in NextInQueue..Len(accepted) :
                 \E i \in DOMAIN queue : queue[i] = Write(k)

\* Close is the last entry the worker ever sees, and only when the importer
\* has pushed everything and is waiting to join it; a worker that stopped
\* without an exception has therefore executed every write.
ClosedLast ==
  /\ \A i \in DOMAIN queue :
       queue[i] = Close => i = Len(queue) /\ pc \in {"joining", "terminated"}
  /\ inHand = Close => cpc \in {"taken", "visit"}
  /\ inHand = Close \/ cpc = "flush" =>
       queue = <<>> /\ pc \in {"joining", "terminated"}
  /\ cpc = "stopped" /\ ~Thrown =>
       /\ bulk = <<>> /\ queue = <<>>
       /\ pc \in {"joining", "destroyed"}
  /\ pc = "destroyed" => cpc = "stopped" /\ ~Thrown
  /\ Thrown => cpc = "stopped"

\* No call of the builder waits for ever, whatever the worker and the
\* database do: it returns, throws, or the process is terminated.
CallsReturn ==
  (pc \in {"push", "counted", "notified", "blocked", "awake", "joining"}) ~>
    (pc \in {"ready", "destroyed", "terminated"})

\* The builder implements its abstract promise.
Store == INSTANCE SceneStore WITH
  stored <- [i \in DOMAIN applied |-> accepted[applied[i]]],
  flushes <- finalises,
  phase <- CASE pc = "destroyed" -> "closed"
             [] pc = "terminated" -> "failed"
             [] OTHER -> "open"

ImplementsStore == Store!Spec
=============================================================================
