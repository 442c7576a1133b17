------------------------ MODULE BouncerWorkerProofs ------------------------
(***************************************************************************)
(* Proofs about BouncerWorker: every delivery is tracked, the result is    *)
(* the last word on a message, and the workers implement TaskDelivery, for *)
(* any number of workers and messages and any of the settings.             *)
(***************************************************************************)
EXTENDS BouncerWorker, SequenceTheorems, FiniteSetTheorems, TLAPS

(***************************************************************************)
(* The inductive invariant.                                                *)
(***************************************************************************)
Live(w) == link[w] \in {"up", "closing"}

Names(frame, m) == frame.type # "close" /\ frame.msg = m

LimitsOK == losses \in 0..MaxLosses /\ kills \in 0..MaxKills /\ refusals \in 0..MaxRefusals

BrokerOK ==
  /\ ready \subseteq Messages
  /\ latest \in [Messages -> Results \cup {"none", "PROCESSING"}]

WorkersOK ==
  /\ unacked \in [Workers -> SUBSET Messages]
  /\ wire \in [Workers -> Seq(Frames)]
  /\ link \in [Workers -> LinkStates]
  /\ conn \in [Workers -> Nat]
  /\ retry \in [Workers -> Nat]
  /\ tasks \in [Workers -> SUBSET Tasks]
  /\ done \in [Workers -> Nat]

\* A worker with a quota has one task at a time, and only while it may do more.
WithinLimits(w) ==
  /\ retry[w] <= MaxRetries
  /\ done[w] <= Quota[w]
  /\ ~Listens(w) =>
       /\ tasks[w] # {} => done[w] < Quota[w]
       /\ \A t, u \in tasks[w] : t = u

\* No task has the channel of a later connection than the worker's, and none has one
\* that is not there yet.
Channels(w) ==
  /\ \A t \in tasks[w] : t.conn <= conn[w]
  /\ link[w] = "opening" => Current(w) = {}

\* What DeliveriesTracked says of one worker.
Tracked(w) ==
  /\ unacked[w] = {t.msg : t \in Current(w)} \cup {wire[w][i].msg : i \in Settling(w)}
  /\ \A t, u \in Current(w) : t.msg = u.msg => t = u
  /\ \A i, j \in Settling(w) : wire[w][i].msg = wire[w][j].msg => i = j
  /\ \A t \in Current(w), i \in Settling(w) : t.msg # wire[w][i].msg

\* The frames of a channel are about messages delivered on it, nothing follows an ack
\* or a nack, and an ack follows the result, which has been received if the ack
\* is the next to be.
Orderly(w) ==
  /\ \A i \in DOMAIN wire[w] : wire[w][i].type # "close" => wire[w][i].msg \in unacked[w]
  /\ \A i \in Settling(w), j \in DOMAIN wire[w] : i < j => ~Names(wire[w][j], wire[w][i].msg)
  /\ \A i \in DOMAIN wire[w] : wire[w][i].type = "ack" =>
       IF i = 1 THEN latest[wire[w][i].msg] \in Results
       ELSE wire[w][i - 1].type = "reply" /\ wire[w][i - 1].msg = wire[w][i].msg
            /\ wire[w][i - 1].word \in Results

\* The broker keeps nothing of a connection that is not live.
Quiet(w) == ~Live(w) => unacked[w] = {} /\ wire[w] = <<>>

WorkerInv(w) ==
  WithinLimits(w) /\ Channels(w) /\ (Live(w) => Tracked(w)) /\ Orderly(w) /\ Quiet(w)

\* A message is in one place.
Apart ==
  /\ \A w \in Workers : unacked[w] \cap ready = {}
  /\ \A v, w \in Workers : v # w => unacked[v] \cap unacked[w] = {}

Core ==
  /\ BrokerOK /\ WorkersOK /\ Apart
  /\ \A w \in Workers : WorkerInv(w)
  /\ ResultIsLastWord

IInv == LimitsOK /\ Core

LEMMA InitIInv == Init => IInv
<1> SUFFICES ASSUME Init PROVE IInv
  OBVIOUS
<1>1. <<>> \in Seq(Frames) /\ DOMAIN <<>> = {}
  BY EmptySeq, LenProperties
<1>2. LimitsOK
  BY LimitsAssumption DEF Init, LimitsOK
<1>3. BrokerOK /\ WorkersOK /\ Apart
  BY <1>1 DEF Init, BrokerOK, WorkersOK, LinkStates, Apart
<1>4. ASSUME NEW w \in Workers PROVE WorkerInv(w)
  BY <1>1, WorkersAssumption
     DEF Init, WorkerInv, WithinLimits, Channels, Current, Live, Orderly, Settling, Quiet
<1>5. ResultIsLastWord
  BY DEF Init, ResultIsLastWord, Finished
<1> QED BY <1>2, <1>3, <1>4, <1>5 DEF IInv, Core
-----------------------------------------------------------------------------
(* What the steps have in common.                                          *)

\* A worker that a step does not change.
Same(v) ==
  /\ unacked'[v] = unacked[v] /\ wire'[v] = wire[v] /\ link'[v] = link[v]
  /\ conn'[v] = conn[v] /\ retry'[v] = retry[v] /\ tasks'[v] = tasks[v] /\ done'[v] = done[v]

LEMMA SameInv ==
  ASSUME NEW v \in Workers, WorkerInv(v), Same(v),
         \A m \in unacked[v] : latest'[m] = latest[m]
  PROVE  WorkerInv(v)'
<1>1. WithinLimits(v)'
  BY DEF WorkerInv, WithinLimits, Same
<1>2. Channels(v)'
  BY DEF WorkerInv, Channels, Current, Same
<1>3. (Live(v) => Tracked(v))'
  BY DEF WorkerInv, Live, Tracked, Current, Settling, Same
<1>4. Orderly(v)'
  BY DEF WorkerInv, Orderly, Names, Settling, Same
<1>5. Quiet(v)'
  BY DEF WorkerInv, Quiet, Live, Same
<1> QED BY <1>1, <1>2, <1>3, <1>4, <1>5 DEF WorkerInv

\* The broker puts back what it delivered to w.
LEMMA RequeueApart ==
  ASSUME Core, NEW w \in Workers, Requeue(w)
  PROVE  BrokerOK' /\ Apart' /\ ResultIsLastWord'
<1>1. BrokerOK'
  BY DEF Requeue, Core, BrokerOK, WorkersOK
<1>2. Apart'
  BY DEF Requeue, Core, Apart, WorkersOK
<1>3. ResultIsLastWord'
  <2> SUFFICES ASSUME NEW m \in Messages, Finished(m)' PROVE Finished(m)
    BY DEF Core, ResultIsLastWord, Requeue
  <2> QED BY DEF Finished, Requeue, Core, WorkersOK
<1> QED BY <1>1, <1>2, <1>3

\* The process of w ends, for whatever reason.
LEMMA ExitCore ==
  ASSUME Core, NEW w \in Workers, Exit(w)
  PROVE  Core'
<1>1. BrokerOK' /\ Apart' /\ ResultIsLastWord'
  BY RequeueApart DEF Exit
<1>2. WorkersOK'
  BY EmptySeq DEF Core, WorkersOK, Exit, Requeue, LinkStates
<1>3. ASSUME NEW v \in Workers, v # w PROVE WorkerInv(v)'
  BY <1>3, SameInv DEF Core, WorkersOK, Exit, Requeue, Same
<1>4. WorkerInv(w)'
  <2>1. /\ unacked'[w] = {} /\ wire'[w] = <<>> /\ link'[w] \in {"connecting", "stopped"}
        /\ retry'[w] = 0 /\ tasks'[w] = {} /\ done'[w] = 0
    BY DEF Core, WorkersOK, Exit, Requeue
  <2>2. DOMAIN <<>> = {}
    BY EmptySeq, LenProperties
  <2> QED BY <2>1, <2>2, WorkersAssumption
         DEF WorkerInv, WithinLimits, Listens, Channels, Current, Live, Orderly, Settling, Quiet
<1> QED BY <1>1, <1>2, <1>3, <1>4 DEF Core

LEMMA ReconnectCore ==
  ASSUME Core, NEW w \in Workers, Reconnect(w), link[w] \in {"connecting", "lost"}
  PROVE  Core'
<1>1. CASE Exit(w)
  BY <1>1, ExitCore
<1>2. CASE /\ Listens(w) /\ retry[w] + 1 <= MaxRetries
           /\ retry' = [retry EXCEPT ![w] = @ + 1]
           /\ link' = [link EXCEPT ![w] = "connecting"]
           /\ UNCHANGED <<brokerVars, wire, conn, tasks, done>>
  <2>1. BrokerOK' /\ Apart' /\ ResultIsLastWord'
    BY <1>2 DEF brokerVars, Core, BrokerOK, Apart, ResultIsLastWord, Finished
  <2>2. WorkersOK'
    BY <1>2 DEF brokerVars, Core, WorkersOK, LinkStates
  <2>3. ASSUME NEW v \in Workers, v # w PROVE WorkerInv(v)'
    BY <1>2, <2>3, SameInv DEF Core, WorkersOK, brokerVars, Same
  <2>4. WorkerInv(w)'
    <3>1. unacked[w] = {} /\ wire[w] = <<>>
      BY DEF Core, WorkerInv, Quiet, Live
    <3> QED BY <1>2, <3>1
           DEF Core, WorkersOK, brokerVars, WorkerInv, WithinLimits, Listens, Channels, Current,
               Live, Orderly, Settling, Names, Quiet
  <2> QED BY <2>1, <2>2, <2>3, <2>4 DEF Core
<1> QED BY <1>1, <1>2 DEF Reconnect
-----------------------------------------------------------------------------
(* Connections.                                                            *)

LEMMA ConnectCore == ASSUME Core, NEW w \in Workers, Connect(w) PROVE Core'
<1>1. BrokerOK' /\ Apart' /\ ResultIsLastWord'
  BY DEF Connect, brokerVars, Core, BrokerOK, Apart, ResultIsLastWord, Finished
<1>2. WorkersOK'
  BY DEF Connect, brokerVars, Core, WorkersOK, LinkStates
<1>3. ASSUME NEW v \in Workers, v # w PROVE WorkerInv(v)'
  BY <1>3, SameInv DEF Connect, Core, WorkersOK, brokerVars, Same
<1>4. WorkerInv(w)'
  <2>1. unacked[w] = {} /\ wire[w] = <<>>
    BY DEF Connect, Core, WorkerInv, Quiet, Live
  <2>2. \A t \in tasks[w] : t.conn <= conn[w] /\ t.conn \in Nat
    BY DEF Core, WorkerInv, Channels, WorkersOK, Tasks
  <2> QED BY <2>1, <2>2, WorkersAssumption
         DEF Connect, Core, WorkersOK, brokerVars, WorkerInv, WithinLimits, Listens, Channels,
             Current, Live, Orderly, Settling, Names, Quiet
<1> QED BY <1>1, <1>2, <1>3, <1>4 DEF Core

LEMMA OpenChannelCore == ASSUME Core, NEW w \in Workers, OpenChannel(w) PROVE Core'
<1>1. BrokerOK' /\ Apart' /\ ResultIsLastWord'
  BY DEF OpenChannel, brokerVars, Core, BrokerOK, Apart, ResultIsLastWord, Finished
<1>2. WorkersOK'
  BY DEF OpenChannel, brokerVars, Core, WorkersOK, LinkStates
<1>3. ASSUME NEW v \in Workers, v # w PROVE WorkerInv(v)'
  BY <1>3, SameInv DEF OpenChannel, Core, WorkersOK, brokerVars, Same
<1>4. WorkerInv(w)'
  <2>1. unacked[w] = {} /\ wire[w] = <<>> /\ Current(w) = {}
    BY DEF OpenChannel, Core, WorkerInv, Quiet, Live, Channels
  <2>2. DOMAIN <<>> = {}
    BY EmptySeq, LenProperties
  <2> QED BY <2>1, <2>2
         DEF OpenChannel, Core, WorkersOK, brokerVars, WorkerInv, WithinLimits, Listens, Channels,
             Current, Live, Tracked, Orderly, Settling, Names, Quiet
<1> QED BY <1>1, <1>2, <1>3, <1>4 DEF Core

LEMMA ConnectionLostCore == ASSUME Core, NEW w \in Workers, ConnectionLost(w) PROVE Core'
<1>1. BrokerOK' /\ Apart' /\ ResultIsLastWord'
  BY RequeueApart DEF ConnectionLost
<1>2. WorkersOK'
  BY EmptySeq DEF ConnectionLost, Requeue, Core, WorkersOK, LinkStates
<1>3. ASSUME NEW v \in Workers, v # w PROVE WorkerInv(v)'
  BY <1>3, SameInv DEF ConnectionLost, Requeue, Core, WorkersOK, Same
<1>4. WorkerInv(w)'
  <2>1. DOMAIN <<>> = {}
    BY EmptySeq, LenProperties
  <2> QED BY <2>1
         DEF ConnectionLost, Requeue, Core, WorkersOK, WorkerInv, WithinLimits, Listens, Channels,
             Current, Live, Orderly, Settling, Names, Quiet
<1> QED BY <1>1, <1>2, <1>3, <1>4 DEF Core
-----------------------------------------------------------------------------
(* Sending.                                                                *)

\* What a task that goes on sends, and one that is over.
GoesOn(m) == <<Reply(m, "PROCESSING")>>

Settles(m) == {<<Nack(m)>>} \cup {<<Reply(m, r), Ack(m)>> : r \in Results}

LEMMA FramesType ==
  ASSUME NEW m \in Messages, NEW frames \in Settles(m) \cup {GoesOn(m)}
  PROVE  frames \in Seq(Frames)
<1>1. Nack(m) \in Frames /\ Ack(m) \in Frames
  BY DEF Ack, Nack, Frames
<1>2. \A r \in Results \cup {"PROCESSING"} : Reply(m, r) \in Frames
  BY DEF Reply, Frames
<1>3. CASE frames = GoesOn(m)
  BY <1>2, <1>3 DEF GoesOn
<1>4. CASE frames = <<Nack(m)>>
  BY <1>1, <1>4
<1>5. ASSUME NEW r \in Results, frames = <<Reply(m, r), Ack(m)>> PROVE frames \in Seq(Frames)
  BY <1>1, <1>2, <1>5
<1> QED BY <1>3, <1>4, <1>5 DEF Settles

\* Where the frames are on the wire.
LEMMA Appended ==
  ASSUME WorkersOK, NEW w \in Workers, NEW frames \in Seq(Frames), wire'[w] = wire[w] \o frames
  PROVE  /\ wire'[w] \in Seq(Frames)
         /\ DOMAIN wire[w] = 1..Len(wire[w]) /\ Len(wire[w]) \in Nat
         /\ DOMAIN wire'[w] = 1..Len(wire[w]) + Len(frames)
         /\ \A i \in DOMAIN wire[w] : wire'[w][i] = wire[w][i]
         /\ \A i \in 1..Len(frames) : wire'[w][Len(wire[w]) + i] = frames[i]
<1> DEFINE longer == wire[w] \o frames
<1>1. wire[w] \in Seq(Frames)
  BY DEF WorkersOK
<1>2. /\ longer \in Seq(Frames)
      /\ Len(longer) = Len(wire[w]) + Len(frames)
      /\ \A i \in 1..Len(wire[w]) + Len(frames) :
           longer[i] = IF i <= Len(wire[w]) THEN wire[w][i] ELSE frames[i - Len(wire[w])]
  BY <1>1, ConcatProperties
<1>3. /\ DOMAIN longer = 1..Len(wire[w]) + Len(frames)
      /\ DOMAIN wire[w] = 1..Len(wire[w]) /\ Len(wire[w]) \in Nat /\ Len(frames) \in Nat
  BY <1>1, <1>2, LenProperties
<1>4. wire'[w] = longer
  OBVIOUS
<1> HIDE DEF longer
<1>5. \A i \in DOMAIN wire[w] : longer[i] = wire[w][i]
  BY <1>2, <1>3
<1>6. ASSUME NEW i \in 1..Len(frames) PROVE longer[Len(wire[w]) + i] = frames[i]
  <2>1. Len(wire[w]) + i \in 1..Len(wire[w]) + Len(frames) /\ ~(Len(wire[w]) + i <= Len(wire[w]))
        /\ (Len(wire[w]) + i) - Len(wire[w]) = i
    BY <1>3
  <2> QED BY <1>2, <2>1
<1> QED BY <1>2, <1>3, <1>4, <1>5, <1>6

\* A reply alone leaves what is settled.
LEMMA AppendedGoesOn ==
  ASSUME WorkersOK, NEW w \in Workers, NEW m \in Messages, wire'[w] = wire[w] \o GoesOn(m)
  PROVE  /\ DOMAIN wire'[w] = DOMAIN wire[w] \cup {Len(wire[w]) + 1}
         /\ wire'[w][Len(wire[w]) + 1] = Reply(m, "PROCESSING")
         /\ Settling(w)' = Settling(w)
<1>1. GoesOn(m) \in Seq(Frames) /\ Len(GoesOn(m)) = 1 /\ GoesOn(m)[1] = Reply(m, "PROCESSING")
  BY FramesType DEF GoesOn
<1>2. /\ DOMAIN wire[w] = 1..Len(wire[w]) /\ Len(wire[w]) \in Nat
      /\ DOMAIN wire'[w] = 1..Len(wire[w]) + Len(GoesOn(m))
      /\ \A i \in DOMAIN wire[w] : wire'[w][i] = wire[w][i]
      /\ \A i \in 1..Len(GoesOn(m)) : wire'[w][Len(wire[w]) + i] = GoesOn(m)[i]
  BY <1>1, Appended
<1>3. wire'[w][Len(wire[w]) + 1] = Reply(m, "PROCESSING")
  BY <1>1, <1>2
<1>4. DOMAIN wire'[w] = DOMAIN wire[w] \cup {Len(wire[w]) + 1}
  BY <1>1, <1>2
<1>5. Settling(w)' = Settling(w)
  BY <1>2, <1>3, <1>4 DEF Settling, Reply
<1> QED BY <1>3, <1>4, <1>5

\* The last of the frames that settle m does so, and if it is an ack then the result
\* is before it.
LEMMA AppendedSettles ==
  ASSUME WorkersOK, NEW w \in Workers, NEW m \in Messages, NEW frames \in Settles(m),
         wire'[w] = wire[w] \o frames
  PROVE  \E n \in {Len(wire[w]) + 1, Len(wire[w]) + 2} :
           /\ DOMAIN wire'[w] = 1..n
           /\ wire'[w][n] \in {Ack(m), Nack(m)}
           /\ n = Len(wire[w]) + 2 =>
                \E r \in Results : wire'[w][Len(wire[w]) + 1] = Reply(m, r)
           /\ n = Len(wire[w]) + 1 => wire'[w][n] = Nack(m)
           /\ Settling(w)' = Settling(w) \cup {n}
<1>1. CASE frames = <<Nack(m)>>
  <2>1. frames \in Seq(Frames) /\ Len(frames) = 1 /\ frames[1] = Nack(m)
    BY <1>1, FramesType
  <2>2. /\ DOMAIN wire[w] = 1..Len(wire[w]) /\ Len(wire[w]) \in Nat
        /\ DOMAIN wire'[w] = 1..Len(wire[w]) + Len(frames)
        /\ \A i \in DOMAIN wire[w] : wire'[w][i] = wire[w][i]
        /\ \A i \in 1..Len(frames) : wire'[w][Len(wire[w]) + i] = frames[i]
    BY <2>1, Appended
  <2>3. wire'[w][Len(wire[w]) + 1] = Nack(m)
    BY <2>1, <2>2
  <2>4. DOMAIN wire'[w] = 1..Len(wire[w]) + 1
    BY <2>1, <2>2
  <2>5. Settling(w)' = Settling(w) \cup {Len(wire[w]) + 1}
    BY <2>2, <2>3, <2>4 DEF Settling, Nack
  <2> QED BY <2>2, <2>3, <2>4, <2>5
<1>2. ASSUME NEW r \in Results, frames = <<Reply(m, r), Ack(m)>>
      PROVE  /\ DOMAIN wire'[w] = 1..Len(wire[w]) + 2
             /\ wire'[w][Len(wire[w]) + 2] = Ack(m)
             /\ wire'[w][Len(wire[w]) + 1] = Reply(m, r)
             /\ Settling(w)' = Settling(w) \cup {Len(wire[w]) + 2}
             /\ Len(wire[w]) \in Nat
  <2>1. frames \in Seq(Frames) /\ Len(frames) = 2 /\ frames[1] = Reply(m, r) /\ frames[2] = Ack(m)
    BY <1>2, FramesType
  <2>2. /\ DOMAIN wire[w] = 1..Len(wire[w]) /\ Len(wire[w]) \in Nat
        /\ DOMAIN wire'[w] = 1..Len(wire[w]) + Len(frames)
        /\ \A i \in DOMAIN wire[w] : wire'[w][i] = wire[w][i]
        /\ \A i \in 1..Len(frames) : wire'[w][Len(wire[w]) + i] = frames[i]
    BY <2>1, Appended
  <2>3. wire'[w][Len(wire[w]) + 1] = Reply(m, r) /\ wire'[w][Len(wire[w]) + 2] = Ack(m)
    BY <2>1, <2>2
  <2>4. DOMAIN wire'[w] = 1..Len(wire[w]) + 2
    BY <2>1, <2>2
  <2>5. Settling(w)' = Settling(w) \cup {Len(wire[w]) + 2}
    <3>1. DOMAIN wire'[w] = DOMAIN wire[w] \cup {Len(wire[w]) + 1, Len(wire[w]) + 2}
      BY <2>2, <2>4
    <3>2. /\ wire'[w][Len(wire[w]) + 1].type = "reply"
          /\ wire'[w][Len(wire[w]) + 2].type = "ack"
      BY <2>3 DEF Reply, Ack
    <3> QED BY <2>2, <3>1, <3>2 DEF Settling
  <2> QED BY <2>2, <2>3, <2>4, <2>5
<1>3. ASSUME NEW r \in Results, frames = <<Reply(m, r), Ack(m)>>
      PROVE  \E n \in {Len(wire[w]) + 1, Len(wire[w]) + 2} :
               /\ DOMAIN wire'[w] = 1..n
               /\ wire'[w][n] \in {Ack(m), Nack(m)}
               /\ n = Len(wire[w]) + 2 =>
                    \E s \in Results : wire'[w][Len(wire[w]) + 1] = Reply(m, s)
               /\ n = Len(wire[w]) + 1 => wire'[w][n] = Nack(m)
               /\ Settling(w)' = Settling(w) \cup {n}
  <2> WITNESS Len(wire[w]) + 2 \in {Len(wire[w]) + 1, Len(wire[w]) + 2}
  <2> QED BY <1>2, <1>3
<1> QED BY <1>1, <1>3 DEF Settles

(***************************************************************************)
(* Tasks.                                                                  *)
(***************************************************************************)
\* A step that changes no more than what w sends, its tasks, and how many it has done.
LEMMA OnlyWorker ==
  ASSUME Core, NEW w \in Workers, UNCHANGED <<brokerVars, connVars>>,
         NEW s \in Seq(Frames), wire' = [wire EXCEPT ![w] = s],
         NEW T \in SUBSET Tasks, tasks' = [tasks EXCEPT ![w] = T],
         NEW d \in Nat, done' = [done EXCEPT ![w] = d],
         WorkerInv(w)'
  PROVE  Core'
<1>1. BrokerOK' /\ Apart' /\ ResultIsLastWord'
  BY DEF brokerVars, Core, BrokerOK, Apart, ResultIsLastWord, Finished
<1>2. WorkersOK'
  BY DEF brokerVars, connVars, Core, WorkersOK
<1>3. ASSUME NEW v \in Workers, v # w PROVE WorkerInv(v)'
  BY <1>3, SameInv DEF Core, WorkersOK, brokerVars, connVars, Same
<1> QED BY <1>1, <1>2, <1>3 DEF Core

\* A task takes a step.
LEMMA TaskStays ==
  ASSUME WorkersOK, NEW w \in Workers, WithinLimits(w), Channels(w),
         NEW t \in tasks[w], NEW a \in Steps,
         tasks'[w] = (tasks[w] \ {t}) \cup {[t EXCEPT !.at = a]}, UNCHANGED connVars
  PROVE  /\ tasks'[w] \in SUBSET Tasks
         /\ Channels(w)'
         /\ ~Listens(w) => tasks[w] # {} /\ \A u, v \in tasks'[w] : u = v
         /\ {u.msg : u \in Current(w)'} = {u.msg : u \in Current(w)}
         /\ (\A u, v \in Current(w) : u.msg = v.msg => u = v) =>
              (\A u, v \in Current(w)' : u.msg = v.msg => u = v)
<1> DEFINE next == [t EXCEPT !.at = a]
<1>1. t \in Tasks /\ next \in Tasks /\ next.msg = t.msg /\ next.conn = t.conn
  <2>1. t \in Tasks
    BY DEF WorkersOK
  <2> QED BY <2>1 DEF Tasks
<1> HIDE DEF next
<1>2. tasks'[w] = (tasks[w] \ {t}) \cup {next} /\ conn' = conn /\ link' = link
  BY DEF next, connVars
<1>3. tasks'[w] \in SUBSET Tasks
  BY <1>1, <1>2 DEF WorkersOK
<1>4. \A u : u \in Current(w)' <=>
        \/ u \in Current(w) /\ u # t
        \/ u = next /\ t \in Current(w)
  BY <1>1, <1>2 DEF Current
<1>5. Channels(w)'
  <2>1. \A u \in tasks'[w] : u.conn <= conn'[w]
    BY <1>1, <1>2 DEF Channels
  <2>2. link'[w] = "opening" => Current(w)' = {}
    BY <1>2, <1>4 DEF Channels
  <2> QED BY <2>1, <2>2 DEF Channels
<1>6. ~Listens(w) => tasks[w] # {} /\ \A u, v \in tasks'[w] : u = v
  BY <1>2 DEF WithinLimits
<1>7. {u.msg : u \in Current(w)'} = {u.msg : u \in Current(w)}
  BY <1>1, <1>4
<1>8. ASSUME \A u, v \in Current(w) : u.msg = v.msg => u = v,
             NEW u \in Current(w)', NEW v \in Current(w)', u.msg = v.msg
      PROVE  u = v
  BY <1>1, <1>4, <1>8
<1> QED BY <1>3, <1>5, <1>6, <1>7, <1>8

\* The client of a task has ended, or it waits: nothing is sent.
LEMMA SilentCore ==
  ASSUME Core, NEW w \in Workers, NEW t \in tasks[w], NEW a \in Steps,
         tasks' = [tasks EXCEPT ![w] = (@ \ {t}) \cup {[t EXCEPT !.at = a]}],
         UNCHANGED <<brokerVars, connVars, wire, done>>
  PROVE  Core'
<1>1. WorkersOK /\ WorkerInv(w)
  BY DEF Core
<1>2. tasks'[w] = (tasks[w] \ {t}) \cup {[t EXCEPT !.at = a]}
  BY <1>1 DEF WorkersOK
<1>3. /\ tasks'[w] \in SUBSET Tasks
      /\ Channels(w)'
      /\ ~Listens(w) => tasks[w] # {} /\ \A u, v \in tasks'[w] : u = v
      /\ {u.msg : u \in Current(w)'} = {u.msg : u \in Current(w)}
      /\ (\A u, v \in Current(w) : u.msg = v.msg => u = v) =>
           (\A u, v \in Current(w)' : u.msg = v.msg => u = v)
  BY ZenonT(40), <1>1, <1>2, TaskStays DEF WorkerInv
<1>4. WithinLimits(w)' /\ Orderly(w)' /\ Quiet(w)' /\ Settling(w)' = Settling(w)
  BY <1>1, <1>3
     DEF WorkerInv, WithinLimits, Listens, Orderly, Names, Settling, Quiet, Live, brokerVars, connVars
<1>5. ASSUME Live(w)' PROVE Tracked(w)'
  <2>1. Live(w) /\ Tracked(w)
    BY <1>1, <1>5 DEF WorkerInv, Live, connVars
  <2>2. \A u \in Current(w)', i \in Settling(w)' : u.msg # wire'[w][i].msg
    <3> SUFFICES ASSUME NEW u \in Current(w)', NEW i \in Settling(w) PROVE u.msg # wire[w][i].msg
      BY <1>4
    <3>1. PICK v \in Current(w) : v.msg = u.msg
      BY <1>3
    <3> QED BY <2>1, <3>1 DEF Tracked
  <2>3. \A i, j \in Settling(w)' : wire'[w][i].msg = wire'[w][j].msg => i = j
    BY <1>4, <2>1 DEF Tracked
  <2>4. {wire'[w][i].msg : i \in Settling(w)'} = {wire[w][i].msg : i \in Settling(w)}
    BY <1>4
  <2>5. unacked'[w] = {u.msg : u \in Current(w)'} \cup {wire'[w][i].msg : i \in Settling(w)'}
    BY <1>3, <2>1, <2>4 DEF Tracked, brokerVars
  <2> QED BY <1>3, <2>1, <2>2, <2>3, <2>5 DEF Tracked
<1>6. WorkerInv(w)'
  BY <1>3, <1>4, <1>5 DEF WorkerInv
<1>7. wire[w] \in Seq(Frames) /\ done[w] \in Nat
      /\ wire' = [wire EXCEPT ![w] = wire[w]] /\ done' = [done EXCEPT ![w] = done[w]]
      /\ tasks' = [tasks EXCEPT ![w] = tasks'[w]]
  BY <1>1, <1>2 DEF WorkersOK
<1> HIDE DEF Core
<1> QED BY <1>3, <1>6, <1>7, OnlyWorker

\* A task that goes on says so.
LEMMA GoesOnCore ==
  ASSUME Core, NEW w \in Workers, link[w] = "up", NEW t \in Current(w), NEW a \in Steps,
         tasks' = [tasks EXCEPT ![w] = (@ \ {t}) \cup {[t EXCEPT !.at = a]}],
         wire' = [wire EXCEPT ![w] = @ \o GoesOn(t.msg)],
         UNCHANGED <<brokerVars, connVars, done>>
  PROVE  Core'
<1> DEFINE last == Len(wire[w]) + 1
<1>1. WorkersOK /\ WorkerInv(w) /\ t \in tasks[w] /\ Live(w) /\ Tracked(w)
  BY DEF Core, Current, WorkerInv, Live
<1>2. tasks'[w] = (tasks[w] \ {t}) \cup {[t EXCEPT !.at = a]}
  BY <1>1 DEF WorkersOK
<1>3. /\ tasks'[w] \in SUBSET Tasks
      /\ Channels(w)'
      /\ ~Listens(w) => tasks[w] # {} /\ \A u, v \in tasks'[w] : u = v
      /\ {u.msg : u \in Current(w)'} = {u.msg : u \in Current(w)}
      /\ (\A u, v \in Current(w) : u.msg = v.msg => u = v) =>
           (\A u, v \in Current(w)' : u.msg = v.msg => u = v)
  BY ZenonT(40), <1>1, <1>2, TaskStays DEF WorkerInv
<1>4. t.msg \in Messages /\ t.msg \in unacked[w]
  BY <1>1 DEF WorkersOK, Tasks, Tracked
<1>5. GoesOn(t.msg) \in Seq(Frames) /\ wire'[w] = wire[w] \o GoesOn(t.msg)
      /\ Len(GoesOn(t.msg)) = 1
  BY <1>1, <1>4, FramesType DEF WorkersOK, GoesOn
<1>6. /\ wire'[w] \in Seq(Frames)
      /\ DOMAIN wire[w] = 1..Len(wire[w]) /\ Len(wire[w]) \in Nat
      /\ \A i \in DOMAIN wire[w] : wire'[w][i] = wire[w][i]
  BY <1>1, <1>5, Appended
<1>7. /\ DOMAIN wire'[w] = DOMAIN wire[w] \cup {last}
      /\ wire'[w][last] = Reply(t.msg, "PROCESSING")
      /\ Settling(w)' = Settling(w)
  BY <1>1, <1>4, <1>5, AppendedGoesOn
<1> HIDE DEF last
<1>8. /\ last \in Nat /\ last \notin DOMAIN wire[w]
      /\ \A i \in DOMAIN wire[w] : i < last
      /\ \A i \in Settling(w) : i \in DOMAIN wire[w] /\ wire'[w][i] = wire[w][i]
  BY <1>6 DEF last, Settling
<1>9. WithinLimits(w)' /\ Quiet(w)' /\ Live(w)'
  BY <1>1, <1>3 DEF WorkerInv, WithinLimits, Listens, Quiet, Live, brokerVars, connVars
<1>10. Orderly(w)'
  <2>1. \A i \in DOMAIN wire'[w] : wire'[w][i].type # "close" => wire'[w][i].msg \in unacked'[w]
    BY <1>1, <1>4, <1>6, <1>7 DEF WorkerInv, Orderly, Reply, brokerVars
  <2>2. ASSUME NEW i \in Settling(w), NEW j \in DOMAIN wire'[w], i < j
        PROVE  ~Names(wire'[w][j], wire'[w][i].msg)
    <3>1. CASE j = last
      BY <1>1, <1>6, <1>7, <1>8, <3>1 DEF Tracked, Names, Reply
    <3>2. CASE j \in DOMAIN wire[w]
      BY <1>1, <1>6, <1>8, <2>2, <3>2 DEF WorkerInv, Orderly, Names
    <3> QED BY <1>7, <3>1, <3>2
  <2>3. ASSUME NEW i \in DOMAIN wire'[w], wire'[w][i].type = "ack"
        PROVE  IF i = 1 THEN latest'[wire'[w][i].msg] \in Results
               ELSE wire'[w][i - 1].type = "reply" /\ wire'[w][i - 1].msg = wire'[w][i].msg
                    /\ wire'[w][i - 1].word \in Results
    <3>1. i \in DOMAIN wire[w] /\ wire[w][i].type = "ack"
      BY <1>6, <1>7, <2>3 DEF Reply
    <3>2. IF i = 1 THEN latest[wire[w][i].msg] \in Results
          ELSE wire[w][i - 1].type = "reply" /\ wire[w][i - 1].msg = wire[w][i].msg
               /\ wire[w][i - 1].word \in Results
      BY <1>1, <3>1 DEF WorkerInv, Orderly
    <3>3. i # 1 => i - 1 \in DOMAIN wire[w]
      BY <1>6, <3>1
    <3> QED BY <1>6, <3>1, <3>2, <3>3 DEF brokerVars
  <2> QED BY <1>7, <2>1, <2>2, <2>3 DEF Orderly
<1>11. Tracked(w)'
  <2>1. \A u \in Current(w)', i \in Settling(w)' : u.msg # wire'[w][i].msg
    <3> SUFFICES ASSUME NEW u \in Current(w)', NEW i \in Settling(w) PROVE u.msg # wire'[w][i].msg
      BY <1>7
    <3>1. PICK v \in Current(w) : v.msg = u.msg
      BY <1>3
    <3> QED BY SMTT(30), <1>1, <1>8, <3>1 DEF Tracked
  <2>2. \A i, j \in Settling(w)' : wire'[w][i].msg = wire'[w][j].msg => i = j
    BY <1>1, <1>7, <1>8 DEF Tracked
  <2>3. {wire'[w][i].msg : i \in Settling(w)'} = {wire[w][i].msg : i \in Settling(w)}
    BY <1>7, <1>8
  <2>4. unacked'[w] = {u.msg : u \in Current(w)'} \cup {wire'[w][i].msg : i \in Settling(w)'}
    BY <1>1, <1>3, <2>3 DEF Tracked, brokerVars
  <2> QED BY <1>1, <1>3, <2>1, <2>2, <2>4 DEF Tracked
<1>12. WorkerInv(w)'
  BY <1>3, <1>9, <1>10, <1>11 DEF WorkerInv
<1>13. /\ wire' = [wire EXCEPT ![w] = wire'[w]] /\ tasks' = [tasks EXCEPT ![w] = tasks'[w]]
       /\ done[w] \in Nat /\ done' = [done EXCEPT ![w] = done[w]]
  BY <1>1 DEF WorkersOK
<1> HIDE DEF Core
<1> QED BY <1>3, <1>6, <1>12, <1>13, OnlyWorker

\* The messages that are settled by what is on the way from w.
Settled(w) == {wire[w][i].msg : i \in Settling(w)}

SettledOnce(w) == \A i, j \in Settling(w) : wire[w][i].msg = wire[w][j].msg => i = j

\* The frames that settle m go to the end of the wire.
LEMMA SettlesOrder ==
  ASSUME WorkersOK, NEW w \in Workers, NEW m \in Messages, NEW frames \in Settles(m),
         wire'[w] = wire[w] \o frames, latest' = latest,
         unacked[w] \cup {m} \subseteq unacked'[w],
         Orderly(w), SettledOnce(w), m \notin Settled(w)
  PROVE  /\ wire'[w] \in Seq(Frames)
         /\ Orderly(w)' /\ SettledOnce(w)'
         /\ Settled(w)' = Settled(w) \cup {m}
<1>1. frames \in Seq(Frames)
  BY FramesType
<1>2. /\ wire'[w] \in Seq(Frames)
      /\ DOMAIN wire[w] = 1..Len(wire[w]) /\ Len(wire[w]) \in Nat
      /\ \A i \in DOMAIN wire[w] : wire'[w][i] = wire[w][i]
  BY <1>1, Appended
<1>3. PICK n \in {Len(wire[w]) + 1, Len(wire[w]) + 2} :
        /\ DOMAIN wire'[w] = 1..n
        /\ wire'[w][n] \in {Ack(m), Nack(m)}
        /\ n = Len(wire[w]) + 2 => \E r \in Results : wire'[w][Len(wire[w]) + 1] = Reply(m, r)
        /\ n = Len(wire[w]) + 1 => wire'[w][n] = Nack(m)
        /\ Settling(w)' = Settling(w) \cup {n}
  BY AppendedSettles
<1>4. n \in Nat /\ n \notin DOMAIN wire[w]
  BY <1>2
<1>5. \A i \in Settling(w) : i \in DOMAIN wire[w] /\ wire'[w][i] = wire[w][i]
  BY <1>2 DEF Settling
<1>6. wire'[w][n].msg = m /\ wire'[w][n].type \in {"ack", "nack"}
  BY SMTT(30), <1>3 DEF Ack, Nack
<1>7. ASSUME NEW i \in DOMAIN wire'[w], i \notin DOMAIN wire[w], i # n
      PROVE  /\ i = Len(wire[w]) + 1 /\ n = Len(wire[w]) + 2
             /\ wire'[w][i].type = "reply" /\ wire'[w][i].msg = m
             /\ wire'[w][i].word \in Results
  <2>1. i = Len(wire[w]) + 1 /\ n = Len(wire[w]) + 2
    BY SMTT(30), <1>2, <1>3, <1>7
  <2>2. PICK r \in Results : wire'[w][Len(wire[w]) + 1] = Reply(m, r)
    BY <1>3, <2>1
  <2>3. wire'[w][i] = Reply(m, r)
    BY <2>1, <2>2
  <2> QED BY <2>1, <2>3 DEF Reply
<1>8. \A i \in DOMAIN wire'[w] : i \in DOMAIN wire[w] \/ wire'[w][i].msg = m
  BY <1>6, <1>7
<1>9. \A i \in Settling(w) : wire'[w][i].msg = wire[w][i].msg /\ wire[w][i].msg # m
  BY <1>5 DEF Settled
<1>10. Orderly(w)'
  <2>1. \A i \in DOMAIN wire'[w] : wire'[w][i].type # "close" => wire'[w][i].msg \in unacked'[w]
    BY <1>2, <1>8 DEF Orderly
  <2>2. ASSUME NEW i \in Settling(w)', NEW j \in DOMAIN wire'[w], i < j
        PROVE  ~Names(wire'[w][j], wire'[w][i].msg)
    <3>1. i \in Settling(w)
      BY <1>3, <2>2
    <3>2. CASE j \in DOMAIN wire[w]
      <4>1. ~Names(wire[w][j], wire[w][i].msg)
        BY <2>2, <3>1, <3>2 DEF Orderly
      <4> QED BY <1>2, <1>9, <3>1, <3>2, <4>1
    <3>3. CASE wire'[w][j].msg = m
      BY <1>9, <3>1, <3>3 DEF Names
    <3> QED BY <1>8, <3>2, <3>3
  <2>3. ASSUME NEW i \in DOMAIN wire'[w], wire'[w][i].type = "ack"
        PROVE  IF i = 1 THEN latest'[wire'[w][i].msg] \in Results
               ELSE wire'[w][i - 1].type = "reply" /\ wire'[w][i - 1].msg = wire'[w][i].msg
                    /\ wire'[w][i - 1].word \in Results
    <3>1. CASE i \in DOMAIN wire[w]
      <4>1. IF i = 1 THEN latest[wire[w][i].msg] \in Results
            ELSE wire[w][i - 1].type = "reply" /\ wire[w][i - 1].msg = wire[w][i].msg
                 /\ wire[w][i - 1].word \in Results
        BY <1>2, <2>3, <3>1 DEF Orderly
      <4>2. i # 1 => i - 1 \in DOMAIN wire[w]
        BY <1>2, <3>1
      <4> QED BY <1>2, <3>1, <4>1, <4>2
    <3>2. CASE i = n
      <4>1. n = Len(wire[w]) + 2
        BY <1>3, <2>3, <3>2 DEF Nack
      <4>2. PICK r \in Results : wire'[w][Len(wire[w]) + 1] = Reply(m, r)
        BY <1>3, <4>1
      <4>3. i - 1 = Len(wire[w]) + 1 /\ i # 1
        BY <1>2, <3>2, <4>1
      <4>4. wire'[w][i - 1] = Reply(m, r)
        BY <4>2, <4>3
      <4>5. wire'[w][i].msg = m
        BY <1>6, <3>2
      <4> QED BY <4>3, <4>4, <4>5 DEF Reply
    <3> QED BY <1>7, <2>3, <3>1, <3>2
  <2> QED BY <2>1, <2>2, <2>3 DEF Orderly
<1>11. SettledOnce(w)'
  <2>1. \A i, j \in Settling(w) : wire'[w][i].msg = wire'[w][j].msg => i = j
    BY <1>9 DEF SettledOnce
  <2>2. \A i \in Settling(w) : wire'[w][i].msg # wire'[w][n].msg
    BY <1>6, <1>9
  <2> QED BY <1>3, <2>1, <2>2 DEF SettledOnce
<1>12. Settled(w)' = Settled(w) \cup {m}
  <2>1. {wire'[w][i].msg : i \in Settling(w)} = Settled(w)
    BY <1>9 DEF Settled
  <2>2. {wire'[w][i].msg : i \in Settling(w) \cup {n}}
          = {wire'[w][i].msg : i \in Settling(w)} \cup {wire'[w][n].msg}
    OBVIOUS
  <2> QED BY <1>3, <1>6, <2>1, <2>2 DEF Settled
<1> QED BY <1>2, <1>10, <1>11, <1>12

\* A task that is over settles its message.
LEMMA SettlesCore ==
  ASSUME Core, NEW w \in Workers, link[w] = "up", NEW t \in Current(w),
         NEW frames \in Settles(t.msg),
         tasks' = [tasks EXCEPT ![w] = @ \ {t}],
         wire' = [wire EXCEPT ![w] = @ \o frames],
         done' = [done EXCEPT ![w] = IF Listens(w) THEN @ ELSE @ + 1],
         UNCHANGED <<brokerVars, connVars>>
  PROVE  Core'
<1>1. WorkersOK /\ WorkerInv(w) /\ t \in tasks[w] /\ Live(w) /\ Tracked(w)
  BY DEF Core, Current, WorkerInv, Live
<1>2. /\ tasks'[w] = tasks[w] \ {t} /\ wire'[w] = wire[w] \o frames
      /\ done'[w] = IF Listens(w) THEN done[w] ELSE done[w] + 1
      /\ done[w] \in Nat /\ Quota[w] \in Nat
  BY <1>1, WorkersAssumption DEF WorkersOK
<1>3. Current(w)' = Current(w) \ {t} /\ t \in Current(w)
  BY <1>2 DEF Current, connVars
<1>4. t.msg \in Messages /\ t.msg \in unacked[w]
  BY <1>1 DEF WorkersOK, Tasks, Tracked
<1>5. Orderly(w) /\ SettledOnce(w) /\ t.msg \notin Settled(w) /\ unacked' = unacked /\ latest' = latest
  BY <1>1 DEF WorkerInv, Tracked, SettledOnce, Settled, brokerVars
<1>6. /\ wire'[w] \in Seq(Frames) /\ Orderly(w)' /\ SettledOnce(w)'
      /\ Settled(w)' = Settled(w) \cup {t.msg}
  <2>1. unacked[w] \cup {t.msg} \subseteq unacked'[w]
    BY <1>4, <1>5
  <2> HIDE DEF Core
  <2> QED BY <1>1, <1>2, <1>4, <1>5, <2>1, SettlesOrder
<1>7. WithinLimits(w)' /\ Channels(w)' /\ Quiet(w)' /\ Live(w)'
  BY <1>1, <1>2, <1>3
     DEF WorkerInv, WithinLimits, Channels, Listens, Quiet, Live, brokerVars, connVars
<1>8. Tracked(w)'
  <2>1. {u.msg : u \in Current(w)} = {u.msg : u \in Current(w)'} \cup {t.msg}
    BY <1>3
  <2>2. unacked'[w] = {u.msg : u \in Current(w)'} \cup Settled(w)'
    BY <1>1, <1>5, <1>6, <2>1 DEF Tracked, Settled
  <2>3. \A u, v \in Current(w)' : u.msg = v.msg => u = v
    BY <1>1, <1>3 DEF Tracked
  <2>4. \A u \in Current(w)' : u.msg # t.msg /\ u.msg \notin Settled(w)
    BY <1>1, <1>3 DEF Tracked, Settled
  <2>5. \A u \in Current(w)' : u.msg \notin Settled(w)'
    BY <1>6, <2>4
  <2> QED BY <1>6, <2>2, <2>3, <2>5 DEF Tracked, Settled, SettledOnce
<1>9. WorkerInv(w)'
  BY <1>6, <1>7, <1>8 DEF WorkerInv
<1>10. /\ wire' = [wire EXCEPT ![w] = wire'[w]]
       /\ tasks'[w] \in SUBSET Tasks /\ tasks' = [tasks EXCEPT ![w] = tasks'[w]]
       /\ done'[w] \in Nat /\ done' = [done EXCEPT ![w] = done'[w]]
  BY <1>1, <1>2 DEF WorkersOK
<1> HIDE DEF Core
<1> QED BY <1>6, <1>9, <1>10, OnlyWorker

\* A worker that has not heard that its connection is lost: nothing is sent.
LEMMA LostCore ==
  ASSUME Core, NEW w \in Workers, link[w] = "lost", UNCHANGED <<brokerVars, connVars, wire>>,
         NEW T \in SUBSET Tasks, tasks' = [tasks EXCEPT ![w] = T],
         NEW d \in Nat, done' = [done EXCEPT ![w] = d],
         WithinLimits(w)', Channels(w)'
  PROVE  Core'
<1>1. WorkersOK /\ WorkerInv(w)
  BY DEF Core
<1>2. ~Live(w)' /\ Quiet(w)' /\ Orderly(w)'
  BY <1>1 DEF WorkerInv, Live, Quiet, Orderly, Names, Settling, brokerVars, connVars
<1>3. WorkerInv(w)'
  BY <1>2 DEF WorkerInv
<1>4. wire[w] \in Seq(Frames) /\ wire' = [wire EXCEPT ![w] = wire[w]]
  BY <1>1 DEF WorkersOK
<1> HIDE DEF Core
<1> QED BY <1>3, <1>4, OnlyWorker

\* A task that goes on, whatever has become of its connection.
LEMMA ProceedGoesOn ==
  ASSUME Core, NEW w \in Workers, NEW t \in tasks[w], NEW a \in Steps,
         Proceed(w, t, {[t EXCEPT !.at = a]}, GoesOn(t.msg))
  PROVE  Core'
<1>1. WorkersOK /\ WorkerInv(w)
  BY DEF Core
<1>2. CASE ~Usable(w, t)
  BY <1>2, ExitCore DEF Proceed
<1>3. CASE Usable(w, t)
  <2>1. /\ Send(w, GoesOn(t.msg))
        /\ tasks' = [tasks EXCEPT ![w] = (@ \ {t}) \cup {[t EXCEPT !.at = a]}]
        /\ UNCHANGED <<brokerVars, connVars, done>>
    BY <1>1, <1>3 DEF Proceed, WorkersOK
  <2>2. CASE link[w] = "up"
    <3>1. wire' = [wire EXCEPT ![w] = @ \o GoesOn(t.msg)] /\ t \in Current(w)
      BY <1>3, <2>1, <2>2 DEF Send, Usable, Current
    <3> HIDE DEF Core
    <3> QED BY <2>1, <2>2, <3>1, GoesOnCore
  <2>3. CASE link[w] = "lost"
    <3>1. wire' = wire
      BY <1>1, <2>1, <2>3 DEF Send, WorkersOK
    <3>2. tasks'[w] = (tasks[w] \ {t}) \cup {[t EXCEPT !.at = a]}
      BY <1>1, <2>1 DEF WorkersOK
    <3>3. /\ tasks'[w] \in SUBSET Tasks /\ Channels(w)'
          /\ ~Listens(w) => tasks[w] # {} /\ \A u, v \in tasks'[w] : u = v
      BY <1>1, <2>1, <3>2, TaskStays DEF WorkerInv
    <3>4. WithinLimits(w)'
      BY <1>1, <2>1, <3>3 DEF WorkerInv, WithinLimits, Listens, connVars
    <3>5. /\ tasks' = [tasks EXCEPT ![w] = tasks'[w]]
          /\ done[w] \in Nat /\ done' = [done EXCEPT ![w] = done[w]]
      BY <1>1, <2>1, <3>2 DEF WorkersOK
    <3> HIDE DEF Core
    <3> QED BY <2>1, <2>3, <3>1, <3>3, <3>4, <3>5, LostCore
  <2> QED BY <1>3, <2>2, <2>3 DEF Usable
<1> QED BY <1>2, <1>3

\* A task that is over.
LEMMA ProceedSettles ==
  ASSUME Core, NEW w \in Workers, NEW t \in tasks[w], NEW frames \in Settles(t.msg),
         Proceed(w, t, {}, frames)
  PROVE  Core'
<1>1. WorkersOK /\ WorkerInv(w)
  BY DEF Core
<1>2. CASE ~Usable(w, t)
  BY <1>2, ExitCore DEF Proceed
<1>3. CASE Usable(w, t)
  <2>1. /\ Send(w, frames)
        /\ tasks' = [tasks EXCEPT ![w] = @ \ {t}]
        /\ done' = [done EXCEPT ![w] = IF Listens(w) THEN @ ELSE @ + 1]
        /\ UNCHANGED <<brokerVars, connVars>>
    BY <1>3 DEF Proceed
  <2>2. CASE link[w] = "up"
    <3>1. wire' = [wire EXCEPT ![w] = @ \o frames] /\ t \in Current(w)
      BY <1>3, <2>1, <2>2 DEF Send, Usable, Current
    <3> HIDE DEF Core
    <3> QED BY <2>1, <2>2, <3>1, SettlesCore
  <2>3. CASE link[w] = "lost"
    <3>1. wire' = wire
      BY <1>1, <2>1, <2>3 DEF Send, WorkersOK
    <3>2. /\ tasks'[w] = tasks[w] \ {t} /\ tasks'[w] \in SUBSET Tasks
          /\ tasks' = [tasks EXCEPT ![w] = tasks'[w]]
      BY <1>1, <2>1 DEF WorkersOK
    <3>3. /\ done'[w] = (IF Listens(w) THEN done[w] ELSE done[w] + 1)
          /\ done[w] \in Nat /\ done'[w] \in Nat /\ Quota[w] \in Nat
          /\ done' = [done EXCEPT ![w] = done'[w]]
      <4>1. done \in [Workers -> Nat] /\ Quota[w] \in Nat
        BY <1>1, WorkersAssumption DEF WorkersOK
      <4>2. done[w] \in Nat /\ done'[w] = (IF Listens(w) THEN done[w] ELSE done[w] + 1)
        BY <2>1, <4>1
      <4>3. done'[w] \in Nat
        BY <4>2
      <4> QED BY <2>1, <4>1, <4>2, <4>3
    <3>4. WithinLimits(w)'
      BY <1>1, <2>1, <3>2, <3>3 DEF WorkerInv, WithinLimits, Listens, connVars
    <3>5. Channels(w)'
      BY <1>1, <2>1, <3>2 DEF WorkerInv, Channels, Current, connVars
    <3> HIDE DEF Core
    <3> QED BY <2>1, <2>3, <3>1, <3>2, <3>3, <3>4, <3>5, LostCore
  <2> QED BY <1>3, <2>2, <2>3 DEF Usable
<1> QED BY <1>2, <1>3
-----------------------------------------------------------------------------
(* The steps of a task.                                                    *)

LEMMA TaskStepCore ==
  ASSUME Core, NEW w \in Workers, NEW t \in tasks[w], TaskStep(w, t)
  PROVE  Core'
<1> USE DEF Steps
<1>1. CASE Announce(w, t)
  BY <1>1, ProceedGoesOn DEF Announce, GoesOn
<1>2. ASSUME NEW result \in Results, Ran(w, t, result) PROVE Core'
  <2>1. CASE Proceed(w, t, {}, <<Reply(t.msg, "ERROR"), Ack(t.msg)>>)
    <3>1. <<Reply(t.msg, "ERROR"), Ack(t.msg)>> \in Settles(t.msg)
      BY DEF Settles, Results
    <3> QED BY <2>1, <3>1, ProceedSettles
  <2>2. CASE /\ tasks' = [tasks EXCEPT ![w] = (@ \ {t}) \cup {[t EXCEPT !.at = result]}]
             /\ UNCHANGED <<brokerVars, connVars, wire, done>>
    BY <2>2, SilentCore
  <2> QED BY <1>2, <2>1, <2>2 DEF Ran
<1>3. CASE Refused(w, t)
  BY <1>3, SilentCore DEF Refused
<1>4. CASE Answer(w, t)
  <2>1. <<Reply(t.msg, t.at), Ack(t.msg)>> \in Settles(t.msg)
    BY <1>4 DEF Answer, Settles
  <2> QED BY <1>4, <2>1, ProceedSettles DEF Answer
<1>5. CASE HandBack(w, t)
  <2>1. <<Nack(t.msg)>> \in Settles(t.msg)
    BY DEF Settles
  <2> QED BY <1>5, <2>1, ProceedSettles DEF HandBack
<1> QED BY <1>1, <1>2, <1>3, <1>4, <1>5 DEF TaskStep
-----------------------------------------------------------------------------
(* Deliveries.                                                             *)

\* A message that is handed out is in nobody's hands, and is not finished.
LEMMA HandApart ==
  ASSUME Core, NEW w \in Workers, NEW m \in ready, Hand(w, m)
  PROVE  /\ BrokerOK' /\ Apart' /\ ResultIsLastWord'
         /\ m \in Messages /\ m \notin unacked[w] /\ latest' = latest
         /\ unacked' = [unacked EXCEPT ![w] = unacked[w] \cup {m}]
         /\ unacked'[w] = unacked[w] \cup {m}
<1>1. m \in Messages /\ \A v \in Workers : m \notin unacked[v]
  BY DEF Core, BrokerOK, Apart
<1>2. /\ unacked' = [unacked EXCEPT ![w] = unacked[w] \cup {m}]
      /\ unacked'[w] = unacked[w] \cup {m} /\ \A v \in Workers \ {w} : unacked'[v] = unacked[v]
      /\ ready' = ready \ {m} /\ latest' = latest
  BY DEF Core, WorkersOK, Hand
<1>3. BrokerOK'
  BY <1>2 DEF Core, BrokerOK
<1>4. Apart'
  <2>1. \A v \in Workers : unacked'[v] \cap ready' = {}
    BY <1>2 DEF Core, Apart
  <2>2. \A u, v \in Workers : u # v => unacked'[u] \cap unacked'[v] = {}
    BY <1>1, <1>2 DEF Core, Apart
  <2> QED BY <2>1, <2>2 DEF Apart
<1>5. ResultIsLastWord'
  <2> SUFFICES ASSUME NEW x \in Messages, Finished(x)' PROVE Finished(x)
    BY <1>2 DEF Core, ResultIsLastWord
  <2> QED BY <1>2 DEF Finished
<1> QED BY <1>1, <1>2, <1>3, <1>4, <1>5

LEMMA DeliverCore ==
  ASSUME Core, NEW w \in Workers, NEW m \in Messages, Deliver(w, m)
  PROVE  Core'
<1> DEFINE new == [msg |-> m, conn |-> conn[w], at |-> "pausing"]
<1>1. WorkersOK /\ WorkerInv(w) /\ link[w] = "up" /\ Live(w) /\ Tracked(w) /\ m \in ready /\ Hand(w, m)
      /\ conn[w] \in Nat
  BY DEF Core, Deliver, CanDeliver, WorkerInv, Live, WorkersOK
<1>2. /\ BrokerOK' /\ Apart' /\ ResultIsLastWord'
      /\ m \notin unacked[w] /\ latest' = latest
      /\ unacked' = [unacked EXCEPT ![w] = unacked[w] \cup {m}]
      /\ unacked'[w] = unacked[w] \cup {m}
  <2> HIDE DEF Core
  <2> QED BY <1>1, HandApart
<1>3. new \in Tasks /\ new.msg = m /\ new.conn = conn[w]
  BY <1>1 DEF Tasks, Steps
<1>4. tasks' = [tasks EXCEPT ![w] = tasks[w] \cup {new}]
  BY <1>1 DEF Deliver, WorkersOK
<1> HIDE DEF new
<1>5. tasks'[w] = tasks[w] \cup {new} /\ UNCHANGED <<wire, done, connVars>>
  BY <1>1, <1>4 DEF Deliver, Hand, WorkersOK
<1>6. WorkersOK'
  BY <1>1, <1>2, <1>3, <1>4, <1>5 DEF WorkersOK, connVars
<1>7. ASSUME NEW v \in Workers, v # w PROVE WorkerInv(v)'
  <2>1. Same(v)
    BY <1>1, <1>2, <1>4, <1>5, <1>7 DEF Same, WorkersOK, connVars
  <2> QED BY <1>2, <2>1, SameInv DEF Core
<1>8. WithinLimits(w)' /\ Channels(w)' /\ Quiet(w)' /\ Live(w)'
  <2>1. WithinLimits(w)'
    BY <1>1, <1>5 DEF Deliver, CanDeliver, WorkerInv, WithinLimits, Listens, connVars
  <2>2. Channels(w)' /\ Quiet(w)' /\ Live(w)'
    BY <1>1, <1>3, <1>5 DEF WorkerInv, Channels, Quiet, Live, connVars
  <2> QED BY <2>1, <2>2
<1>9. Current(w)' = Current(w) \cup {new} /\ Settling(w)' = Settling(w)
  BY <1>3, <1>5 DEF Current, Settling, connVars
<1>10. Orderly(w)'
  BY <1>1, <1>2, <1>5 DEF WorkerInv, Orderly, Names, Settling
<1>11. Tracked(w)'
  <2>1. \A u \in Current(w) : u.msg # m
    BY <1>1, <1>2 DEF Tracked
  <2>2. \A i \in Settling(w) : wire[w][i].msg # m
    BY <1>1, <1>2 DEF Tracked
  <2>3. \A u, v \in Current(w)' : u.msg = v.msg => u = v
    BY <1>1, <1>3, <1>9, <2>1 DEF Tracked
  <2>4. \A u \in Current(w)', i \in Settling(w)' : u.msg # wire'[w][i].msg
    BY <1>1, <1>3, <1>5, <1>9, <2>2 DEF Tracked
  <2>5. {u.msg : u \in Current(w)'} = {u.msg : u \in Current(w)} \cup {m}
    BY <1>3, <1>9
  <2>6. {wire'[w][i].msg : i \in Settling(w)'} = {wire[w][i].msg : i \in Settling(w)}
    BY <1>5, <1>9
  <2>7. unacked'[w] = {u.msg : u \in Current(w)'} \cup {wire'[w][i].msg : i \in Settling(w)'}
    BY <1>1, <1>2, <2>5, <2>6 DEF Tracked
  <2>8. \A i, j \in Settling(w)' : wire'[w][i].msg = wire'[w][j].msg => i = j
    BY <1>1, <1>5, <1>9 DEF Tracked
  <2> QED BY <2>3, <2>4, <2>7, <2>8 DEF Tracked
<1>12. WorkerInv(w)'
  BY <1>8, <1>10, <1>11 DEF WorkerInv
<1> QED BY <1>2, <1>6, <1>7, <1>12 DEF Core

LEMMA DeliverMalformedCore ==
  ASSUME Core, NEW w \in Workers, NEW m \in Messages, DeliverMalformed(w, m)
  PROVE  Core'
<1> DEFINE frames == <<Reply(m, "ERROR"), Ack(m)>>
<1>1. WorkersOK /\ WorkerInv(w) /\ link[w] = "up" /\ Live(w) /\ Tracked(w) /\ m \in ready /\ Hand(w, m)
  BY DEF Core, DeliverMalformed, CanDeliver, WorkerInv, Live
<1>2. /\ BrokerOK' /\ Apart' /\ ResultIsLastWord'
      /\ m \notin unacked[w] /\ latest' = latest
      /\ unacked' = [unacked EXCEPT ![w] = unacked[w] \cup {m}]
      /\ unacked'[w] = unacked[w] \cup {m}
  <2> HIDE DEF Core
  <2> QED BY <1>1, HandApart
<1>3. frames \in Settles(m)
  BY DEF Settles, Results
<1>4. wire' = [wire EXCEPT ![w] = wire[w] \o frames] /\ wire'[w] = wire[w] \o frames
  BY <1>1 DEF DeliverMalformed, Send, WorkersOK
<1> HIDE DEF frames
<1>5. UNCHANGED <<tasks, connVars>>
  BY DEF DeliverMalformed, Hand
<1>6. /\ done[w] \in Nat /\ done' = [done EXCEPT ![w] = done'[w]] /\ Quota[w] \in Nat
      /\ done'[w] = IF Listens(w) THEN done[w] ELSE done[w] + 1
  BY <1>1, WorkersAssumption DEF DeliverMalformed, WorkersOK
<1>7. Orderly(w) /\ SettledOnce(w) /\ m \notin Settled(w)
  BY <1>1, <1>2 DEF WorkerInv, Tracked, SettledOnce, Settled
<1>8. unacked[w] \cup {m} \subseteq unacked'[w]
  BY <1>2
<1>9. /\ wire'[w] \in Seq(Frames) /\ Orderly(w)' /\ SettledOnce(w)'
      /\ Settled(w)' = Settled(w) \cup {m}
  <2> HIDE DEF Core
  <2> QED BY <1>1, <1>2, <1>3, <1>4, <1>7, <1>8, SettlesOrder
<1>10. WorkersOK'
  <2>1. done'[w] \in Nat
    BY <1>6
  <2> QED BY <1>1, <1>2, <1>4, <1>5, <1>6, <1>9, <2>1 DEF WorkersOK, connVars
<1>11. ASSUME NEW v \in Workers, v # w PROVE WorkerInv(v)'
  <2>1. Same(v)
    BY <1>1, <1>2, <1>4, <1>5, <1>6, <1>11 DEF Same, WorkersOK, connVars
  <2> QED BY <1>2, <2>1, SameInv DEF Core
<1>12. WithinLimits(w)' /\ Channels(w)' /\ Quiet(w)' /\ Live(w)' /\ Current(w)' = Current(w)
  <2>1. ~Listens(w) => tasks[w] = {} /\ done[w] < Quota[w]
    BY DEF DeliverMalformed, CanDeliver
  <2>2. WithinLimits(w)'
    BY <1>1, <1>5, <1>6, <2>1 DEF WorkerInv, WithinLimits, Listens, connVars
  <2> QED BY <1>1, <1>5, <2>2 DEF WorkerInv, Channels, Quiet, Live, Current, connVars
<1>13. Tracked(w)'
  <2>1. unacked'[w] = {u.msg : u \in Current(w)'} \cup Settled(w)'
    BY <1>1, <1>2, <1>9, <1>12 DEF Tracked, Settled
  <2>2. \A u \in Current(w)' : u.msg # m /\ u.msg \notin Settled(w)
    BY <1>1, <1>2, <1>12 DEF Tracked, Settled
  <2>3. \A u \in Current(w)' : u.msg \notin Settled(w)'
    BY <1>9, <2>2
  <2>4. \A u, v \in Current(w)' : u.msg = v.msg => u = v
    BY <1>1, <1>12 DEF Tracked
  <2> QED BY <1>9, <2>1, <2>3, <2>4 DEF Tracked, Settled, SettledOnce
<1>14. WorkerInv(w)'
  BY <1>9, <1>12, <1>13 DEF WorkerInv
<1> QED BY <1>2, <1>10, <1>11, <1>14 DEF Core
-----------------------------------------------------------------------------
(* The end of a worker with a quota.                                       *)

LEMMA GiveUpCore == ASSUME Core, NEW w \in Workers, GiveUp(w) PROVE Core'
<1>1. WorkersOK /\ WorkerInv(w) /\ Quota[w] \in Nat
  BY WorkersAssumption DEF Core
<1>2. /\ wire[w] \in Seq(Frames) /\ wire' = [wire EXCEPT ![w] = wire[w]]
      /\ tasks[w] \in SUBSET Tasks /\ tasks' = [tasks EXCEPT ![w] = tasks[w]]
      /\ done' = [done EXCEPT ![w] = Quota[w]] /\ done'[w] = Quota[w]
  BY <1>1 DEF GiveUp, WorkersOK
<1>3. WithinLimits(w)'
  BY <1>1, <1>2 DEF GiveUp, WorkerInv, WithinLimits, Listens, connVars
<1>4. Channels(w)' /\ (Live(w) => Tracked(w))' /\ Orderly(w)' /\ Quiet(w)'
  BY <1>1 DEF GiveUp, WorkerInv, Channels, Current, Live, Tracked, Orderly, Names, Settling, Quiet,
              brokerVars, connVars
<1>5. WorkerInv(w)' /\ UNCHANGED <<brokerVars, connVars>>
  BY <1>3, <1>4 DEF WorkerInv, GiveUp
<1> HIDE DEF Core
<1> QED BY <1>1, <1>2, <1>5, OnlyWorker

\* The frame that closes the channel settles nothing.
LEMMA CloseChannelCore == ASSUME Core, NEW w \in Workers, CloseChannel(w) PROVE Core'
<1> DEFINE last == Len(wire[w]) + 1
<1>1. WorkersOK /\ WorkerInv(w) /\ link[w] = "up" /\ Live(w) /\ Tracked(w)
  BY DEF Core, CloseChannel, WorkerInv, Live
<1>2. wire' = [wire EXCEPT ![w] = wire[w] \o <<Close>>] /\ wire'[w] = wire[w] \o <<Close>>
      /\ link' = [link EXCEPT ![w] = "closing"] /\ link'[w] = "closing"
  BY <1>1 DEF CloseChannel, Send, WorkersOK
<1>3. <<Close>> \in Seq(Frames) /\ Len(<<Close>>) = 1 /\ <<Close>>[1] = Close
  <2>1. Close \in Frames
    BY DEF Close, Frames
  <2> QED BY <2>1
<1>4. /\ wire'[w] \in Seq(Frames)
      /\ DOMAIN wire[w] = 1..Len(wire[w]) /\ Len(wire[w]) \in Nat
      /\ DOMAIN wire'[w] = 1..Len(wire[w]) + Len(<<Close>>)
      /\ \A i \in DOMAIN wire[w] : wire'[w][i] = wire[w][i]
      /\ \A i \in 1..Len(<<Close>>) : wire'[w][Len(wire[w]) + i] = <<Close>>[i]
  BY <1>1, <1>2, <1>3, Appended
<1>5. DOMAIN wire'[w] = DOMAIN wire[w] \cup {last} /\ wire'[w][last].type = "close"
      /\ last \in Nat /\ \A i \in DOMAIN wire[w] : i < last
  BY <1>3, <1>4 DEF Close
<1> HIDE DEF last
<1>6. Settling(w)' = Settling(w) /\ \A i \in Settling(w) : i \in DOMAIN wire[w]
  BY <1>4, <1>5 DEF Settling
<1>7. UNCHANGED <<brokerVars, conn, retry, tasks, done>>
  BY DEF CloseChannel
<1>8. BrokerOK' /\ Apart' /\ ResultIsLastWord' /\ WorkersOK'
  <2>1. BrokerOK' /\ Apart' /\ ResultIsLastWord'
    BY <1>7 DEF brokerVars, Core, BrokerOK, Apart, ResultIsLastWord, Finished
  <2>2. WorkersOK'
    BY <1>1, <1>2, <1>4, <1>7 DEF brokerVars, WorkersOK, LinkStates
  <2> QED BY <2>1, <2>2
<1>9. ASSUME NEW v \in Workers, v # w PROVE WorkerInv(v)'
  <2>1. Same(v)
    BY <1>1, <1>2, <1>7, <1>9 DEF Same, WorkersOK, brokerVars
  <2> QED BY <1>7, <2>1, SameInv DEF Core, brokerVars
<1>10. WithinLimits(w)' /\ Channels(w)' /\ Quiet(w)' /\ Live(w)' /\ Current(w)' = Current(w)
  BY <1>1, <1>2, <1>7
     DEF WorkerInv, WithinLimits, Listens, Channels, Current, Quiet, Live, brokerVars
<1>11. Orderly(w)'
  <2>1. \A i \in DOMAIN wire'[w] : wire'[w][i].type # "close" => wire'[w][i].msg \in unacked'[w]
    BY <1>1, <1>4, <1>5, <1>7 DEF WorkerInv, Orderly, brokerVars
  <2>2. ASSUME NEW i \in Settling(w)', NEW j \in DOMAIN wire'[w], i < j
        PROVE  ~Names(wire'[w][j], wire'[w][i].msg)
    <3>1. i \in Settling(w) /\ wire'[w][i] = wire[w][i]
      BY <1>4, <1>6, <2>2
    <3>2. CASE j = last
      BY <1>5, <3>2 DEF Names
    <3>3. CASE j \in DOMAIN wire[w]
      <4>1. ~Names(wire[w][j], wire[w][i].msg)
        BY <1>1, <2>2, <3>1, <3>3 DEF WorkerInv, Orderly
      <4> QED BY <1>4, <3>1, <3>3, <4>1
    <3> QED BY <1>5, <3>2, <3>3
  <2>3. ASSUME NEW i \in DOMAIN wire'[w], wire'[w][i].type = "ack"
        PROVE  IF i = 1 THEN latest'[wire'[w][i].msg] \in Results
               ELSE wire'[w][i - 1].type = "reply" /\ wire'[w][i - 1].msg = wire'[w][i].msg
                    /\ wire'[w][i - 1].word \in Results
    <3>1. i \in DOMAIN wire[w] /\ wire[w][i].type = "ack"
      BY <1>4, <1>5, <2>3
    <3>2. IF i = 1 THEN latest[wire[w][i].msg] \in Results
          ELSE wire[w][i - 1].type = "reply" /\ wire[w][i - 1].msg = wire[w][i].msg
               /\ wire[w][i - 1].word \in Results
      BY <1>1, <3>1 DEF WorkerInv, Orderly
    <3>3. i # 1 => i - 1 \in DOMAIN wire[w]
      BY <1>4, <3>1
    <3> QED BY <1>4, <1>7, <3>1, <3>2, <3>3 DEF brokerVars
  <2> QED BY <2>1, <2>2, <2>3 DEF Orderly
<1>12. Tracked(w)'
  <2>1. \A i \in Settling(w) : wire'[w][i].msg = wire[w][i].msg
    BY <1>4, <1>6
  <2>2. {wire'[w][i].msg : i \in Settling(w)'} = {wire[w][i].msg : i \in Settling(w)}
    BY <1>6, <2>1
  <2>3. unacked'[w] = {u.msg : u \in Current(w)'} \cup {wire'[w][i].msg : i \in Settling(w)'}
    BY <1>1, <1>7, <1>10, <2>2 DEF Tracked, brokerVars
  <2>4. /\ \A u, v \in Current(w)' : u.msg = v.msg => u = v
        /\ \A i, j \in Settling(w)' : wire'[w][i].msg = wire'[w][j].msg => i = j
        /\ \A u \in Current(w)', i \in Settling(w)' : u.msg # wire'[w][i].msg
    BY <1>1, <1>6, <1>10, <2>1 DEF Tracked
  <2> QED BY <2>3, <2>4 DEF Tracked
<1>13. WorkerInv(w)'
  BY <1>10, <1>11, <1>12 DEF WorkerInv
<1> QED BY <1>8, <1>9, <1>13 DEF Core
-----------------------------------------------------------------------------
(* The broker receives.                                                    *)

\* The wire without its first frame.
LEMMA Received ==
  ASSUME WorkersOK, NEW w \in Workers, wire[w] # <<>>, wire'[w] = Tail(wire[w])
  PROVE  /\ wire'[w] \in Seq(Frames)
         /\ 1 \in DOMAIN wire[w] /\ Head(wire[w]) = wire[w][1] /\ wire[w][1] \in Frames
         /\ \A i \in DOMAIN wire'[w] :
              i \in Nat \ {0} /\ i + 1 \in DOMAIN wire[w] /\ wire'[w][i] = wire[w][i + 1]
         /\ \A i \in DOMAIN wire[w] : i \in Nat \ {0} /\ (i # 1 => i - 1 \in DOMAIN wire'[w])
<1> DEFINE rest == Tail(wire[w])
<1>1. wire[w] \in Seq(Frames) /\ wire[w] # <<>>
  BY DEF WorkersOK
<1>2. /\ Head(wire[w]) \in Frames
      /\ rest \in Seq(Frames)
      /\ Len(rest) = Len(wire[w]) - 1
      /\ \A i \in 1..Len(rest) : rest[i] = wire[w][i + 1]
  BY <1>1, HeadTailProperties
<1>3. DOMAIN rest = 1..Len(rest) /\ DOMAIN wire[w] = 1..Len(wire[w]) /\ Len(wire[w]) \in Nat
  BY <1>1, <1>2, LenProperties
<1>4. Head(wire[w]) = wire[w][1] /\ Len(wire[w]) # 0
  BY <1>1, EmptySeq
<1> HIDE DEF rest
<1>5. wire'[w] = rest
  BY DEF rest
<1>6. 1 \in DOMAIN wire[w] /\ wire[w][1] \in Frames
  BY <1>2, <1>3, <1>4
<1>7. \A i \in DOMAIN rest :
        i \in Nat \ {0} /\ i + 1 \in DOMAIN wire[w] /\ rest[i] = wire[w][i + 1]
  BY <1>2, <1>3
<1>8. \A i \in DOMAIN wire[w] : i \in Nat \ {0} /\ (i # 1 => i - 1 \in DOMAIN rest)
  BY <1>2, <1>3
<1> QED BY <1>2, <1>4, <1>5, <1>6, <1>7, <1>8

\* What remains to be received settles what it did, at positions one less.
LEMMA ReceivedSettling ==
  ASSUME WorkersOK, NEW w \in Workers, wire[w] # <<>>, wire'[w] = Tail(wire[w])
  PROVE  /\ \A i \in Settling(w)' : i \in Nat /\ i + 1 \in Settling(w) /\ wire'[w][i] = wire[w][i + 1]
         /\ Settled(w)' = {wire[w][i].msg : i \in Settling(w) \ {1}}
<1>1. /\ \A i \in DOMAIN wire'[w] :
              i \in Nat \ {0} /\ i + 1 \in DOMAIN wire[w] /\ wire'[w][i] = wire[w][i + 1]
      /\ \A i \in DOMAIN wire[w] : i \in Nat \ {0} /\ (i # 1 => i - 1 \in DOMAIN wire'[w])
  BY Received
<1>2. ASSUME NEW i \in Settling(w)'
      PROVE  i \in Nat \ {0} /\ i + 1 \in Settling(w) /\ wire'[w][i] = wire[w][i + 1]
  BY <1>1, <1>2 DEF Settling
<1>3. ASSUME NEW i \in Settling(w) \ {1}
      PROVE  i - 1 \in Settling(w)' /\ wire'[w][i - 1] = wire[w][i]
  <2>1. i \in Nat \ {0} /\ i - 1 \in DOMAIN wire'[w] /\ wire[w][i].type \in {"ack", "nack"}
    BY <1>1, <1>3 DEF Settling
  <2>2. wire'[w][i - 1] = wire[w][(i - 1) + 1] /\ (i - 1) + 1 = i
    BY <1>1, <2>1
  <2>3. wire'[w][i - 1] = wire[w][i]
    BY <2>2
  <2> QED BY <2>1, <2>3 DEF Settling
<1>4. ASSUME NEW m \in Settled(w)' PROVE m \in {wire[w][i].msg : i \in Settling(w) \ {1}}
  <2>1. PICK i \in Settling(w)' : m = wire'[w][i].msg
    BY DEF Settled
  <2>2. i \in Nat \ {0} /\ i + 1 \in Settling(w) /\ wire'[w][i] = wire[w][i + 1]
    BY <1>2
  <2>3. i + 1 # 1
    BY <2>2
  <2> QED BY <2>1, <2>2, <2>3
<1>5. ASSUME NEW m \in {wire[w][i].msg : i \in Settling(w) \ {1}} PROVE m \in Settled(w)'
  <2>1. PICK i \in Settling(w) \ {1} : m = wire[w][i].msg
    OBVIOUS
  <2>2. i - 1 \in Settling(w)' /\ m = wire'[w][i - 1].msg
    BY <1>3, <2>1
  <2> QED BY <2>2 DEF Settled
<1> QED BY <1>2, <1>4, <1>5

\* Whatever the frame is, its effect on what the broker keeps for w is as follows.
Effect(w) ==
  LET frame == wire[w][1]
  IN  \/ /\ frame.type = "reply"
         /\ unacked' = unacked
         /\ latest' = [latest EXCEPT ![frame.msg] = frame.word]
      \/ /\ frame.type \in {"ack", "nack"}
         /\ unacked' = [unacked EXCEPT ![w] = @ \ {frame.msg}]
         /\ latest' = latest

LEMMA EffectInv ==
  ASSUME Core, NEW w \in Workers, wire[w] # <<>>, wire' = [wire EXCEPT ![w] = Tail(@)],
         Effect(w), UNCHANGED <<connVars, tasks, done>>
  PROVE  WorkersOK' /\ \A v \in Workers : WorkerInv(v)'
<1> DEFINE frame == wire[w][1]
<1>1. WorkersOK /\ WorkerInv(w) /\ Orderly(w) /\ Live(w) /\ Tracked(w)
  BY DEF Core, WorkerInv, Quiet
<1>2. wire'[w] = Tail(wire[w])
  BY <1>1 DEF WorkersOK
<1>3. /\ wire'[w] \in Seq(Frames)
      /\ 1 \in DOMAIN wire[w] /\ frame \in Frames
      /\ \A i \in DOMAIN wire'[w] :
           i \in Nat \ {0} /\ i + 1 \in DOMAIN wire[w] /\ wire'[w][i] = wire[w][i + 1]
  BY <1>1, <1>2, Received
<1>4. /\ \A i \in Settling(w)' : i \in Nat /\ i + 1 \in Settling(w) /\ wire'[w][i] = wire[w][i + 1]
      /\ Settled(w)' = {wire[w][i].msg : i \in Settling(w) \ {1}}
  BY <1>1, <1>2, ReceivedSettling
<1>5. frame.type # "close" /\ frame.msg \in unacked[w]
  BY <1>1, <1>3 DEF Effect, Orderly
<1>6. \/ frame.type = "reply" /\ 1 \notin Settling(w) /\ unacked' = unacked
         /\ latest' = [latest EXCEPT ![frame.msg] = frame.word]
      \/ frame.type # "reply" /\ 1 \in Settling(w)
         /\ unacked' = [unacked EXCEPT ![w] = unacked[w] \ {frame.msg}] /\ latest' = latest
  BY <1>1, <1>3 DEF Effect, Settling, WorkersOK
<1>7. WorkersOK'
  <2>1. wire' \in [Workers -> Seq(Frames)]
    BY <1>1, <1>3 DEF WorkersOK
  <2>2. unacked' \in [Workers -> SUBSET Messages]
    BY <1>1, <1>6 DEF WorkersOK
  <2> QED BY <1>1, <2>1, <2>2 DEF WorkersOK, connVars
<1>8. ASSUME NEW v \in Workers, v # w PROVE WorkerInv(v)'
  <2>1. Same(v)
    BY <1>1, <1>6, <1>8 DEF Same, WorkersOK, connVars
  <2>2. \A m \in unacked[v] : latest'[m] = latest[m]
    <3>1. frame.msg \notin unacked[v]
      BY <1>5, <1>8 DEF Core, Apart
    <3> QED BY <1>6, <3>1 DEF Core, BrokerOK, WorkersOK
  <2> QED BY <2>1, <2>2, SameInv DEF Core
<1>9. WithinLimits(w)' /\ Channels(w)' /\ Live(w)' /\ Quiet(w)' /\ Current(w)' = Current(w)
  BY <1>1 DEF WorkerInv, WithinLimits, Listens, Channels, Current, Live, Quiet, connVars
<1> HIDE DEF Core, frame
<1>10. Orderly(w)'
  <2>1. ASSUME NEW i \in DOMAIN wire'[w], wire'[w][i].type # "close"
        PROVE  wire'[w][i].msg \in unacked'[w]
    <3>1. wire[w][i + 1].msg \in unacked[w] /\ wire'[w][i] = wire[w][i + 1] /\ 1 < i + 1
          /\ i + 1 \in DOMAIN wire[w]
      BY <1>1, <1>3, <2>1 DEF Orderly
    <3>2. 1 \in Settling(w) => ~Names(wire[w][i + 1], frame.msg)
      BY <1>1, <3>1 DEF Orderly, frame
    <3> QED BY <1>1, <1>6, <2>1, <3>1, <3>2 DEF Names, WorkersOK
  <2>2. ASSUME NEW i \in Settling(w)', NEW j \in DOMAIN wire'[w], i < j
        PROVE  ~Names(wire'[w][j], wire'[w][i].msg)
    <3>1. i + 1 \in Settling(w) /\ wire'[w][i] = wire[w][i + 1] /\ i \in Nat
      BY <1>4, <2>2
    <3>2. j + 1 \in DOMAIN wire[w] /\ wire'[w][j] = wire[w][j + 1] /\ j \in Nat
      BY <1>3, <2>2
    <3>3. i + 1 < j + 1
      BY <2>2, <3>1, <3>2
    <3>4. ~Names(wire[w][j + 1], wire[w][i + 1].msg)
      BY <1>1, <3>1, <3>2, <3>3 DEF Orderly
    <3> QED BY <3>1, <3>2, <3>4
  <2>3. ASSUME NEW i \in DOMAIN wire'[w], wire'[w][i].type = "ack"
        PROVE  IF i = 1 THEN latest'[wire'[w][i].msg] \in Results
               ELSE wire'[w][i - 1].type = "reply" /\ wire'[w][i - 1].msg = wire'[w][i].msg
                    /\ wire'[w][i - 1].word \in Results
    <3>1. wire'[w][i] = wire[w][i + 1] /\ i \in Nat \ {0} /\ i + 1 \in DOMAIN wire[w] /\ i + 1 # 1
          /\ (i + 1) - 1 = i
      BY <1>3, <2>3
    <3>2. wire[w][i].type = "reply" /\ wire[w][i].msg = wire[w][i + 1].msg /\ wire[w][i].word \in Results
      <4>1. wire[w][i + 1].type = "ack"
        BY <2>3, <3>1
      <4>2. /\ wire[w][(i + 1) - 1].type = "reply" /\ wire[w][(i + 1) - 1].msg = wire[w][i + 1].msg
            /\ wire[w][(i + 1) - 1].word \in Results
        BY <1>1, <3>1, <4>1 DEF Orderly
      <4> QED BY <3>1, <4>2
    <3>3. CASE i = 1
      <4>1. frame.type = "reply" /\ frame.msg = wire'[w][i].msg /\ frame.word \in Results
        BY <3>1, <3>2, <3>3 DEF frame
      <4>2. frame.msg \in Messages
        BY <1>1, <1>5 DEF WorkersOK
      <4>3. latest' = [latest EXCEPT ![frame.msg] = frame.word]
        BY <1>6, <4>1
      <4> QED BY <3>3, <4>1, <4>2, <4>3 DEF Core, BrokerOK
    <3>4. CASE i # 1
      <4>1. i - 1 \in DOMAIN wire'[w] /\ (i - 1) + 1 = i
        <5>1. \A k \in DOMAIN wire[w] : k \in Nat \ {0} /\ (k # 1 => k - 1 \in DOMAIN wire'[w])
          BY <1>1, <1>2, Received
        <5>2. DOMAIN wire'[w] = 1..Len(wire'[w]) /\ Len(wire'[w]) \in Nat
          BY <1>3, LenProperties
        <5> QED BY <3>1, <3>4, <5>2
      <4>2. wire'[w][i - 1] = wire[w][(i - 1) + 1]
        BY <1>3, <4>1
      <4>3. wire'[w][i - 1] = wire[w][i]
        BY <4>1, <4>2
      <4> QED BY <3>1, <3>2, <3>4, <4>3
    <3> QED BY <3>3, <3>4
  <2> QED BY <2>1, <2>2, <2>3 DEF Orderly
<1>11. Tracked(w)'
  <2>1. \A i, j \in Settling(w)' : wire'[w][i].msg = wire'[w][j].msg => i = j
    <3> SUFFICES ASSUME NEW i \in Settling(w)', NEW j \in Settling(w)',
                        wire'[w][i].msg = wire'[w][j].msg
                 PROVE  i = j
      OBVIOUS
    <3>1. i \in Nat /\ i + 1 \in Settling(w) /\ wire'[w][i] = wire[w][i + 1]
      BY <1>4
    <3>2. j \in Nat /\ j + 1 \in Settling(w) /\ wire'[w][j] = wire[w][j + 1]
      BY <1>4
    <3>3. i + 1 = j + 1
      BY <1>1, <3>1, <3>2 DEF Tracked
    <3> QED BY <3>1, <3>2, <3>3
  <2>2. \A u \in Current(w)' : u.msg \notin Settled(w)'
    BY <1>1, <1>4, <1>9 DEF Tracked
  <2>3. \A u, v \in Current(w)' : u.msg = v.msg => u = v
    BY <1>1, <1>9 DEF Tracked
  <2>4. unacked'[w] = {u.msg : u \in Current(w)} \cup {wire[w][i].msg : i \in Settling(w) \ {1}}
    <3>1. CASE 1 \notin Settling(w) /\ unacked' = unacked
      BY <1>1, <3>1 DEF Tracked
    <3>2. CASE 1 \in Settling(w) /\ unacked' = [unacked EXCEPT ![w] = unacked[w] \ {frame.msg}]
      <4>1. unacked'[w] = unacked[w] \ {frame.msg}
        BY <1>1, <3>2 DEF WorkersOK
      <4>2. frame.msg \notin {u.msg : u \in Current(w)}
        BY <1>1, <3>2 DEF Tracked, frame
      <4>3. frame.msg \notin {wire[w][i].msg : i \in Settling(w) \ {1}}
        BY <1>1, <3>2 DEF Tracked, frame
      <4>4. {wire[w][i].msg : i \in Settling(w)}
              = {wire[w][i].msg : i \in Settling(w) \ {1}} \cup {frame.msg}
        BY <3>2 DEF frame
      <4> QED BY <1>1, <4>1, <4>2, <4>3, <4>4 DEF Tracked
    <3> QED BY <1>6, <3>1, <3>2
  <2>5. unacked'[w] = {u.msg : u \in Current(w)'} \cup Settled(w)'
    BY <1>4, <1>9, <2>4
  <2>6. \A u \in Current(w)', i \in Settling(w)' : u.msg # wire'[w][i].msg
    BY <2>2 DEF Settled
  <2>7. unacked'[w] = {u.msg : u \in Current(w)'} \cup {wire'[w][i].msg : i \in Settling(w)'}
    BY <2>5 DEF Settled
  <2> QED BY <2>1, <2>3, <2>6, <2>7 DEF Tracked
<1>12. WorkerInv(w)'
  BY <1>9, <1>10, <1>11 DEF WorkerInv
<1> QED BY <1>7, <1>8, <1>12

LEMMA BrokerReceivesCore ==
  ASSUME Core, NEW w \in Workers, BrokerReceives(w)
  PROVE  Core'
<1>1. /\ WorkersOK /\ Orderly(w) /\ wire[w] # <<>>
      /\ 1 \in DOMAIN wire[w] /\ Head(wire[w]) = wire[w][1] /\ wire[w][1] \in Frames
  <2>1. WorkersOK /\ Orderly(w) /\ wire[w] # <<>>
    BY DEF Core, WorkerInv, BrokerReceives
  <2>2. wire[w] \in Seq(Frames)
    BY <2>1 DEF WorkersOK
  <2>3. Head(wire[w]) = wire[w][1] /\ Len(wire[w]) # 0 /\ Head(wire[w]) \in Frames
    BY <2>1, <2>2, EmptySeq, HeadTailProperties
  <2>4. 1 \in DOMAIN wire[w]
    BY <2>2, <2>3, LenProperties
  <2> QED BY <2>1, <2>3, <2>4
<1> DEFINE frame == wire[w][1]
<1>2. frame.type # "close" => frame.msg \in unacked[w] /\ frame.msg \in Messages
  BY <1>1 DEF Orderly, WorkersOK
<1>3. frame.type = "reply" => frame.word \in Results \cup {"PROCESSING"}
  BY <1>1 DEF Frames
<1>4. CASE BrokerReplies(w)
  <2>1. /\ wire' = [wire EXCEPT ![w] = Tail(@)] /\ Effect(w) /\ UNCHANGED <<connVars, tasks, done>>
        /\ frame.type = "reply" /\ latest' = [latest EXCEPT ![frame.msg] = frame.word]
        /\ UNCHANGED <<ready, unacked>>
    BY <1>1, <1>4 DEF BrokerReplies, Effect
  <2>2. WorkersOK' /\ \A v \in Workers : WorkerInv(v)'
    <3> HIDE DEF Core
    <3> QED BY <1>1, <2>1, EffectInv
  <2>3. BrokerOK' /\ Apart'
    BY <1>2, <1>3, <2>1 DEF Core, BrokerOK, Apart
  <2>4. ResultIsLastWord'
    <3> SUFFICES ASSUME NEW m \in Messages, Finished(m)' PROVE latest'[m] = latest[m] /\ Finished(m)
      BY DEF Core, ResultIsLastWord
    <3>1. Finished(m) /\ m # frame.msg
      BY <1>2, <2>1 DEF Finished
    <3> QED BY <2>1, <3>1 DEF Core, BrokerOK
  <2> QED BY <2>2, <2>3, <2>4 DEF Core
<1>5. CASE BrokerAcks(w)
  <2>1. /\ wire' = [wire EXCEPT ![w] = Tail(@)] /\ Effect(w) /\ UNCHANGED <<connVars, tasks, done>>
        /\ frame.type = "ack" /\ unacked' = [unacked EXCEPT ![w] = unacked[w] \ {frame.msg}]
        /\ UNCHANGED <<ready, latest>>
    BY <1>1, <1>5 DEF BrokerAcks, Effect, WorkersOK
  <2>2. WorkersOK' /\ \A v \in Workers : WorkerInv(v)'
    <3> HIDE DEF Core
    <3> QED BY <1>1, <2>1, EffectInv
  <2>3. BrokerOK' /\ Apart'
    BY <1>1, <2>1 DEF Core, BrokerOK, Apart, WorkersOK
  <2>4. ResultIsLastWord'
    <3> SUFFICES ASSUME NEW m \in Messages, Finished(m)' PROVE latest[m] \in Results
      BY <2>1 DEF ResultIsLastWord
    <3>1. CASE m = frame.msg
      BY <1>1, <2>1, <3>1 DEF Orderly
    <3>2. CASE m # frame.msg
      BY <1>1, <2>1, <3>2 DEF Finished, WorkersOK, Core, ResultIsLastWord
    <3> QED BY <3>1, <3>2
  <2> QED BY <2>2, <2>3, <2>4 DEF Core
<1>6. CASE BrokerRequeues(w)
  <2>1. /\ wire' = [wire EXCEPT ![w] = Tail(@)] /\ Effect(w) /\ UNCHANGED <<connVars, tasks, done>>
        /\ frame.type = "nack" /\ unacked' = [unacked EXCEPT ![w] = unacked[w] \ {frame.msg}]
        /\ ready' = ready \cup {frame.msg} /\ UNCHANGED latest
    BY <1>1, <1>6 DEF BrokerRequeues, Effect, WorkersOK
  <2>2. WorkersOK' /\ \A v \in Workers : WorkerInv(v)'
    <3> HIDE DEF Core
    <3> QED BY <1>1, <2>1, EffectInv
  <2>3. BrokerOK' /\ Apart'
    <3>1. BrokerOK'
      BY <1>2, <2>1 DEF Core, BrokerOK
    <3>2. \A v \in Workers \ {w} : unacked'[v] = unacked[v] /\ frame.msg \notin unacked[v]
      BY <1>1, <1>2, <2>1 DEF Core, Apart, WorkersOK
    <3>3. unacked'[w] = unacked[w] \ {frame.msg}
      BY <1>1, <2>1 DEF WorkersOK
    <3>4. Apart'
      BY <2>1, <3>2, <3>3 DEF Core, Apart
    <3> QED BY <3>1, <3>4
  <2>4. ResultIsLastWord'
    <3> SUFFICES ASSUME NEW m \in Messages, Finished(m)' PROVE Finished(m)
      BY <2>1 DEF Core, ResultIsLastWord
    <3> QED BY <1>1, <2>1 DEF Finished, WorkersOK
  <2> QED BY <2>2, <2>3, <2>4 DEF Core
<1>7. CASE BrokerCloses(w)
  BY <1>7, ExitCore DEF BrokerCloses
<1> QED BY <1>4, <1>5, <1>6, <1>7 DEF BrokerReceives
-----------------------------------------------------------------------------
(* The invariant holds.                                                    *)

LEMMA StepLimits == ASSUME LimitsOK, Next PROVE LimitsOK'
<1> USE LimitsAssumption DEF LimitsOK, limitVars
<1>1. CASE Idle
  BY <1>1 DEF Idle, vars
<1>2. ASSUME NEW w \in Workers, WorkerStep(w) PROVE LimitsOK'
  <2>1. CASE Connect(w) \/ ConnectFails(w) \/ OpenChannel(w) \/ ChannelFails(w)
    BY <2>1 DEF Connect, ConnectFails, OpenChannel, ChannelFails
  <2>2. CASE ConnectionLost(w) \/ CloseEvent(w) \/ Kill(w)
    BY <2>2 DEF ConnectionLost, CloseEvent, Kill
  <2>3. CASE \E m \in Messages : Deliver(w, m) \/ DeliverMalformed(w, m)
    BY <2>3 DEF Deliver, DeliverMalformed, Hand
  <2>4. CASE \E t \in tasks[w] : TaskStep(w, t)
    BY <2>4 DEF TaskStep, Announce, Ran, Refused, Answer, HandBack
  <2>5. CASE GiveUp(w) \/ CloseChannel(w) \/ BrokerReceives(w)
    BY <2>5 DEF GiveUp, CloseChannel, BrokerReceives
  <2> QED BY <1>2, <2>1, <2>2, <2>3, <2>4, <2>5 DEF WorkerStep
<1> QED BY <1>1, <1>2 DEF Next

LEMMA StepCore == ASSUME Core, NEW w \in Workers, WorkerStep(w) PROVE Core'
<1>1. CASE Connect(w)
  BY <1>1, ConnectCore
<1>2. CASE ConnectFails(w)
  BY <1>2, ReconnectCore DEF ConnectFails
<1>3. CASE OpenChannel(w)
  BY <1>3, OpenChannelCore
<1>4. CASE ChannelFails(w)
  BY <1>4, ExitCore DEF ChannelFails
<1>5. CASE ConnectionLost(w)
  BY <1>5, ConnectionLostCore
<1>6. CASE CloseEvent(w)
  BY <1>6, ReconnectCore DEF CloseEvent
<1>7. CASE Kill(w)
  BY <1>7, ExitCore DEF Kill
<1>8. ASSUME NEW m \in Messages, Deliver(w, m) \/ DeliverMalformed(w, m) PROVE Core'
  BY <1>8, DeliverCore, DeliverMalformedCore
<1>9. ASSUME NEW t \in tasks[w], TaskStep(w, t) PROVE Core'
  BY <1>9, TaskStepCore
<1>10. CASE GiveUp(w)
  BY <1>10, GiveUpCore
<1>11. CASE CloseChannel(w)
  BY <1>11, CloseChannelCore
<1>12. CASE BrokerReceives(w)
  BY <1>12, BrokerReceivesCore
<1> QED BY <1>1, <1>2, <1>3, <1>4, <1>5, <1>6, <1>7, <1>8, <1>9, <1>10, <1>11, <1>12 DEF WorkerStep

LEMMA StutterCore == ASSUME Core, UNCHANGED vars PROVE Core'
<1>1. BrokerOK' /\ WorkersOK' /\ Apart' /\ ResultIsLastWord'
  BY DEF vars, Core, BrokerOK, WorkersOK, Apart, ResultIsLastWord, Finished
<1>2. ASSUME NEW w \in Workers PROVE WorkerInv(w)'
  BY SameInv DEF Core, WorkersOK, vars, Same
<1> QED BY <1>1, <1>2 DEF Core

LEMMA NextIInv == ASSUME IInv, [Next]_vars PROVE IInv'
<1>1. CASE UNCHANGED vars
  BY <1>1, StutterCore DEF IInv, LimitsOK, vars
<1>2. CASE Idle
  BY <1>2, StutterCore, StepLimits DEF IInv, Next, Idle
<1>3. ASSUME NEW w \in Workers, WorkerStep(w) PROVE IInv'
  BY <1>3, StepCore, StepLimits DEF IInv, Next
<1> QED BY <1>1, <1>2, <1>3 DEF Next

\* The inductive invariant holds: a message is in one queue or on one connection, a
\* delivery is tracked, and the frames of a channel are in the order in which a task
\* sends them.
THEOREM Inductive == Spec => []IInv
<1>1. Init => IInv
  BY InitIInv
<1>2. IInv /\ [Next]_vars => IInv'
  BY NextIInv
<1> QED BY <1>1, <1>2, PTL DEF Spec

\* A delivery on a live channel is being worked on by one task, or one ack or nack for
\* it is under way, whatever connections and processes were lost before; and the
\* variables have their types and limits (onMessageReceived, queueHandler.js).
THEOREM EveryDeliveryTracked == Spec => []DeliveriesTracked
<1>1. IInv => DeliveriesTracked
  <2> SUFFICES ASSUME IInv PROVE DeliveriesTracked
    OBVIOUS
  <2>1. TypeOK
    <3>1. \A w \in Workers : retry[w] \in 0..MaxRetries /\ done[w] \in 0..Quota[w]
      BY WorkersAssumption DEF IInv, Core, WorkersOK, WorkerInv, WithinLimits
    <3> QED BY <3>1 DEF IInv, LimitsOK, Core, BrokerOK, WorkersOK, TypeOK
  <2>2. ASSUME NEW w \in Workers, link[w] \in {"up", "closing"} PROVE Tracked(w)
    BY <2>2 DEF IInv, Core, WorkerInv, Live
  <2> QED BY <2>1, <2>2 DEF DeliveriesTracked, Tracked
<1> QED BY <1>1, Inductive, PTL

\* When the broker is finished with a message the result has been received, and
\* nothing was received after it (the reply before the ack of onMessageReceived).
THEOREM ResultLast == Spec => []ResultIsLastWord
<1>1. IInv => ResultIsLastWord
  BY DEF IInv, Core
<1> QED BY <1>1, Inductive, PTL
-----------------------------------------------------------------------------
(* The workers implement TaskDelivery.                                     *)

\* The status of every message, as Delivery has it.
Status == [m \in Messages |->
             IF m \in ready THEN "waiting" ELSE IF Finished(m) THEN "finished" ELSE "held"]

\* What a step does to the broker: it puts back what it delivered to a worker, hands
\* out a message, receives a frame, or nothing.
LEMMA BrokerSteps ==
  ASSUME Core, NEW w \in Workers, WorkerStep(w)
  PROVE  \/ Requeue(w)
         \/ UNCHANGED brokerVars
         \/ \E m \in ready : Hand(w, m)
         \/ BrokerReceives(w)
<1> USE DEF brokerVars
<1>1. ASSUME Exit(w) PROVE Requeue(w)
  BY <1>1 DEF Exit
<1>2. ASSUME Reconnect(w) PROVE Requeue(w) \/ UNCHANGED brokerVars
  BY <1>1, <1>2 DEF Reconnect
<1>3. ASSUME NEW t, NEW ts, NEW frames, Proceed(w, t, ts, frames)
      PROVE  Requeue(w) \/ UNCHANGED brokerVars
  BY <1>1, <1>3 DEF Proceed
<1>4. CASE Connect(w) \/ ConnectFails(w) \/ OpenChannel(w) \/ ChannelFails(w)
  BY <1>1, <1>2, <1>4 DEF Connect, ConnectFails, OpenChannel, ChannelFails
<1>5. CASE ConnectionLost(w) \/ CloseEvent(w) \/ Kill(w)
  BY <1>1, <1>2, <1>5 DEF ConnectionLost, CloseEvent, Kill
<1>6. CASE \E m \in Messages : Deliver(w, m) \/ DeliverMalformed(w, m)
  BY <1>6 DEF Deliver, DeliverMalformed, CanDeliver
<1>7. ASSUME NEW t \in tasks[w], TaskStep(w, t) PROVE Requeue(w) \/ UNCHANGED brokerVars
  BY <1>3, <1>7 DEF TaskStep, Announce, Ran, Refused, Answer, HandBack
<1>8. CASE GiveUp(w) \/ CloseChannel(w)
  BY <1>8 DEF GiveUp, CloseChannel
<1> QED BY <1>4, <1>5, <1>6, <1>7, <1>8 DEF WorkerStep

LEMMA DeliveryStep ==
  ASSUME Core, NEW w \in Workers, WorkerStep(w)
  PROVE  Delivery!Next \/ (Status' = Status /\ latest' = latest)
<1>1. WorkersOK /\ BrokerOK /\ Apart /\ Orderly(w)
  BY DEF Core, WorkerInv
<1>2. \A v \in Workers : \A m \in unacked[v] :
        m \in Messages /\ m \notin ready /\ ~Finished(m) /\ Status[m] = "held"
  BY <1>1 DEF WorkersOK, Apart, Finished, Status
<1>3. CASE UNCHANGED brokerVars
  BY <1>3 DEF brokerVars, Status, Finished
<1>4. CASE Requeue(w)
  <2>1. /\ ready' = ready \cup unacked[w] /\ latest' = latest
        /\ unacked'[w] = {} /\ \A v \in Workers \ {w} : unacked'[v] = unacked[v]
    BY <1>1, <1>4 DEF Requeue, WorkersOK
  <2>2. \A m \in Messages \ unacked[w] : Finished(m)' <=> Finished(m)
    BY <2>1 DEF Finished
  <2>3. PICK ms \in SUBSET Messages : ms = unacked[w]
    BY <1>1 DEF WorkersOK
  <2>4. Status' = [m \in Messages |-> IF m \in ms THEN "waiting" ELSE Status[m]]
    BY <2>1, <2>2, <2>3 DEF Status
  <2>5. Delivery!GiveBack(ms)
    BY <1>2, <2>1, <2>3, <2>4 DEF Delivery!GiveBack, Status
  <2> QED BY <2>5 DEF Delivery!Next
<1>5. ASSUME NEW m \in ready, Hand(w, m) PROVE Delivery!Next
  <2>1. m \in Messages /\ latest' = latest /\ ready' = ready \ {m}
        /\ unacked'[w] = unacked[w] \cup {m} /\ \A v \in Workers \ {w} : unacked'[v] = unacked[v]
    BY <1>1, <1>5 DEF Hand, BrokerOK, WorkersOK
  <2>2. ~Finished(m)' /\ \A x \in Messages \ {m} : Finished(x)' <=> Finished(x)
    BY <2>1 DEF Finished
  <2>3. Status[m] = "waiting" /\ Status' = [Status EXCEPT ![m] = "held"]
    BY <2>1, <2>2 DEF Status
  <2>4. Delivery!Take(m)
    BY <2>1, <2>3 DEF Delivery!Take, Delivery!Change, Status
  <2> QED BY <2>1, <2>4 DEF Delivery!Next
<1>6. CASE BrokerReceives(w)
  <2> DEFINE frame == wire[w][1]
  <2>1. 1 \in DOMAIN wire[w] /\ Head(wire[w]) = frame /\ frame \in Frames
    <3>1. wire[w] \in Seq(Frames) /\ wire[w] # <<>>
      BY <1>1, <1>6 DEF WorkersOK, BrokerReceives
    <3>2. Head(wire[w]) = wire[w][1] /\ Len(wire[w]) # 0 /\ Head(wire[w]) \in Frames
      BY <3>1, EmptySeq, HeadTailProperties
    <3> QED BY <3>1, <3>2, LenProperties
  <2>2. PICK m : m = frame.msg
    OBVIOUS
  <2>3. frame.type # "close" =>
          m \in unacked[w] /\ m \in Messages /\ m \notin ready /\ Status[m] = "held"
    BY <1>1, <1>2, <2>1, <2>2 DEF Orderly
  <2>4. CASE BrokerReplies(w)
    <3>1. frame.type = "reply" /\ Status' = Status
      BY <2>1, <2>4 DEF BrokerReplies, Status, Finished
    <3>2. PICK word \in Results \cup {"PROCESSING"} : word = frame.word
      BY <2>1, <3>1 DEF Frames
    <3>3. latest' = [latest EXCEPT ![m] = word]
      BY <2>1, <2>2, <2>4, <3>2 DEF BrokerReplies
    <3>4. Delivery!Say(m, word) /\ m \in Messages
      BY <2>3, <3>1, <3>3 DEF Delivery!Say, Status
    <3> QED BY <3>4 DEF Delivery!Next
  <2>5. CASE BrokerAcks(w) \/ BrokerRequeues(w)
    <3>1. frame.type \in {"ack", "nack"} /\ latest' = latest /\ unacked'[w] = unacked[w] \ {m}
          /\ \A v \in Workers \ {w} : unacked'[v] = unacked[v]
      BY <1>1, <2>1, <2>2, <2>5 DEF BrokerAcks, BrokerRequeues, WorkersOK
    <3>2. ready' = IF frame.type = "ack" THEN ready ELSE ready \cup {m}
      BY <2>1, <2>2, <2>5 DEF BrokerAcks, BrokerRequeues
    <3>3. \A v \in Workers : m \notin unacked'[v]
      BY <1>1, <2>3, <3>1 DEF Apart
    <3>4. \A x \in Messages \ {m} : Finished(x)' <=> Finished(x)
      BY <3>1, <3>2 DEF Finished
    <3>5. CASE frame.type = "ack"
      <4>1. latest[m] \in Results
        BY <1>1, <2>1, <2>2, <3>5 DEF Orderly
      <4>2. Finished(m)'
        BY <2>3, <3>2, <3>3, <3>5 DEF Finished
      <4>3. Status' = [Status EXCEPT ![m] = "finished"]
        BY <2>3, <3>2, <3>4, <3>5, <4>2 DEF Status
      <4>4. Delivery!Finish(m) /\ m \in Messages
        BY <2>3, <3>1, <3>5, <4>1, <4>3 DEF Delivery!Finish, Delivery!Change, Status
      <4> QED BY <4>4 DEF Delivery!Next
    <3>6. CASE frame.type # "ack"
      <4>1. PICK ms \in SUBSET Messages : ms = {m}
        BY <2>3, <3>1
      <4>2. Status' = [x \in Messages |-> IF x \in ms THEN "waiting" ELSE Status[x]]
        BY <2>3, <3>2, <3>4, <3>6, <4>1 DEF Status
      <4>3. Delivery!GiveBack(ms)
        BY <2>3, <3>1, <4>1, <4>2 DEF Delivery!GiveBack, Status
      <4> QED BY <4>3 DEF Delivery!Next
    <3> QED BY <3>5, <3>6
  <2>6. CASE BrokerCloses(w)
    BY <1>4, <2>6 DEF BrokerCloses, Exit
  <2> QED BY <1>6, <2>4, <2>5, <2>6 DEF BrokerReceives
<1> QED BY <1>3, <1>4, <1>5, <1>6, BrokerSteps

\* The workers implement the delivery of tasks: nothing is said about a message that
\* waits or is finished, and one is finished only with its result said, whatever is
\* lost (the handlers of queueHandler.js against what they promise to the service).
THEOREM Refinement == Spec => ImplementsDelivery
<1>1. Init => Delivery!Init
  <2> SUFFICES ASSUME Init PROVE Delivery!Init
    OBVIOUS
  <2>1. Status = [m \in Messages |-> "waiting"]
    BY DEF Init, Status
  <2> QED BY <2>1 DEF Init, Delivery!Init, Status
<1>2. IInv /\ [Next]_vars => [Delivery!Next]_(Delivery!vars)
  <2> SUFFICES ASSUME IInv, [Next]_vars
               PROVE  Delivery!Next \/ (Status' = Status /\ latest' = latest)
    BY DEF Delivery!vars, Status
  <2>1. CASE UNCHANGED vars \/ Idle
    BY <2>1 DEF Idle, vars, Status, Finished
  <2>2. ASSUME NEW w \in Workers, WorkerStep(w)
        PROVE  Delivery!Next \/ (Status' = Status /\ latest' = latest)
    BY <2>2, DeliveryStep DEF IInv
  <2> QED BY <2>1, <2>2 DEF Next
<1> QED BY <1>1, <1>2, Inductive, PTL DEF Spec, ImplementsDelivery, Delivery!Spec
=============================================================================
