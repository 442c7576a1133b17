---------------------------- MODULE BouncerWorker ---------------------------
(***************************************************************************)
(* The bouncer workers (tools/bouncer_worker/src: lib/queueHandler.js,     *)
(* queues/*QueueHandler.js, lib/runCommand.js) and the RabbitMQ broker     *)
(* they talk to, which is external and modelled from how they use it.      *)
(*                                                                         *)
(* A worker listens to its queues, or is started to do a number of tasks   *)
(* (its Quota) and stop.  For each message it replies PROCESSING, runs the *)
(* client, replies with the result and acknowledges the message; when the  *)
(* licence is refused it hands the message back.  What it sends on its     *)
(* channel goes through wire and is lost with the connection; the broker   *)
(* then puts the messages of that connection back.  The worker connects    *)
(* again while the tasks of its earlier connections go on: the channel     *)
(* they hold is closed, using it throws, and the error handler throws for  *)
(* the same reason, which ends the process.                                *)
(***************************************************************************)
EXTENDS Integers, Sequences, FiniteSets, SequencesExt

CONSTANTS
  Messages,     \* the tasks that are queued
  Workers,      \* the worker processes
  Kind,         \* the queue each message is in
  Subscribed,   \* the queues each worker is started for
  Prefetch,     \* unacknowledged messages of a queue that a consumer may have
  Quota,        \* tasks until a worker stops (--exitAfter), 0 to listen
  MaxRetries,   \* rabbitmq.maxRetries
  MaxLosses,    \* bound: connections lost or refused
  MaxKills,     \* bound: worker processes killed from outside
  MaxRefusals   \* bound: runs that end with an invalid licence

Queues == {"model", "drawing", "clash"}
Results == {"OK", "ERROR"}

ASSUME QueuesAssumption ==
  /\ Kind \in [Messages -> Queues]
  /\ Subscribed \in [Workers -> SUBSET Queues]
  /\ Prefetch \in [Queues -> Nat \ {0}]

ASSUME WorkersAssumption ==
  /\ Quota \in [Workers -> Nat]
  /\ MaxRetries \in Nat

ASSUME LimitsAssumption ==
  MaxLosses \in Nat /\ MaxKills \in Nat /\ MaxRefusals \in Nat

VARIABLES
  \* The broker.
  ready,     \* messages waiting in their queues
  unacked,   \* messages delivered on each worker's connection
  latest,    \* the latest reply the callback queue received about each message
  wire,      \* what each worker sent that the broker has not received
  \* The workers.
  link,      \* state of each worker's connection
  conn,      \* number of connections each worker process has made
  retry,     \* attempts since it was last connected
  tasks,     \* calls of onMessageReceived that have not settled
  done,      \* tasks a worker with a quota has done (currentTaskNum - 1)
  \* Bounded occurrences.
  losses, kills, refusals

brokerVars == <<ready, unacked, latest>>
connVars == <<link, conn, retry>>
limitVars == <<losses, kills, refusals>>
vars == <<ready, unacked, latest, wire, link, conn, retry, tasks, done,
          losses, kills, refusals>>

\* "lost": the broker has dropped the connection, the worker has not heard of
\* it; "closing": a worker with a quota waits for its channel to be closed.
LinkStates == {"connecting", "opening", "up", "lost", "closing", "stopped"}

\* A task pauses before it says PROCESSING, runs the client, and then sends
\* its report with the result, or waits after the licence was refused.
Steps == {"pausing", "running", "refused"} \cup Results

Tasks == [msg : Messages, conn : Nat, at : Steps]

Frames == [type : {"reply"}, msg : Messages, word : Results \cup {"PROCESSING"}]
  \cup [type : {"ack", "nack"}, msg : Messages]
  \cup [type : {"close"}]

Reply(m, word) == [type |-> "reply", msg |-> m, word |-> word]
Ack(m) == [type |-> "ack", msg |-> m]
Nack(m) == [type |-> "nack", msg |-> m]
Close == [type |-> "close"]

Listens(w) == Quota[w] = 0

Init ==
  /\ ready = Messages
  /\ unacked = [w \in Workers |-> {}]
  /\ latest = [m \in Messages |-> "none"]
  /\ wire = [w \in Workers |-> <<>>]
  /\ link = [w \in Workers |-> "connecting"]
  /\ conn = [w \in Workers |-> 0]
  /\ retry = [w \in Workers |-> 0]
  /\ tasks = [w \in Workers |-> {}]
  /\ done = [w \in Workers |-> 0]
  /\ losses = 0
  /\ kills = 0
  /\ refusals = 0

(***************************************************************************)
(* Sending, and the end of a connection or of a process.                   *)
(***************************************************************************)
\* What is written to a connection the broker has dropped goes nowhere.
Send(w, frames) ==
  wire' = [wire EXCEPT ![w] = IF link[w] = "up" THEN @ \o frames ELSE @]

\* The broker puts back what it delivered on w's connection.
Requeue(w) ==
  /\ ready' = ready \cup unacked[w]
  /\ unacked' = [unacked EXCEPT ![w] = {}]
  /\ wire' = [wire EXCEPT ![w] = <<>>]
  /\ UNCHANGED latest

\* The process ends, and a listening worker is started again by pm2.
Exit(w) ==
  /\ Requeue(w)
  /\ link' = [link EXCEPT ![w] = IF Listens(w) THEN "connecting" ELSE "stopped"]
  /\ retry' = [retry EXCEPT ![w] = 0]
  /\ tasks' = [tasks EXCEPT ![w] = {}]
  /\ done' = [done EXCEPT ![w] = 0]
  /\ conn' = [conn EXCEPT ![w] = 0]

\* reconnect, or exitApplication without autoReconnect.
Reconnect(w) ==
  IF Listens(w) /\ retry[w] + 1 <= MaxRetries
  THEN /\ retry' = [retry EXCEPT ![w] = @ + 1]
       /\ link' = [link EXCEPT ![w] = "connecting"]
       /\ UNCHANGED <<brokerVars, wire, conn, tasks, done>>
  ELSE Exit(w)

\* Variant: tasks send on whatever channel the worker has.
UsableAny(w, t) == link[w] \in {"up", "lost"}

\* The channel of t is the worker's current one, as far as the worker knows.
Usable(w, t) ==
  /\ t.conn = conn[w]
  /\ link[w] \in {"up", "lost"}

\* A task that replaces t by the tasks of ts, and sends frames.  On a closed
\* channel sending throws, and so does the nack of the error handler.
Proceed(w, t, ts, frames) ==
  IF Usable(w, t)
  THEN /\ Send(w, frames)
       /\ tasks' = [tasks EXCEPT ![w] = (@ \ {t}) \cup ts]
       /\ done' = [done EXCEPT ![w] = IF Listens(w) \/ ts # {} THEN @ ELSE @ + 1]
       /\ UNCHANGED <<brokerVars, connVars>>
  ELSE Exit(w)

(***************************************************************************)
(* Connecting.                                                             *)
(***************************************************************************)
Connect(w) ==
  /\ link[w] = "connecting"
  /\ link' = [link EXCEPT ![w] = "opening"]
  /\ conn' = [conn EXCEPT ![w] = @ + 1]
  /\ retry' = [retry EXCEPT ![w] = 0]
  /\ UNCHANGED <<brokerVars, wire, tasks, done, limitVars>>

ConnectFails(w) ==
  /\ link[w] = "connecting"
  /\ losses < MaxLosses
  /\ losses' = losses + 1
  /\ Reconnect(w)
  /\ UNCHANGED <<kills, refusals>>

\* createChannel, and for a listening worker its consumers.
OpenChannel(w) ==
  /\ link[w] = "opening"
  /\ link' = [link EXCEPT ![w] = "up"]
  /\ UNCHANGED <<brokerVars, wire, conn, retry, tasks, done, limitVars>>

\* The connection goes before createChannel has returned: nothing handles the
\* rejection, and the process ends.
ChannelFails(w) ==
  /\ link[w] = "opening"
  /\ losses < MaxLosses
  /\ losses' = losses + 1
  /\ Exit(w)
  /\ UNCHANGED <<kills, refusals>>

ConnectionLost(w) ==
  /\ link[w] \in {"up", "closing"}
  /\ losses < MaxLosses
  /\ losses' = losses + 1
  /\ Requeue(w)
  /\ link' = [link EXCEPT ![w] = "lost"]
  /\ UNCHANGED <<conn, retry, tasks, done, kills, refusals>>

\* The 'close' event of the connection.
CloseEvent(w) ==
  /\ link[w] = "lost"
  /\ Reconnect(w)
  /\ UNCHANGED limitVars

Kill(w) ==
  /\ link[w] # "stopped"
  /\ kills < MaxKills
  /\ kills' = kills + 1
  /\ Exit(w)
  /\ UNCHANGED <<losses, refusals>>

(***************************************************************************)
(* A message arrives.                                                      *)
(***************************************************************************)
Holding(w, q) == {m \in unacked[w] : Kind[m] = q}

\* The broker may deliver m on w's channel: within the consumer's prefetch
\* count, or because the worker asks for its next task.
CanDeliver(w, m) ==
  /\ link[w] = "up"
  /\ m \in ready
  /\ Kind[m] \in Subscribed[w]
  /\ IF Listens(w)
     THEN Cardinality(Holding(w, Kind[m])) < Prefetch[Kind[m]]
     ELSE tasks[w] = {} /\ done[w] < Quota[w]

Hand(w, m) ==
  /\ ready' = ready \ {m}
  /\ unacked' = [unacked EXCEPT ![w] = @ \cup {m}]
  /\ UNCHANGED <<latest, connVars, limitVars>>

Deliver(w, m) ==
  /\ CanDeliver(w, m)
  /\ Hand(w, m)
  /\ tasks' = [tasks EXCEPT ![w] =
                 @ \cup {[msg |-> m, conn |-> conn[w], at |-> "pausing"]}]
  /\ UNCHANGED <<wire, done>>

\* messageDecoder fails: the reply and the acknowledgement are sent at once.
DeliverMalformed(w, m) ==
  /\ CanDeliver(w, m)
  /\ Hand(w, m)
  /\ Send(w, <<Reply(m, "ERROR"), Ack(m)>>)
  /\ done' = [done EXCEPT ![w] = IF Listens(w) THEN @ ELSE @ + 1]
  /\ UNCHANGED tasks

(***************************************************************************)
(* A task: onMessageReceived.                                              *)
(***************************************************************************)
\* After a pause of 100ms: the PROCESSING reply, and the client is started.
Announce(w, t) ==
  /\ t.at = "pausing"
  /\ Proceed(w, t, {[t EXCEPT !.at = "running"]},
             <<Reply(t.msg, "PROCESSING")>>)
  /\ UNCHANGED limitVars

\* Variant: a failed clash task goes on to its report after its answer.
RanOn(w, t, result) ==
  /\ t.at = "running"
  /\ IF Kind[t.msg] = "clash" /\ result = "ERROR"
     THEN Proceed(w, t, {[t EXCEPT !.at = result]},
                  <<Reply(t.msg, "ERROR"), Ack(t.msg)>>)
     ELSE /\ tasks' = [tasks EXCEPT ![w] =
                         (@ \ {t}) \cup {[t EXCEPT !.at = result]}]
          /\ UNCHANGED <<brokerVars, connVars, wire, done>>
  /\ UNCHANGED limitVars

\* The client ended, or was killed after timeoutMS, or could not be started.
\* A failed clash task is answered at once; the others send their report.
Ran(w, t, result) ==
  /\ t.at = "running"
  /\ IF Kind[t.msg] = "clash" /\ result = "ERROR"
     THEN Proceed(w, t, {}, <<Reply(t.msg, "ERROR"), Ack(t.msg)>>)
     ELSE /\ tasks' = [tasks EXCEPT ![w] =
                         (@ \ {t}) \cup {[t EXCEPT !.at = result]}]
          /\ UNCHANGED <<brokerVars, connVars, wire, done>>
  /\ UNCHANGED limitVars

\* The client found its licence invalid.  A clash task is answered with it.
Refused(w, t) ==
  /\ t.at = "running"
  /\ Kind[t.msg] # "clash"
  /\ refusals < MaxRefusals
  /\ refusals' = refusals + 1
  /\ tasks' = [tasks EXCEPT ![w] = (@ \ {t}) \cup {[t EXCEPT !.at = "refused"]}]
  /\ UNCHANGED <<brokerVars, connVars, wire, done, losses, kills>>

\* Variant: the message is acknowledged before the result is sent.
AnswerAckFirst(w, t) ==
  /\ t.at \in Results
  /\ Proceed(w, t, {}, <<Ack(t.msg), Reply(t.msg, t.at)>>)
  /\ UNCHANGED limitVars

\* The report is sent; the result and the acknowledgement follow.
Answer(w, t) ==
  /\ t.at \in Results
  /\ Proceed(w, t, {}, <<Reply(t.msg, t.at), Ack(t.msg)>>)
  /\ UNCHANGED limitVars

\* Variant: the refusal is swallowed, neither acknowledged nor handed back.
HandBackNothing(w, t) ==
  /\ t.at = "refused"
  /\ Proceed(w, t, {}, <<>>)
  /\ UNCHANGED limitVars

\* The pause after a refused licence is over.
HandBack(w, t) ==
  /\ t.at = "refused"
  /\ Proceed(w, t, {}, <<Nack(t.msg)>>)
  /\ UNCHANGED limitVars

TaskStep(w, t) ==
  \/ Announce(w, t)
  \/ \E result \in Results : Ran(w, t, result)
  \/ Refused(w, t)
  \/ Answer(w, t)
  \/ HandBack(w, t)

(***************************************************************************)
(* The end of a worker with a quota.                                       *)
(***************************************************************************)
\* Its queue was empty for maxWaitTimeMS.
GiveUp(w) ==
  /\ ~Listens(w)
  /\ link[w] = "up"
  /\ tasks[w] = {}
  /\ done[w] < Quota[w]
  /\ \A m \in ready : Kind[m] \notin Subscribed[w]
  /\ done' = [done EXCEPT ![w] = Quota[w]]
  /\ UNCHANGED <<brokerVars, connVars, wire, tasks, limitVars>>

\* channel.close after waitBeforeShutdownMS; the broker handles it after
\* everything sent before it.
CloseChannel(w) ==
  /\ ~Listens(w)
  /\ link[w] = "up"
  /\ tasks[w] = {}
  /\ done[w] = Quota[w]
  /\ Send(w, <<Close>>)
  /\ link' = [link EXCEPT ![w] = "closing"]
  /\ UNCHANGED <<brokerVars, conn, retry, tasks, done, limitVars>>

(***************************************************************************)
(* The broker receives the next frame of w's channel.                      *)
(***************************************************************************)
BrokerReplies(w) ==
  /\ Head(wire[w]).type = "reply"
  /\ latest' = [latest EXCEPT ![Head(wire[w]).msg] = Head(wire[w]).word]
  /\ wire' = [wire EXCEPT ![w] = Tail(@)]
  /\ UNCHANGED <<ready, unacked, connVars, tasks, done>>

BrokerAcks(w) ==
  /\ Head(wire[w]).type = "ack"
  /\ unacked' = [unacked EXCEPT ![w] = @ \ {Head(wire[w]).msg}]
  /\ wire' = [wire EXCEPT ![w] = Tail(@)]
  /\ UNCHANGED <<ready, latest, connVars, tasks, done>>

BrokerRequeues(w) ==
  /\ Head(wire[w]).type = "nack"
  /\ unacked' = [unacked EXCEPT ![w] = @ \ {Head(wire[w]).msg}]
  /\ ready' = ready \cup {Head(wire[w]).msg}
  /\ wire' = [wire EXCEPT ![w] = Tail(@)]
  /\ UNCHANGED <<latest, connVars, tasks, done>>

BrokerCloses(w) == Head(wire[w]).type = "close" /\ Exit(w)

BrokerReceives(w) ==
  /\ wire[w] # <<>>
  /\ \/ BrokerReplies(w)
     \/ BrokerAcks(w)
     \/ BrokerRequeues(w)
     \/ BrokerCloses(w)
  /\ UNCHANGED limitVars

(***************************************************************************)
(* The specification.                                                      *)
(***************************************************************************)
\* The broker is finished with m.
Finished(m) == m \notin ready /\ \A w \in Workers : m \notin unacked[w]

\* Nothing is left to do.
Idle ==
  /\ \A m \in Messages : Finished(m)
  /\ \A w \in Workers : tasks[w] = {} /\ wire[w] = <<>>
  /\ UNCHANGED vars

WorkerStep(w) ==
  \/ Connect(w) \/ ConnectFails(w)
  \/ OpenChannel(w) \/ ChannelFails(w)
  \/ ConnectionLost(w) \/ CloseEvent(w) \/ Kill(w)
  \/ \E m \in Messages : Deliver(w, m) \/ DeliverMalformed(w, m)
  \/ \E t \in tasks[w] : TaskStep(w, t)
  \/ GiveUp(w) \/ CloseChannel(w)
  \/ BrokerReceives(w)

Next == (\E w \in Workers : WorkerStep(w)) \/ Idle

Spec == Init /\ [][Next]_vars

\* The broker comes back and serves its consumers, the network delivers what
\* it does not lose, timers expire and the client ends (it is killed after
\* timeoutMS).
Fairness ==
  /\ \A w \in Workers :
       /\ WF_vars(Connect(w))
       /\ WF_vars(OpenChannel(w))
       /\ WF_vars(CloseEvent(w))
       /\ WF_vars(\E t \in tasks[w] : TaskStep(w, t))
       /\ WF_vars(GiveUp(w))
       /\ WF_vars(CloseChannel(w))
       /\ WF_vars(BrokerReceives(w))
  /\ \A m \in Messages :
       WF_vars(\E w \in Workers : Deliver(w, m) \/ DeliverMalformed(w, m))

FairSpec == Spec /\ Fairness

\* The types, and the numbers that the settings limit: a worker with a quota
\* does not process more tasks, though one that it handed back counts.
TypeOK ==
  /\ ready \subseteq Messages
  /\ unacked \in [Workers -> SUBSET Messages]
  /\ latest \in [Messages -> Results \cup {"none", "PROCESSING"}]
  /\ wire \in [Workers -> Seq(Frames)]
  /\ link \in [Workers -> LinkStates]
  /\ conn \in [Workers -> Nat]
  /\ \A w \in Workers : retry[w] \in 0..MaxRetries
  /\ tasks \in [Workers -> SUBSET Tasks]
  /\ \A w \in Workers : done[w] \in 0..Quota[w]
  /\ losses \in 0..MaxLosses
  /\ kills \in 0..MaxKills
  /\ refusals \in 0..MaxRefusals

-----------------------------------------------------------------------------
(* What the workers guarantee.                                             *)

\* The frames of w's wire that settle a delivery, by their positions.
Settling(w) == {i \in DOMAIN wire[w] : wire[w][i].type \in {"ack", "nack"}}

\* The tasks that have w's current channel.
Current(w) == {t \in tasks[w] : t.conn = conn[w]}

\* A delivery on a live channel is being worked on by one task, or one ack or
\* nack for it is under way, never neither (the message would be stuck) and
\* never both or two (the second has an unknown delivery tag, and the broker
\* closes the channel): so a task of an earlier connection settles nothing,
\* even when its message has come again on the new one.
DeliveriesTracked ==
  /\ TypeOK
  /\ \A w \in Workers : link[w] \in {"up", "closing"} =>
       /\ unacked[w] = {t.msg : t \in Current(w)}
                        \cup {wire[w][i].msg : i \in Settling(w)}
       /\ \A t, u \in Current(w) : t.msg = u.msg => t = u
       /\ \A i, j \in Settling(w) : wire[w][i].msg = wire[w][j].msg => i = j
       /\ \A t \in Current(w), i \in Settling(w) : t.msg # wire[w][i].msg

\* When the broker is finished with a message the result has been received,
\* and nothing was received after it: no message is dropped unanswered, and
\* no task is left shown as being processed.
ResultIsLastWord ==
  \A m \in Messages : Finished(m) => latest[m] \in Results

\* The workers implement the delivery of tasks: in particular nothing is said
\* about a message that is waiting or finished, not even by a task that has
\* outlived its connection.
Delivery == INSTANCE TaskDelivery WITH
  status <- [m \in Messages |->
               IF m \in ready THEN "waiting"
               ELSE IF Finished(m) THEN "finished" ELSE "held"],
  lastWord <- latest

ImplementsDelivery == Delivery!Spec

\* Every message is done with in the end, and its result is what was last
\* said, however connections, processes and licences fail a number of times.
EveryTaskAnswered ==
  \A m \in Messages : <>[](Finished(m) /\ latest[m] \in Results)
=============================================================================
