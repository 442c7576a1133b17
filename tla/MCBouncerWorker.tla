-------------------------- MODULE MCBouncerWorker ---------------------------
(* Instances of BouncerWorker for TLC: an import and a clash run, a worker  *)
(* that listens to every queue and one that listens or does two imports.    *)
EXTENDS BouncerWorker

CONSTANTS m1, m2, w1, w2

Kinds == m1 :> "model" @@ m2 :> "clash"
TwoModels == m1 :> "model" @@ m2 :> "model"

OneEach == [q \in Queues |-> 1]
Prefetches == [q \in Queues |-> IF q = "clash" THEN 4 ELSE 1]

AllQueues == [w \in Workers |-> Queues]
ModelsForW2 == w1 :> Queues @@ w2 :> {"model"}

Listening == [w \in Workers |-> 0]
TwoTasksForW2 == w1 :> 0 @@ w2 :> 2
=============================================================================
