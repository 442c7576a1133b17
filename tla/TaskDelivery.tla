---------------------------- MODULE TaskDelivery ----------------------------
(***************************************************************************)
(* What the bouncer workers promise to the service that queues tasks       *)
(* (tools/bouncer_worker/src): a task is held by one worker at a time or   *)
(* waits, replies about it come only while it is held, and it is finished  *)
(* only when the last thing said about it is its result.  A task may be    *)
(* held, and answered, several times before it is finished.                *)
(***************************************************************************)
CONSTANTS
  Messages,   \* the tasks, as messages of a queue
  Results     \* the replies that are results; "PROCESSING" is not one

VARIABLES
  status,     \* of each message
  lastWord    \* the latest reply about each message, "none" at first

vars == <<status, lastWord>>

Statuses == {"waiting", "held", "finished"}

Init ==
  /\ status = [m \in Messages |-> "waiting"]
  /\ lastWord = [m \in Messages |-> "none"]

Change(m, from, to) ==
  /\ status[m] = from
  /\ status' = [status EXCEPT ![m] = to]
  /\ UNCHANGED lastWord

Take(m) == Change(m, "waiting", "held")

\* A connection may give back several messages at once.
GiveBack(ms) ==
  /\ \A m \in ms : status[m] = "held"
  /\ status' = [m \in Messages |-> IF m \in ms THEN "waiting" ELSE status[m]]
  /\ UNCHANGED lastWord

Say(m, word) ==
  /\ status[m] = "held"
  /\ lastWord' = [lastWord EXCEPT ![m] = word]
  /\ UNCHANGED status

Finish(m) ==
  /\ lastWord[m] \in Results
  /\ Change(m, "held", "finished")

Next ==
  \/ \E m \in Messages :
       \/ Take(m)
       \/ Finish(m)
       \/ \E word \in Results \cup {"PROCESSING"} : Say(m, word)
  \/ \E ms \in SUBSET Messages : GiveBack(ms)

Spec == Init /\ [][Next]_vars
=============================================================================
