-------------------------- MODULE ProcessesProofs --------------------------
(***************************************************************************)
(* Proofs about the processes of the client and the monitor that measures  *)
(* them, for any processes, machines, commands, pools, seats and tasks.    *)
(* The two do not share state: each has its own inductive invariant.       *)
(***************************************************************************)
EXTENDS BouncerClient, ProcessMonitor, TLAPS

-----------------------------------------------------------------------------
(* The client. *)

Running == {"command", "operation", "working"}
Leaving == {"deactivating", "joining", "releasing", "leaving"}
MainLabels == {"start"} \cup Running \cup Leaving \cup Ended
BeatLabels == {"none", "sleeping", "requesting", "ended"}
Beating(p) == beat[p] \in {"sleeping", "requesting"}

\* Every variable keeps its type.
ClientTypes ==
  /\ main \in [Processes -> MainLabels]
  /\ command \in [Processes -> Commands]
  /\ DOMAIN plan = Processes
  /\ DOMAIN result = Processes
  /\ success \in [Processes -> BOOLEAN]
  /\ mishaps \in [Processes -> SUBSET {"licence", "failed", "thrown"}]
  /\ DOMAIN pool = Processes
  /\ beat \in [Processes -> BeatLabels]
  /\ send \in [Processes -> BOOLEAN]
  /\ missed \in [Processes -> BOOLEAN]
  /\ taken \in [Processes -> BOOLEAN]

\* The heartbeat begins before the command does, and is waited for at its end.
BeatWithMain(p) ==
  /\ Beating(p) => main[p] \in Running \cup {"deactivating", "joining"}
  /\ main[p] = "start" => send[p]
  /\ main[p] \in Running => send[p] /\ (Beating(p) \/ missed[p])

\* What keeps the seat of a process that runs its command.
SeatHeld(p) == main[p] \in Running => InstanceOf(p) \in seats \/ missed[p] \/ taken[p]

\* What has gone wrong is in the flag of genStash while the command runs, and in the
\* exit code once there is one.
Accounted(p) ==
  /\ main[p] \in {"start", "command"} => mishaps[p] = {} /\ plan[p] = <<>> /\ success[p]
  /\ main[p] \in {"operation", "working"} =>
       /\ command[p] # "invalid"
       /\ success[p] <=> mishaps[p] = {}
       /\ Stashes(p) \/ mishaps[p] = {}
  /\ main[p] \in Leaving \cup {"exited"} =>
       (result[p] = "ok" <=> mishaps[p] = {} /\ plan[p] = <<>> /\ command[p] # "invalid")

ClientInv ==
  /\ ClientTypes
  /\ \A p \in Processes : BeatWithMain(p) /\ SeatHeld(p) /\ Accounted(p)
  /\ SeatReleased

\* Every start satisfies the invariant.
LEMMA ClientStart ==
  ASSUME NEW started \in SUBSET Processes, NEW commands \in [Processes -> Commands],
         ClientInit(started, commands)
  PROVE  ClientInv
BY DEF ClientInit, ClientInv, ClientTypes, MainLabels, Running, Leaving, Ended, BeatLabels,
       BeatWithMain, Beating, SeatHeld, Accounted, SeatReleased

\* Who answers for the seat of its instance.
Holder(p) == main[p] \notin {"never started", "start", "leaving", "exited"} \/ p \in leaked

\* A step of a process leaves no seat without a holder if it takes and leaves its own
\* with one.
LEMMA SeatsHaveHolders ==
  ASSUME SeatReleased, NEW p \in Processes, NEW l, main' = [main EXCEPT ![p] = l],
         DOMAIN main = Processes, leaked \subseteq leaked',
         seats' \subseteq seats \cup {InstanceOf(p)},
         InstanceOf(p) \in seats' => Holder(p)' \/ (~Holder(p) /\ InstanceOf(p) \in seats)
  PROVE  SeatReleased'
<1> SUFFICES ASSUME NEW i \in seats' PROVE \E q \in Processes : InstanceOf(q) = i /\ Holder(q)'
  BY DEF SeatReleased, Holder
<1>1. CASE i = InstanceOf(p) /\ Holder(p)'
  BY <1>1
<1>2. CASE i \in seats /\ (i # InstanceOf(p) \/ ~Holder(p))
  <2>1. PICK q \in Processes : InstanceOf(q) = i /\ Holder(q)
    BY <1>2 DEF SeatReleased, Holder
  <2>2. q # p
    BY <1>2, <2>1
  <2>3. Holder(q)'
    BY <2>1, <2>2 DEF Holder
  <2>4. QED
    BY <2>1, <2>3
<1>3. QED
  BY <1>1, <1>2

\* The seat is taken, or the process leaves with what went wrong.
LEMMA ActivateKeeps ==
  ASSUME ClientInv, NEW p \in Processes, Activate(p)
  PROVE  ClientInv'
<1>0. ClientTypes /\ (\A q \in Processes : BeatWithMain(q) /\ SeatHeld(q) /\ Accounted(q)) /\ SeatReleased
  BY DEF ClientInv
<1>1. /\ main[p] = "start" /\ DOMAIN pool' = Processes
      /\ UNCHANGED <<command, plan, success, send, missed, leaked>>
      /\ seats \subseteq seats' /\ seats' \subseteq seats \cup {InstanceOf(p)}
  BY <1>0 DEF Activate, Acknowledged, Unacknowledged, RevokedKey, Granted, ClientTypes
<1>2. CASE /\ main' = [main EXCEPT ![p] = "command"] /\ beat' = [beat EXCEPT ![p] = "sleeping"]
           /\ taken' = [taken EXCEPT ![p] = FALSE] /\ InstanceOf(p) \in seats'
           /\ UNCHANGED <<result, mishaps>>
  <2>1. ClientTypes'
    BY <1>0, <1>1, <1>2 DEF ClientTypes, MainLabels, Running, BeatLabels
  <2>2. ASSUME NEW q \in Processes PROVE BeatWithMain(q)' /\ SeatHeld(q)' /\ Accounted(q)'
    <3>1. CASE q = p
      BY <1>0, <1>1, <1>2, <3>1 DEF ClientTypes, BeatWithMain, Beating, SeatHeld, Accounted, Running, Leaving
    <3>2. CASE q # p
      BY <1>0, <1>1, <1>2, <3>2 DEF ClientTypes, BeatWithMain, Beating, SeatHeld, Accounted, Stashes
    <3>3. QED
      BY <3>1, <3>2
  <2>3. Holder(p)'
    BY <1>0, <1>2 DEF ClientTypes, Holder
  <2>4. SeatReleased'
    BY <1>0, <1>1, <1>2, <2>3, SeatsHaveHolders DEF ClientTypes
  <2>5. QED
    BY <2>1, <2>2, <2>4 DEF ClientInv
<1>3. CASE /\ main' = [main EXCEPT ![p] = "deactivating"]
           /\ result' = [result EXCEPT ![p] = "licence"]
           /\ mishaps' = [mishaps EXCEPT ![p] = @ \cup {"licence"}]
           /\ UNCHANGED <<beat, taken>>
  <2>1. ClientTypes'
    BY <1>0, <1>1, <1>3 DEF ClientTypes, MainLabels, Leaving
  <2>2. ASSUME NEW q \in Processes PROVE BeatWithMain(q)' /\ SeatHeld(q)' /\ Accounted(q)'
    <3>1. CASE q = p
      BY <1>0, <1>1, <1>3, <3>1 DEF ClientTypes, BeatWithMain, Beating, SeatHeld, Accounted, Running, Leaving
    <3>2. CASE q # p
      BY <1>0, <1>1, <1>3, <3>2 DEF ClientTypes, BeatWithMain, Beating, SeatHeld, Accounted, Stashes
    <3>3. QED
      BY <3>1, <3>2
  <2>3. Holder(p)'
    BY <1>0, <1>3 DEF ClientTypes, Holder
  <2>4. SeatReleased'
    BY <1>0, <1>1, <1>3, <2>3, SeatsHaveHolders DEF ClientTypes
  <2>5. QED
    BY <2>1, <2>2, <2>4 DEF ClientInv
<1>4. QED
  BY <1>2, <1>3, <1>0 DEF Activate, Acknowledged, Unacknowledged, RevokedKey, Granted, Continue, Deactivating

\* A command that was understood has its plan.
LEMMA DispatchKeeps ==
  ASSUME ClientInv, NEW p \in Processes, Dispatch(p)
  PROVE  ClientInv'
<1>0. ClientTypes /\ (\A q \in Processes : BeatWithMain(q) /\ SeatHeld(q) /\ Accounted(q)) /\ SeatReleased
  BY DEF ClientInv
<1> USE DEF Dispatch, Deactivating, Continue, commandVars, licenceVars, serverVars
<1>1. ClientTypes'
  BY ZenonT(40), <1>0 DEF ClientTypes, MainLabels, Running, Leaving, Ended, BeatLabels
<1>2. ASSUME NEW q \in Processes PROVE BeatWithMain(q)'
  BY <1>0 DEF ClientTypes, BeatWithMain, Beating, Running, Ended
<1>3. ASSUME NEW q \in Processes PROVE SeatHeld(q)'
  BY <1>0 DEF ClientTypes, SeatHeld, BeatWithMain, Beating, Running, Ended
<1>4. ASSUME NEW q \in Processes PROVE Accounted(q)'
  BY ZenonT(40), <1>0 DEF ClientTypes, Accounted, Running, Leaving, Stashes, Ended
<1>5. SeatReleased'
  <2>1. PICK l : main' = [main EXCEPT ![p] = l]
    BY <1>0 DEF ClientTypes
  <2>2. leaked \subseteq leaked' /\ seats' \subseteq seats \cup {InstanceOf(p)}
    OBVIOUS
  <2>3. InstanceOf(p) \in seats' => Holder(p)' \/ (~Holder(p) /\ InstanceOf(p) \in seats)
    BY <1>0 DEF ClientTypes, Holder, BeatWithMain, Beating, Running, Ended
  <2>4. QED
    BY <1>0, <2>1, <2>2, <2>3, SeatsHaveHolders DEF ClientTypes
<1>6. QED
  BY <1>1, <1>2, <1>3, <1>4, <1>5 DEF ClientInv

\* A refused configuration ends the command.
LEMMA UnauthorisedKeeps ==
  ASSUME ClientInv, NEW p \in Processes, Unauthorised(p)
  PROVE  ClientInv'
<1>0. ClientTypes /\ (\A q \in Processes : BeatWithMain(q) /\ SeatHeld(q) /\ Accounted(q)) /\ SeatReleased
  BY DEF ClientInv
<1> USE DEF Unauthorised, Deactivating, Continue, commandVars, licenceVars, serverVars
<1>1. ClientTypes'
  BY <1>0 DEF ClientTypes, MainLabels, Running, Leaving, Ended, BeatLabels
<1>2. ASSUME NEW q \in Processes PROVE BeatWithMain(q)'
  BY <1>0 DEF ClientTypes, BeatWithMain, Beating, Running, Ended
<1>3. ASSUME NEW q \in Processes PROVE SeatHeld(q)'
  BY <1>0 DEF ClientTypes, SeatHeld, BeatWithMain, Beating, Running, Ended
<1>4. ASSUME NEW q \in Processes PROVE Accounted(q)'
  BY <1>0 DEF ClientTypes, Accounted, Running, Leaving, Stashes, Ended
<1>5. SeatReleased'
  <2>1. PICK l : main' = [main EXCEPT ![p] = l]
    BY <1>0 DEF ClientTypes
  <2>2. leaked \subseteq leaked' /\ seats' \subseteq seats \cup {InstanceOf(p)}
    OBVIOUS
  <2>3. InstanceOf(p) \in seats' => Holder(p)' \/ (~Holder(p) /\ InstanceOf(p) \in seats)
    BY <1>0 DEF ClientTypes, Holder, BeatWithMain, Beating, Running, Ended
  <2>4. QED
    BY <1>0, <2>1, <2>2, <2>3, SeatsHaveHolders DEF ClientTypes
<1>6. QED
  BY <1>1, <1>2, <1>3, <1>4, <1>5 DEF ClientInv

\* A worker is taken.
LEMMA PopKeeps ==
  ASSUME ClientInv, NEW p \in Processes, Pop(p)
  PROVE  ClientInv'
<1>0. ClientTypes /\ (\A q \in Processes : BeatWithMain(q) /\ SeatHeld(q) /\ Accounted(q)) /\ SeatReleased
  BY DEF ClientInv
<1> USE DEF Pop, Continue, commandVars, licenceVars, serverVars
<1>1. ClientTypes'
  BY <1>0 DEF ClientTypes, MainLabels, Running, Leaving, Ended, BeatLabels
<1>2. ASSUME NEW q \in Processes PROVE BeatWithMain(q)'
  BY <1>0 DEF ClientTypes, BeatWithMain, Beating, Running, Ended
<1>3. ASSUME NEW q \in Processes PROVE SeatHeld(q)'
  BY <1>0 DEF ClientTypes, SeatHeld, BeatWithMain, Beating, Running, Ended
<1>4. ASSUME NEW q \in Processes PROVE Accounted(q)'
  BY <1>0 DEF ClientTypes, Accounted, Running, Leaving, Stashes, Ended
<1>5. SeatReleased'
  <2>1. PICK l : main' = [main EXCEPT ![p] = l]
    BY <1>0 DEF ClientTypes
  <2>2. leaked \subseteq leaked' /\ seats' \subseteq seats \cup {InstanceOf(p)}
    OBVIOUS
  <2>3. InstanceOf(p) \in seats' => Holder(p)' \/ (~Holder(p) /\ InstanceOf(p) \in seats)
    BY <1>0 DEF ClientTypes, Holder, BeatWithMain, Beating, Running, Ended
  <2>4. QED
    BY <1>0, <2>1, <2>2, <2>3, SeatsHaveHolders DEF ClientTypes
<1>6. QED
  BY <1>1, <1>2, <1>3, <1>4, <1>5 DEF ClientInv

\* The rest of the plan is left to do.
LEMMA SucceedsKeeps ==
  ASSUME ClientInv, NEW p \in Processes, Succeeds(p)
  PROVE  ClientInv'
<1>0. ClientTypes /\ (\A q \in Processes : BeatWithMain(q) /\ SeatHeld(q) /\ Accounted(q)) /\ SeatReleased
  BY DEF ClientInv
<1> USE DEF Succeeds, Continue, commandVars, licenceVars, serverVars
<1>1. ClientTypes'
  BY <1>0 DEF ClientTypes, MainLabels, Running, Leaving, Ended, BeatLabels
<1>2. ASSUME NEW q \in Processes PROVE BeatWithMain(q)'
  BY <1>0 DEF ClientTypes, BeatWithMain, Beating, Running, Ended
<1>3. ASSUME NEW q \in Processes PROVE SeatHeld(q)'
  BY <1>0 DEF ClientTypes, SeatHeld, BeatWithMain, Beating, Running, Ended
<1>4. ASSUME NEW q \in Processes PROVE Accounted(q)'
  BY <1>0 DEF ClientTypes, Accounted, Running, Leaving, Stashes, Ended
<1>5. SeatReleased'
  <2>1. PICK l : main' = [main EXCEPT ![p] = l]
    BY <1>0 DEF ClientTypes
  <2>2. leaked \subseteq leaked' /\ seats' \subseteq seats \cup {InstanceOf(p)}
    OBVIOUS
  <2>3. InstanceOf(p) \in seats' => Holder(p)' \/ (~Holder(p) /\ InstanceOf(p) \in seats)
    BY <1>0 DEF ClientTypes, Holder, BeatWithMain, Beating, Running, Ended
  <2>4. QED
    BY <1>0, <2>1, <2>2, <2>3, SeatsHaveHolders DEF ClientTypes
<1>6. QED
  BY <1>1, <1>2, <1>3, <1>4, <1>5 DEF ClientInv

\* A failure is in the flag, or in the code.
LEMMA FailsKeeps ==
  ASSUME ClientInv, NEW p \in Processes, Fails(p)
  PROVE  ClientInv'
<1>0. ClientTypes /\ (\A q \in Processes : BeatWithMain(q) /\ SeatHeld(q) /\ Accounted(q)) /\ SeatReleased
  BY DEF ClientInv
<1> USE DEF Fails, Deactivating, NextRevision, Continue, commandVars, licenceVars, serverVars
<1>1. ClientTypes'
  BY <1>0 DEF ClientTypes, MainLabels, Running, Leaving, Ended, BeatLabels
<1>2. ASSUME NEW q \in Processes PROVE BeatWithMain(q)'
  BY <1>0 DEF ClientTypes, BeatWithMain, Beating, Running, Ended
<1>3. ASSUME NEW q \in Processes PROVE SeatHeld(q)'
  BY <1>0 DEF ClientTypes, SeatHeld, BeatWithMain, Beating, Running, Ended
<1>4. ASSUME NEW q \in Processes PROVE Accounted(q)'
  <2>1. CASE q # p
    <3>1. /\ main'[q] = main[q] /\ mishaps'[q] = mishaps[q] /\ plan'[q] = plan[q]
          /\ success'[q] = success[q] /\ command'[q] = command[q] /\ result'[q] = result[q]
      BY <1>0, <2>1 DEF ClientTypes
    <3>2. QED
      BY <1>0, <3>1 DEF Accounted, Stashes
  <2>2. CASE q = p /\ Stashes(p)
    BY <1>0, <2>2 DEF ClientTypes, Accounted, Running, Leaving, Stashes, Ended
  <2>3. CASE q = p /\ ~Stashes(p)
    BY ZenonT(40), <1>0, <2>3 DEF ClientTypes, Accounted, Running, Leaving, Stashes, Ended
  <2>4. QED
    BY <2>1, <2>2, <2>3
<1>5. SeatReleased'
  <2>1. PICK l : main' = [main EXCEPT ![p] = l]
    BY <1>0 DEF ClientTypes
  <2>2. leaked \subseteq leaked' /\ seats' \subseteq seats \cup {InstanceOf(p)}
    OBVIOUS
  <2>3. InstanceOf(p) \in seats' => Holder(p)' \/ (~Holder(p) /\ InstanceOf(p) \in seats)
    BY ZenonT(40), <1>0 DEF ClientTypes, Holder, BeatWithMain, Beating, Running, Ended
  <2>4. QED
    BY <1>0, <2>1, <2>2, <2>3, SeatsHaveHolders DEF ClientTypes
<1>6. QED
  BY <1>1, <1>2, <1>3, <1>4, <1>5 DEF ClientInv

\* What is thrown ends the command.
LEMMA ThrowsKeeps ==
  ASSUME ClientInv, NEW p \in Processes, Throws(p)
  PROVE  ClientInv'
<1>0. ClientTypes /\ (\A q \in Processes : BeatWithMain(q) /\ SeatHeld(q) /\ Accounted(q)) /\ SeatReleased
  BY DEF ClientInv
<1> USE DEF Throws, Deactivating, Continue, commandVars, licenceVars, serverVars
<1>1. ClientTypes'
  <2>1. CASE result' = [result EXCEPT ![p] = "repo"]
    BY <1>0, <2>1 DEF ClientTypes, MainLabels, Running, Leaving, Ended, BeatLabels
  <2>2. CASE result' = [result EXCEPT ![p] = "unknown"]
    BY ZenonT(40), <1>0, <2>2 DEF ClientTypes, MainLabels, Running, Leaving, Ended, BeatLabels
  <2>3. QED
    BY <2>1, <2>2
<1>2. ASSUME NEW q \in Processes PROVE BeatWithMain(q)'
  BY <1>0 DEF ClientTypes, BeatWithMain, Beating, Running, Ended
<1>3. ASSUME NEW q \in Processes PROVE SeatHeld(q)'
  BY <1>0 DEF ClientTypes, SeatHeld, BeatWithMain, Beating, Running, Ended
<1>4. ASSUME NEW q \in Processes PROVE Accounted(q)'
  BY ZenonT(40), <1>0 DEF ClientTypes, Accounted, Running, Leaving, Stashes, Ended
<1>5. SeatReleased'
  <2>1. PICK l : main' = [main EXCEPT ![p] = l]
    BY <1>0 DEF ClientTypes
  <2>2. leaked \subseteq leaked' /\ seats' \subseteq seats \cup {InstanceOf(p)}
    OBVIOUS
  <2>3. InstanceOf(p) \in seats' => Holder(p)' \/ (~Holder(p) /\ InstanceOf(p) \in seats)
    BY <1>0 DEF ClientTypes, Holder, BeatWithMain, Beating, Running, Ended
  <2>4. QED
    BY <1>0, <2>1, <2>2, <2>3, SeatsHaveHolders DEF ClientTypes
<1>6. QED
  BY <1>1, <1>2, <1>3, <1>4, <1>5 DEF ClientInv

\* A command that ends has done all of its plan.
LEMMA FinishesKeeps ==
  ASSUME ClientInv, NEW p \in Processes, Finishes(p)
  PROVE  ClientInv'
<1>0. ClientTypes /\ (\A q \in Processes : BeatWithMain(q) /\ SeatHeld(q) /\ Accounted(q)) /\ SeatReleased
  BY DEF ClientInv
<1> USE DEF Finishes, Deactivating, Continue, commandVars, licenceVars, serverVars
<1>1. ClientTypes'
  BY <1>0 DEF ClientTypes, MainLabels, Running, Leaving, Ended, BeatLabels
<1>2. ASSUME NEW q \in Processes PROVE BeatWithMain(q)'
  BY <1>0 DEF ClientTypes, BeatWithMain, Beating, Running, Ended
<1>3. ASSUME NEW q \in Processes PROVE SeatHeld(q)'
  BY <1>0 DEF ClientTypes, SeatHeld, BeatWithMain, Beating, Running, Ended
<1>4. ASSUME NEW q \in Processes PROVE Accounted(q)'
  BY <1>0 DEF ClientTypes, Accounted, Running, Leaving, Stashes, Ended
<1>5. SeatReleased'
  <2>1. PICK l : main' = [main EXCEPT ![p] = l]
    BY <1>0 DEF ClientTypes
  <2>2. leaked \subseteq leaked' /\ seats' \subseteq seats \cup {InstanceOf(p)}
    OBVIOUS
  <2>3. InstanceOf(p) \in seats' => Holder(p)' \/ (~Holder(p) /\ InstanceOf(p) \in seats)
    BY <1>0 DEF ClientTypes, Holder, BeatWithMain, Beating, Running, Ended
  <2>4. QED
    BY <1>0, <2>1, <2>2, <2>3, SeatsHaveHolders DEF ClientTypes
<1>6. QED
  BY <1>1, <1>2, <1>3, <1>4, <1>5 DEF ClientInv

\* A process that leaves tells its heartbeat to stop.
LEMMA DeactivateKeeps ==
  ASSUME ClientInv, NEW p \in Processes, Deactivate(p)
  PROVE  ClientInv'
<1>0. ClientTypes /\ (\A q \in Processes : BeatWithMain(q) /\ SeatHeld(q) /\ Accounted(q)) /\ SeatReleased
  BY DEF ClientInv
<1> USE DEF Deactivate, Continue, commandVars, licenceVars, serverVars
<1>1. ClientTypes'
  BY <1>0 DEF ClientTypes, MainLabels, Running, Leaving, Ended, BeatLabels
<1>2. ASSUME NEW q \in Processes PROVE BeatWithMain(q)'
  BY <1>0 DEF ClientTypes, BeatWithMain, Beating, Running, Ended
<1>3. ASSUME NEW q \in Processes PROVE SeatHeld(q)'
  BY <1>0 DEF ClientTypes, SeatHeld, BeatWithMain, Beating, Running, Ended
<1>4. ASSUME NEW q \in Processes PROVE Accounted(q)'
  BY ZenonT(40), <1>0 DEF ClientTypes, Accounted, Running, Leaving, Stashes, Ended
<1>5. SeatReleased'
  <2>1. PICK l : main' = [main EXCEPT ![p] = l]
    BY <1>0 DEF ClientTypes
  <2>2. leaked \subseteq leaked' /\ seats' \subseteq seats \cup {InstanceOf(p)}
    OBVIOUS
  <2>3. InstanceOf(p) \in seats' => Holder(p)' \/ (~Holder(p) /\ InstanceOf(p) \in seats)
    BY <1>0 DEF ClientTypes, Holder, BeatWithMain, Beating, Running, Ended
  <2>4. QED
    BY <1>0, <2>1, <2>2, <2>3, SeatsHaveHolders DEF ClientTypes
<1>6. QED
  BY <1>1, <1>2, <1>3, <1>4, <1>5 DEF ClientInv

\* The heartbeat has ended.
LEMMA JoinKeeps ==
  ASSUME ClientInv, NEW p \in Processes, Join(p)
  PROVE  ClientInv'
<1>0. ClientTypes /\ (\A q \in Processes : BeatWithMain(q) /\ SeatHeld(q) /\ Accounted(q)) /\ SeatReleased
  BY DEF ClientInv
<1> USE DEF Join, Continue, commandVars, licenceVars, serverVars
<1>1. ClientTypes'
  BY <1>0 DEF ClientTypes, MainLabels, Running, Leaving, Ended, BeatLabels
<1>2. ASSUME NEW q \in Processes PROVE BeatWithMain(q)'
  BY <1>0 DEF ClientTypes, BeatWithMain, Beating, Running, Ended
<1>3. ASSUME NEW q \in Processes PROVE SeatHeld(q)'
  BY <1>0 DEF ClientTypes, SeatHeld, BeatWithMain, Beating, Running, Ended
<1>4. ASSUME NEW q \in Processes PROVE Accounted(q)'
  BY <1>0 DEF ClientTypes, Accounted, Running, Leaving, Stashes, Ended
<1>5. SeatReleased'
  <2>1. PICK l : main' = [main EXCEPT ![p] = l]
    BY <1>0 DEF ClientTypes
  <2>2. leaked \subseteq leaked' /\ seats' \subseteq seats \cup {InstanceOf(p)}
    OBVIOUS
  <2>3. InstanceOf(p) \in seats' => Holder(p)' \/ (~Holder(p) /\ InstanceOf(p) \in seats)
    BY <1>0 DEF ClientTypes, Holder, BeatWithMain, Beating, Running, Ended
  <2>4. QED
    BY <1>0, <2>1, <2>2, <2>3, SeatsHaveHolders DEF ClientTypes
<1>6. QED
  BY <1>1, <1>2, <1>3, <1>4, <1>5 DEF ClientInv

\* The seat goes, for whoever shares it.
LEMMA ReleaseKeeps ==
  ASSUME ClientInv, NEW p \in Processes, Release(p)
  PROVE  ClientInv'
<1>0. ClientTypes /\ (\A q \in Processes : BeatWithMain(q) /\ SeatHeld(q) /\ Accounted(q)) /\ SeatReleased
  BY DEF ClientInv
<1> USE DEF Release, Siblings, Continue, commandVars, licenceVars, serverVars
<1>1. ClientTypes'
  BY <1>0 DEF ClientTypes, MainLabels, Running, Leaving, Ended, BeatLabels
<1>2. ASSUME NEW q \in Processes PROVE BeatWithMain(q)'
  BY <1>0 DEF ClientTypes, BeatWithMain, Beating, Running, Ended
<1>3. ASSUME NEW q \in Processes PROVE SeatHeld(q)'
  BY <1>0 DEF ClientTypes, SeatHeld, BeatWithMain, Beating, Running, Ended
<1>4. ASSUME NEW q \in Processes PROVE Accounted(q)'
  BY <1>0 DEF ClientTypes, Accounted, Running, Leaving, Stashes, Ended
<1>5. SeatReleased'
  <2>1. PICK l : main' = [main EXCEPT ![p] = l]
    BY <1>0 DEF ClientTypes
  <2>2. leaked \subseteq leaked' /\ seats' \subseteq seats \cup {InstanceOf(p)}
    OBVIOUS
  <2>3. InstanceOf(p) \in seats' => Holder(p)' \/ (~Holder(p) /\ InstanceOf(p) \in seats)
    BY <1>0 DEF ClientTypes, Holder, BeatWithMain, Beating, Running, Ended
  <2>4. QED
    BY <1>0, <2>1, <2>2, <2>3, SeatsHaveHolders DEF ClientTypes
<1>6. QED
  BY <1>1, <1>2, <1>3, <1>4, <1>5 DEF ClientInv

\* The process ends without a seat.
LEMMA ExitKeeps ==
  ASSUME ClientInv, NEW p \in Processes, Exit(p)
  PROVE  ClientInv'
<1>0. ClientTypes /\ (\A q \in Processes : BeatWithMain(q) /\ SeatHeld(q) /\ Accounted(q)) /\ SeatReleased
  BY DEF ClientInv
<1> USE DEF Exit, Continue, commandVars, licenceVars, serverVars
<1>1. ClientTypes'
  BY <1>0 DEF ClientTypes, MainLabels, Running, Leaving, Ended, BeatLabels
<1>2. ASSUME NEW q \in Processes PROVE BeatWithMain(q)'
  BY <1>0 DEF ClientTypes, BeatWithMain, Beating, Running, Ended
<1>3. ASSUME NEW q \in Processes PROVE SeatHeld(q)'
  BY <1>0 DEF ClientTypes, SeatHeld, BeatWithMain, Beating, Running, Ended
<1>4. ASSUME NEW q \in Processes PROVE Accounted(q)'
  BY <1>0 DEF ClientTypes, Accounted, Running, Leaving, Stashes, Ended
<1>5. SeatReleased'
  <2>1. PICK l : main' = [main EXCEPT ![p] = l]
    BY <1>0 DEF ClientTypes
  <2>2. leaked \subseteq leaked' /\ seats' \subseteq seats \cup {InstanceOf(p)}
    OBVIOUS
  <2>3. InstanceOf(p) \in seats' => Holder(p)' \/ (~Holder(p) /\ InstanceOf(p) \in seats)
    BY <1>0 DEF ClientTypes, Holder, BeatWithMain, Beating, Running, Ended
  <2>4. QED
    BY <1>0, <2>1, <2>2, <2>3, SeatsHaveHolders DEF ClientTypes
<1>6. QED
  BY <1>1, <1>2, <1>3, <1>4, <1>5 DEF ClientInv

\* A heartbeat goes on if it was not told to stop.
LEMMA BeatWakesKeeps ==
  ASSUME ClientInv, NEW p \in Processes, BeatWakes(p), main[p] \notin Ended
  PROVE  ClientInv'
<1>0. ClientTypes /\ (\A q \in Processes : BeatWithMain(q) /\ SeatHeld(q) /\ Accounted(q)) /\ SeatReleased
  BY DEF ClientInv
<1> USE DEF BeatWakes, Continue, commandVars, licenceVars, serverVars
<1>1. ClientTypes'
  BY <1>0 DEF ClientTypes, MainLabels, Running, Leaving, Ended, BeatLabels
<1>2. ASSUME NEW q \in Processes PROVE BeatWithMain(q)'
  BY <1>0 DEF ClientTypes, BeatWithMain, Beating, Running, Ended
<1>3. ASSUME NEW q \in Processes PROVE SeatHeld(q)'
  BY <1>0 DEF ClientTypes, SeatHeld, BeatWithMain, Beating, Running, Ended
<1>4. ASSUME NEW q \in Processes PROVE Accounted(q)'
  BY <1>0 DEF ClientTypes, Accounted, Running, Leaving, Stashes, Ended
<1>5. SeatReleased'
  BY <1>0 DEF ClientTypes, SeatReleased
<1>6. QED
  BY <1>1, <1>2, <1>3, <1>4, <1>5 DEF ClientInv

\* The heartbeat keeps the seat, or is missed.
LEMMA BeatAsksKeeps ==
  ASSUME ClientInv, NEW p \in Processes, BeatAsks(p), main[p] \notin Ended
  PROVE  ClientInv'
<1>0. ClientTypes /\ (\A q \in Processes : BeatWithMain(q) /\ SeatHeld(q) /\ Accounted(q)) /\ SeatReleased
  BY DEF ClientInv
<1> USE DEF BeatAsks, Acknowledged, Unacknowledged, RevokedKey, Granted, SeatFree, Continue, commandVars, licenceVars, serverVars
<1>1. ClientTypes'
  <2>1. main' = main \/ main' = [main EXCEPT ![p] = "aborted"]
    OBVIOUS
  <2>2. main' \in [Processes -> MainLabels]
    BY <1>0, <2>1 DEF ClientTypes, MainLabels, Ended
  <2>3. beat' \in [Processes -> BeatLabels]
    BY <1>0 DEF ClientTypes, BeatLabels
  <2>4. send' \in [Processes -> BOOLEAN] /\ missed' \in [Processes -> BOOLEAN] /\ taken' \in [Processes -> BOOLEAN]
    BY <1>0 DEF ClientTypes
  <2>5. QED
    BY <1>0, <2>2, <2>3, <2>4 DEF ClientTypes
<1>2. ASSUME NEW q \in Processes PROVE BeatWithMain(q)'
  <2>1. CASE q # p
    <3>1. main'[q] = main[q] /\ beat'[q] = beat[q] /\ send'[q] = send[q] /\ missed'[q] = missed[q]
      BY <1>0, <2>1 DEF ClientTypes
    <3>2. QED
      BY <1>0, <3>1 DEF BeatWithMain, Beating
  <2>2. CASE q = p
    BY ZenonT(40), <1>0, <2>2 DEF ClientTypes, BeatWithMain, Beating, Running, Ended
  <2>3. QED
    BY <2>1, <2>2
<1>3. ASSUME NEW q \in Processes PROVE SeatHeld(q)'
  BY ZenonT(40), <1>0 DEF ClientTypes, SeatHeld, BeatWithMain, Beating, Running, Ended
<1>4. ASSUME NEW q \in Processes PROVE Accounted(q)'
  BY ZenonT(40), <1>0 DEF ClientTypes, Accounted, Running, Leaving, Stashes, Ended
<1>5. SeatReleased'
  <2>1. PICK l : main' = [main EXCEPT ![p] = l]
    BY <1>0 DEF ClientTypes
  <2>2. leaked \subseteq leaked' /\ seats' \subseteq seats \cup {InstanceOf(p)}
    OBVIOUS
  <2>3. InstanceOf(p) \in seats' => Holder(p)' \/ (~Holder(p) /\ InstanceOf(p) \in seats)
    BY <1>0 DEF ClientTypes, Holder, BeatWithMain, Beating, Running, Ended
  <2>4. QED
    BY <1>0, <2>1, <2>2, <2>3, SeatsHaveHolders DEF ClientTypes
<1>6. QED
  BY <1>1, <1>2, <1>3, <1>4, <1>5 DEF ClientInv

\* A process that is killed has no heartbeat.
LEMMA KillKeeps ==
  ASSUME ClientInv, NEW p \in Processes, KillProcess(p)
  PROVE  ClientInv'
<1>0. ClientTypes /\ (\A q \in Processes : BeatWithMain(q) /\ SeatHeld(q) /\ Accounted(q)) /\ SeatReleased
  BY DEF ClientInv
<1> USE DEF KillProcess, Continue, commandVars, licenceVars, serverVars
<1>1. ClientTypes'
  BY <1>0 DEF ClientTypes, MainLabels, Running, Leaving, Ended, BeatLabels
<1>2. ASSUME NEW q \in Processes PROVE BeatWithMain(q)'
  BY <1>0 DEF ClientTypes, BeatWithMain, Beating, Running, Ended
<1>3. ASSUME NEW q \in Processes PROVE SeatHeld(q)'
  BY <1>0 DEF ClientTypes, SeatHeld, BeatWithMain, Beating, Running, Ended
<1>4. ASSUME NEW q \in Processes PROVE Accounted(q)'
  BY <1>0 DEF ClientTypes, Accounted, Running, Leaving, Stashes, Ended
<1>5. SeatReleased'
  <2>1. PICK l : main' = [main EXCEPT ![p] = l]
    BY <1>0 DEF ClientTypes
  <2>2. leaked \subseteq leaked' /\ seats' \subseteq seats \cup {InstanceOf(p)}
    OBVIOUS
  <2>3. InstanceOf(p) \in seats' => Holder(p)' \/ (~Holder(p) /\ InstanceOf(p) \in seats)
    BY <1>0 DEF ClientTypes, Holder, BeatWithMain, Beating, Running, Ended
  <2>4. QED
    BY <1>0, <2>1, <2>2, <2>3, SeatsHaveHolders DEF ClientTypes
<1>6. QED
  BY <1>1, <1>2, <1>3, <1>4, <1>5 DEF ClientInv

\* A seat expires when no heartbeat keeps it.
LEMMA SeatExpiresKeeps ==
  ASSUME ClientInv, NEW p \in Processes, SeatExpires(p)
  PROVE  ClientInv'
<1>0. ClientTypes /\ (\A q \in Processes : BeatWithMain(q) /\ SeatHeld(q) /\ Accounted(q)) /\ SeatReleased
  BY DEF ClientInv
<1> USE DEF SeatExpires, Siblings, Continue, commandVars, licenceVars, serverVars
<1>1. ClientTypes'
  BY <1>0 DEF ClientTypes, MainLabels, Running, Leaving, Ended, BeatLabels
<1>2. ASSUME NEW q \in Processes PROVE BeatWithMain(q)'
  BY <1>0 DEF ClientTypes, BeatWithMain, Beating, Running, Ended
<1>3. ASSUME NEW q \in Processes PROVE SeatHeld(q)'
  BY <1>0 DEF ClientTypes, SeatHeld, BeatWithMain, Beating, Running, Ended
<1>4. ASSUME NEW q \in Processes PROVE Accounted(q)'
  BY <1>0 DEF ClientTypes, Accounted, Running, Leaving, Stashes, Ended
<1>5. SeatReleased'
  BY <1>0 DEF ClientTypes, SeatReleased
<1>6. QED
  BY <1>1, <1>2, <1>3, <1>4, <1>5 DEF ClientInv

LEMMA RevokeKeeps ==
  ASSUME ClientInv, Revoke
  PROVE  ClientInv'
BY DEF ClientInv, ClientTypes, BeatWithMain, Beating, SeatHeld, Accounted, Stashes, SeatReleased, Revoke,
       commandVars, licenceVars

\* One step of the client keeps the invariant.
LEMMA ClientNextKeeps ==
  ASSUME ClientInv, [ClientNext]_clientVars
  PROVE  ClientInv'
<1>1. CASE Revoke
  BY <1>1, RevokeKeeps
<1>2. ASSUME NEW p \in Processes, MainThread(p) PROVE ClientInv'
  BY <1>2, ActivateKeeps, DispatchKeeps, UnauthorisedKeeps, PopKeeps, SucceedsKeeps, FailsKeeps,
     ThrowsKeeps, FinishesKeeps, DeactivateKeeps, JoinKeeps, ReleaseKeeps, ExitKeeps DEF MainThread
<1>3. ASSUME NEW p \in Processes, Heartbeat(p) PROVE ClientInv'
  BY <1>3, BeatWakesKeeps, BeatAsksKeeps DEF Heartbeat
<1>4. ASSUME NEW p \in Processes, KillProcess(p) \/ SeatExpires(p) PROVE ClientInv'
  BY <1>4, KillKeeps, SeatExpiresKeeps
<1>5. CASE UNCHANGED clientVars
  BY <1>5 DEF clientVars, commandVars, licenceVars, serverVars, ClientInv, ClientTypes, BeatWithMain,
     Beating, SeatHeld, Accounted, Stashes, SeatReleased
<1>6. QED
  BY <1>1, <1>2, <1>3, <1>4, <1>5 DEF ClientNext, ProcessStep

\* The processes, their heartbeats, the seats and the exit codes agree in every state
\* (main, LicenseValidator, RepoController).
THEOREM ClientsHold == ClientSpec => []ClientInv
<1>1. (\E started \in SUBSET Processes, commands \in [Processes -> Commands] : ClientInit(started, commands))
        => ClientInv
  BY ClientStart
<1>2. ClientInv /\ [ClientNext]_clientVars => ClientInv'
  BY ClientNextKeeps
<1>3. QED
  BY <1>1, <1>2, PTL DEF ClientSpec

\* A process works with its seat, unless a heartbeat of its own failed or a process
\* of its instance has given it back (runHeartBeatLoop, deactivate).
THEOREM WorkingHaveSeats == ClientSpec => []SeatWhileWorking
<1>1. ClientInv => SeatWhileWorking
  BY DEF ClientInv, SeatHeld, SeatWhileWorking, Running
<1>2. QED
  BY <1>1, ClientsHold, PTL

\* No seat outlives the processes that end on their own, and no late heartbeat takes
\* it again (LicenseValidator::deactivate).
THEOREM SeatsGivenBack == ClientSpec => []SeatReleased
<1>1. ClientInv => SeatReleased
  BY DEF ClientInv
<1>2. QED
  BY <1>1, ClientsHold, PTL

\* The exit code is that of success exactly when all of the command was done
\* (generateStash, performOperation).
THEOREM ExitCodes == ClientSpec => []ExitTellsTruth
<1>1. ClientInv => ExitTellsTruth
  BY DEF ClientInv, Accounted, ExitTellsTruth
<1>2. QED
  BY <1>1, ClientsHold, PTL

-----------------------------------------------------------------------------
(* The monitor. *)

TaskLabels == {"waiting", "next", "running", "sending", "clearing", "deleting", "done", "failed"}
ProcessIds == Tasks \X Nat
EntryRecords == [kind : {"entry"}, process : ProcessIds, previous : Int]
ReportRecords == [kind : {"report"}, time : Int]
Kept == {NoEntry} \cup EntryRecords \cup ReportRecords

\* Every variable keeps its type.
MonitorTypes ==
  /\ at \in [Tasks -> TaskLabels]
  /\ run \in [Tasks -> Nat]
  /\ starting \subseteq ProcessIds /\ timers \subseteq ProcessIds /\ late \subseteq ProcessIds
  /\ dataByRid \in [Rids -> Kept]

\* Tasks that use an id at the same time have it marked, and a start that comes too
\* late is marked.
Marked ==
  /\ \A t, u \in Tasks : t # u /\ Rid[t] = Rid[u] /\ Active(t) /\ Active(u) => Rid[t] \in shared
  /\ \A p \in starting : p \in late \/ Runs(p)
  /\ \A t \in Tasks : (at[t] = "waiting" => run[t] = 0) /\ (at[t] = "running" => run[t] >= 1)

Alone(t) == \A u \in Tasks \ {t} : Rid[u] # Rid[t]

\* A time of n processes of the task: with those of an earlier delivery, if there is one.
Covers(t, time, n) == time >= n /\ (Alone(t) => time = n)

\* What is kept under the id of a task that nothing disturbed, by where the task is.
KeptFor(t) ==
  LET data == dataByRid[Rid[t]] IN
    /\ data.kind = "entry" =>
         /\ at[data.process[1]] = "running" /\ run[data.process[1]] = data.process[2]
         /\ Rid[data.process[1]] = Rid[t]
    /\ data.kind = "report" => data.time >= 0
    /\ at[t] = "waiting" /\ Alone(t) => data = NoEntry
    /\ at[t] = "running" /\ <<t, run[t]>> \in starting =>
         data.kind # "entry" /\ Covers(t, ProcessTime(data), run[t] - 1)
    /\ at[t] = "running" /\ <<t, run[t]>> \notin starting =>
         data.kind = "entry" /\ data.process = <<t, run[t]>> /\ Covers(t, data.previous, run[t] - 1)
    /\ at[t] \in {"next", "sending", "clearing"} => data.kind = "report" /\ Covers(t, data.time, run[t])

\* What is kept under an id, whatever happened to its tasks: an entry of a process that
\* runs or came too late, or a report that will be deleted unless its task failed.
KeptRightly(r) ==
  /\ dataByRid[r].kind = "entry" =>
       /\ Rid[dataByRid[r].process[1]] = r
       /\ Runs(dataByRid[r].process) \/ dataByRid[r].process \in late
  /\ dataByRid[r].kind = "report" =>
       \E t \in Tasks : Rid[t] = r /\ (Active(t) \/ at[t] = "failed")

\* A timer is that of the entry under its id.
TimerOK(p) ==
  Undisturbed(p[1]) =>
    dataByRid[Rid[p[1]]].kind = "entry" /\ dataByRid[Rid[p[1]]].process = p

MonitorInv ==
  /\ MonitorTypes /\ Marked
  /\ \A t \in Tasks : Undisturbed(t) => KeptFor(t)
  /\ \A r \in Rids : KeptRightly(r)
  /\ \A p \in timers : TimerOK(p)
  /\ \A r \in records : r.task \in Tasks
  /\ ReportsCoverTask

\* What is kept under an id is nothing, an entry or a report.
LEMMA KeptKinds ==
  ASSUME NEW d \in Kept
  PROVE  \/ d = NoEntry /\ d.kind = "none"
         \/ d # NoEntry /\ d.kind = "entry" /\ d.process \in ProcessIds /\ d.previous \in Int
         \/ d # NoEntry /\ d.kind = "report" /\ d.time \in Int
<1>1. CASE d = NoEntry
  BY <1>1 DEF NoEntry
<1>2. CASE d \in EntryRecords
  BY <1>2 DEF EntryRecords, NoEntry
<1>3. CASE d \in ReportRecords
  BY <1>3 DEF ReportRecords, NoEntry
<1>4. QED
  BY <1>1, <1>2, <1>3 DEF Kept

\* Every start of the monitor satisfies the invariant.
LEMMA MonitorStart ==
  ASSUME NEW delivered \in SUBSET Tasks, MonitorInit(delivered)
  PROVE  MonitorInv
<1> USE DEF MonitorInit
<1>1. MonitorTypes
  BY DEF MonitorTypes, TaskLabels, Kept
<1>2. Marked
  BY DEF Marked, Active
<1>3. ASSUME NEW t \in Tasks PROVE KeptFor(t)
  <2>1. dataByRid[Rid[t]] = NoEntry /\ NoEntry.kind = "none" /\ at[t] \in {"waiting", "done"}
    BY DEF Rids, NoEntry
  <2>2. QED
    BY <2>1 DEF KeptFor
<1>4. ASSUME NEW r \in Rids PROVE KeptRightly(r)
  BY DEF KeptRightly, NoEntry
<1>5. QED
  BY <1>1, <1>2, <1>3, <1>4 DEF MonitorInv, ReportsCoverTask

\* A task that nothing has disturbed was not disturbed before.
LEMMA DisturbedForGood ==
  ASSUME NEW t, shared \subseteq shared', late \subseteq late', Undisturbed(t)'
  PROVE  Undisturbed(t)
BY DEF Undisturbed

\* A step of a task leaves the tasks of the other ids alone.
Apart(t) ==
  /\ \A v \in Tasks \ {t} : at'[v] = at[v] /\ run'[v] = run[v]
  /\ \A r \in Rids \ {Rid[t]} : dataByRid'[r] = dataByRid[r]
  /\ \A v \in Tasks \ {t}, n \in Nat : <<v, n>> \in starting' <=> <<v, n>> \in starting
  /\ shared \subseteq shared' /\ late \subseteq late'

LEMMA ElsewhereKept ==
  ASSUME MonitorTypes, NEW t \in Tasks, Apart(t), NEW u \in Tasks, Rid[u] # Rid[t], KeptFor(u)
  PROVE  KeptFor(u)'
<1>1. u # t /\ Rid[u] \in Rids
  BY DEF Rids
<1>2. dataByRid'[Rid[u]] = dataByRid[Rid[u]] /\ at'[u] = at[u] /\ run'[u] = run[u]
      /\ (<<u, run[u]>> \in starting' <=> <<u, run[u]>> \in starting)
  BY <1>1 DEF Apart, MonitorTypes
<1> DEFINE data == dataByRid[Rid[u]]
<1>3. data.kind = "entry" => data.process[1] \in Tasks
  BY <1>1, KeptKinds DEF MonitorTypes, ProcessIds
<1>4. \A v \in Tasks : Rid[v] = Rid[u] => at'[v] = at[v] /\ run'[v] = run[v]
  BY DEF Apart
<1>5. QED
  BY <1>1, <1>2, <1>3, <1>4 DEF KeptFor, Covers, Alone, ProcessTime

\* What is kept for a task is right for those of its id that do not run.
LEMMA CompanionKept ==
  ASSUME NEW t \in Tasks, KeptFor(t)', NEW u \in Tasks \ {t}, Rid[u] = Rid[t],
         at'[u] \in {"waiting", "done", "failed"}
  PROVE  KeptFor(u)'
BY DEF KeptFor, Alone

LEMMA AllKept ==
  ASSUME MonitorInv, NEW t \in Tasks, Apart(t), Marked',
         Undisturbed(t)' => KeptFor(t)' /\ (Active(t) \/ Active(t)'),
         at' \in [Tasks -> TaskLabels]
  PROVE  \A u \in Tasks : Undisturbed(u)' => KeptFor(u)'
<1> SUFFICES ASSUME NEW u \in Tasks, Undisturbed(u)' PROVE KeptFor(u)'
  OBVIOUS
<1>1. Undisturbed(u)
  BY DisturbedForGood DEF Apart
<1>2. CASE Rid[u] # Rid[t]
  BY <1>1, <1>2, ElsewhereKept DEF MonitorInv
<1>3. CASE Rid[u] = Rid[t] /\ u # t
  <2>1. Undisturbed(t)' /\ Rid[t] \notin shared /\ Rid[t] \notin shared'
    BY <1>1, <1>3 DEF Undisturbed
  <2>2. ~Active(u)'
    <3>1. CASE Active(t)'
      BY <1>3, <2>1, <3>1 DEF Marked
    <3>2. CASE Active(t)
      BY <1>3, <2>1, <3>2 DEF MonitorInv, Marked, Active, Apart
    <3>3. QED
      BY <2>1, <3>1, <3>2
  <2>3. at'[u] \in {"waiting", "done", "failed"}
    BY <2>2 DEF Active
  <2>4. QED
    BY <1>3, <2>1, <2>3, CompanionKept
<1>4. QED
  BY <1>2, <1>3

\* Under the other ids what is kept is as right as before.
LEMMA AllRightly ==
  ASSUME MonitorInv, NEW t \in Tasks, Apart(t), KeptRightly(Rid[t])'
  PROVE  \A r \in Rids : KeptRightly(r)'
<1> SUFFICES ASSUME NEW r \in Rids \ {Rid[t]} PROVE KeptRightly(r)'
  OBVIOUS
<1>1. MonitorTypes /\ KeptRightly(r) /\ dataByRid'[r] = dataByRid[r] /\ late \subseteq late'
  BY DEF MonitorInv, Apart
<1>2. \A u \in Tasks : Rid[u] = r => at'[u] = at[u] /\ run'[u] = run[u]
  BY DEF Apart
<1>3. dataByRid[r].kind = "entry" => dataByRid[r].process[1] \in Tasks
  BY <1>1, KeptKinds DEF MonitorTypes, ProcessIds
<1>4. QED
  BY <1>1, <1>2, <1>3 DEF KeptRightly, Runs, Active

\* The reports that were sent stay right.
LEMMA ReportsStay ==
  ASSUME ReportsCoverTask, shared \subseteq shared', late \subseteq late',
         NEW r \in records, Undisturbed(r.task)'
  PROVE  r.time >= r.ran /\ (Alone(r.task) => r.time = r.ran)
<1>1. Undisturbed(r.task)
  BY DEF Undisturbed
<1>2. QED
  BY <1>1 DEF ReportsCoverTask, Alone

\* A process is spawned: what is kept is that of the processes before it.
LEMMA SpawnKeeps ==
  ASSUME MonitorInv, NEW t \in Tasks, Spawn(t)
  PROVE  MonitorInv'
<1>0. /\ MonitorTypes /\ Marked /\ ReportsCoverTask
      /\ \A u \in Tasks : Undisturbed(u) => KeptFor(u)
      /\ \A q \in timers : TimerOK(q)
      /\ \A r \in Rids : KeptRightly(r)
      /\ \A r \in records : r.task \in Tasks
  BY DEF MonitorInv
<1>a. Rid[t] \in Rids /\ dataByRid[Rid[t]] \in Kept /\ run[t] \in Nat
  BY <1>0 DEF Rids, MonitorTypes
<1>b. /\ at[t] \in {"waiting", "next"} /\ at' = [at EXCEPT ![t] = "running"]
      /\ run' = [run EXCEPT ![t] = @ + 1] /\ starting' = starting \cup {<<t, run[t] + 1>>}
      /\ shared \subseteq shared' /\ UNCHANGED <<dataByRid, timers, records, late>>
      /\ (\E u \in Tasks \ {t} : Rid[u] = Rid[t] /\ Active(u)) => Rid[t] \in shared'
  BY <1>0, <1>a DEF Spawn, MonitorTypes
<1>1. MonitorTypes'
  BY <1>0, <1>a, <1>b DEF MonitorTypes, TaskLabels, ProcessIds
<1>2. Marked'
  <2>1. \A v, u \in Tasks : v # u /\ Rid[v] = Rid[u] /\ Active(v)' /\ Active(u)' => Rid[v] \in shared'
    BY <1>0, <1>b DEF Marked, MonitorTypes, Active
  <2>2. \A p \in starting' : p \in late' \/ Runs(p)'
    <3>1. SUFFICES ASSUME NEW p \in starting' PROVE p \in late' \/ Runs(p)'
      OBVIOUS
    <3>2. CASE p = <<t, run[t] + 1>>
      BY <1>0, <1>a, <1>b, <3>2 DEF MonitorTypes, Runs
    <3>3. CASE p \in starting
      BY <1>0, <1>b, <3>3 DEF Marked, MonitorTypes, ProcessIds, Runs
    <3>4. QED
      BY <1>b, <3>2, <3>3
  <2>3. QED
    BY <1>0, <1>b, <2>1, <2>2 DEF Marked, MonitorTypes
<1>3. Apart(t)
  BY <1>0, <1>b DEF Apart, MonitorTypes
<1>4. \A u \in Tasks : Undisturbed(u)' => KeptFor(u)'
  <2> DEFINE data == dataByRid[Rid[t]]
  <2>1. ASSUME Undisturbed(t)' PROVE KeptFor(t)'
    <3>1. KeptFor(t) /\ Undisturbed(t)
      BY <1>0, <1>b, <2>1, DisturbedForGood
    <3>2. data.kind # "entry"
      <4>1. SUFFICES ASSUME data.kind = "entry" PROVE FALSE
        OBVIOUS
      <4>2. data.process[1] \in Tasks /\ Rid[data.process[1]] = Rid[t] /\ at[data.process[1]] = "running"
        BY <1>a, <3>1, <4>1, KeptKinds DEF KeptFor, ProcessIds
      <4>3. QED
        BY <1>b, <2>1, <4>2 DEF Undisturbed, Active
    <3>3. Covers(t, ProcessTime(data), run[t])
      BY <1>0, <1>a, <1>b, <3>1, <3>2, KeptKinds DEF KeptFor, Marked, Covers, ProcessTime, NoEntry
    <3>4. at'[t] = "running" /\ run'[t] = run[t] + 1 /\ <<t, run'[t]>> \in starting' /\ run'[t] - 1 = run[t]
      BY <1>0, <1>a, <1>b DEF MonitorTypes
    <3>5. dataByRid'[Rid[t]] = data /\ data.kind # "entry"
      BY <1>b, <3>2
    <3>6. data.kind = "report" => data.time >= 0
      BY <3>1 DEF KeptFor
    <3>7. QED
      BY <3>3, <3>4, <3>5, <3>6 DEF KeptFor, Covers, Alone, ProcessTime
  <2>2. Active(t)'
    BY <1>0, <1>b DEF Active, MonitorTypes
  <2>3. QED
    BY <1>1, <1>2, <1>3, <2>1, <2>2, AllKept DEF MonitorTypes
<1>5. \A q \in timers' : TimerOK(q)'
  BY <1>0, <1>b, DisturbedForGood DEF TimerOK
<1>6. \A r \in records' : r.task \in Tasks
  BY <1>0, <1>b
<1>7. ReportsCoverTask'
  BY <1>b, <1>0, ReportsStay DEF ReportsCoverTask, Alone
<1>8. KeptRightly(Rid[t])'
  <2>1. KeptRightly(Rid[t]) /\ dataByRid'[Rid[t]] = dataByRid[Rid[t]]
    BY <1>0, <1>a, <1>b
  <2>2. \A q \in ProcessIds : Runs(q) => Runs(q)'
    BY <1>0, <1>b DEF Runs, MonitorTypes, ProcessIds
  <2>3. Active(t)'
    BY <1>0, <1>b DEF Active, MonitorTypes
  <2>4. QED
    BY <1>a, <1>b, <2>1, <2>2, <2>3, KeptKinds DEF KeptRightly
<1>9. \A r \in Rids : KeptRightly(r)'
  BY <1>3, <1>8, AllRightly
<1>10. QED
  BY <1>1, <1>2, <1>4, <1>5, <1>6, <1>7, <1>9 DEF MonitorInv

\* startMonitor takes over the time of the processes before.
LEMMA StartMonitorKeeps ==
  ASSUME MonitorInv, NEW p \in starting, StartMonitor(p)
  PROVE  MonitorInv'
<1>0. /\ MonitorTypes /\ Marked /\ ReportsCoverTask
      /\ \A u \in Tasks : Undisturbed(u) => KeptFor(u)
      /\ \A q \in timers : TimerOK(q)
      /\ \A r \in Rids : KeptRightly(r)
      /\ \A r \in records : r.task \in Tasks
  BY DEF MonitorInv
<1>a. p \in ProcessIds /\ p = <<p[1], p[2]>> /\ p[1] \in Tasks /\ p[2] \in Nat
  BY <1>0 DEF MonitorTypes, ProcessIds
<1> DEFINE t == p[1]
           data == dataByRid[Rid[t]]
<1>b. t \in Tasks /\ Rid[t] \in Rids /\ data \in Kept /\ run[t] \in Nat
  BY <1>0, <1>a DEF Rids, MonitorTypes
<1> DEFINE entry == [kind |-> "entry", process |-> p, previous |-> ProcessTime(data)]
<1>c. /\ starting' = starting \ {p} /\ timers' = timers \cup {p}
      /\ dataByRid' = [dataByRid EXCEPT ![Rid[t]] = entry]
      /\ UNCHANGED <<at, run, records, late, shared>>
  BY <1>0, <1>b DEF StartMonitor, MonitorTypes
<1>d. /\ entry.kind = "entry" /\ entry.process = p /\ entry.previous = ProcessTime(data)
      /\ entry # NoEntry /\ ProcessTime(data) \in Int
  BY <1>b, KeptKinds DEF NoEntry, ProcessTime
<1>e. entry \in Kept
  BY <1>a, <1>d DEF Kept, EntryRecords
<1> HIDE DEF entry
<1>f. dataByRid'[Rid[t]] = entry
  BY <1>0, <1>b, <1>c DEF MonitorTypes
<1>1. MonitorTypes'
  BY <1>0, <1>a, <1>b, <1>c, <1>e DEF MonitorTypes
<1>2. Marked'
  BY <1>0, <1>c DEF Marked, Active, Runs
<1>3. Apart(t)
  BY <1>0, <1>a, <1>c DEF Apart, MonitorTypes
<1>g. ASSUME Undisturbed(t)
      PROVE  /\ at[t] = "running" /\ run[t] = p[2] /\ <<t, run[t]>> = p /\ data.kind # "entry"
             /\ Covers(t, ProcessTime(data), run[t] - 1)
  <2>1. p \notin late
    BY <1>g DEF Undisturbed
  <2>2. at[t] = "running" /\ run[t] = p[2] /\ <<t, run[t]>> = p
    BY <1>0, <1>a, <2>1 DEF Marked, Runs
  <2>3. QED
    BY <1>0, <1>b, <1>g, <2>2 DEF KeptFor
<1>4. \A u \in Tasks : Undisturbed(u)' => KeptFor(u)'
  <2>1. ASSUME Undisturbed(t)' PROVE KeptFor(t)' /\ Active(t)
    <3>1. Undisturbed(t)
      BY <1>c, <2>1 DEF Undisturbed
    <3>2. at'[t] = "running" /\ run'[t] = run[t] /\ <<t, run'[t]>> \notin starting' /\ run'[p[1]] = p[2]
      BY <1>c, <1>g, <3>1
    <3>3. dataByRid'[Rid[t]] = entry /\ entry.process = <<t, run'[t]>> /\ Covers(t, entry.previous, run'[t] - 1)
      BY <1>c, <1>d, <1>f, <1>g, <3>1
    <3>4. KeptFor(t)'
      BY <1>b, <1>d, <3>2, <3>3 DEF KeptFor, Covers, Alone
    <3>5. QED
      BY <1>g, <3>1, <3>4 DEF Active
  <2>2. QED
    BY <1>1, <1>2, <1>3, <1>b, <2>1, AllKept DEF MonitorTypes
<1>5. \A q \in timers' : TimerOK(q)'
  <2>1. SUFFICES ASSUME NEW q \in timers', Undisturbed(q[1])'
                 PROVE  dataByRid'[Rid[q[1]]].kind = "entry" /\ dataByRid'[Rid[q[1]]].process = q
    BY DEF TimerOK
  <2>2. CASE q = p
    BY <1>d, <1>f, <2>2
  <2>3. CASE q # p
    <3>1. q \in timers /\ q[1] \in Tasks /\ Undisturbed(q[1])
      BY <1>0, <1>c, <2>1, <2>3 DEF MonitorTypes, ProcessIds, Undisturbed
    <3>2. dataByRid[Rid[q[1]]].kind = "entry" /\ dataByRid[Rid[q[1]]].process = q
      BY <1>0, <3>1 DEF TimerOK
    <3>3. Rid[q[1]] # Rid[t]
      <4>1. SUFFICES ASSUME Rid[q[1]] = Rid[t] PROVE FALSE
        OBVIOUS
      <4>2. Undisturbed(t)
        BY <3>1, <4>1 DEF Undisturbed
      <4>3. QED
        BY <1>g, <3>2, <4>1, <4>2
    <3>4. QED
      BY <1>c, <3>2, <3>3, <3>1 DEF Rids
  <2>4. QED
    BY <2>2, <2>3
<1>6. \A r \in records' : r.task \in Tasks
  BY <1>0, <1>c
<1>7. ReportsCoverTask'
  BY <1>c, <1>0, ReportsStay DEF ReportsCoverTask, Alone
<1>8. KeptRightly(Rid[t])'
  <2>1. p \in late \/ Runs(p)
    BY <1>0 DEF Marked
  <2>2. QED
    BY <1>c, <1>d, <1>f, <2>1 DEF KeptRightly, Runs
<1>9. \A r \in Rids : KeptRightly(r)'
  BY <1>b, <1>3, <1>8, AllRightly
<1>10. QED
  BY <1>1, <1>2, <1>4, <1>5, <1>6, <1>7, <1>9 DEF MonitorInv

\* The end of a process turns the entry into a report.
LEMMA ClosedKeeps ==
  ASSUME MonitorInv, NEW t \in Tasks, Closed(t)
  PROVE  MonitorInv'
<1>0. /\ MonitorTypes /\ Marked /\ ReportsCoverTask
      /\ \A u \in Tasks : Undisturbed(u) => KeptFor(u)
      /\ \A q \in timers : TimerOK(q)
      /\ \A r \in Rids : KeptRightly(r)
      /\ \A r \in records : r.task \in Tasks
  BY DEF MonitorInv
<1>a. Rid[t] \in Rids /\ dataByRid[Rid[t]] \in Kept /\ run[t] \in Nat
  BY <1>0 DEF Rids, MonitorTypes
<1> DEFINE data == dataByRid[Rid[t]]
<1> DEFINE kept == IF data = NoEntry THEN data
                   ELSE [kind |-> "report",
                         time |-> IF data.kind = "entry" /\ data.previous # NotANumber
                                  THEN data.previous + 1 ELSE NotANumber]
<1>b. /\ at[t] = "running"
      /\ \E l \in {"next", "sending", "clearing", "failed"} : at' = [at EXCEPT ![t] = l]
      /\ dataByRid' = [dataByRid EXCEPT ![Rid[t]] = kept]
      /\ timers' = IF data.kind = "entry" THEN timers \ {data.process} ELSE timers
      /\ late' = IF <<t, run[t]>> \in starting THEN late \cup {<<t, run[t]>>} ELSE late
      /\ UNCHANGED <<run, starting, records, shared>>
  BY <1>0, <1>a DEF Closed, Outcome, StopMonitor, MonitorTypes
<1>c. /\ kept \in Kept /\ kept.kind # "entry"
      /\ data.kind = "entry" => kept.kind = "report"
      /\ data.kind = "entry" /\ data.previous >= 0 => kept.time = data.previous + 1
  BY <1>a, KeptKinds DEF Kept, ReportRecords, NoEntry, NotANumber
<1> HIDE DEF kept
<1>d. PICK l \in {"next", "sending", "clearing", "failed"} : at' = [at EXCEPT ![t] = l]
  BY <1>b
<1>e. at'[t] = l /\ dataByRid'[Rid[t]] = kept /\ run' = run
  BY <1>0, <1>a, <1>b, <1>d DEF MonitorTypes
<1>1. MonitorTypes'
  <2>1. at' \in [Tasks -> TaskLabels]
    BY <1>0, <1>d DEF MonitorTypes, TaskLabels
  <2>2. dataByRid' \in [Rids -> Kept]
    BY <1>0, <1>b, <1>c DEF MonitorTypes
  <2>3. QED
    BY <1>0, <1>b, <2>1, <2>2 DEF MonitorTypes
<1>2. Marked'
  <2>1. \A v, u \in Tasks : v # u /\ Rid[v] = Rid[u] /\ Active(v)' /\ Active(u)' => Rid[v] \in shared'
    BY <1>0, <1>b, <1>d DEF Marked, MonitorTypes, Active
  <2>2. \A q \in starting' : q \in late' \/ Runs(q)'
    <3>1. SUFFICES ASSUME NEW q \in starting PROVE q \in late' \/ Runs(q)'
      BY <1>b
    <3>2. q \in ProcessIds /\ q = <<q[1], q[2]>> /\ q[1] \in Tasks
      BY <1>0 DEF MonitorTypes, ProcessIds
    <3>3. CASE q[1] = t
      BY <1>0, <1>b, <3>2, <3>3 DEF Marked, Runs
    <3>4. CASE q[1] # t
      BY <1>0, <1>b, <1>d, <3>2, <3>4 DEF Marked, MonitorTypes, Runs
    <3>5. QED
      BY <3>3, <3>4
  <2>3. QED
    BY <1>0, <1>b, <1>d, <2>1, <2>2 DEF Marked, MonitorTypes
<1>3. Apart(t)
  BY <1>0, <1>b, <1>d DEF Apart, MonitorTypes
<1>4. \A u \in Tasks : Undisturbed(u)' => KeptFor(u)'
  <2>1. ASSUME Undisturbed(t)' PROVE KeptFor(t)'
    <3>1. KeptFor(t)
      BY <1>0, <1>b, <2>1, DisturbedForGood
    <3>2. <<t, run[t]>> \notin starting
      BY <1>b, <2>1 DEF Undisturbed
    <3>3. data.kind = "entry" /\ Covers(t, data.previous, run[t] - 1) /\ run[t] >= 0
      BY <1>a, <1>b, <3>1, <3>2 DEF KeptFor
    <3>4. run[t] >= 1
      BY <1>0, <1>b DEF Marked
    <3>5. data.previous \in Int /\ data.previous >= 0
      BY <1>a, <3>3, <3>4, KeptKinds DEF Covers
    <3>6. kept.kind = "report" /\ Covers(t, kept.time, run[t]) /\ kept.time >= 0
      BY <1>a, <1>c, <3>3, <3>5 DEF Covers
    <3>7. QED
      BY <1>b, <1>d, <1>e, <3>6 DEF KeptFor, Covers, Alone
  <2>2. Active(t)
    BY <1>b DEF Active
  <2>3. QED
    BY <1>1, <1>2, <1>3, <2>1, <2>2, AllKept DEF MonitorTypes
<1>5. \A q \in timers' : TimerOK(q)'
  <2>1. SUFFICES ASSUME NEW q \in timers', Undisturbed(q[1])'
                 PROVE  dataByRid'[Rid[q[1]]].kind = "entry" /\ dataByRid'[Rid[q[1]]].process = q
    BY DEF TimerOK
  <2>2. q \in timers /\ q[1] \in Tasks /\ Undisturbed(q[1])
    BY <1>0, <1>b, <2>1, DisturbedForGood DEF MonitorTypes, ProcessIds
  <2>3. dataByRid[Rid[q[1]]].kind = "entry" /\ dataByRid[Rid[q[1]]].process = q
    BY <1>0, <2>2 DEF TimerOK
  <2>4. Rid[q[1]] # Rid[t]
    BY <1>b, <2>1, <2>3
  <2>5. QED
    BY <1>0, <1>b, <2>2, <2>3, <2>4 DEF Rids, MonitorTypes
<1>6. \A r \in records' : r.task \in Tasks
  BY <1>0, <1>b
<1>7. ReportsCoverTask'
  BY <1>b, <1>0, ReportsStay DEF ReportsCoverTask, Alone
<1>8. KeptRightly(Rid[t])'
  <2>1. Active(t)' \/ at'[t] = "failed"
    BY <1>d, <1>e DEF Active
  <2>2. QED
    BY <1>c, <1>e, <2>1 DEF KeptRightly
<1>9. \A r \in Rids : KeptRightly(r)'
  BY <1>3, <1>8, AllRightly
<1>10. QED
  BY <1>1, <1>2, <1>4, <1>5, <1>6, <1>7, <1>9 DEF MonitorInv

\* A report that is sent covers the processes of its task.
LEMMA SendReportKeeps ==
  ASSUME MonitorInv, NEW t \in Tasks, SendReport(t)
  PROVE  MonitorInv'
<1>0. /\ MonitorTypes /\ Marked /\ ReportsCoverTask
      /\ \A u \in Tasks : Undisturbed(u) => KeptFor(u)
      /\ \A q \in timers : TimerOK(q)
      /\ \A r \in Rids : KeptRightly(r)
      /\ \A r \in records : r.task \in Tasks
  BY DEF MonitorInv
<1>a. Rid[t] \in Rids /\ dataByRid[Rid[t]] \in Kept /\ run[t] \in Nat
  BY <1>0 DEF Rids, MonitorTypes
<1> DEFINE data == dataByRid[Rid[t]]
<1> DEFINE record == [task |-> t, ran |-> run[t], time |-> data.time]
<1>b. /\ at[t] = "sending"
      /\ at' = [at EXCEPT ![t] = IF data = NoEntry THEN "done" ELSE "deleting"]
      /\ records' = IF data.kind = "report" THEN records \cup {record} ELSE records
      /\ UNCHANGED <<run, starting, dataByRid, timers, late, shared>>
  BY DEF SendReport
<1>1. MonitorTypes'
  BY <1>0, <1>b DEF MonitorTypes, TaskLabels
<1>2. Marked'
  <2>1. \A q \in starting : Runs(q) => Runs(q)'
    BY <1>0, <1>b DEF Runs, MonitorTypes, ProcessIds
  <2>2. QED
    BY <1>0, <1>b, <2>1 DEF Marked, Active, MonitorTypes
<1>3. Apart(t)
  BY <1>0, <1>b DEF Apart, MonitorTypes
<1>4. \A u \in Tasks : Undisturbed(u)' => KeptFor(u)'
  <2>1. ASSUME Undisturbed(t)' PROVE KeptFor(t)'
    <3>1. KeptFor(t) /\ data.kind = "report"
      BY <1>0, <1>b, <2>1, DisturbedForGood DEF KeptFor
    <3>2. at'[t] = "deleting" /\ dataByRid'[Rid[t]] = data
      BY <1>0, <1>a, <1>b, <3>1, KeptKinds DEF MonitorTypes
    <3>3. QED
      BY <3>1, <3>2 DEF KeptFor, Alone
  <2>2. Active(t)
    BY <1>b DEF Active
  <2>3. QED
    BY <1>1, <1>2, <1>3, <2>1, <2>2, AllKept DEF MonitorTypes
<1>5. \A q \in timers' : TimerOK(q)'
  BY <1>0, <1>b, DisturbedForGood DEF TimerOK
<1>6. \A r \in records' : r.task \in Tasks
  BY <1>0, <1>b
<1>7. ReportsCoverTask'
  <2>1. ASSUME NEW r \in records', Undisturbed(r.task)'
        PROVE  r.time >= r.ran /\ (Alone(r.task) => r.time = r.ran)
    <3>1. CASE r \in records
      BY <1>b, <1>0, <2>1, <3>1, ReportsStay
    <3>2. CASE r = record /\ data.kind = "report"
      <4>1. Undisturbed(t)
        BY <1>b, <2>1, <3>2, DisturbedForGood
      <4>2. Covers(t, data.time, run[t])
        BY <1>0, <1>b, <4>1 DEF KeptFor
      <4>3. QED
        BY <3>2, <4>2 DEF Covers
    <3>3. QED
      BY <1>b, <3>1, <3>2
  <2>2. QED
    BY <2>1 DEF ReportsCoverTask, Alone
<1>8. KeptRightly(Rid[t])'
  <2>1. KeptRightly(Rid[t]) /\ dataByRid'[Rid[t]] = data
    BY <1>0, <1>a, <1>b
  <2>2. \A q \in ProcessIds : Runs(q) => Runs(q)'
    BY <1>0, <1>b DEF Runs, MonitorTypes, ProcessIds
  <2>3. data # NoEntry => Active(t)'
    BY <1>0, <1>b DEF Active, MonitorTypes
  <2>4. QED
    BY <1>a, <1>b, <2>1, <2>2, <2>3, KeptKinds DEF KeptRightly
<1>9. \A r \in Rids : KeptRightly(r)'
  BY <1>3, <1>8, AllRightly
<1>10. QED
  BY <1>1, <1>2, <1>4, <1>5, <1>6, <1>7, <1>9 DEF MonitorInv

\* A report that must not be sent stays until its pause is over.
LEMMA ClearReportKeeps ==
  ASSUME MonitorInv, NEW t \in Tasks, ClearReport(t)
  PROVE  MonitorInv'
<1>0. /\ MonitorTypes /\ Marked /\ ReportsCoverTask
      /\ \A u \in Tasks : Undisturbed(u) => KeptFor(u)
      /\ \A q \in timers : TimerOK(q)
      /\ \A r \in Rids : KeptRightly(r)
      /\ \A r \in records : r.task \in Tasks
  BY DEF MonitorInv
<1>a. Rid[t] \in Rids /\ dataByRid[Rid[t]] \in Kept /\ run[t] \in Nat
  BY <1>0 DEF Rids, MonitorTypes
<1> DEFINE data == dataByRid[Rid[t]]
<1>b. /\ at[t] = "clearing"
      /\ at' = [at EXCEPT ![t] = IF data = NoEntry THEN "done" ELSE "deleting"]
      /\ UNCHANGED <<run, starting, dataByRid, timers, records, late, shared>>
  BY DEF ClearReport
<1>1. MonitorTypes'
  BY <1>0, <1>b DEF MonitorTypes, TaskLabels
<1>2. Marked'
  <2>1. \A q \in starting : Runs(q) => Runs(q)'
    BY <1>0, <1>b DEF Runs, MonitorTypes, ProcessIds
  <2>2. QED
    BY <1>0, <1>b, <2>1 DEF Marked, Active, MonitorTypes
<1>3. Apart(t)
  BY <1>0, <1>b DEF Apart, MonitorTypes
<1>4. \A u \in Tasks : Undisturbed(u)' => KeptFor(u)'
  <2>1. ASSUME Undisturbed(t)' PROVE KeptFor(t)'
    <3>1. KeptFor(t) /\ data.kind = "report"
      BY <1>0, <1>b, <2>1, DisturbedForGood DEF KeptFor
    <3>2. at'[t] = "deleting" /\ dataByRid'[Rid[t]] = data
      BY <1>0, <1>a, <1>b, <3>1, KeptKinds DEF MonitorTypes
    <3>3. QED
      BY <3>1, <3>2 DEF KeptFor, Alone
  <2>2. Active(t)
    BY <1>b DEF Active
  <2>3. QED
    BY <1>1, <1>2, <1>3, <2>1, <2>2, AllKept DEF MonitorTypes
<1>5. \A q \in timers' : TimerOK(q)'
  BY <1>0, <1>b, DisturbedForGood DEF TimerOK
<1>6. \A r \in records' : r.task \in Tasks
  BY <1>0, <1>b
<1>7. ReportsCoverTask'
  BY <1>b, <1>0, ReportsStay DEF ReportsCoverTask, Alone
<1>8. KeptRightly(Rid[t])'
  <2>1. KeptRightly(Rid[t]) /\ dataByRid'[Rid[t]] = data
    BY <1>0, <1>a, <1>b
  <2>2. \A q \in ProcessIds : Runs(q) => Runs(q)'
    BY <1>0, <1>b DEF Runs, MonitorTypes, ProcessIds
  <2>3. data # NoEntry => Active(t)'
    BY <1>0, <1>b DEF Active, MonitorTypes
  <2>4. QED
    BY <1>a, <1>b, <2>1, <2>2, <2>3, KeptKinds DEF KeptRightly
<1>9. \A r \in Rids : KeptRightly(r)'
  BY <1>3, <1>8, AllRightly
<1>10. QED
  BY <1>1, <1>2, <1>4, <1>5, <1>6, <1>7, <1>9 DEF MonitorInv

\* What is deleted was of no other task.
LEMMA DeleteKeeps ==
  ASSUME MonitorInv, NEW t \in Tasks, Delete(t)
  PROVE  MonitorInv'
<1>0. /\ MonitorTypes /\ Marked /\ ReportsCoverTask
      /\ \A u \in Tasks : Undisturbed(u) => KeptFor(u)
      /\ \A q \in timers : TimerOK(q)
      /\ \A r \in Rids : KeptRightly(r)
      /\ \A r \in records : r.task \in Tasks
  BY DEF MonitorInv
<1>a. Rid[t] \in Rids /\ dataByRid[Rid[t]] \in Kept /\ run[t] \in Nat
  BY <1>0 DEF Rids, MonitorTypes
<1> DEFINE data == dataByRid[Rid[t]]
<1>b. /\ at[t] = "deleting"
      /\ at' = [at EXCEPT ![t] = "done"]
      /\ dataByRid' = [dataByRid EXCEPT ![Rid[t]] = NoEntry]
      /\ UNCHANGED <<run, starting, timers, records, late, shared>>
  BY DEF Delete
<1>1. MonitorTypes'
  BY <1>0, <1>b DEF MonitorTypes, TaskLabels, Kept
<1>2. Marked'
  <2>1. \A q \in starting : Runs(q) => Runs(q)'
    BY <1>0, <1>b DEF Runs, MonitorTypes, ProcessIds
  <2>2. QED
    BY <1>0, <1>b, <2>1 DEF Marked, Active, MonitorTypes
<1>3. Apart(t)
  BY <1>0, <1>b DEF Apart, MonitorTypes
<1>4. \A u \in Tasks : Undisturbed(u)' => KeptFor(u)'
  <2>1. ASSUME Undisturbed(t)' PROVE KeptFor(t)'
    <3>1. at'[t] = "done" /\ dataByRid'[Rid[t]] = NoEntry /\ NoEntry.kind = "none"
      BY <1>0, <1>a, <1>b DEF MonitorTypes, NoEntry
    <3>2. QED
      BY <3>1 DEF KeptFor
  <2>2. Active(t)
    BY <1>b DEF Active
  <2>3. QED
    BY <1>1, <1>2, <1>3, <2>1, <2>2, AllKept DEF MonitorTypes
<1>5. \A q \in timers' : TimerOK(q)'
  <2>1. SUFFICES ASSUME NEW q \in timers', Undisturbed(q[1])'
                 PROVE  dataByRid'[Rid[q[1]]].kind = "entry" /\ dataByRid'[Rid[q[1]]].process = q
    BY DEF TimerOK
  <2>2. q \in timers /\ q[1] \in Tasks /\ Undisturbed(q[1])
    BY <1>0, <1>b, <2>1, DisturbedForGood DEF MonitorTypes, ProcessIds
  <2>3. dataByRid[Rid[q[1]]].kind = "entry" /\ dataByRid[Rid[q[1]]].process = q
    BY <1>0, <2>2 DEF TimerOK
  <2>4. at[q[1]] = "running"
    BY <1>0, <2>2, <2>3 DEF KeptFor
  <2>5. Rid[q[1]] # Rid[t]
    BY <1>0, <1>b, <2>2, <2>4 DEF Marked, Active, Undisturbed
  <2>6. QED
    BY <1>0, <1>b, <2>2, <2>3, <2>5 DEF Rids, MonitorTypes
<1>6. \A r \in records' : r.task \in Tasks
  BY <1>0, <1>b
<1>7. ReportsCoverTask'
  BY <1>b, <1>0, ReportsStay DEF ReportsCoverTask, Alone
<1>8. KeptRightly(Rid[t])'
  BY <1>0, <1>a, <1>b DEF KeptRightly, MonitorTypes, NoEntry
<1>9. \A r \in Rids : KeptRightly(r)'
  BY <1>3, <1>8, AllRightly
<1>10. QED
  BY <1>1, <1>2, <1>4, <1>5, <1>6, <1>7, <1>9 DEF MonitorInv

\* One step of the monitor keeps the invariant.
LEMMA MonitorStepKeeps ==
  ASSUME MonitorInv, [MonitorStep]_monitorVars
  PROVE  MonitorInv'
<1>1. ASSUME NEW t \in Tasks, TaskStep(t) PROVE MonitorInv'
  BY <1>1, SpawnKeeps, ClosedKeeps, SendReportKeeps, ClearReportKeeps, DeleteKeeps DEF TaskStep
<1>2. ASSUME NEW p \in starting, StartMonitor(p) PROVE MonitorInv'
  BY <1>2, StartMonitorKeeps
<1>3. CASE UNCHANGED monitorVars
  <2>1. MonitorTypes' /\ Marked' /\ (\A r \in records' : r.task \in Tasks) /\ ReportsCoverTask'
    BY <1>3 DEF monitorVars, MonitorInv, MonitorTypes, Marked, Active, Runs, ReportsCoverTask, Undisturbed
  <2>2. (\A t \in Tasks : Undisturbed(t)' => KeptFor(t)') /\ (\A p \in timers' : TimerOK(p)')
    BY <1>3 DEF monitorVars, MonitorInv, Undisturbed, KeptFor, Covers, Alone, ProcessTime, TimerOK
  <2>3. \A r \in Rids : KeptRightly(r)'
    BY <1>3 DEF monitorVars, MonitorInv, KeptRightly, Active, Runs
  <2>4. QED
    BY <2>1, <2>2, <2>3 DEF MonitorInv
<1>4. QED
  BY <1>1, <1>2, <1>3 DEF MonitorStep

\* What is kept under each id is that of the task that uses it, in every state
\* (processMonitor.js).
THEOREM MonitorHolds == MonitorSpec => []MonitorInv
<1>1. (\E delivered \in SUBSET Tasks : MonitorInit(delivered)) => MonitorInv
  BY MonitorStart
<1>2. MonitorInv /\ [MonitorStep]_monitorVars => MonitorInv'
  BY MonitorStepKeeps
<1>3. QED
  BY <1>1, <1>2, PTL DEF MonitorSpec

\* The report of a task that nothing disturbed covers all the processes it ran
\* (startMonitor and its prevRecord).
THEOREM ReportsAreComplete == MonitorSpec => []ReportsCoverTask
<1>1. MonitorInv => ReportsCoverTask
  BY DEF MonitorInv
<1>2. QED
  BY <1>1, MonitorHolds, PTL

\* A process is measured after its end only where an entry came too late or an id was
\* shared; an entry that outlives its process came too late itself; and when no task
\* uses an id any more, a report is under it only after a clash detection that failed:
\* for any tasks, ids and deliveries (stopMonitor, sendReport, clearReport).
THEOREM NothingIsLeft == MonitorSpec => []NothingKept
<1>1. ASSUME MonitorInv PROVE NothingKept
  <2>1. ASSUME NEW p \in timers, Undisturbed(p[1]) PROVE Runs(p)
    <3>1. p[1] \in Tasks /\ p \in timers /\ KeptFor(p[1])
      BY <1>1, <2>1 DEF MonitorInv, MonitorTypes, ProcessIds
    <3>2. dataByRid[Rid[p[1]]].kind = "entry" /\ dataByRid[Rid[p[1]]].process = p
      BY <1>1, <2>1 DEF MonitorInv, TimerOK
    <3>3. QED
      BY <3>1, <3>2 DEF KeptFor, Runs
  <2>2. \A r \in Rids : KeptRightly(r)
    BY <1>1 DEF MonitorInv
  <2>3. QED
    BY <2>1, <2>2 DEF NothingKept, KeptRightly
<1>2. QED
  BY <1>1, MonitorHolds, PTL
=============================================================================
