--------------------------- MODULE BouncerClient ---------------------------
(***************************************************************************)
(* The processes of 3drepobouncerClient on a machine: main and the command *)
(* it runs, the controller with its pool of workers, and the licence whose *)
(* seat a second thread of the process keeps.  The seats are shared by all *)
(* processes that use the same licence.                                    *)
(*                                                                         *)
(* A command is a series of operations of the controller.  Each takes a    *)
(* worker from the pool and gives it back, unless it throws: then the      *)
(* worker is lost.                                                         *)
(***************************************************************************)
EXTENDS Integers, Sequences, FiniteSets

CONSTANTS
  Processes,
  MachineOf,    \* the worker that starts a process
  Configured,   \* the machines whose configuration names their instance
  Commands,     \* what they may be told to do
  PoolSize,     \* numConcurrentOps
  Seats,        \* how many processes may use the licence at a time
  MaxRevisions, \* bound: the revisions that genStash finds
  ClientFaults

AllCommands == {"import", "drawing", "stash", "stash all", "clash", "test", "version", "invalid"}

\* "network": a request to the licence server fails, before or after it is
\* carried out.  "revoked": the licence expires or is blocked.  "operation": an
\* operation reports a failure.  "exception": it throws.  "killed": a process ends.
AllClientFaults == {"network", "revoked", "operation", "exception", "killed"}

ASSUME ClientAssumption ==
  /\ Commands \subseteq AllCommands
  /\ PoolSize \in Nat \ {0} /\ Seats \in Nat /\ MaxRevisions \in Nat
  /\ ClientFaults \subseteq AllClientFaults
  /\ Processes \subseteq DOMAIN MachineOf

VARIABLES
  main,     \* where the main thread is
  command,
  plan,     \* the operations of the command that are still to do
  success,  \* of genStash: all revisions so far were successful
  result,   \* the exit code
  mishaps,  \* what has happened to the command
  pool,     \* how many workers are in the pool
  beat,     \* where the heartbeat thread is
  send,     \* sendHeartBeat
  missed,   \* a heartbeat was not acknowledged
  taken,    \* another process of the instance has given its seat back
  seats,    \* of the server: the instances that have a seat
  revoked,  \* of the server
  leaked    \* processes whose release of their seat failed

commandVars == <<command, plan, success, result, mishaps, pool>>
licenceVars == <<beat, send, missed, taken>>
serverVars == <<seats, revoked, leaked>>
clientVars == <<main, commandVars, licenceVars, serverVars>>

Ended == {"exited", "aborted", "killed", "never started"}
Continue(p, l) == main' = [main EXCEPT ![p] = l]
Deactivating(p, code) == Continue(p, "deactivating") /\ result' = [result EXCEPT ![p] = code]
-----------------------------------------------------------------------------
\* The worker sets REPO_INSTANCE_ID for its processes, to "undefined" when its
\* configuration has none: the default of config.js is for a licence that is
\* true, and a licence is a string.
InstanceOf(p) == IF MachineOf[p] \in Configured THEN MachineOf[p] ELSE "undefined"

Siblings(p) == {q \in Processes \ {p} : InstanceOf(q) = InstanceOf(p)}

\* sendActivateRequest takes a seat for the instance or keeps it, fails, or finds
\* that the licence must not be used.
SeatFree(i) == i \in seats \/ Cardinality(seats) < Seats

Granted(p) == SeatFree(InstanceOf(p)) /\ seats' = seats \cup {InstanceOf(p)}

Acknowledged(p) == ~revoked /\ Granted(p) /\ taken' = [taken EXCEPT ![p] = FALSE]

Unacknowledged(p) ==
  /\ \/ ~SeatFree(InstanceOf(p)) /\ UNCHANGED seats
     \/ "network" \in ClientFaults /\ (UNCHANGED seats \/ Granted(p))
  /\ UNCHANGED taken

\* The request succeeds, with a key that has expired or is blocked.
RevokedKey(p) == revoked /\ Granted(p) /\ UNCHANGED taken

\* instantiateController: the pool is filled and the licence activated.  When that
\* fails the validator is destroyed, and deactivates what there is.
Activate(p) ==
  /\ main[p] = "start"
  /\ pool' = [pool EXCEPT ![p] = PoolSize]
  /\ \/ /\ Acknowledged(p)
        /\ beat' = [beat EXCEPT ![p] = "sleeping"]
        /\ Continue(p, "command")
        /\ UNCHANGED <<result, mishaps>>
     \/ /\ Unacknowledged(p) \/ RevokedKey(p)
        /\ Deactivating(p, "licence")
        /\ mishaps' = [mishaps EXCEPT ![p] = @ \cup {"licence"}]
        /\ UNCHANGED beat
  /\ UNCHANGED <<command, plan, success, send, missed, revoked, leaked>>

\* Variant: the flag is not set when the loop begins.
BeatWakesStopped(p) ==
  /\ beat[p] = "sleeping"
  /\ beat' = [beat EXCEPT ![p] = "ended"]
  /\ UNCHANGED <<main, commandVars, send, missed, taken, serverVars>>

\* runHeartBeatLoop, after its pause.
BeatWakes(p) ==
  /\ beat[p] = "sleeping"
  /\ beat' = [beat EXCEPT ![p] = IF send[p] THEN "requesting" ELSE "ended"]
  /\ UNCHANGED <<main, commandVars, send, missed, taken, serverVars>>

\* The loop goes on, or ends for good.  When the key is revoked the thread calls
\* deactivate and joins itself, which throws and terminates the process.
BeatAsks(p) ==
  /\ beat[p] = "requesting"
  /\ \/ /\ Acknowledged(p)
        /\ beat' = [beat EXCEPT ![p] = "sleeping"]
        /\ UNCHANGED <<main, send, missed>>
     \/ /\ Unacknowledged(p)
        /\ beat' = [beat EXCEPT ![p] = "ended"]
        /\ missed' = [missed EXCEPT ![p] = TRUE]
        /\ UNCHANGED <<main, send>>
     \/ /\ RevokedKey(p)
        /\ send' = [send EXCEPT ![p] = FALSE]
        /\ Continue(p, "aborted")
        /\ beat' = [beat EXCEPT ![p] = "ended"]
        /\ UNCHANGED missed
  /\ UNCHANGED <<commandVars, revoked, leaked>>

\* Variant: the heartbeat is not told to stop.
DeactivateQuietly(p) ==
  /\ main[p] = "deactivating"
  /\ Continue(p, IF beat[p] # "none" THEN "joining" ELSE "releasing")
  /\ UNCHANGED <<commandVars, licenceVars, serverVars>>

\* ~LicenseValidator: deactivate.  It tells the heartbeat to stop and joins it.
Deactivate(p) ==
  /\ main[p] = "deactivating"
  /\ IF beat[p] # "none"
     THEN send' = [send EXCEPT ![p] = FALSE] /\ Continue(p, "joining")
     ELSE Continue(p, "releasing") /\ UNCHANGED send
  /\ UNCHANGED <<commandVars, beat, missed, taken, serverVars>>

\* Variant: the heartbeat is not waited for.
Detach(p) ==
  /\ main[p] = "joining"
  /\ Continue(p, "releasing")
  /\ UNCHANGED <<commandVars, licenceVars, serverVars>>

Join(p) ==
  /\ main[p] = "joining" /\ beat[p] = "ended"
  /\ Continue(p, "releasing")
  /\ UNCHANGED <<commandVars, licenceVars, serverVars>>

\* The seat of the instance goes, whoever else uses it.  An error is only logged:
\* the seat times out.
Release(p) ==
  /\ main[p] = "releasing"
  /\ \/ seats' = seats \ {InstanceOf(p)} /\ UNCHANGED leaked
     \/ /\ "network" \in ClientFaults
        /\ seats' \in {seats, seats \ {InstanceOf(p)}}
        /\ leaked' = leaked \cup {p}
  /\ taken' = [q \in Processes |-> taken[q] \/ q \in Siblings(p)]
  /\ Continue(p, "leaving")
  /\ UNCHANGED <<commandVars, beat, send, missed, revoked>>

Exit(p) ==
  /\ main[p] = "leaving"
  /\ Continue(p, "exited")
  /\ UNCHANGED <<commandVars, licenceVars, serverVars>>
-----------------------------------------------------------------------------
\* The commands.  What each asks of the controller once it is connected:
\* importFileAndCommit, processDrawing, _generateStash, performClashDetection.
OneStash == <<"fetch", "mark", "generate", "complete">>

Operations(c) ==
  CASE c = "import" -> <<"init", "load", "commit">>
    [] c = "drawing" -> <<"init", "process">>
    [] c = "stash" -> <<"init">> \o OneStash
    [] c = "stash all" -> <<"init", "list">>
    [] c = "clash" -> <<"init", "clash">>
    [] c = "test" -> <<"init">>

\* What is left when a revision of genStash could not be fetched or generated.
NextRevision(ops) ==
  LET fetches == {i \in 1..Len(ops) : i > 1 /\ ops[i] = "fetch"}
  IN  IF fetches = {} THEN <<>>
      ELSE SubSeq(ops, CHOOSE i \in fetches : \A j \in fetches : i <= j, Len(ops))

Stashes(p) == command[p] \in {"stash", "stash all"}

\* main: the arguments are looked at, and a version is printed, without a token.
Dispatch(p) ==
  /\ main[p] = "command"
  /\ \/ /\ command[p] \notin {"version", "invalid"}
        /\ plan' = [plan EXCEPT ![p] = Operations(command[p])]
        /\ Continue(p, "operation")
        /\ UNCHANGED result
     \/ command[p] = "version" /\ Deactivating(p, "ok") /\ UNCHANGED plan
     \/ command[p] = "invalid" /\ Deactivating(p, "invalid") /\ UNCHANGED plan
  /\ UNCHANGED <<command, success, mishaps, pool, licenceVars, serverVars>>

\* RepoController::init refuses a configuration before it takes a worker.
Unauthorised(p) ==
  /\ main[p] = "operation" /\ plan[p] # <<>> /\ Head(plan[p]) = "init"
  /\ "operation" \in ClientFaults
  /\ mishaps' = [mishaps EXCEPT ![p] = @ \cup {"failed"}]
  /\ Deactivating(p, "auth")
  /\ UNCHANGED <<command, plan, success, pool, licenceVars, serverVars>>

\* RepoStack::pop: it waits for ever while the pool is empty.
Pop(p) ==
  /\ main[p] = "operation" /\ plan[p] # <<>>
  /\ pool[p] > 0
  /\ pool' = [pool EXCEPT ![p] = @ - 1]
  /\ Continue(p, "working")
  /\ UNCHANGED <<command, plan, success, result, mishaps, licenceVars, serverVars>>

\* The worker returns and is pushed; "list" finds the revisions of a container.
Succeeds(p) ==
  /\ main[p] = "working"
  /\ pool' = [pool EXCEPT ![p] = @ + 1]
  /\ IF Head(plan[p]) = "list"
     THEN \E n \in 0..MaxRevisions :
            plan' = [plan EXCEPT ![p] = [i \in 1..(4 * n) |-> OneStash[((i - 1) % 4) + 1]]]
     ELSE plan' = [plan EXCEPT ![p] = Tail(@)]
  /\ Continue(p, "operation")
  /\ UNCHANGED <<command, success, result, mishaps, licenceVars, serverVars>>

\* Variant: the outcome of the latest revision is that of the command.
FinishesLatest(p) ==
  /\ main[p] = "operation" /\ plan[p] = <<>>
  /\ Deactivating(p, "ok")
  /\ UNCHANGED <<command, plan, success, mishaps, pool, licenceVars, serverVars>>

\* The last operation has returned.  A stash fails if one revision did.
Finishes(p) ==
  /\ main[p] = "operation" /\ plan[p] = <<>>
  /\ Deactivating(p, IF Stashes(p) /\ ~success[p] THEN "stash" ELSE "ok")
  /\ UNCHANGED <<command, plan, success, mishaps, pool, licenceVars, serverVars>>

\* The worker returns with a failure and is pushed.  genStash goes on with the next
\* revision; the others return the code they were given, also that of a scene
\* that was committed with nodes or textures missing.
Fails(p) ==
  /\ main[p] = "working" /\ "operation" \in ClientFaults
  /\ Head(plan[p]) \in {"load", "commit", "process", "fetch", "generate"}
  /\ pool' = [pool EXCEPT ![p] = @ + 1]
  /\ mishaps' = [mishaps EXCEPT ![p] = @ \cup {"failed"}]
  /\ IF Stashes(p)
     THEN /\ success' = [success EXCEPT ![p] = FALSE]
          /\ plan' = [plan EXCEPT ![p] = NextRevision(@)]
          /\ Continue(p, "operation")
          /\ UNCHANGED result
     ELSE Deactivating(p, "error") /\ UNCHANGED <<plan, success>>
  /\ UNCHANGED <<command, licenceVars, serverVars>>

\* The worker is not pushed.  performOperation turns what it catches into a code,
\* but lets a RepoException of an import or a clash detection through to main,
\* as it gets one of init, and main returns the code it has.
Throws(p) ==
  /\ main[p] = "working" /\ "exception" \in ClientFaults
  /\ mishaps' = [mishaps EXCEPT ![p] = @ \cup {"thrown"}]
  /\ \/ /\ command[p] \in {"import", "clash"} \/ Head(plan[p]) = "init"
        /\ Deactivating(p, "repo")
     \/ Deactivating(p, "unknown")
  /\ UNCHANGED <<command, plan, success, pool, licenceVars, serverVars>>
-----------------------------------------------------------------------------
KillProcess(p) ==
  /\ "killed" \in ClientFaults
  /\ main[p] \notin Ended
  /\ Continue(p, "killed")
  /\ beat' = [beat EXCEPT ![p] = "none"]
  /\ UNCHANGED <<commandVars, send, missed, taken, serverVars>>

\* The server lets a seat go when no heartbeat has come for it.  The pause between
\* two is half of that time at most.
SeatExpires(p) ==
  /\ InstanceOf(p) \in seats
  /\ \A q \in Siblings(p) \cup {p} : beat[q] \notin {"sleeping", "requesting"}
  /\ seats' = seats \ {InstanceOf(p)}
  /\ UNCHANGED <<main, commandVars, licenceVars, revoked, leaked>>

Revoke ==
  /\ "revoked" \in ClientFaults /\ ~revoked
  /\ revoked' = TRUE
  /\ UNCHANGED <<main, commandVars, licenceVars, seats, leaked>>

\* Some of the processes are started, and told what to do.
ClientInit(started, commands) ==
  /\ main = [p \in Processes |-> IF p \in started THEN "start" ELSE "never started"]
  /\ command = commands
  /\ plan = [p \in Processes |-> <<>>]
  /\ success = [p \in Processes |-> TRUE]
  /\ result = [p \in Processes |-> "none"]
  /\ mishaps = [p \in Processes |-> {}]
  /\ pool = [p \in Processes |-> 0]
  /\ beat = [p \in Processes |-> "none"]
  /\ send = [p \in Processes |-> TRUE]
  /\ missed = [p \in Processes |-> FALSE]
  /\ taken = [p \in Processes |-> FALSE]
  /\ seats = {} /\ leaked = {} /\ revoked = FALSE

MainThread(p) ==
  \/ Activate(p) \/ Dispatch(p) \/ Unauthorised(p) \/ Pop(p) \/ Succeeds(p) \/ Fails(p)
  \/ Throws(p) \/ Finishes(p) \/ Deactivate(p) \/ Join(p) \/ Release(p) \/ Exit(p)

\* Threads end with their process.
Heartbeat(p) == main[p] \notin Ended /\ (BeatWakes(p) \/ BeatAsks(p))

ProcessStep(p) == MainThread(p) \/ Heartbeat(p) \/ KillProcess(p) \/ SeatExpires(p)

ClientNext == Revoke \/ \E p \in Processes : ProcessStep(p)

\* The scheduler runs both threads of a process, and requests return.
ClientFairness ==
  \A p \in Processes : WF_clientVars(MainThread(p)) /\ WF_clientVars(Heartbeat(p))

\* Any processes, any commands.
ClientSpec ==
  /\ \E started \in SUBSET Processes, commands \in [Processes -> Commands] :
       ClientInit(started, commands)
  /\ [][ClientNext]_clientVars
  /\ ClientFairness
-----------------------------------------------------------------------------
\* A process that works has its seat, unless one of its heartbeats has failed, when
\* it works on without, or another process of its instance has given the seat
\* back since the last one (LicenseValidator::runHeartBeatLoop, deactivate).
SeatWhileWorking ==
  \A p \in Processes :
    main[p] \in {"operation", "working"} => InstanceOf(p) \in seats \/ missed[p] \/ taken[p]

\* Processes that end on their own give the seat back, and no heartbeat takes it
\* again (LicenseValidator::deactivate).
SeatReleased ==
  \A i \in seats : \E p \in Processes :
    /\ InstanceOf(p) = i
    /\ main[p] \notin {"never started", "start", "leaving", "exited"} \/ p \in leaked

\* The exit code is that of success when all of the command was done, and only
\* then (generateStash, performOperation).
ExitTellsTruth ==
  \A p \in Processes :
    main[p] = "exited" =>
      (result[p] = "ok" <=> mishaps[p] = {} /\ plan[p] = <<>> /\ command[p] # "invalid")

\* Every command comes to an end (RepoStack::pop, LicenseValidator::deactivate).
CommandsEnd == \A p \in Processes : <>(main[p] \in Ended)
=============================================================================
