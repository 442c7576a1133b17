--------------------------- MODULE ProcessMonitor ---------------------------
(***************************************************************************)
(* The process monitor of a bouncer worker: how the tasks of the queues    *)
(* run processes, how each process is measured while it runs, and how the  *)
(* report is sent when its task has a result.                              *)
(*                                                                         *)
(* What is measured is kept under the id of the message.  Nobody waits for *)
(* startMonitor, which asks for the memory in use before it enters the     *)
(* process, and a message that was delivered again shares its id with the  *)
(* task that still runs for it.                                            *)
(***************************************************************************)
EXTENDS Integers, FiniteSets

CONSTANTS
  Tasks,     \* calls of a handler
  Rid,       \* the id of each one's message
  Handler,   \* "model", "drawing" or "clash"
  RunsOf,    \* how many processes a task runs: a drawing may be converted first
  SlowStart  \* reading the memory takes time, as it does outside docker

ASSUME MonitorAssumption ==
  /\ Handler \in [Tasks -> {"model", "drawing", "clash"}]
  /\ RunsOf \in [Tasks -> Nat \ {0}]
  /\ SlowStart \in BOOLEAN

VARIABLES
  at,        \* where each task is
  run,       \* which of its processes it runs
  starting,  \* processes that startMonitor has not entered yet
  dataByRid, \* what is kept under each id
  timers,    \* processes with an interval timer
  records,   \* the reports that were sent, each with the task that sent it
  late,      \* processes that ended before they were entered
  shared     \* ids two tasks have used at a time

monitorVars == <<at, run, starting, dataByRid, timers, records, late, shared>>

Rids == {Rid[t] : t \in Tasks}
NoEntry == [kind |-> "none"]

\* ProcessTime, as the number of processes it covers: that of an entry that has
\* ended, or not a number when there was none to end.
NotANumber == -1

ProcessTime(data) == IF data.kind = "report" THEN data.time ELSE 0

\* A clash detection that failed is left where it is.
Active(t) == at[t] \notin {"waiting", "done", "failed"}
-----------------------------------------------------------------------------
\* run: the process is spawned, and startMonitor called.
Spawn(t) ==
  /\ at[t] \in {"waiting", "next"}
  /\ at' = [at EXCEPT ![t] = "running"]
  /\ run' = [run EXCEPT ![t] = @ + 1]
  /\ starting' = starting \cup {<<t, run'[t]>>}
  /\ shared' = IF \E u \in Tasks \ {t} : Rid[u] = Rid[t] /\ Active(u)
               THEN shared \cup {Rid[t]} ELSE shared
  /\ UNCHANGED <<dataByRid, timers, records, late>>

\* Variant: what is kept for an earlier process of the task is forgotten.
StartMonitorAnew(p) ==
  /\ p \in starting
  /\ starting' = starting \ {p}
  /\ dataByRid' = [dataByRid EXCEPT ![Rid[p[1]]] = [kind |-> "entry", process |-> p, previous |-> 0]]
  /\ timers' = timers \cup {p}
  /\ UNCHANGED <<at, run, records, late, shared>>

\* The rest of startMonitor replaces what is kept under the id, and remembers it.
StartMonitor(p) ==
  /\ p \in starting
  /\ starting' = starting \ {p}
  /\ dataByRid' = [dataByRid EXCEPT ![Rid[p[1]]] =
       [kind |-> "entry", process |-> p, previous |-> ProcessTime(@)]]
  /\ timers' = timers \cup {p}
  /\ UNCHANGED <<at, run, records, late, shared>>

StopMonitor(rid) ==
  LET data == dataByRid[rid] IN
    /\ timers' = IF data.kind = "entry" THEN timers \ {data.process} ELSE timers
    /\ dataByRid' = [dataByRid EXCEPT ![rid] =
         IF data = NoEntry THEN data
         ELSE [kind |-> "report",
               time |-> IF data.kind = "entry" /\ data.previous # NotANumber
                        THEN data.previous + 1 ELSE NotANumber]]

\* Variant: a refused licence leaves the report.
OutcomeUncleared(t) ==
  \/ run[t] < RunsOf[t] /\ at' = [at EXCEPT ![t] = "next"]
  \/ run[t] = RunsOf[t] /\ at' = [at EXCEPT ![t] = "sending"]
  \/ at' = [at EXCEPT ![t] = IF Handler[t] = "clash" THEN "failed" ELSE "sending"]
  \/ Handler[t] # "clash" /\ at' = [at EXCEPT ![t] = "done"]

\* What the handler does next: run the next process, send the report, or clear it
\* because the licence was refused.  That of clashes does neither after a failure.
Outcome(t) ==
  \/ run[t] < RunsOf[t] /\ at' = [at EXCEPT ![t] = "next"]
  \/ run[t] = RunsOf[t] /\ at' = [at EXCEPT ![t] = "sending"]
  \/ at' = [at EXCEPT ![t] = IF Handler[t] = "clash" THEN "failed" ELSE "sending"]
  \/ Handler[t] # "clash" /\ at' = [at EXCEPT ![t] = "clearing"]

\* The process has ended, stopMonitor runs up to its pause, and the promise of run is
\* settled.  Nothing waits for the pause.
Closed(t) ==
  /\ at[t] = "running"
  /\ SlowStart \/ <<t, run[t]>> \notin starting
  /\ StopMonitor(Rid[t])
  /\ Outcome(t)
  /\ late' = IF <<t, run[t]>> \in starting THEN late \cup {<<t, run[t]>>} ELSE late
  /\ UNCHANGED <<run, starting, records, shared>>

\* sendReport, up to its pause.  An entry cannot be sent: its timer has no JSON.
SendReport(t) ==
  /\ at[t] = "sending"
  /\ LET data == dataByRid[Rid[t]] IN
       /\ at' = [at EXCEPT ![t] = IF data = NoEntry THEN "done" ELSE "deleting"]
       /\ records' = IF data.kind = "report"
                     THEN records \cup {[task |-> t, ran |-> run[t], time |-> data.time]}
                     ELSE records
  /\ UNCHANGED <<run, starting, dataByRid, timers, late, shared>>

\* clearReport, up to its pause.
ClearReport(t) ==
  /\ at[t] = "clearing"
  /\ at' = [at EXCEPT ![t] = IF dataByRid[Rid[t]] = NoEntry THEN "done" ELSE "deleting"]
  /\ UNCHANGED <<run, starting, dataByRid, timers, records, late, shared>>

\* After the pause of either: whatever is kept under the id now.
Delete(t) ==
  /\ at[t] = "deleting"
  /\ dataByRid' = [dataByRid EXCEPT ![Rid[t]] = NoEntry]
  /\ at' = [at EXCEPT ![t] = "done"]
  /\ UNCHANGED <<run, starting, timers, records, late, shared>>

\* The messages of some of the tasks are delivered.
MonitorInit(delivered) ==
  /\ at = [t \in Tasks |-> IF t \in delivered THEN "waiting" ELSE "done"]
  /\ run = [t \in Tasks |-> 0]
  /\ starting = {} /\ timers = {} /\ records = {} /\ late = {} /\ shared = {}
  /\ dataByRid = [r \in Rids |-> NoEntry]

TaskStep(t) ==
  Spawn(t) \/ Closed(t) \/ SendReport(t) \/ ClearReport(t) \/ Delete(t)

MonitorStep ==
  (\E t \in Tasks : TaskStep(t)) \/ (\E p \in starting : StartMonitor(p))

MonitorSpec == (\E delivered \in SUBSET Tasks : MonitorInit(delivered)) /\ [][MonitorStep]_monitorVars
-----------------------------------------------------------------------------
\* No other task used the id of this one, and no process under it ended before it
\* was entered.
Undisturbed(t) ==
  /\ Rid[t] \notin shared
  /\ \A p \in late : Rid[p[1]] # Rid[t]

\* The report of a task covers all the processes it ran, in a clean state of the
\* monitor (startMonitor and its prevRecord).
ReportsCoverTask ==
  \A r \in records :
    Undisturbed(r.task) =>
      r.time >= r.ran /\ ((\A u \in Tasks \ {r.task} : Rid[u] # Rid[r.task]) => r.time = r.ran)

Runs(p) == at[p[1]] = "running" /\ run[p[1]] = p[2]

\* However starts, ends and messages that come again are mixed: a process is measured
\* after its end only where an entry came too late or an id was shared, so that what
\* is kept had been replaced; an entry that outlives its process is one that came too
\* late itself; and when no task uses an id any more, a report is under it only after
\* a clash detection that failed (startMonitor, stopMonitor, sendReport, clearReport,
\* clashQueueHandler.js).
NothingKept ==
  /\ \A p \in timers : Runs(p) \/ ~Undisturbed(p[1])
  /\ \A r \in Rids :
       /\ dataByRid[r].kind = "entry" => Runs(dataByRid[r].process) \/ dataByRid[r].process \in late
       /\ dataByRid[r].kind = "report" =>
            \E t \in Tasks : Rid[t] = r /\ (Active(t) \/ at[t] = "failed")
=============================================================================
