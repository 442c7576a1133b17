---------------------------- MODULE ClashPipeline ---------------------------
(***************************************************************************)
(* A clash detection (modelutility/repo_clash_detection_engine.cpp and     *)
(* modelutility/clashdetection): the two sets of composite objects are     *)
(* made disjoint, their meshes are read and validated, a broadphase finds  *)
(* the pairs whose bounds are close, they are put in an order, and threads *)
(* test them on cached geometry, which the first test of it loads.         *)
(*                                                                         *)
(* Clearance tests pairs of meshes, which all threads take from one queue; *)
(* Hard tests pairs of objects, from a queue of each thread, and deforms   *)
(* the smaller object while it does.  Whether bounds are close and whether *)
(* geometry clashes is given (Close, Clashing): the geometry itself is not *)
(* modelled.  A locked entry is known from where its threads are.          *)
(***************************************************************************)
EXTENDS ClashScheduler

CONSTANTS
  Meshes,
  MeshesOf,  \* the meshes of each composite object
  Size,      \* the size of the bounds of each mesh, and of each object
  Close,     \* pairs of meshes (sets) whose bounds are within the tolerance
  Clashing,  \* those of them whose geometry is
  TooLarge,  \* meshes outside the supported range
  Configs,   \* the configurations of the runs
  Faults     \* "database", "load" and "degenerate", those that may happen

Objects == DOMAIN MeshesOf

ASSUME ClashAssumption ==
  /\ IsFiniteSet(Meshes) /\ IsFiniteSet(Objects)
  /\ MeshesOf \in [Objects -> (SUBSET Meshes) \ {{}}]
  /\ Size \in [Meshes \cup Objects -> Nat]
  /\ Clashing \subseteq Close
  /\ \A c \in Close : \E p, q \in Meshes : p # q /\ c = {p, q}
  /\ \A c \in Configs :
       /\ c.type \in {"clearance", "hard"}
       /\ c.setA \cup c.setB \subseteq Objects
       /\ c.numThreads \in Nat \ {0}
       /\ c.writersFirst \in BOOLEAN
  /\ Faults \subseteq {"database", "load", "degenerate"}

VARIABLES
  config,   \* the configuration, and whether the platform's shared_mutex lets a
            \* waiting writer go first (writersFirst)
  phase,    \* the stage of runPipeline, or how the process has ended
  graph,    \* the objects of the graphs A, B and C
  queues,   \* the tests of each queue that no thread has taken
  thread,   \* where each thread is, and the entries it tests
  loaded,   \* entries whose geometry has been loaded
  ordered,  \* entries whose vertices have been ordered
  clashes,  \* the clashes, by the ordered pairs of the ids of the objects
  errors    \* exceptions of the clash detection in the report

pipelineVars == <<config, phase, graph, queues, thread, loaded, ordered, clashes, errors>>
clashVars == <<schedulerVars, pipelineVars>>

Hard == config.type = "hard"
Threads == 1..config.numThreads
NoEntry == <<"none">>
Idle == [pc |-> "idle", a |-> NoEntry, b |-> NoEntry]
Ended == {"reported", "failed", "terminated"}

\* Two meshes whose geometry is known to clash; a mesh always clashes with itself.
Near(p, q) == p = q \/ {p, q} \in Close
Touch(p, q) == p = q \/ {p, q} \in Clashing
-----------------------------------------------------------------------------
\* Variant: the objects in both sets are left out of B only.
SplitOnce == [A |-> config.setA, B |-> config.setB \ config.setA, C |-> {}]

\* createDisjointSets
Split ==
  LET Both == config.setA \cap config.setB
  IN [A |-> config.setA \ Both, B |-> config.setB \ Both, C |-> Both]

MeshesIn(objects) == UNION {MeshesOf[o] : o \in objects}

SharesMesh(objects) ==
  \E o1, o2 \in objects : o1 # o2 /\ MeshesOf[o1] \cap MeshesOf[o2] # {}

\* createSceneGraph and validateSceneGraph of the three graphs: exceptions of the
\* clash detection go to the report, others to performOperation.
Prepare ==
  /\ phase = "sets"
  /\ graph' = Split
  /\ \/ /\ "database" \in Faults
        /\ phase' = "failed"
        /\ UNCHANGED errors
     \/ LET Sets == {graph'[g] : g \in {"A", "B", "C"}}
            Wrong == IF \E s \in Sets : SharesMesh(s) THEN {"duplicate mesh"}
                     ELSE IF \E s \in Sets : MeshesIn(s) \cap TooLarge # {} THEN {"bounds"}
                     ELSE {}
        IN /\ errors' = Wrong
           /\ phase' = IF Wrong = {} THEN "broadphase" ELSE "reported"
  /\ UNCHANGED <<schedulerVars, config, queues, thread, loaded, ordered, clashes>>

\* The entry of the cache that a mesh of a graph belongs to.
ObjectOf(g, m) == CHOOSE o \in graph[g] : m \in MeshesOf[o]
Entry(g, m) == IF Hard THEN <<g, ObjectOf(g, m)>> ELSE <<g, m>>
IdOf(e) == IF Hard THEN e[2] ELSE ObjectOf(e[1], e[2])
MeshesOfEntry(e) == IF Hard THEN MeshesOf[e[2]] ELSE {e[2]}

\* The close pairs between two graphs, and those within one: Hard skips the pairs
\* of an object with itself.
Inter(g, h) ==
  {<<Entry(g, m[1]), Entry(h, m[2])>> :
    m \in {n \in MeshesIn(graph[g]) \X MeshesIn(graph[h]) : Near(n[1], n[2])}}

SelfIntersecting ==
  {"C"} \cup {g \in {"A", "B"} : IF g = "A" THEN config.selfA ELSE config.selfB}

\* The pairs of the meshes of a graph as the traversal of its bvh yields them: the
\* first comes before the second in an order of the meshes, that of the leaves.
Traversals(g) ==
  LET M == MeshesIn(graph[g])
  IN {{n \in M \X M : place[n[1]] < place[n[2]]} : place \in Injection(M, 1..Cardinality(M))}

Intra(g, traversal) ==
  LET Pairs == {<<Entry(g, n[1]), Entry(g, n[2])>> : n \in {m \in traversal : {m[1], m[2]} \in Close}}
  IN {e \in Pairs : ~Hard \/ IdOf(e[1]) # IdOf(e[2])}

\* The broadphase of Clearance::run and Hard::run, whose edges between two graphs
\* are inter.
Find(inter) ==
  /\ phase = "broadphase"
  /\ \E a \in Traversals("A"), b \in Traversals("B"), c \in Traversals("C") :
       LET traversal == [A |-> a, B |-> b, C |-> c]
       IN CreateGraph(inter \cup UNION {Intra(g, traversal[g]) : g \in SelfIntersecting})
  /\ phase' = "scheduling"
  /\ UNCHANGED <<config, graph, queues, thread, loaded, ordered, clashes, errors>>

\* Variant: C is searched for A, not A for C.
BroadphaseCA == Find(Inter("A", "B") \cup Inter("C", "A") \cup Inter("B", "C"))

Broadphase == Find(Inter("A", "B") \cup Inter("A", "C") \cup Inter("B", "C"))

Schedule ==
  /\ phase = "scheduling"
  /\ PushFront \/ Visit
  /\ UNCHANGED pipelineVars

\* The tests of a thread of Hard.
Parcel(t) ==
  LET size == (Len(results) + config.numThreads - 1) \div config.numThreads
      end == t * size
  IN SubSeq(results, (t - 1) * size + 1, IF end < Len(results) THEN end ELSE Len(results))

\* The queues are filled, the caches are finalised and the threads start.
Distribute ==
  /\ phase = "scheduling"
  /\ Scheduled
  /\ queues' = IF Hard THEN [t \in Threads |-> Parcel(t)]
               ELSE [t \in {1} |-> results]
  /\ results' = <<>>
  /\ phase' = "narrow"
  /\ UNCHANGED <<left, ranked, next, config, graph, thread, loaded, ordered, clashes, errors>>
-----------------------------------------------------------------------------
\* Narrowphase threads.  A test goes through
\*   idle -> check a -> (load a) -> check b -> (load b) -> compare -> test
\* in Clearance with "order" before the test, which then takes one lock after the
\* other.  What a thread has locked exclusively, and shared.
At(t, pc) == phase = "narrow" /\ thread[t].pc = pc
Goto(t, pc) == thread' = [thread EXCEPT ![t].pc = pc]

\* Variant: Hard tests under shared locks, as Clearance does.
LoadsOnly(t) ==
  CASE thread[t].pc \in {"loading a", "ordering"} -> {thread[t].a}
    [] thread[t].pc = "loading b" -> {thread[t].b}
    [] OTHER -> {}

Exclusive(t) ==
  CASE thread[t].pc \in {"loading a", "ordering"} -> {thread[t].a}
    [] thread[t].pc = "loading b" -> {thread[t].b}
    [] thread[t].pc = "testing" /\ Hard -> {thread[t].a, thread[t].b}
    [] OTHER -> {}

Shared(t) ==
  CASE thread[t].pc = "half locked" -> {thread[t].a}
    [] thread[t].pc = "testing" /\ ~Hard -> {thread[t].a, thread[t].b}
    [] OTHER -> {}

\* The entry a thread waits to lock exclusively.
WaitsFor(t) ==
  CASE thread[t].pc \in {"load a", "order"} -> thread[t].a
    [] thread[t].pc = "load b" -> thread[t].b
    [] OTHER -> NoEntry

CanShare(t, e) ==
  \A u \in Threads \ {t} :
    e \notin Exclusive(u) /\ (config.writersFirst => e # WaitsFor(u))

CanLock(t, e) ==
  \A u \in Threads \ {t} : e \notin Exclusive(u) \cup Shared(u)

QueueOf(t) == IF Hard THEN t ELSE 1

\* The next test, or the end of the thread.
Take(t) ==
  /\ At(t, "idle")
  /\ LET q == QueueOf(t) IN
       IF queues[q] = <<>>
       THEN Goto(t, "ended") /\ UNCHANGED queues
       ELSE /\ thread' = [thread EXCEPT ![t] =
                 [pc |-> "check a", a |-> Head(queues[q])[1], b |-> Head(queues[q])[2]]]
            /\ queues' = [queues EXCEPT ![q] = Tail(@)]
  /\ UNCHANGED <<schedulerVars, config, phase, graph, loaded, ordered, clashes, errors>>

\* Is it initialised?  Asked under a shared lock that is given back.
Check(t, e, checking, load, then) ==
  /\ At(t, checking)
  /\ CanShare(t, e)
  /\ Goto(t, IF e \in loaded THEN then ELSE load)
  /\ UNCHANGED <<schedulerVars, config, phase, graph, queues, loaded, ordered, clashes, errors>>

LockToLoad(t, e, load, loading) ==
  /\ At(t, load)
  /\ CanLock(t, e)
  /\ Goto(t, loading)
  /\ UNCHANGED <<schedulerVars, config, phase, graph, queues, loaded, ordered, clashes, errors>>

\* Another thread may have loaded it since it was checked.  An exception of a
\* thread ends the process: nothing catches it on the thread.
Load(t, e, loading, then) ==
  /\ At(t, loading)
  /\ \/ /\ loaded' = loaded \cup {e}
        /\ Goto(t, then)
        /\ UNCHANGED phase
     \/ /\ "load" \in Faults /\ e \notin loaded
        /\ phase' = "terminated"
        /\ UNCHANGED <<thread, loaded>>
  /\ UNCHANGED <<schedulerVars, config, graph, queues, ordered, clashes, errors>>

\* In Hard another thread may be deforming one of them: no lock is held, and what
\* is read of its bounds may be anything.
Deformed(t, e) == Hard /\ \E u \in Threads \ {t} : thread[u].pc = "testing" /\ thread[u].a = e

\* The smaller one comes first.
Compare(t) ==
  /\ At(t, "compare")
  /\ LET a == thread[t].a
         b == thread[t].b
         Unknown == Deformed(t, a) \/ Deformed(t, b)
         Ready(x, y) == thread' = [thread EXCEPT ![t] =
           [pc |-> IF Hard THEN "lock" ELSE "check order", a |-> x, b |-> y]]
     IN \/ (Unknown \/ Size[a[2]] > Size[b[2]]) /\ Ready(b, a)
        \/ (Unknown \/ Size[a[2]] <= Size[b[2]]) /\ Ready(a, b)
  /\ UNCHANGED <<schedulerVars, config, phase, graph, queues, loaded, ordered, clashes, errors>>

CheckOrder(t) ==
  /\ At(t, "check order")
  /\ CanShare(t, thread[t].a)
  /\ Goto(t, IF thread[t].a \in ordered THEN "lock" ELSE "order")
  /\ UNCHANGED <<schedulerVars, config, phase, graph, queues, loaded, ordered, clashes, errors>>

LockToOrder(t) ==
  /\ At(t, "order")
  /\ CanLock(t, thread[t].a)
  /\ Goto(t, "ordering")
  /\ UNCHANGED <<schedulerVars, config, phase, graph, queues, loaded, ordered, clashes, errors>>

Order(t) ==
  /\ At(t, "ordering")
  /\ ordered' = ordered \cup {thread[t].a}
  /\ Goto(t, "lock")
  /\ UNCHANGED <<schedulerVars, config, phase, graph, queues, loaded, clashes, errors>>

\* Hard locks both at once, Clearance one after the other.
LockToTest(t) ==
  /\ \/ /\ At(t, "lock") /\ Hard
        /\ CanLock(t, thread[t].a) /\ CanLock(t, thread[t].b)
        /\ Goto(t, "testing")
     \/ /\ At(t, "lock") /\ ~Hard
        /\ CanShare(t, thread[t].a)
        /\ Goto(t, "half locked")
     \/ /\ At(t, "half locked")
        /\ CanShare(t, thread[t].b)
        /\ Goto(t, "testing")
  /\ UNCHANGED <<schedulerVars, config, phase, graph, queues, loaded, ordered, clashes, errors>>

\* The test, which may add a clash, or meet a degenerate case and throw.
Test(t) ==
  /\ At(t, "testing")
  /\ LET a == thread[t].a
         b == thread[t].b
     IN \/ /\ clashes' =
                IF \E p \in MeshesOfEntry(a), q \in MeshesOfEntry(b) : Touch(p, q)
                THEN clashes \cup {<<IdOf(a), IdOf(b)>>} ELSE clashes
           /\ thread' = [thread EXCEPT ![t] = Idle]
           /\ UNCHANGED phase
        \/ /\ "degenerate" \in Faults
           /\ phase' = "terminated"
           /\ UNCHANGED <<thread, clashes>>
  /\ UNCHANGED <<schedulerVars, config, graph, queues, loaded, ordered, errors>>

\* All threads are joined and the report is written.
Report ==
  /\ phase = "narrow"
  /\ \A t \in Threads : thread[t].pc = "ended"
  /\ phase' = "reported"
  /\ UNCHANGED <<schedulerVars, config, graph, queues, thread, loaded, ordered, clashes, errors>>

Init ==
  /\ left = {} /\ ranked = <<>> /\ next = <<>> /\ results = <<>>
  /\ config \in Configs
  /\ phase = "sets"
  /\ graph = [g \in {"A", "B", "C"} |-> {}]
  /\ queues = <<>>
  /\ thread = [t \in Threads |-> Idle]
  /\ loaded = {} /\ ordered = {} /\ clashes = {} /\ errors = {}

ThreadStep(t) ==
  \/ Take(t)
  \/ Check(t, thread[t].a, "check a", "load a", "check b")
  \/ LockToLoad(t, thread[t].a, "load a", "loading a")
  \/ Load(t, thread[t].a, "loading a", "check b")
  \/ Check(t, thread[t].b, "check b", "load b", "compare")
  \/ LockToLoad(t, thread[t].b, "load b", "loading b")
  \/ Load(t, thread[t].b, "loading b", "compare")
  \/ Compare(t) \/ CheckOrder(t) \/ LockToOrder(t) \/ Order(t)
  \/ LockToTest(t) \/ Test(t)

Next ==
  \/ Prepare \/ Broadphase \/ Schedule \/ Distribute \/ Report
  \/ \E t \in Threads : ThreadStep(t)

Spec == Init /\ [][Next]_clashVars

\* The main thread goes on, and the scheduler runs every thread.
FairSpec ==
  /\ Spec
  /\ WF_clashVars(Prepare \/ Broadphase \/ Schedule \/ Distribute \/ Report)
  /\ \A t \in UNION {1..c.numThreads : c \in Configs} :
       WF_clashVars(t \in Threads /\ ThreadStep(t))
-----------------------------------------------------------------------------
\* What a thread changes, and what its test reads.
Changes(t) ==
  CASE thread[t].pc \in {"loading a", "ordering"} -> {thread[t].a}
    [] thread[t].pc = "loading b" -> {thread[t].b}
    [] thread[t].pc = "testing" /\ Hard -> {thread[t].a}
    [] OTHER -> {}

Reads(t) == IF thread[t].pc = "testing" THEN {thread[t].a, thread[t].b} ELSE {}

\* A test finds its geometry loaded, and no thread changes what another one tests,
\* loads or deforms (Clearance::run and Hard::run, their locks).
TestsUndisturbed ==
  \A t \in Threads :
    /\ Reads(t) \subseteq loaded
    /\ thread[t].pc = "testing" /\ ~Hard => thread[t].a \in ordered
    /\ \A u \in Threads \ {t} : Changes(t) \cap (Changes(u) \cup Reads(u)) = {}

Compared(o1, o2) ==
  \/ o1 \in config.setA /\ o2 \in config.setB
  \/ o2 \in config.setA /\ o1 \in config.setB
  \/ config.selfA /\ {o1, o2} \subseteq config.setA
  \/ config.selfB /\ {o1, o2} \subseteq config.setB

\* The meshes of the objects, and those of them whose clash is asked for: Hard
\* skips an object with itself.
Parts == {i \in Objects \X Meshes : i[2] \in MeshesOf[i[1]]}

Meet(i, j) ==
  /\ Compared(i[1], j[1]) /\ Touch(i[2], j[2])
  /\ i[1] = j[1] => i[2] # j[2] /\ ~Hard

\* The first may be on the left of their clash: the smaller one is, Clearance's mesh
\* or Hard's object, whose bounds another thread may be changing.
Leads(i, j) ==
  \/ Hard /\ config.numThreads > 1
  \/ Size[IF Hard THEN i[1] ELSE i[2]] <= Size[IF Hard THEN j[1] ELSE j[2]]

\* A report without errors has each clash that the configuration asks for, under a
\* pair of ids in the order of the sizes, and no other, however the sets overlap,
\* the tests are ordered and the threads interleave (Pipeline::runPipeline).
ReportIsExact ==
  phase = "reported" /\ errors = {} =>
    /\ \A c \in clashes : \E i, j \in Parts : c = <<i[1], j[1]>> /\ Meet(i, j) /\ Leads(i, j)
    /\ \A i, j \in Parts : Meet(i, j) =>
         \/ Leads(i, j) /\ <<i[1], j[1]>> \in clashes
         \/ Leads(j, i) /\ <<j[1], i[1]>> \in clashes

\* "The clash engine will return composite object a on the left, and b on the right,
\* always" (ordered_pair.h:27), of two sets that do not meet.
AOnTheLeft ==
  phase = "reported" /\ config.setA \cap config.setB = {} /\ ~config.selfA /\ ~config.selfB =>
    clashes \subseteq config.setA \X config.setB

\* "Composite Objects will not be compared with themselves"
\* (repo_clash_detection_config.h:109), which Clearance does.
NotWithItself == \A c \in clashes : c[1] # c[2]

\* Threads that hold the first lock of a test and want the second do not wait for
\* each other in a circle: among any of them, one wants what no other holds
\* (Clearance::run, clash_clearance.cpp:304-311).
LocksInOrder ==
  \A S \in SUBSET {t \in Threads : At(t, "half locked")} :
    S # {} => \E t \in S : \A u \in S : thread[t].b # thread[u].a

\* The stages and the scheduler come to an end, and with them a clash detection.
ClashEnds == <>(phase \in Ended)
=============================================================================
