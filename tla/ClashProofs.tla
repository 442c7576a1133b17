----------------------------- MODULE ClashProofs -----------------------------
(***************************************************************************)
(* Proofs about the clash detection, for any meshes, objects,              *)
(* configurations, numbers of threads and faults: its threads do not       *)
(* disturb each other, and the report is that of the configuration.        *)
(***************************************************************************)
EXTENDS ClashPipeline, FiniteSetTheorems, SequenceTheorems, WellFoundedInduction, TLAPS

-----------------------------------------------------------------------------
(* The threads and their locks. *)

Graphs == {"A", "B", "C"}
Entries == Graphs \X (Meshes \cup Objects)
Edges == Entries \X Entries

Loading == {"check a", "load a", "loading a", "check b", "load b", "loading b"}
Ordering == {"check order", "order", "ordering"}
PCs == {"idle", "ended", "compare", "lock", "half locked", "testing"} \cup Loading \cup Ordering
ThreadStates == [pc : PCs, a : Entries \cup {NoEntry}, b : Entries \cup {NoEntry}]

\* A thread has loaded, and ordered, what its place says.
Progress(t) ==
  /\ thread[t].pc \in {"check b", "load b", "loading b"} => thread[t].a \in loaded
  /\ thread[t].pc \in {"compare", "lock", "half locked", "testing"} \cup Ordering =>
       thread[t].a \in loaded /\ thread[t].b \in loaded
  /\ thread[t].pc \in {"half locked"} \cup Ordering => ~Hard
  /\ thread[t].pc \in {"lock", "half locked", "testing"} /\ ~Hard => thread[t].a \in ordered

\* What a thread holds exclusively no other thread holds.
LocksApart ==
  \A t, u \in Threads : t # u => Exclusive(t) \cap (Exclusive(u) \cup Shared(u)) = {}

ThreadsInv ==
  /\ thread \in [Threads -> ThreadStates]
  /\ \A t \in Threads : Progress(t)
  /\ LocksApart

\* The invariant is what keeps the threads out of each other's way.
LEMMA ThreadsUndisturbed == ThreadsInv => TestsUndisturbed
<1>1. ASSUME ThreadsInv, NEW t \in Threads PROVE Reads(t) \subseteq loaded
  BY <1>1 DEF ThreadsInv, Reads, Progress
<1>2. ASSUME ThreadsInv, NEW t \in Threads, thread[t].pc = "testing" /\ ~Hard PROVE thread[t].a \in ordered
  BY <1>2 DEF ThreadsInv, Progress
<1>3. ASSUME ThreadsInv, NEW t \in Threads, NEW u \in Threads \ {t}
      PROVE  Changes(t) \cap (Changes(u) \cup Reads(u)) = {}
  <2>1. Changes(t) \subseteq Exclusive(t) /\ Changes(u) \subseteq Exclusive(u)
    BY DEF Changes, Exclusive
  <2>2. Reads(u) \subseteq Exclusive(u) \cup Shared(u)
    BY DEF Reads, Exclusive, Shared
  <2>3. Exclusive(t) \cap (Exclusive(u) \cup Shared(u)) = {}
    BY <1>3 DEF ThreadsInv, LocksApart
  <2>4. QED
    BY <2>1, <2>2, <2>3
<1>4. QED
  BY <1>1, <1>2, <1>3 DEF TestsUndisturbed

\* What a thread that takes a step may lock, so that the locks stay apart.
LEMMA LocksStayApart ==
  ASSUME LocksApart, NEW t \in Threads, UNCHANGED config,
         \A u \in Threads \ {t} : thread'[u] = thread[u],
         \A e \in Exclusive(t)' : e \in Exclusive(t) \/ CanLock(t, e),
         \A e \in Shared(t)' : e \in Shared(t) \/ CanShare(t, e)
  PROVE  LocksApart'
<1>1. Threads' = Threads /\ Hard' = Hard
  BY DEF Threads, Hard
<1>2. ASSUME NEW u \in Threads \ {t} PROVE Exclusive(u)' = Exclusive(u) /\ Shared(u)' = Shared(u)
  BY <1>1 DEF Exclusive, Shared
<1>3. ASSUME NEW u \in Threads \ {t}, NEW e \in Exclusive(t)' PROVE e \notin Exclusive(u) \cup Shared(u)
  BY DEF LocksApart, CanLock
<1>4. ASSUME NEW u \in Threads \ {t}, NEW e \in Shared(t)' PROVE e \notin Exclusive(u)
  BY DEF LocksApart, CanShare
<1>5. ASSUME NEW u \in Threads, NEW v \in Threads, u # v
      PROVE  Exclusive(u)' \cap (Exclusive(v)' \cup Shared(v)') = {}
  <2>1. CASE u = t
    BY <1>2, <1>3, <1>5, <2>1
  <2>2. CASE v = t
    BY <1>2, <1>3, <1>4, <1>5, <2>2
  <2>3. CASE u # t /\ v # t
    BY <1>2, <1>5, <2>3 DEF LocksApart
  <2>4. QED
    BY <2>1, <2>2, <2>3
<1>6. QED
  BY <1>1, <1>5 DEF LocksApart

\* A thread that goes on keeps its entries.
LEMMA GoesOn ==
  ASSUME thread \in [Threads -> ThreadStates], NEW t \in Threads, NEW l \in PCs, Goto(t, l)
  PROVE  /\ thread' \in [Threads -> ThreadStates]
         /\ thread'[t].pc = l /\ thread'[t].a = thread[t].a /\ thread'[t].b = thread[t].b
         /\ \A u \in Threads \ {t} : thread'[u] = thread[u]
BY DEF Goto, ThreadStates

\* A step of one thread keeps the invariant if it does for that thread.
LEMMA ThreadKeeps ==
  ASSUME ThreadsInv, NEW t \in Threads, UNCHANGED config,
         thread' \in [Threads -> ThreadStates],
         \A u \in Threads \ {t} : thread'[u] = thread[u],
         loaded \subseteq loaded', ordered \subseteq ordered',
         Progress(t)',
         \A e \in Exclusive(t)' : e \in Exclusive(t) \/ CanLock(t, e),
         \A e \in Shared(t)' : e \in Shared(t) \/ CanShare(t, e)
  PROVE  ThreadsInv'
<1>1. Threads' = Threads /\ Hard' = Hard
  BY DEF Threads, Hard
<1>2. ASSUME NEW u \in Threads PROVE Progress(u)'
  BY <1>1 DEF Progress, ThreadsInv
<1>3. LocksApart'
  BY LocksStayApart DEF ThreadsInv
<1>4. QED
  BY <1>1, <1>2, <1>3 DEF ThreadsInv

\* Nothing changes for the threads when nothing of theirs does.
LEMMA ThreadsStay ==
  ASSUME ThreadsInv, UNCHANGED <<config, thread, loaded, ordered>>
  PROVE  ThreadsInv'
<1>1. Threads' = Threads /\ Hard' = Hard
  BY DEF Threads, Hard
<1>2. \A t \in Threads : Progress(t)'
  BY <1>1 DEF ThreadsInv, Progress
<1>3. \A t : Exclusive(t)' = Exclusive(t) /\ Shared(t)' = Shared(t)
  BY <1>1 DEF Exclusive, Shared
<1>4. LocksApart'
  BY <1>1, <1>3 DEF ThreadsInv, LocksApart
<1>5. QED
  BY <1>1, <1>2, <1>4 DEF ThreadsInv

QueueIds == IF Hard THEN Threads ELSE {1}
QueueTypes == phase = "narrow" => queues \in [QueueIds -> Seq(Edges)]

\* A thread that takes a test knows nothing of it.
LEMMA TakeApart ==
  ASSUME ThreadsInv, QueueTypes, NEW t \in Threads, Take(t), 1 \in Threads
  PROVE  ThreadsInv'
<1>0. thread \in [Threads -> ThreadStates] /\ Progress(t)
  BY DEF ThreadsInv
<1>1. CASE Goto(t, "ended") /\ UNCHANGED <<config, loaded, ordered>>
  <2>1. "ended" \in PCs
    BY DEF PCs
  <2>2. /\ thread' \in [Threads -> ThreadStates] /\ thread'[t].pc = "ended"
        /\ \A u \in Threads \ {t} : thread'[u] = thread[u]
    BY <1>0, <1>1, <2>1, GoesOn
  <2>3. Progress(t)'
    BY <2>2 DEF Progress, Ordering
  <2>4. Exclusive(t)' = {} /\ Shared(t)' = {}
    BY <2>2 DEF Exclusive, Shared
  <2>5. QED
    BY <1>1, <2>2, <2>3, <2>4, ThreadKeeps
<1>2. CASE /\ queues[QueueOf(t)] # <<>> /\ UNCHANGED <<config, loaded, ordered>>
           /\ thread' = [thread EXCEPT ![t] = [pc |-> "check a", a |-> Head(queues[QueueOf(t)])[1],
                                             b |-> Head(queues[QueueOf(t)])[2]]]
  <2>1. queues[QueueOf(t)] \in Seq(Edges)
    BY DEF QueueTypes, QueueIds, QueueOf, Take, At
  <2>2. Head(queues[QueueOf(t)]) \in Edges
    BY <1>2, <2>1, HeadTailProperties
  <2>3. Head(queues[QueueOf(t)])[1] \in Entries /\ Head(queues[QueueOf(t)])[2] \in Entries
    BY <2>2 DEF Edges
  <2>4. "check a" \in PCs
    BY DEF PCs, Loading
  <2>5. /\ thread' \in [Threads -> ThreadStates] /\ thread'[t].pc = "check a"
        /\ \A u \in Threads \ {t} : thread'[u] = thread[u]
    BY <1>0, <1>2, <2>3, <2>4 DEF ThreadStates
  <2>6. Progress(t)'
    BY <2>5 DEF Progress, Ordering
  <2>7. Exclusive(t)' = {} /\ Shared(t)' = {}
    BY <2>5 DEF Exclusive, Shared
  <2>8. QED
    BY <1>2, <2>5, <2>6, <2>7, ThreadKeeps
<1>3. QED
  BY <1>1, <1>2 DEF Take

\* A thread that only moves keeps what it has loaded and ordered.
LEMMA MoveApart ==
  ASSUME ThreadsInv, NEW t \in Threads, NEW l \in PCs, Goto(t, l),
         UNCHANGED config, loaded \subseteq loaded', ordered \subseteq ordered',
         l \in {"check b", "load b", "loading b"} => thread[t].a \in loaded',
         l \in {"compare", "lock", "half locked", "testing"} \cup Ordering =>
           thread[t].a \in loaded' /\ thread[t].b \in loaded',
         l \in {"half locked"} \cup Ordering => ~Hard,
         l \in {"lock", "half locked", "testing"} /\ ~Hard => thread[t].a \in ordered',
         l \in {"loading a", "ordering"} => CanLock(t, thread[t].a),
         l = "loading b" => CanLock(t, thread[t].b),
         l = "testing" /\ Hard => CanLock(t, thread[t].a) /\ CanLock(t, thread[t].b),
         l = "half locked" => CanShare(t, thread[t].a),
         l = "testing" /\ ~Hard =>
           (thread[t].a \in Shared(t) \/ CanShare(t, thread[t].a)) /\ CanShare(t, thread[t].b)
  PROVE  ThreadsInv'
<1>0. thread \in [Threads -> ThreadStates] /\ Progress(t)
  BY DEF ThreadsInv
<1>1. /\ thread' \in [Threads -> ThreadStates]
      /\ thread'[t].pc = l /\ thread'[t].a = thread[t].a /\ thread'[t].b = thread[t].b
      /\ \A u \in Threads \ {t} : thread'[u] = thread[u]
  BY <1>0, GoesOn
<1>3. Hard' = Hard
  BY DEF Hard
<1>4. Progress(t)'
  BY <1>1, <1>3 DEF Progress
<1>5. \A e \in Exclusive(t)' : e \in Exclusive(t) \/ CanLock(t, e)
  BY <1>1, <1>3 DEF Exclusive
<1>6. \A e \in Shared(t)' : e \in Shared(t) \/ CanShare(t, e)
  BY <1>1, <1>3 DEF Shared
<1>7. QED
  BY <1>1, <1>4, <1>5, <1>6, ThreadKeeps

\* Each step of a thread that has taken its test.
LEMMA CheckApart ==
  ASSUME ThreadsInv, NEW t \in Threads,
         \/ Check(t, thread[t].a, "check a", "load a", "check b")
         \/ Check(t, thread[t].b, "check b", "load b", "compare")
  PROVE  ThreadsInv'
<1>0. thread \in [Threads -> ThreadStates] /\ Progress(t)
  BY DEF ThreadsInv
<1>1. CASE Check(t, thread[t].a, "check a", "load a", "check b")
  <2>1. PICK l \in {"check b", "load a"} : Goto(t, l) /\ (l = "check b" => thread[t].a \in loaded)
    BY <1>1 DEF Check
  <2>2. l \in PCs
    BY DEF PCs, Loading
  <2>3. QED
    BY <1>1, <2>1, <2>2, MoveApart DEF Check, Ordering
<1>2. CASE Check(t, thread[t].b, "check b", "load b", "compare")
  <2>1. PICK l \in {"compare", "load b"} : Goto(t, l) /\ (l = "compare" => thread[t].b \in loaded)
    BY <1>2 DEF Check
  <2>2. l \in PCs /\ thread[t].a \in loaded
    BY <1>0, <1>2 DEF PCs, Loading, Check, At, Progress
  <2>3. QED
    BY <1>2, <2>1, <2>2, MoveApart DEF Check, Ordering
<1>3. QED
  BY <1>1, <1>2

LEMMA LoadApart ==
  ASSUME ThreadsInv, NEW t \in Threads,
         \/ LockToLoad(t, thread[t].a, "load a", "loading a")
         \/ LockToLoad(t, thread[t].b, "load b", "loading b")
         \/ Load(t, thread[t].a, "loading a", "check b")
         \/ Load(t, thread[t].b, "loading b", "compare")
  PROVE  ThreadsInv'
<1>0. thread \in [Threads -> ThreadStates] /\ Progress(t)
  BY DEF ThreadsInv
<1>a. {"loading a", "loading b", "check b", "compare"} \subseteq PCs
  BY DEF PCs, Loading
<1>1. CASE LockToLoad(t, thread[t].a, "load a", "loading a")
  BY <1>a, <1>1, MoveApart DEF LockToLoad, Ordering
<1>2. CASE LockToLoad(t, thread[t].b, "load b", "loading b")
  <2>1. thread[t].a \in loaded
    BY <1>0, <1>2 DEF LockToLoad, At, Progress
  <2>2. QED
    BY <1>a, <1>2, <2>1, MoveApart DEF LockToLoad, Ordering
<1>3. CASE /\ Goto(t, "check b") /\ loaded' = loaded \cup {thread[t].a}
           /\ UNCHANGED <<config, ordered>>
  BY <1>a, <1>3, MoveApart DEF Ordering
<1>4. CASE /\ At(t, "loading b") /\ Goto(t, "compare") /\ loaded' = loaded \cup {thread[t].b}
           /\ UNCHANGED <<config, ordered>>
  <2>1. thread[t].a \in loaded
    BY <1>0, <1>4 DEF At, Progress
  <2>2. QED
    BY <1>a, <1>4, <2>1, MoveApart DEF Ordering
<1>5. CASE UNCHANGED <<config, thread, loaded, ordered>>
  BY <1>5, ThreadsStay
<1>6. QED
  BY <1>1, <1>2, <1>3, <1>4, <1>5 DEF Load

LEMMA OrderApart ==
  ASSUME ThreadsInv, NEW t \in Threads, CheckOrder(t) \/ LockToOrder(t) \/ Order(t)
  PROVE  ThreadsInv'
<1>0. thread \in [Threads -> ThreadStates] /\ Progress(t)
  BY DEF ThreadsInv
<1>a. {"lock", "order", "ordering"} \subseteq PCs
  BY DEF PCs, Ordering
<1>b. ~Hard /\ thread[t].a \in loaded /\ thread[t].b \in loaded
  BY <1>0 DEF CheckOrder, LockToOrder, Order, At, Progress, Ordering
<1>1. CASE CheckOrder(t)
  <2>1. PICK l \in {"lock", "order"} : Goto(t, l) /\ (l = "lock" => thread[t].a \in ordered)
    BY <1>1 DEF CheckOrder
  <2>2. QED
    BY <1>a, <1>b, <1>1, <2>1, MoveApart DEF CheckOrder
<1>2. CASE LockToOrder(t)
  BY <1>a, <1>b, <1>2, MoveApart DEF LockToOrder
<1>3. CASE Order(t)
  BY <1>a, <1>b, <1>3, MoveApart DEF Order
<1>4. QED
  BY <1>1, <1>2, <1>3

LEMMA LockToTestApart ==
  ASSUME ThreadsInv, NEW t \in Threads, LockToTest(t)
  PROVE  ThreadsInv'
<1>0. thread \in [Threads -> ThreadStates] /\ Progress(t)
  BY DEF ThreadsInv
<1>a. {"half locked", "testing"} \subseteq PCs
  BY DEF PCs
<1>b. thread[t].a \in loaded /\ thread[t].b \in loaded /\ (~Hard => thread[t].a \in ordered)
  BY <1>0 DEF LockToTest, At, Progress
<1>1. CASE Goto(t, "testing") /\ Hard /\ CanLock(t, thread[t].a) /\ CanLock(t, thread[t].b)
  BY <1>a, <1>b, <1>1, MoveApart DEF LockToTest, Ordering
<1>2. CASE Goto(t, "half locked") /\ ~Hard /\ CanShare(t, thread[t].a)
  BY <1>a, <1>b, <1>2, MoveApart DEF LockToTest, Ordering
<1>3. CASE At(t, "half locked") /\ Goto(t, "testing") /\ CanShare(t, thread[t].b)
  <2>1. ~Hard /\ thread[t].a \in Shared(t)
    BY <1>0, <1>3 DEF At, Progress, Shared
  <2>2. QED
    BY <1>a, <1>b, <1>3, <2>1, MoveApart DEF LockToTest, Ordering
<1>4. QED
  BY <1>1, <1>2, <1>3 DEF LockToTest

LEMMA CompareApart ==
  ASSUME ThreadsInv, NEW t \in Threads, Compare(t)
  PROVE  ThreadsInv'
<1>0. thread \in [Threads -> ThreadStates] /\ Progress(t)
  BY DEF ThreadsInv
<1>1. PICK x \in {thread[t].a, thread[t].b}, y \in {thread[t].a, thread[t].b} :
        thread' = [thread EXCEPT ![t] = [pc |-> IF Hard THEN "lock" ELSE "check order", a |-> x, b |-> y]]
  BY DEF Compare
<1>2. thread[t] \in ThreadStates /\ thread[t].a \in loaded /\ thread[t].b \in loaded
  BY <1>0 DEF Compare, At, Progress
<1>3. x \in loaded /\ y \in loaded /\ x \in Entries \cup {NoEntry} /\ y \in Entries \cup {NoEntry}
  BY <1>2 DEF ThreadStates
<1>4. /\ thread' \in [Threads -> ThreadStates]
      /\ thread'[t].pc = (IF Hard THEN "lock" ELSE "check order") /\ thread'[t].a = x /\ thread'[t].b = y
      /\ \A u \in Threads \ {t} : thread'[u] = thread[u]
  BY <1>0, <1>1, <1>3 DEF ThreadStates, PCs, Ordering
<1>5. UNCHANGED <<config, loaded, ordered>> /\ Hard' = Hard
  BY DEF Compare, Hard
<1>6. Exclusive(t)' = {} /\ Shared(t)' = {}
  BY <1>4 DEF Exclusive, Shared
<1>7. Progress(t)'
  <2>1. CASE Hard
    BY <1>3, <1>4, <1>5, <2>1 DEF Progress, Ordering
  <2>2. CASE ~Hard
    BY <1>3, <1>4, <1>5, <2>2 DEF Progress, Ordering
  <2>3. QED
    BY <2>1, <2>2
<1>8. QED
  BY <1>4, <1>5, <1>6, <1>7, ThreadKeeps

LEMMA TestApart ==
  ASSUME ThreadsInv, NEW t \in Threads, Test(t)
  PROVE  ThreadsInv'
<1>0. thread \in [Threads -> ThreadStates] /\ Progress(t)
  BY DEF ThreadsInv
<1>1. CASE thread' = [thread EXCEPT ![t] = Idle] /\ UNCHANGED <<config, loaded, ordered>>
  <2>1. /\ thread' \in [Threads -> ThreadStates] /\ thread'[t].pc = "idle"
        /\ \A u \in Threads \ {t} : thread'[u] = thread[u]
    BY <1>0, <1>1 DEF ThreadStates, PCs, Idle
  <2>2. Progress(t)' /\ Exclusive(t)' = {} /\ Shared(t)' = {}
    BY <2>1 DEF Progress, Ordering, Exclusive, Shared
  <2>3. QED
    BY <1>1, <2>1, <2>2, ThreadKeeps
<1>2. CASE UNCHANGED <<config, thread, loaded, ordered>>
  BY <1>2, ThreadsStay
<1>3. QED
  BY <1>1, <1>2 DEF Test

-----------------------------------------------------------------------------
(* The work of a clash detection, from the broadphase to the report. *)

\* What the report should have: the pairs of parts whose clash is asked for, each
\* under one of its keys.
Expected == {w \in Parts \X Parts : Meet(w[1], w[2])}
KeysOf(w) ==
  {k \in {<<w[1][1], w[2][1]>>} : Leads(w[1], w[2])} \cup {k \in {<<w[2][1], w[1][1]>>} : Leads(w[2], w[1])}

\* A key that the report may have.
Due(k) == \E w \in Expected : k = <<w[1][1], w[2][1]>> /\ Leads(w[1], w[2])

\* The keys that the test of an edge may add, and whether it adds one.
EntryLeads(x, y) == (Hard /\ config.numThreads > 1) \/ Size[x[2]] <= Size[y[2]]
KeysOfEdge(e) ==
  {k \in {<<IdOf(e[1]), IdOf(e[2])>>} : EntryLeads(e[1], e[2])}
  \cup {k \in {<<IdOf(e[2]), IdOf(e[1])>>} : EntryLeads(e[2], e[1])}

Touching(e) == \E p \in MeshesOfEntry(e[1]), q \in MeshesOfEntry(e[2]) : Touch(p, q)
Shows(e, w) == Touching(e) /\ KeysOfEdge(e) \subseteq KeysOf(w)
Sound(e) == Touching(e) => \A k \in KeysOfEdge(e) : Due(k)

\* Every clash that is expected has been found, or will be by some of the work, and
\* the work finds no other.
Found(w) == KeysOf(w) \cap clashes # {}
Covered(W) ==
  /\ \A e \in W : e \in Edges /\ Sound(e)
  /\ \A w \in Expected : Found(w) \/ \E e \in W : Shows(e, w)

\* The tests no thread has taken, and those the threads are at.
Queued == UNION {Range(queues[q]) : q \in QueueIds}
Busy(t) == thread[t].pc \notin {"idle", "ended"}
Taken == {<<thread[t].a, thread[t].b>> : t \in {u \in Threads : Busy(u)}}

\* A thread that has compared its entries has them in the order of their sizes.
Compares == {"lock", "half locked", "testing"} \cup Ordering
InOrder(t) == thread[t].pc \in Compares => EntryLeads(thread[t].a, thread[t].b)

WorkInv ==
  /\ config \in Configs /\ phase \in {"sets", "broadphase", "scheduling", "narrow"} \cup Ended
  /\ phase \in {"sets", "broadphase", "scheduling"} =>
       clashes = {} /\ errors = {} /\ \A t \in Threads : thread[t] = Idle
  /\ phase = "broadphase" => graph = Split /\ \A g \in Graphs : ~SharesMesh(graph[g])
  /\ phase = "scheduling" =>
       /\ left \subseteq Edges /\ IsFiniteSet(left) /\ results \in Seq(Edges)
       /\ \A e \in left : \E i \in DOMAIN ranked : ranked[i] = e[1]
       /\ Covered(left \cup Range(results))
  /\ phase = "narrow" =>
       /\ queues \in [QueueIds -> Seq(Edges)]
       /\ \A t \in Threads : thread[t].pc = "ended" => queues[QueueOf(t)] = <<>>
       /\ \A t \in Threads : InOrder(t)
       /\ Covered(Queued \cup Taken) /\ errors = {}
  /\ \A c \in clashes : Due(c)
  /\ phase = "reported" /\ errors = {} => \A w \in Expected : Found(w)

\* A report that is written when all is covered is exact.
LEMMA CoveredIsExact == WorkInv => ReportIsExact
<1> SUFFICES ASSUME WorkInv, phase = "reported", errors = {}
             PROVE  /\ \A c \in clashes : \E i, j \in Parts : c = <<i[1], j[1]>> /\ Meet(i, j) /\ Leads(i, j)
                    /\ \A i, j \in Parts : Meet(i, j) =>
                         \/ Leads(i, j) /\ <<i[1], j[1]>> \in clashes
                         \/ Leads(j, i) /\ <<j[1], i[1]>> \in clashes
  BY DEF ReportIsExact
<1>1. ASSUME NEW c \in clashes PROVE \E i, j \in Parts : c = <<i[1], j[1]>> /\ Meet(i, j) /\ Leads(i, j)
  <2>1. PICK w \in Parts \X Parts : Meet(w[1], w[2]) /\ c = <<w[1][1], w[2][1]>> /\ Leads(w[1], w[2])
    BY DEF WorkInv, Due, Expected
  <2>2. QED
    BY <2>1
<1>2. ASSUME NEW i \in Parts, NEW j \in Parts, Meet(i, j)
      PROVE  \/ Leads(i, j) /\ <<i[1], j[1]>> \in clashes
             \/ Leads(j, i) /\ <<j[1], i[1]>> \in clashes
  <2>1. <<i, j>> \in Expected /\ <<i, j>>[1] = i /\ <<i, j>>[2] = j
    BY <1>2 DEF Expected
  <2>2. Found(<<i, j>>)
    BY <2>1 DEF WorkInv
  <2>3. QED
    BY <2>1, <2>2 DEF Found, KeysOf
<1>3. QED
  BY <1>1, <1>2

\* Graphs of objects that do not share meshes.
Disjoint == graph = Split /\ \A g \in Graphs : ~SharesMesh(graph[g])

\* The object of a mesh is one of its graph, and the only one.
LEMMA ObjectOfMesh ==
  ASSUME NEW g, NEW m \in MeshesIn(graph[g])
  PROVE  ObjectOf(g, m) \in graph[g] /\ m \in MeshesOf[ObjectOf(g, m)]
<1>1. \E o \in graph[g] : m \in MeshesOf[o]
  BY DEF MeshesIn
<1>2. QED
  BY <1>1 DEF ObjectOf

LEMMA OnlyObject ==
  ASSUME NEW g, ~SharesMesh(graph[g]), NEW o \in graph[g], NEW m \in MeshesOf[o]
  PROVE  m \in MeshesIn(graph[g]) /\ ObjectOf(g, m) = o
<1>1. m \in MeshesIn(graph[g])
  BY DEF MeshesIn
<1>2. QED
  BY <1>1, ObjectOfMesh DEF SharesMesh

\* What an entry of a graph stands for.
LEMMA EntryOfMesh ==
  ASSUME config \in Configs, graph = Split, NEW g \in Graphs, NEW m \in MeshesIn(graph[g])
  PROVE  /\ graph[g] \subseteq Objects
         /\ Entry(g, m) \in Entries
         /\ IdOf(Entry(g, m)) = ObjectOf(g, m)
         /\ m \in MeshesOfEntry(Entry(g, m))
         /\ MeshesOfEntry(Entry(g, m)) \subseteq MeshesOf[ObjectOf(g, m)]
         /\ Entry(g, m)[2] = IF Hard THEN ObjectOf(g, m) ELSE m
         /\ ~Hard => MeshesOfEntry(Entry(g, m)) = {m}
<1>1. graph[g] \subseteq Objects
  BY ClashAssumption DEF Split, Graphs
<1>2. ObjectOf(g, m) \in graph[g] /\ m \in MeshesOf[ObjectOf(g, m)]
  BY ObjectOfMesh
<1>3. m \in Meshes
  BY <1>1, <1>2, ClashAssumption
<1>4. CASE Hard
  BY <1>1, <1>2, <1>4 DEF Entry, Entries, IdOf, MeshesOfEntry
<1>5. CASE ~Hard
  BY <1>1, <1>2, <1>3, <1>5 DEF Entry, Entries, IdOf, MeshesOfEntry
<1>6. QED
  BY <1>1, <1>4, <1>5

\* The pairs of graphs in which a broadphase looks for edges.
Searched == {<<"A", "B">>, <<"A", "C">>, <<"B", "C">>} \cup {<<g, g>> : g \in SelfIntersecting}

\* The objects of such graphs are to be compared, and others are not.
LEMMA SearchedCompared ==
  ASSUME config \in Configs, graph = Split, NEW gh \in Searched,
         NEW o1 \in graph[gh[1]], NEW o2 \in graph[gh[2]]
  PROVE  Compared(o1, o2) /\ (o1 = o2 => gh[1] = gh[2])
<1>1. CASE gh \in {<<"A", "B">>, <<"A", "C">>, <<"B", "C">>}
  BY <1>1 DEF Split, Compared
<1>2. CASE gh \in {<<g, g>> : g \in SelfIntersecting}
  BY <1>2 DEF Split, Compared, SelfIntersecting
<1>3. QED
  BY <1>1, <1>2 DEF Searched

LEMMA ComparedSearched ==
  ASSUME graph = Split, NEW o1, NEW o2, Compared(o1, o2)
  PROVE  \E gh \in Searched : (o1 \in graph[gh[1]] /\ o2 \in graph[gh[2]])
                              \/ (o2 \in graph[gh[1]] /\ o1 \in graph[gh[2]])
<1>1. PICK g \in Graphs : o1 \in graph[g]
  BY DEF Split, Graphs, Compared
<1>2. PICK h \in Graphs : o2 \in graph[h]
  BY DEF Split, Graphs, Compared
<1>3. CASE g # h
  <2>1. <<g, h>> \in Searched \/ <<h, g>> \in Searched
    BY <1>3 DEF Searched, Graphs
  <2>2. QED
    BY <1>1, <1>2, <2>1
<1>4. CASE g = h
  <2>1. g \in SelfIntersecting
    BY <1>1, <1>2, <1>4 DEF Split, Compared, SelfIntersecting, Graphs
  <2>2. <<g, g>> \in Searched
    BY <2>1 DEF Searched
  <2>3. QED
    BY <1>1, <1>2, <1>4, <2>2
<1>5. QED
  BY <1>3, <1>4

\* Who meets, and under which keys, does not depend on who is named first.
LEMMA TouchSymmetric == \A p, q : Touch(p, q) <=> Touch(q, p)
<1>1. \A p, q : {p, q} = {q, p}
  OBVIOUS
<1>2. QED
  BY <1>1 DEF Touch

LEMMA MeetSymmetric ==
  ASSUME NEW w \in Expected
  PROVE  <<w[2], w[1]>> \in Expected /\ KeysOf(<<w[2], w[1]>>) = KeysOf(w)
<1>1. w \in Parts \X Parts /\ Compared(w[1][1], w[2][1]) /\ Touch(w[1][2], w[2][2])
      /\ (w[1][1] = w[2][1] => w[1][2] # w[2][2] /\ ~Hard)
  BY DEF Expected, Meet
<1>2. Compared(w[2][1], w[1][1])
  BY <1>1 DEF Compared
<1>3. Touch(w[2][2], w[1][2])
  BY <1>1, TouchSymmetric
<1>4. <<w[2], w[1]>> \in Parts \X Parts /\ Meet(w[2], w[1])
  BY <1>1, <1>2, <1>3 DEF Meet
<1>5. QED
  BY <1>4 DEF Expected, KeysOf

LEMMA EdgeSymmetric ==
  ASSUME NEW x, NEW y
  PROVE  /\ KeysOfEdge(<<y, x>>) = KeysOfEdge(<<x, y>>)
         /\ Touching(<<y, x>>) <=> Touching(<<x, y>>)
         /\ Sound(<<y, x>>) <=> Sound(<<x, y>>)
         /\ \A w : Shows(<<y, x>>, w) <=> Shows(<<x, y>>, w)
<1>1. KeysOfEdge(<<y, x>>) = KeysOfEdge(<<x, y>>)
  BY DEF KeysOfEdge
<1>2. Touching(<<y, x>>) <=> Touching(<<x, y>>)
  BY TouchSymmetric DEF Touching
<1>3. QED
  BY <1>1, <1>2 DEF Sound, Shows

\* The edge of two meshes, and what its test shows.
EdgeOf(gh, p, q) == <<Entry(gh[1], p), Entry(gh[2], q)>>

\* Two meshes of the entries of an edge that touch are parts that meet.
LEMMA EdgeMeets ==
  ASSUME config \in Configs, graph = Split, NEW gh \in Searched,
         NEW p \in MeshesIn(graph[gh[1]]), NEW q \in MeshesIn(graph[gh[2]]),
         ObjectOf(gh[1], p) = ObjectOf(gh[2], q) => p # q /\ ~Hard,
         NEW p2 \in MeshesOfEntry(Entry(gh[1], p)), NEW q2 \in MeshesOfEntry(Entry(gh[2], q)), Touch(p2, q2),
         NEW w, w = <<<<ObjectOf(gh[1], p), p2>>, <<ObjectOf(gh[2], q), q2>>>>
  PROVE  w \in Expected /\ KeysOf(w) = KeysOfEdge(EdgeOf(gh, p, q))
<1>1. gh[1] \in Graphs /\ gh[2] \in Graphs
  BY DEF Searched, Graphs, SelfIntersecting
<1> DEFINE x == Entry(gh[1], p)
           y == Entry(gh[2], q)
           o1 == ObjectOf(gh[1], p)
           o2 == ObjectOf(gh[2], q)
<1>2. /\ graph[gh[1]] \subseteq Objects /\ IdOf(x) = o1 /\ MeshesOfEntry(x) \subseteq MeshesOf[o1]
      /\ x[2] = (IF Hard THEN o1 ELSE p) /\ (~Hard => MeshesOfEntry(x) = {p})
  BY <1>1, EntryOfMesh
<1>3. /\ graph[gh[2]] \subseteq Objects /\ IdOf(y) = o2 /\ MeshesOfEntry(y) \subseteq MeshesOf[o2]
      /\ y[2] = (IF Hard THEN o2 ELSE q) /\ (~Hard => MeshesOfEntry(y) = {q})
  BY <1>1, EntryOfMesh
<1>4. o1 \in graph[gh[1]] /\ o2 \in graph[gh[2]]
  BY ObjectOfMesh
<1>5. Compared(o1, o2)
  BY <1>4, SearchedCompared
<1>6. o1 = o2 => p # q /\ ~Hard
  OBVIOUS
<1>7. p2 \in MeshesOfEntry(x) /\ q2 \in MeshesOfEntry(y) /\ w = <<<<o1, p2>>, <<o2, q2>>>>
  OBVIOUS
<1>8. EdgeOf(gh, p, q) = <<x, y>>
  BY DEF EdgeOf
<1> HIDE DEF x, y, o1, o2
<1>9. /\ w[1][1] = o1 /\ w[1][2] = p2 /\ w[2][1] = o2 /\ w[2][2] = q2
      /\ w = <<w[1], w[2]>>
  BY <1>7
<1>10. w[1] \in Parts /\ w[2] \in Parts
  <2>1. o1 \in Objects /\ p2 \in MeshesOf[o1] /\ o2 \in Objects /\ q2 \in MeshesOf[o2]
    BY <1>2, <1>3, <1>4, <1>7
  <2>2. p2 \in Meshes /\ q2 \in Meshes
    BY <2>1, ClashAssumption
  <2>3. QED
    BY <1>7, <2>1, <2>2 DEF Parts
<1>11. Meet(w[1], w[2])
  BY <1>2, <1>3, <1>5, <1>6, <1>7, <1>9 DEF Meet
<1>12. /\ Leads(w[1], w[2]) <=> EntryLeads(x, y)
       /\ Leads(w[2], w[1]) <=> EntryLeads(y, x)
  <2>1. /\ x[2] = IF Hard THEN w[1][1] ELSE w[1][2]
        /\ y[2] = IF Hard THEN w[2][1] ELSE w[2][2]
    BY <1>2, <1>3, <1>7, <1>9
  <2>2. QED
    BY <2>1 DEF Leads, EntryLeads
<1>13. KeysOf(w) = KeysOfEdge(<<x, y>>)
  BY <1>2, <1>3, <1>9, <1>12 DEF KeysOf, KeysOfEdge
<1>14. QED
  BY <1>8, <1>9, <1>10, <1>11, <1>13 DEF Expected

LEMMA EdgeSound ==
  ASSUME config \in Configs, graph = Split, NEW gh \in Searched,
         NEW p \in MeshesIn(graph[gh[1]]), NEW q \in MeshesIn(graph[gh[2]]),
         ObjectOf(gh[1], p) = ObjectOf(gh[2], q) => p # q /\ ~Hard
  PROVE  EdgeOf(gh, p, q) \in Edges /\ Sound(EdgeOf(gh, p, q))
<1>1. gh[1] \in Graphs /\ gh[2] \in Graphs
  BY DEF Searched, Graphs, SelfIntersecting
<1>2. EdgeOf(gh, p, q) \in Edges
  BY <1>1, EntryOfMesh DEF EdgeOf, Edges
<1> DEFINE e == EdgeOf(gh, p, q)
<1>3. ASSUME Touching(e), NEW k \in KeysOfEdge(e) PROVE Due(k)
  <2>1. PICK p2 \in MeshesOfEntry(Entry(gh[1], p)), q2 \in MeshesOfEntry(Entry(gh[2], q)) : Touch(p2, q2)
    BY <1>3 DEF Touching, EdgeOf
  <2> DEFINE w == <<<<ObjectOf(gh[1], p), p2>>, <<ObjectOf(gh[2], q), q2>>>>
  <2>2. w \in Expected /\ KeysOf(w) = KeysOfEdge(e)
    BY <2>1, EdgeMeets
  <2> HIDE DEF w, e
  <2>3. \/ k = <<w[1][1], w[2][1]>> /\ Leads(w[1], w[2])
        \/ k = <<w[2][1], w[1][1]>> /\ Leads(w[2], w[1])
    BY <1>3, <2>2 DEF KeysOf
  <2>4. <<w[2], w[1]>> \in Expected
    BY <2>2, MeetSymmetric
  <2>5. QED
    BY <2>2, <2>3, <2>4 DEF Due
<1>4. QED
  BY <1>2, <1>3 DEF Sound

\* The edges a broadphase finds.
Pairs(traversal) ==
  Inter("A", "B") \cup Inter("A", "C") \cup Inter("B", "C")
  \cup UNION {Intra(g, traversal[g]) : g \in SelfIntersecting}
Traverse(traversal) == \A g \in Graphs : traversal[g] \in Traversals(g)

\* The places of the meshes of a graph are numbers.
LEMMA PlacesOfMeshes ==
  ASSUME config \in Configs, graph = Split, NEW g \in Graphs,
         NEW place \in Injection(MeshesIn(graph[g]), 1..Cardinality(MeshesIn(graph[g])))
  PROVE  /\ Cardinality(MeshesIn(graph[g])) \in Nat /\ Cardinality(MeshesIn(graph[g])) <= Cardinality(Meshes)
         /\ Cardinality(Meshes) \in Nat
         /\ place \in [MeshesIn(graph[g]) -> 1..Cardinality(MeshesIn(graph[g]))]
         /\ \A p, q \in MeshesIn(graph[g]) : p # q => place[p] # place[q]
<1>1. graph[g] \subseteq Objects
  BY ClashAssumption DEF Split, Graphs
<1>2. MeshesIn(graph[g]) \subseteq Meshes
  BY <1>1, ClashAssumption DEF MeshesIn
<1>3. IsFiniteSet(MeshesIn(graph[g])) /\ Cardinality(MeshesIn(graph[g])) <= Cardinality(Meshes)
  BY <1>2, ClashAssumption, FS_Subset
<1>4. Cardinality(MeshesIn(graph[g])) \in Nat /\ Cardinality(Meshes) \in Nat
  BY <1>3, ClashAssumption, FS_CardinalityType
<1>5. QED
  BY <1>3, <1>4 DEF Injection, IsInjective

\* The pairs of a traversal are of its graph, and have any two meshes one way round.
LEMMA Oriented ==
  ASSUME config \in Configs, graph = Split, NEW g \in Graphs, NEW traversal \in Traversals(g)
  PROVE  /\ \A n \in traversal : n \in MeshesIn(graph[g]) \X MeshesIn(graph[g]) /\ n[1] # n[2]
         /\ \A p, q \in MeshesIn(graph[g]) : p # q => <<p, q>> \in traversal \/ <<q, p>> \in traversal
<1> DEFINE M == MeshesIn(graph[g])
<1>1. PICK place \in Injection(M, 1..Cardinality(M)) :
        traversal = {n \in M \X M : place[n[1]] < place[n[2]]}
  BY DEF Traversals
<1>2. /\ Cardinality(M) \in Nat /\ place \in [M -> 1..Cardinality(M)]
      /\ \A p, q \in M : p # q => place[p] # place[q]
  BY PlacesOfMeshes
<1> HIDE DEF M
<1>3. \A n \in traversal : n \in M \X M /\ n[1] # n[2]
  <2>1. SUFFICES ASSUME NEW n \in traversal, n[1] = n[2] PROVE FALSE
    BY <1>1
  <2>2. n[1] \in M /\ place[n[1]] < place[n[1]]
    BY <1>1, <2>1
  <2>3. place[n[1]] \in Int
    BY <1>2, <2>2
  <2>4. QED
    BY <2>2, <2>3
<1>4. ASSUME NEW p \in M, NEW q \in M, p # q PROVE <<p, q>> \in traversal \/ <<q, p>> \in traversal
  <2>1. place[p] \in Int /\ place[q] \in Int /\ place[p] # place[q]
    BY <1>2, <1>4
  <2>2. place[p] < place[q] \/ place[q] < place[p]
    BY <2>1
  <2>3. QED
    BY <1>1, <2>2
<1>5. QED
  BY <1>3, <1>4 DEF M

\* An edge within a graph is that of two of its meshes.
LEMMA IntraEdge ==
  ASSUME config \in Configs, graph = Split, NEW g \in SelfIntersecting, NEW traversal \in Traversals(g),
         NEW e \in Intra(g, traversal)
  PROVE  \E n \in traversal : /\ n[1] \in MeshesIn(graph[g]) /\ n[2] \in MeshesIn(graph[g]) /\ n[1] # n[2]
                              /\ e = EdgeOf(<<g, g>>, n[1], n[2])
                              /\ ObjectOf(g, n[1]) = ObjectOf(g, n[2]) => ~Hard
<1>1. g \in Graphs
  BY DEF Graphs, SelfIntersecting
<1>2. PICK n \in traversal : e = <<Entry(g, n[1]), Entry(g, n[2])>> /\ (~Hard \/ IdOf(e[1]) # IdOf(e[2]))
  BY DEF Intra
<1>3. n[1] \in MeshesIn(graph[g]) /\ n[2] \in MeshesIn(graph[g]) /\ n[1] # n[2]
  BY <1>1, Oriented
<1>4. IdOf(e[1]) = ObjectOf(g, n[1]) /\ IdOf(e[2]) = ObjectOf(g, n[2])
  BY <1>1, <1>2, <1>3, EntryOfMesh
<1>5. <<g, g>>[1] = g /\ <<g, g>>[2] = g
  OBVIOUS
<1>6. QED
  BY <1>2, <1>3, <1>4, <1>5 DEF EdgeOf

LEMMA PairsSound ==
  ASSUME config \in Configs, graph = Split, NEW traversal, Traverse(traversal), NEW e \in Pairs(traversal)
  PROVE  e \in Edges /\ Sound(e)
<1>1. ASSUME NEW gh \in {<<"A", "B">>, <<"A", "C">>, <<"B", "C">>}, e \in Inter(gh[1], gh[2])
      PROVE  e \in Edges /\ Sound(e)
  <2>1. PICK p \in MeshesIn(graph[gh[1]]), q \in MeshesIn(graph[gh[2]]) : e = EdgeOf(gh, p, q)
    BY <1>1 DEF Inter, EdgeOf
  <2>2. gh \in Searched /\ gh[1] # gh[2]
    BY DEF Searched
  <2>3. ObjectOf(gh[1], p) # ObjectOf(gh[2], q)
    BY <2>2, ObjectOfMesh, SearchedCompared
  <2>4. QED
    BY <2>1, <2>2, <2>3, EdgeSound
<1>2. ASSUME NEW g \in SelfIntersecting, e \in Intra(g, traversal[g])
      PROVE  e \in Edges /\ Sound(e)
  <2>1. <<g, g>> \in Searched /\ g \in Graphs
    BY DEF Searched, SelfIntersecting, Graphs
  <2>2. PICK n \in traversal[g] :
          /\ n[1] \in MeshesIn(graph[g]) /\ n[2] \in MeshesIn(graph[g]) /\ n[1] # n[2]
          /\ e = EdgeOf(<<g, g>>, n[1], n[2])
          /\ ObjectOf(g, n[1]) = ObjectOf(g, n[2]) => ~Hard
    BY <1>2, <2>1, IntraEdge DEF Traverse
  <2>3. <<g, g>>[1] = g /\ <<g, g>>[2] = g
    OBVIOUS
  <2>4. QED
    BY <2>1, <2>2, <2>3, EdgeSound
<1>3. QED
  BY <1>1, <1>2 DEF Pairs

\* Parts of graphs that are searched have an edge that shows that they meet.
LEMMA PairsShow ==
  ASSUME config \in Configs, Disjoint, NEW traversal, Traverse(traversal), NEW gh \in Searched,
         NEW w \in Expected, w[1][1] \in graph[gh[1]], w[2][1] \in graph[gh[2]]
  PROVE  \E e \in Pairs(traversal) : Shows(e, w)
<1>1. gh[1] \in Graphs /\ gh[2] \in Graphs
  BY DEF Searched, Graphs, SelfIntersecting
<1> DEFINE o1 == w[1][1]
           o2 == w[2][1]
           p == w[1][2]
           q == w[2][2]
<1>2. /\ w = <<<<o1, p>>, <<o2, q>>>> /\ p \in MeshesOf[o1] /\ q \in MeshesOf[o2] /\ Touch(p, q)
      /\ o1 = o2 => p # q /\ ~Hard
  BY DEF Expected, Parts, Meet
<1>3. o1 \in graph[gh[1]] /\ o2 \in graph[gh[2]]
  OBVIOUS
<1> HIDE DEF o1, o2, p, q
<1>4. /\ p \in MeshesIn(graph[gh[1]]) /\ ObjectOf(gh[1], p) = o1
      /\ q \in MeshesIn(graph[gh[2]]) /\ ObjectOf(gh[2], q) = o2
  BY <1>1, <1>2, <1>3, OnlyObject DEF Disjoint
<1>5. p \in MeshesOfEntry(Entry(gh[1], p)) /\ q \in MeshesOfEntry(Entry(gh[2], q))
  BY <1>1, <1>4, EntryOfMesh DEF Disjoint
<1>6. KeysOf(w) = KeysOfEdge(EdgeOf(gh, p, q))
  BY <1>2, <1>4, <1>5, EdgeMeets DEF Disjoint
<1>7. Touching(EdgeOf(gh, p, q))
  BY <1>2, <1>5 DEF Touching, EdgeOf
<1>8. Shows(EdgeOf(gh, p, q), w)
  BY <1>6, <1>7 DEF Shows
<1>9. CASE gh \in {<<"A", "B">>, <<"A", "C">>, <<"B", "C">>}
  <2>1. Near(p, q)
    BY <1>2, ClashAssumption DEF Near, Touch
  <2>2. <<p, q>> \in {n \in MeshesIn(graph[gh[1]]) \X MeshesIn(graph[gh[2]]) : Near(n[1], n[2])}
    BY <1>4, <2>1
  <2>3. EdgeOf(gh, p, q) \in Inter(gh[1], gh[2])
    BY <2>2 DEF EdgeOf, Inter
  <2>4. EdgeOf(gh, p, q) \in Pairs(traversal)
    BY <1>9, <2>3 DEF Pairs
  <2>5. QED
    BY <1>8, <2>4
<1>10. ASSUME NEW g \in SelfIntersecting, gh = <<g, g>>
       PROVE  \E e \in Pairs(traversal) : Shows(e, w)
  <2>1. p # q
    BY <1>2, <1>4, <1>10
  <2>2. {p, q} \in Close /\ {q, p} \in Close
    <3>1. {p, q} \in Close /\ {p, q} = {q, p}
      BY <1>2, <2>1, ClashAssumption DEF Touch
    <3>2. QED
      BY <3>1
  <2>3. <<p, q>> \in traversal[g] \/ <<q, p>> \in traversal[g]
    BY <1>1, <1>4, <1>10, <2>1, Oriented DEF Disjoint, Traverse
  <2>4. gh[1] = g /\ gh[2] = g
    BY <1>10
  <2> DEFINE x == Entry(g, p)
             y == Entry(g, q)
  <2>5. IdOf(x) = o1 /\ IdOf(y) = o2
    BY <1>1, <1>4, <2>4, EntryOfMesh DEF Disjoint
  <2>6. ~Hard \/ IdOf(x) # IdOf(y)
    BY <1>2, <2>5
  <2>7. Shows(<<x, y>>, w)
    BY <1>8, <2>4 DEF EdgeOf
  <2>8. CASE <<p, q>> \in traversal[g]
    <3>1. <<p, q>> \in {m \in traversal[g] : {m[1], m[2]} \in Close}
      BY <2>2, <2>8
    <3>2. <<x, y>> \in {<<Entry(g, n[1]), Entry(g, n[2])>> : n \in {m \in traversal[g] : {m[1], m[2]} \in Close}}
      <4>1. <<p, q>>[1] = p /\ <<p, q>>[2] = q
        OBVIOUS
      <4>2. QED
        BY <3>1, <4>1
    <3>3. <<x, y>> \in Intra(g, traversal[g])
      BY <2>6, <3>2 DEF Intra
    <3>4. QED
      BY <2>7, <3>3 DEF Pairs
  <2>9. CASE <<q, p>> \in traversal[g]
    <3>1. <<q, p>> \in {m \in traversal[g] : {m[1], m[2]} \in Close}
      BY <2>2, <2>9
    <3>2. <<y, x>> \in {<<Entry(g, n[1]), Entry(g, n[2])>> : n \in {m \in traversal[g] : {m[1], m[2]} \in Close}}
      <4>1. <<q, p>>[1] = q /\ <<q, p>>[2] = p
        OBVIOUS
      <4>2. QED
        BY <3>1, <4>1
    <3>3. <<y, x>> \in Intra(g, traversal[g])
      BY <2>6, <3>2 DEF Intra
    <3>4. Shows(<<y, x>>, w)
      BY <2>7, EdgeSymmetric
    <3>5. QED
      BY <3>3, <3>4 DEF Pairs
  <2>10. QED
    BY <2>3, <2>8, <2>9
<1>11. QED
  BY <1>9, <1>10 DEF Searched

\* The broadphase covers what is expected.
LEMMA PairsCover ==
  ASSUME config \in Configs, Disjoint, NEW traversal, Traverse(traversal)
  PROVE  Covered(Pairs(traversal)) /\ IsFiniteSet(Pairs(traversal))
<1>1. \A e \in Pairs(traversal) : e \in Edges /\ Sound(e)
  BY PairsSound DEF Disjoint
<1>2. ASSUME NEW w \in Expected PROVE \E e \in Pairs(traversal) : Shows(e, w)
  <2>1. w = <<w[1], w[2]>> /\ Compared(w[1][1], w[2][1])
    BY DEF Expected, Meet
  <2>2. PICK gh \in Searched : (w[1][1] \in graph[gh[1]] /\ w[2][1] \in graph[gh[2]])
                                \/ (w[2][1] \in graph[gh[1]] /\ w[1][1] \in graph[gh[2]])
    BY <2>1, ComparedSearched DEF Disjoint
  <2>3. CASE w[1][1] \in graph[gh[1]] /\ w[2][1] \in graph[gh[2]]
    BY <2>3, PairsShow
  <2>4. CASE w[2][1] \in graph[gh[1]] /\ w[1][1] \in graph[gh[2]]
    <3> DEFINE v == <<w[2], w[1]>>
    <3>1. v \in Expected /\ KeysOf(v) = KeysOf(w) /\ v[1] = w[2] /\ v[2] = w[1]
      BY MeetSymmetric
    <3> HIDE DEF v
    <3>2. PICK e \in Pairs(traversal) : Shows(e, v)
      BY <2>4, <3>1, PairsShow
    <3>3. QED
      BY <3>1, <3>2 DEF Shows
  <2>5. QED
    BY <2>2, <2>3, <2>4
<1>3. IsFiniteSet(Edges)
  <2>1. IsFiniteSet(Graphs)
    <3>1. IsFiniteSet({"A"})
      BY FS_Singleton
    <3>2. IsFiniteSet({"A"} \cup {"B"})
      BY <3>1, FS_AddElement
    <3>3. IsFiniteSet({"A"} \cup {"B"} \cup {"C"})
      BY <3>2, FS_AddElement
    <3>4. Graphs = {"A"} \cup {"B"} \cup {"C"}
      BY DEF Graphs
    <3>5. QED
      BY <3>3, <3>4
  <2>2. IsFiniteSet(Meshes \cup Objects)
    BY ClashAssumption, FS_Union
  <2>3. IsFiniteSet(Entries)
    BY <2>1, <2>2, FS_Product DEF Entries
  <2>4. QED
    BY <2>3, FS_Product DEF Edges
<1>4. IsFiniteSet(Pairs(traversal))
  BY <1>1, <1>3, FS_Subset
<1>5. QED
  BY <1>1, <1>2, <1>4 DEF Covered

-----------------------------------------------------------------------------
(* The order of the tests. *)

\* An order of a finite set has each of its elements.
LEMMA OrderOfSet ==
  ASSUME NEW S, IsFiniteSet(S), NEW key, NEW s \in SortedBy(S, key)
  PROVE  s \in Seq(S) /\ Range(s) = S
<1>1. Cardinality(S) \in Nat
  BY FS_CardinalityType
<1> DEFINE D == 1..Cardinality(S)
<1>2. s \in [D -> S] /\ \A i, j \in D : i # j => s[i] # s[j]
  BY DEF SortedBy, SetToSeqs
<1>3. s \in Injection(D, S)
  BY <1>2 DEF Injection, IsInjective
<1>4. Cardinality(D) = Cardinality(S)
  BY <1>1, FS_Interval
<1>5. s \in Surjection(D, S)
  BY <1>3, <1>4, FS_Injection
<1>6. Range(s) = S
  BY <1>2, <1>5 DEF Surjection, Range
<1>7. s \in Seq(S)
  BY <1>1, <1>2
<1>8. QED
  BY <1>6, <1>7

\* What is appended to a sequence is added to its elements.
LEMMA RangeOfConcat ==
  ASSUME NEW S, NEW s \in Seq(S), NEW r \in Seq(S)
  PROVE  Range(s \o r) = Range(s) \cup Range(r)
<1>1. /\ s \o r \in Seq(S) /\ Len(s \o r) = Len(s) + Len(r)
      /\ \A i \in 1..(Len(s) + Len(r)) : (s \o r)[i] = IF i <= Len(s) THEN s[i] ELSE r[i - Len(s)]
  BY ConcatProperties
<1>2. DOMAIN s = 1..Len(s) /\ DOMAIN r = 1..Len(r) /\ DOMAIN (s \o r) = 1..(Len(s) + Len(r))
      /\ Len(s) \in Nat /\ Len(r) \in Nat
  BY <1>1, LenProperties
<1>3. ASSUME NEW i \in DOMAIN (s \o r) PROVE (s \o r)[i] \in Range(s) \cup Range(r)
  BY <1>1, <1>2 DEF Range
<1>4. ASSUME NEW i \in DOMAIN s PROVE s[i] \in Range(s \o r)
  <2>1. i \in DOMAIN (s \o r) /\ (s \o r)[i] = s[i]
    BY <1>1, <1>2
  <2>2. QED
    BY <2>1 DEF Range
<1>5. ASSUME NEW i \in DOMAIN r PROVE r[i] \in Range(s \o r)
  <2>1. i + Len(s) \in DOMAIN (s \o r) /\ (s \o r)[i + Len(s)] = r[i]
    BY <1>1, <1>2
  <2>2. QED
    BY <2>1 DEF Range
<1>6. Range(s \o r) \subseteq Range(s) \cup Range(r)
  BY <1>3 DEF Range
<1>7. QED
  BY <1>4, <1>5, <1>6 DEF Range

\* A sequence is its head and its tail.
LEMMA RangeOfTail ==
  ASSUME NEW S, NEW s \in Seq(S), s # <<>>
  PROVE  Head(s) \in S /\ Tail(s) \in Seq(S) /\ Range(s) = {Head(s)} \cup Range(Tail(s))
<1>1. /\ Head(s) \in S /\ Tail(s) \in Seq(S) /\ Len(Tail(s)) = Len(s) - 1
      /\ \A i \in 1..Len(Tail(s)) : Tail(s)[i] = s[i + 1]
  BY HeadTailProperties
<1>2. DOMAIN s = 1..Len(s) /\ DOMAIN Tail(s) = 1..Len(Tail(s)) /\ Len(s) \in Nat \ {0} /\ Head(s) = s[1]
  BY <1>1, LenProperties, EmptySeq
<1>3. ASSUME NEW i \in DOMAIN s PROVE s[i] \in {Head(s)} \cup Range(Tail(s))
  <2>1. CASE i = 1
    BY <1>2, <2>1
  <2>2. CASE i # 1
    <3>1. i - 1 \in DOMAIN Tail(s) /\ Tail(s)[i - 1] = s[i]
      BY <1>1, <1>2, <2>2
    <3>2. QED
      BY <3>1 DEF Range
  <2>3. QED
    BY <2>1, <2>2
<1>4. ASSUME NEW i \in DOMAIN Tail(s) PROVE Tail(s)[i] \in Range(s)
  <2>1. i + 1 \in DOMAIN s /\ Tail(s)[i] = s[i + 1]
    BY <1>1, <1>2
  <2>2. QED
    BY <2>1 DEF Range
<1>5. Head(s) \in Range(s)
  BY <1>2 DEF Range
<1>6. QED
  BY <1>1, <1>3, <1>4, <1>5 DEF Range

\* The parcels of the threads are all of the results.
LEMMA ParcelOfEach ==
  ASSUME config.numThreads \in Nat \ {0}, NEW S, results \in Seq(S)
  PROVE  /\ \A t \in Threads : Parcel(t) \in Seq(S) /\ Range(Parcel(t)) \subseteq Range(results)
         /\ \A i \in DOMAIN results : \E t \in Threads : results[i] \in Range(Parcel(t))
<1> DEFINE n == config.numThreads
           L == Len(results)
           size == (L + n - 1) \div n
           first(t) == (t - 1) * size + 1
           last(t) == IF t * size < L THEN t * size ELSE L
<1>1. n \in Nat \ {0} /\ L \in Nat /\ DOMAIN results = 1..L /\ Threads = 1..n
  BY LenProperties DEF Threads
<1>2. \A t : Parcel(t) = SubSeq(results, first(t), last(t))
  BY DEF Parcel
<1> HIDE DEF n, L
<1>3. size \in Nat /\ n * size >= L
  BY <1>1
<1> HIDE DEF size
<1>4. ASSUME NEW t \in Threads
      PROVE  first(t) \in Nat /\ first(t) >= 1 /\ last(t) \in Nat /\ last(t) <= L
  BY <1>1, <1>3
<1> HIDE DEF first, last
<1>5. ASSUME NEW t \in Threads
      PROVE  /\ Parcel(t) \in Seq(S)
             /\ Len(Parcel(t)) = IF first(t) <= last(t) THEN last(t) - first(t) + 1 ELSE 0
             /\ \A k \in 1..(last(t) - first(t) + 1) : Parcel(t)[k] = results[first(t) + k - 1]
  <2>1. \A i \in first(t)..last(t) : results[i] \in S
    BY <1>1, <1>4, ElementOfSeq DEF L
  <2>2. first(t) \in Int /\ last(t) \in Int
    BY <1>4
  <2>3. /\ SubSeq(results, first(t), last(t)) \in Seq(S)
        /\ Len(SubSeq(results, first(t), last(t))) = IF first(t) <= last(t) THEN last(t) - first(t) + 1 ELSE 0
        /\ \A k \in 1..(last(t) - first(t) + 1) :
             SubSeq(results, first(t), last(t))[k] = results[first(t) + k - 1]
    BY <2>1, <2>2, SubSeqProperties
  <2>4. QED
    BY <1>2, <2>3
<1>6. ASSUME NEW t \in Threads PROVE Parcel(t) \in Seq(S) /\ Range(Parcel(t)) \subseteq Range(results)
  <2>1. DOMAIN Parcel(t) = 1..Len(Parcel(t))
    BY <1>5, LenProperties
  <2>2. ASSUME NEW k \in DOMAIN Parcel(t) PROVE Parcel(t)[k] \in Range(results)
    <3>1. k \in 1..(last(t) - first(t) + 1)
      BY <1>4, <1>5, <2>1
    <3>2. Parcel(t)[k] = results[first(t) + k - 1]
      BY <1>5, <3>1
    <3>3. first(t) + k - 1 \in DOMAIN results
      BY SMTT(30), <1>1, <1>4, <3>1
    <3>4. QED
      BY <3>2, <3>3 DEF Range
  <2>3. QED
    BY <1>5, <2>2 DEF Range
<1>7. ASSUME NEW i \in DOMAIN results PROVE \E t \in Threads : results[i] \in Range(Parcel(t))
  <2>1. size \in Nat \ {0} /\ i \in Nat \ {0} /\ i <= L
    BY <1>1, <1>3
  <2> DEFINE q == (i - 1) \div size
  <2>2. q \in Nat /\ q * size <= i - 1 /\ i - 1 < (q + 1) * size
    BY SMTT(30), <2>1
  <2> HIDE DEF q
  <2>3. q < n
    <3>1. q * size < n * size
      BY <1>1, <1>3, <2>1, <2>2
    <3>2. QED
      BY <1>1, <2>1, <2>2, <3>1
  <2>4. q + 1 \in Threads
    BY <1>1, <2>2, <2>3
  <2>5. first(q + 1) <= i /\ i <= last(q + 1)
    BY <1>1, <2>1, <2>2 DEF first, last
  <2> DEFINE k == i - first(q + 1) + 1
  <2>6. /\ k \in 1..Len(Parcel(q + 1)) /\ k \in 1..(last(q + 1) - first(q + 1) + 1)
        /\ first(q + 1) + k - 1 = i
    BY <1>4, <1>5, <2>1, <2>4, <2>5
  <2>7. Parcel(q + 1)[k] = results[i] /\ DOMAIN Parcel(q + 1) = 1..Len(Parcel(q + 1))
    BY <1>5, <2>4, <2>6, LenProperties
  <2>8. results[i] \in Range(Parcel(q + 1))
    BY <2>6, <2>7 DEF Range
  <2>9. QED
    BY <2>4, <2>8
<1>8. QED
  BY <1>6, <1>7

-----------------------------------------------------------------------------
(* The stages of the pipeline. *)

\* What a test shows does not change when the sets and the graphs do not.
LEMMA SameMeaning ==
  ASSUME UNCHANGED <<config, graph>>
  PROVE  /\ Expected' = Expected /\ QueueIds' = QueueIds /\ Threads' = Threads
         /\ \A e, w : (Sound(e)' <=> Sound(e)) /\ (Shows(e, w)' <=> Shows(e, w))
         /\ \A w : KeysOf(w)' = KeysOf(w)
         /\ \A k : Due(k)' <=> Due(k)
         /\ \A x, y : EntryLeads(x, y)' <=> EntryLeads(x, y)
<1>1. Hard' = Hard /\ Threads' = Threads /\ QueueIds' = QueueIds
  BY DEF Hard, Threads, QueueIds
<1>2. \A o1, o2 : Compared(o1, o2)' <=> Compared(o1, o2)
  BY DEF Compared
<1>3. \A i, j : (Meet(i, j)' <=> Meet(i, j)) /\ (Leads(i, j)' <=> Leads(i, j))
  BY <1>1, <1>2 DEF Meet, Leads
<1>4. Expected' = Expected
  BY <1>3 DEF Expected
<1>5. \A w : KeysOf(w)' = KeysOf(w)
  BY <1>3 DEF KeysOf
<1>6. \A k : Due(k)' <=> Due(k)
  BY <1>3, <1>4 DEF Due
<1>7. \A e : IdOf(e)' = IdOf(e) /\ MeshesOfEntry(e)' = MeshesOfEntry(e)
  BY <1>1 DEF IdOf, MeshesOfEntry, ObjectOf
<1>8. \A x, y : EntryLeads(x, y)' <=> EntryLeads(x, y)
  BY <1>1 DEF EntryLeads
<1>9. \A e : (Touching(e)' <=> Touching(e)) /\ KeysOfEdge(e)' = KeysOfEdge(e)
  BY <1>7, <1>8 DEF Touching, KeysOfEdge
<1>10. QED
  BY <1>1, <1>4, <1>5, <1>6, <1>8, <1>9 DEF Sound, Shows

\* Work that is replaced by work, or by the clash it shows, covers as much.
LEMMA StillCovered ==
  ASSUME UNCHANGED <<config, graph>>, clashes \subseteq clashes', NEW V, NEW W, Covered(V),
         \A e \in W : e \in V \/ (e \in Edges /\ Sound(e)),
         \A x : \A e \in V : Shows(e, x) => Found(x)' \/ \E d \in W : Shows(d, x)
  PROVE  /\ \A e \in W : e \in Edges /\ Sound(e)'
         /\ \A x \in Expected' : Found(x)' \/ \E e \in W : Shows(e, x)'
<1>1. \A e \in W : e \in Edges /\ Sound(e)'
  BY SameMeaning DEF Covered
<1>2. ASSUME NEW x \in Expected PROVE Found(x)' \/ \E e \in W : Shows(e, x)
  <2>1. CASE Found(x)
    BY <2>1, SameMeaning DEF Found
  <2>2. CASE \E e \in V : Shows(e, x)
    BY <2>2
  <2>3. QED
    BY <2>1, <2>2 DEF Covered
<1>3. QED
  BY <1>1, <1>2, SameMeaning

\* The graphs are those of the sets, and go on only if they do not share meshes.
LEMMA PrepareWork ==
  ASSUME WorkInv, Prepare
  PROVE  WorkInv'
<1>1. phase = "sets" /\ graph' = Split /\ UNCHANGED <<config, thread, clashes>>
  BY DEF Prepare
<1>2. config \in Configs /\ clashes = {} /\ errors = {} /\ \A t \in Threads : thread[t] = Idle
  BY <1>1 DEF WorkInv
<1>3. Threads' = Threads /\ Split' = Split
  BY <1>1 DEF Threads, Split
<1>4. CASE phase' = "failed"
  BY <1>1, <1>2, <1>4 DEF WorkInv, Ended
<1>5. CASE phase' = "reported" /\ errors' # {}
  BY <1>1, <1>2, <1>5 DEF WorkInv, Ended
<1>6. CASE phase' = "broadphase" /\ errors' = {} /\ ~\E s \in {graph'[g] : g \in Graphs} : SharesMesh(s)
  <2>1. \A g \in Graphs : ~SharesMesh(graph'[g])
    BY <1>6
  <2>2. QED
    BY <1>1, <1>2, <1>3, <1>6, <2>1 DEF WorkInv, Ended
<1>7. phase' = "failed" \/ (phase' = "reported" /\ errors' # {})
        \/ (phase' = "broadphase" /\ errors' = {} /\ ~\E s \in {graph'[g] : g \in Graphs} : SharesMesh(s))
  BY DEF Prepare, Graphs
<1>8. QED
  BY <1>4, <1>5, <1>6, <1>7

\* The edges of a broadphase are those of some traversals.
LEMMA BroadphasePairs ==
  ASSUME Broadphase
  PROVE  \E traversal : Traverse(traversal) /\ CreateGraph(Pairs(traversal))
<1>1. PICK a \in Traversals("A"), b \in Traversals("B"), c \in Traversals("C") :
        LET traversal == [A |-> a, B |-> b, C |-> c]
        IN CreateGraph(Inter("A", "B") \cup Inter("A", "C") \cup Inter("B", "C")
                       \cup UNION {Intra(g, traversal[g]) : g \in SelfIntersecting})
  BY DEF Broadphase, Find
<1> DEFINE traversal == [A |-> a, B |-> b, C |-> c]
<1>2. Traverse(traversal)
  BY DEF Traverse, Graphs
<1>3. CreateGraph(Pairs(traversal))
  BY <1>1 DEF Pairs
<1>4. QED
  BY <1>2, <1>3

\* The edges of the broadphase are the first work.
LEMMA BroadphaseWork ==
  ASSUME WorkInv, Broadphase
  PROVE  WorkInv'
<1>1. PICK traversal : Traverse(traversal) /\ CreateGraph(Pairs(traversal))
  BY BroadphasePairs
<1>2. /\ phase = "broadphase" /\ phase' = "scheduling"
      /\ UNCHANGED <<config, graph, thread, clashes, errors>>
  BY DEF Broadphase, Find
<1>3. /\ config \in Configs /\ clashes = {} /\ errors = {} /\ \A t \in Threads : thread[t] = Idle
      /\ Disjoint
  BY <1>2 DEF WorkInv, Disjoint
<1>4. Covered(Pairs(traversal)) /\ IsFiniteSet(Pairs(traversal))
  BY <1>1, <1>3, PairsCover
<1> DEFINE P == Pairs(traversal)
           Ends == {e[1] : e \in P} \cup {e[2] : e \in P}
<1>5. PICK key : left' = P /\ results' = <<>> /\ ranked' \in SortedBy(Ends, key)
  BY <1>1 DEF CreateGraph
<1>6. IsFiniteSet(Ends)
  <2>1. IsFiniteSet({e[1] : e \in P})
    <3>1. [e \in P |-> e[1]] \in Surjection(P, {e[1] : e \in P})
      BY DEF Surjection
    <3>2. QED
      BY <1>4, <3>1, FS_Surjection
  <2>2. IsFiniteSet({e[2] : e \in P})
    <3>1. [e \in P |-> e[2]] \in Surjection(P, {e[2] : e \in P})
      BY DEF Surjection
    <3>2. QED
      BY <1>4, <3>1, FS_Surjection
  <2>3. QED
    BY <2>1, <2>2, FS_Union
<1>7. Range(ranked') = Ends
  BY <1>5, <1>6, OrderOfSet
<1>8. \A e \in left' : \E i \in DOMAIN ranked' : ranked'[i] = e[1]
  BY <1>5, <1>7 DEF Range
<1>9. left' \subseteq Edges /\ IsFiniteSet(left')
  BY <1>4, <1>5 DEF Covered
<1>10. results' \in Seq(Edges) /\ left' \cup Range(results') = P
  BY <1>5 DEF Range
<1> HIDE DEF P
<1>11. Covered(left \cup Range(results))'
  <2>1. \A e \in P : e \in P \/ (e \in Edges /\ Sound(e))
    OBVIOUS
  <2>2. /\ \A e \in P : e \in Edges /\ Sound(e)'
        /\ \A x \in Expected' : Found(x)' \/ \E e \in P : Shows(e, x)'
    BY <1>2, <1>4, StillCovered DEF P
  <2>3. QED
    BY <1>10, <2>2 DEF Covered
<1>12. Threads' = Threads
  BY <1>2 DEF Threads
<1>13. QED
  BY <1>2, <1>3, <1>8, <1>9, <1>10, <1>11, <1>12 DEF WorkInv, Ended

\* The scheduler moves edges to the results, in any order.
LEMMA ScheduleKeeps ==
  ASSUME WorkInv, Schedule
  PROVE  /\ left' \subseteq left /\ ranked' = ranked /\ results' \in Seq(Edges)
         /\ left' \cup Range(results') = left \cup Range(results)
<1>0. left \subseteq Edges /\ IsFiniteSet(left) /\ results \in Seq(Edges)
  BY DEF Schedule, WorkInv
<1>1. CASE PushFront
  BY <1>0, <1>1 DEF PushFront
<1>2. CASE Visit
  <2> DEFINE Moved == EdgesOf(Head(next))
  <2>1. PICK key : \E s \in SortedBy(Moved, key) :
                     results' = results \o s /\ left' = left \ Moved /\ ranked' = ranked
    BY <1>2 DEF Visit
  <2>2. PICK s \in SortedBy(Moved, key) :
          results' = results \o s /\ left' = left \ Moved /\ ranked' = ranked
    BY <2>1
  <2>3. Moved \subseteq left
    BY DEF EdgesOf
  <2> HIDE DEF Moved
  <2>4. IsFiniteSet(Moved)
    BY <1>0, <2>3, FS_Subset
  <2>5. s \in Seq(Moved) /\ Range(s) = Moved
    BY <2>4, OrderOfSet
  <2>6. s \in Seq(Edges)
    BY <1>0, <2>3, <2>5, SeqMonotonic
  <2>7. results \o s \in Seq(Edges) /\ Range(results \o s) = Range(results) \cup Moved
    BY <1>0, <2>5, <2>6, ConcatProperties, RangeOfConcat
  <2>8. QED
    BY <2>2, <2>3, <2>7
<1>3. QED
  BY <1>1, <1>2 DEF Schedule

LEMMA ScheduleWork ==
  ASSUME WorkInv, Schedule
  PROVE  WorkInv'
<1>1. phase = "scheduling" /\ UNCHANGED <<phase, config, graph, thread, clashes, errors>>
  BY DEF Schedule, pipelineVars
<1>2. /\ config \in Configs /\ clashes = {} /\ errors = {} /\ (\A t \in Threads : thread[t] = Idle)
      /\ left \subseteq Edges /\ IsFiniteSet(left) /\ results \in Seq(Edges)
      /\ \A e \in left : \E i \in DOMAIN ranked : ranked[i] = e[1]
      /\ Covered(left \cup Range(results))
  BY <1>1 DEF WorkInv
<1>3. /\ left' \subseteq left /\ ranked' = ranked /\ results' \in Seq(Edges)
      /\ left' \cup Range(results') = left \cup Range(results)
  BY ScheduleKeeps
<1>4. Covered(left \cup Range(results))'
  <2> DEFINE W == left \cup Range(results)
  <2>1. /\ \A e \in W : e \in Edges /\ Sound(e)'
        /\ \A x \in Expected' : Found(x)' \/ \E e \in W : Shows(e, x)'
    BY <1>1, <1>2, StillCovered
  <2> HIDE DEF W
  <2>2. (left \cup Range(results))' = W
    BY <1>3 DEF W
  <2>3. QED
    BY <2>1, <2>2 DEF Covered
<1>5. Threads' = Threads
  BY <1>1 DEF Threads
<1>6. IsFiniteSet(left') /\ left' \subseteq Edges
  BY <1>2, <1>3, FS_Subset
<1>7. \A e \in left' : \E i \in DOMAIN ranked' : ranked'[i] = e[1]
  BY <1>2, <1>3
<1>8. QED
  BY <1>1, <1>2, <1>3, <1>4, <1>5, <1>6, <1>7 DEF WorkInv, Ended

\* The queues get all of the results, when no edge is left.
LEMMA DistributeWork ==
  ASSUME WorkInv, Distribute
  PROVE  WorkInv'
<1>1. /\ phase = "scheduling" /\ phase' = "narrow" /\ Scheduled
      /\ queues' = (IF Hard THEN [t \in Threads |-> Parcel(t)] ELSE [t \in {1} |-> results])
      /\ UNCHANGED <<config, graph, thread, clashes, errors>>
  BY DEF Distribute
<1>2. /\ config \in Configs /\ clashes = {} /\ errors = {} /\ (\A t \in Threads : thread[t] = Idle)
      /\ results \in Seq(Edges) /\ Covered(left \cup Range(results))
      /\ \A e \in left : \E i \in DOMAIN ranked : ranked[i] = e[1]
  BY <1>1 DEF WorkInv
<1>3. left = {}
  <2>1. SUFFICES ASSUME NEW e \in left PROVE FALSE
    OBVIOUS
  <2>2. PICK i \in DOMAIN ranked : ranked[i] = e[1]
    BY <1>2
  <2>3. e \in EdgesOf(ranked[i])
    BY <2>2 DEF EdgesOf
  <2>4. QED
    BY <1>1, <2>3 DEF Scheduled, LiveNodes
<1>4. config.numThreads \in Nat \ {0}
  BY <1>2, ClashAssumption
<1>5. QueueIds' = QueueIds /\ Threads' = Threads
  BY <1>1, SameMeaning
<1>6. /\ queues' \in [QueueIds -> Seq(Edges)]
      /\ UNION {Range(queues'[q]) : q \in QueueIds} = Range(results)
  <2>1. CASE Hard
    <3>1. /\ \A t \in Threads : Parcel(t) \in Seq(Edges) /\ Range(Parcel(t)) \subseteq Range(results)
          /\ \A i \in DOMAIN results : \E t \in Threads : results[i] \in Range(Parcel(t))
      BY <1>2, <1>4, ParcelOfEach
    <3>2. QueueIds = Threads /\ queues' = [t \in Threads |-> Parcel(t)]
      BY <1>1, <2>1 DEF QueueIds
    <3>3. queues' \in [QueueIds -> Seq(Edges)]
      BY <3>1, <3>2
    <3>4. UNION {Range(queues'[q]) : q \in QueueIds} \subseteq Range(results)
      BY <3>1, <3>2
    <3>5. ASSUME NEW i \in DOMAIN results PROVE results[i] \in UNION {Range(queues'[q]) : q \in QueueIds}
      BY <3>1, <3>2
    <3>6. Range(results) \subseteq UNION {Range(queues'[q]) : q \in QueueIds}
      BY <3>5 DEF Range
    <3>7. QED
      BY <3>3, <3>4, <3>6
  <2>2. CASE ~Hard
    <3>1. QueueIds = {1} /\ queues' = [t \in {1} |-> results]
      BY <1>1, <2>2 DEF QueueIds
    <3>2. QED
      BY <1>2, <3>1
  <2>3. QED
    BY <2>1, <2>2
<1>7. Taken' = {}
  BY <1>1, <1>2, <1>5 DEF Taken, Busy, Idle
<1>8. Covered(Queued \cup Taken)'
  <2> DEFINE W == left \cup Range(results)
  <2>1. /\ \A e \in W : e \in Edges /\ Sound(e)'
        /\ \A x \in Expected' : Found(x)' \/ \E e \in W : Shows(e, x)'
    BY <1>1, <1>2, StillCovered
  <2> HIDE DEF W
  <2>2. Queued' = UNION {Range(queues'[q]) : q \in QueueIds}
    BY <1>5 DEF Queued
  <2>3. (Queued \cup Taken)' = W
    BY <1>3, <1>6, <1>7, <2>2 DEF W
  <2>4. QED
    BY <2>1, <2>3 DEF Covered
<1>9. \A t \in Threads : thread'[t].pc # "ended"
  BY <1>1, <1>2 DEF Idle
<1>10. \A t \in Threads : InOrder(t)'
  <2>1. \A t \in Threads : thread'[t].pc = "idle"
    BY <1>1, <1>2 DEF Idle
  <2>2. QED
    BY <2>1 DEF InOrder, Compares, Ordering
<1>11. \A c \in clashes' : Due(c)'
  BY <1>1, <1>2
<1>12. QED
  BY <1>1, <1>2, <1>5, <1>6, <1>8, <1>9, <1>10, <1>11 DEF WorkInv, Ended

\* The report is written when the threads have nothing left.
LEMMA ReportWork ==
  ASSUME WorkInv, Report
  PROVE  WorkInv'
<1>1. /\ phase = "narrow" /\ phase' = "reported" /\ (\A t \in Threads : thread[t].pc = "ended")
      /\ UNCHANGED <<config, graph, thread, clashes, errors>>
  BY DEF Report
<1>2. /\ config \in Configs /\ Covered(Queued \cup Taken) /\ errors = {}
      /\ \A t \in Threads : queues[QueueOf(t)] = <<>>
      /\ \A c \in clashes : Due(c)
  BY <1>1 DEF WorkInv
<1>3. Queued = {}
  <2>1. SUFFICES ASSUME NEW q \in QueueIds PROVE Range(queues[q]) = {}
    BY DEF Queued
  <2>2. 1 \in Threads
    BY <1>2, ClashAssumption DEF Threads
  <2>3. \E t \in Threads : q = QueueOf(t)
    BY <2>2 DEF QueueIds, QueueOf
  <2>4. queues[q] = <<>>
    BY <1>2, <2>3
  <2>5. QED
    BY <2>4 DEF Range
<1>4. Taken = {}
  BY <1>1 DEF Taken, Busy
<1>5. \A x \in Expected : Found(x)
  BY <1>2, <1>3, <1>4 DEF Covered
<1>6. Expected' = Expected /\ (\A x : Found(x)' <=> Found(x)) /\ \A c : Due(c)' <=> Due(c)
  BY <1>1, SameMeaning DEF Found
<1>7. QED
  BY <1>1, <1>2, <1>5, <1>6 DEF WorkInv, Ended

\* An exception on a thread ends the process without a report.
LEMMA TerminatedWork ==
  ASSUME WorkInv, phase' = "terminated", UNCHANGED <<config, graph, clashes>>
  PROVE  WorkInv'
<1>1. Expected' = Expected /\ \A c : Due(c)' <=> Due(c)
  BY SameMeaning
<1>2. QED
  BY <1>1 DEF WorkInv, Ended

\* A step of a thread, by what it does to the work.
LEMMA ThreadWork ==
  ASSUME WorkInv, phase = "narrow", UNCHANGED <<config, phase, graph, errors>>,
         clashes \subseteq clashes',
         \A c \in clashes' \ clashes : Due(c),
         queues' \in [QueueIds -> Seq(Edges)],
         \A u \in Threads : thread'[u].pc = "ended" => queues'[QueueOf(u)] = <<>>,
         \A u \in Threads : InOrder(u)',
         NEW W, (Queued \cup Taken)' = W,
         \A e \in W : e \in Queued \cup Taken \/ (e \in Edges /\ Sound(e)),
         \A x : \A e \in Queued \cup Taken : Shows(e, x) => Found(x)' \/ \E d \in W : Shows(d, x)
  PROVE  WorkInv'
<1>1. config \in Configs /\ Covered(Queued \cup Taken) /\ errors = {}
      /\ \A c \in clashes : Due(c)
  BY DEF WorkInv
<1>2. Expected' = Expected /\ QueueIds' = QueueIds /\ Threads' = Threads /\ \A c : Due(c)' <=> Due(c)
  BY SameMeaning
<1>3. \A u : QueueOf(u)' = QueueOf(u)
  BY DEF QueueOf, Hard
<1> DEFINE V == Queued \cup Taken
<1>4. Covered(V)
  BY <1>1
<1>5. /\ \A e \in W : e \in V \/ (e \in Edges /\ Sound(e))
      /\ \A x : \A e \in V : Shows(e, x) => Found(x)' \/ \E d \in W : Shows(d, x)
  OBVIOUS
<1> HIDE DEF V
<1>6. /\ \A e \in W : e \in Edges /\ Sound(e)'
      /\ \A x \in Expected' : Found(x)' \/ \E e \in W : Shows(e, x)'
  BY <1>4, <1>5, StillCovered
<1>7. Covered(Queued \cup Taken)'
  BY <1>6 DEF Covered
<1>8. \A c \in clashes' : Due(c)'
  BY <1>1, <1>2
<1>9. QED
  BY <1>1, <1>2, <1>3, <1>7, <1>8 DEF WorkInv, Ended

\* A thread that moves keeps its test.
LEMMA MoveWork ==
  ASSUME WorkInv, ThreadsInv, NEW t \in Threads, phase = "narrow", Busy(t),
         NEW l \in PCs \ {"idle", "ended"}, Goto(t, l),
         UNCHANGED <<config, phase, graph, queues, clashes, errors>>,
         l \in Compares => thread[t].pc \in Compares
  PROVE  WorkInv'
<1>1. /\ thread' \in [Threads -> ThreadStates]
      /\ thread'[t].pc = l /\ thread'[t].a = thread[t].a /\ thread'[t].b = thread[t].b
      /\ \A u \in Threads \ {t} : thread'[u] = thread[u]
  BY GoesOn DEF ThreadsInv
<1>2. Threads' = Threads /\ QueueIds' = QueueIds
  BY SameMeaning
<1>3. \A u \in Threads :
        (Busy(u)' <=> Busy(u)) /\ thread'[u].a = thread[u].a /\ thread'[u].b = thread[u].b
  BY <1>1 DEF Busy
<1>4. Taken' = Taken
  BY <1>2, <1>3 DEF Taken
<1>5. Queued' = Queued
  BY <1>2 DEF Queued
<1>6. queues' \in [QueueIds -> Seq(Edges)] /\ \A u \in Threads : thread'[u].pc = "ended" => queues'[QueueOf(u)] = <<>>
  BY <1>1 DEF WorkInv
<1> DEFINE W == Queued \cup Taken
<1>7. (Queued \cup Taken)' = W
  BY <1>4, <1>5
<1>8. /\ \A e \in W : e \in Queued \cup Taken
      /\ \A x : \A e \in Queued \cup Taken : Shows(e, x) => \E d \in W : Shows(d, x)
  OBVIOUS
<1> HIDE DEF W
<1>9. \A u \in Threads : InOrder(u)'
  BY <1>1, SameMeaning DEF WorkInv, InOrder
<1>10. QED
  BY <1>6, <1>7, <1>8, <1>9, ThreadWork

\* A thread takes the first test of its queue.
LEMMA TakeWork ==
  ASSUME WorkInv, ThreadsInv, NEW t \in Threads, Take(t)
  PROVE  WorkInv'
<1>0. /\ phase = "narrow" /\ thread[t].pc = "idle" /\ UNCHANGED <<config, phase, graph, clashes, errors>>
      /\ queues \in [QueueIds -> Seq(Edges)] /\ thread \in [Threads -> ThreadStates]
      /\ \A u \in Threads : thread[u].pc = "ended" => queues[QueueOf(u)] = <<>>
      /\ config \in Configs /\ \A u \in Threads : InOrder(u)
  BY DEF WorkInv, ThreadsInv, Take, At
<1>1. 1 \in Threads
  BY <1>0, ClashAssumption DEF Threads
<1> DEFINE q == QueueOf(t)
<1>2. q \in QueueIds /\ Threads' = Threads /\ QueueIds' = QueueIds
  BY <1>0, <1>1, SameMeaning DEF QueueOf, QueueIds
<1>3. CASE queues[q] = <<>>
  <2>1. Goto(t, "ended") /\ UNCHANGED queues
    BY <1>3 DEF Take
  <2>2. /\ thread'[t].pc = "ended" /\ \A u \in Threads \ {t} : thread'[u] = thread[u]
    BY <1>0, <2>1, GoesOn DEF PCs
  <2>3. Taken' = Taken
    <3>1. \A u \in Threads : Busy(u)' <=> Busy(u)
      BY <1>0, <2>2 DEF Busy
    <3>2. \A u \in Threads : Busy(u) => thread'[u] = thread[u]
      BY <1>0, <2>2 DEF Busy
    <3>3. QED
      BY <1>2, <3>1, <3>2 DEF Taken
  <2>4. Queued' = Queued
    BY <1>2, <2>1 DEF Queued
  <2>5. \A u \in Threads : thread'[u].pc = "ended" => queues'[QueueOf(u)] = <<>>
    BY <1>0, <1>3, <2>1, <2>2
  <2> DEFINE X == Queued \cup Taken
  <2>6. (Queued \cup Taken)' = X
    BY <2>3, <2>4
  <2>7. /\ \A e \in X : e \in Queued \cup Taken
        /\ \A x : \A e \in Queued \cup Taken : Shows(e, x) => \E d \in X : Shows(d, x)
    OBVIOUS
  <2> HIDE DEF X
  <2>8. \A u \in Threads : InOrder(u)'
    BY <1>0, <2>2, SameMeaning DEF InOrder, Compares, Ordering
  <2>9. QED
    BY <1>0, <2>1, <2>5, <2>6, <2>7, <2>8, ThreadWork
<1>4. CASE queues[q] # <<>>
  <2> DEFINE h == Head(queues[q])
  <2>1. /\ thread' = [thread EXCEPT ![t] = [pc |-> "check a", a |-> h[1], b |-> h[2]]]
        /\ queues' = [queues EXCEPT ![q] = Tail(@)]
    BY <1>4 DEF Take
  <2>2. queues[q] \in Seq(Edges)
    BY <1>0, <1>2
  <2>3. h \in Edges /\ Tail(queues[q]) \in Seq(Edges) /\ Range(queues[q]) = {h} \cup Range(Tail(queues[q]))
    BY <1>4, <2>2, RangeOfTail
  <2>4. h = <<h[1], h[2]>>
    BY <2>3 DEF Edges
  <2> HIDE DEF h, q
  <2>5. /\ thread'[t].pc = "check a" /\ thread'[t].a = h[1] /\ thread'[t].b = h[2]
        /\ \A u \in Threads \ {t} : thread'[u] = thread[u]
    BY <1>0, <2>1
  <2>6. /\ queues'[q] = Tail(queues[q]) /\ (\A r \in QueueIds \ {q} : queues'[r] = queues[r])
        /\ queues' \in [QueueIds -> Seq(Edges)]
    BY <1>0, <1>2, <2>1, <2>3
  <2>7. Queued = {h} \cup Queued'
    BY <1>2, <2>3, <2>6 DEF Queued
  <2>8. Taken' = {h} \cup Taken
    <3>1. Busy(t)' /\ ~Busy(t) /\ <<thread'[t].a, thread'[t].b>> = h
      BY <1>0, <2>4, <2>5 DEF Busy
    <3>2. \A u \in Threads \ {t} : Busy(u)' <=> Busy(u)
      BY <2>5 DEF Busy
    <3>3. QED
      BY <1>2, <2>5, <3>1, <3>2 DEF Taken
  <2>9. \A u \in Threads : thread'[u].pc = "ended" => queues'[QueueOf(u)] = <<>>
    <3>1. SUFFICES ASSUME NEW u \in Threads, thread'[u].pc = "ended" PROVE queues'[QueueOf(u)] = <<>>
      OBVIOUS
    <3>2. u # t /\ queues[QueueOf(u)] = <<>>
      BY <1>0, <2>5, <3>1
    <3>3. QueueOf(u) # q
      BY <1>4, <3>2 DEF q
    <3>4. QueueOf(u) \in QueueIds
      BY <1>1 DEF QueueOf, QueueIds
    <3>5. QED
      BY <2>6, <3>2, <3>3, <3>4
  <2> DEFINE X == Queued \cup Taken
  <2>10. (Queued \cup Taken)' = X
    BY <2>7, <2>8
  <2>11. /\ \A e \in X : e \in Queued \cup Taken
        /\ \A x : \A e \in Queued \cup Taken : Shows(e, x) => \E d \in X : Shows(d, x)
    OBVIOUS
  <2> HIDE DEF X
  <2>12. \A u \in Threads : InOrder(u)'
    BY <1>0, <2>5, SameMeaning DEF InOrder, Compares, Ordering
  <2>13. QED
    BY <1>0, <2>6, <2>9, <2>10, <2>11, <2>12, ThreadWork
<1>5. QED
  BY <1>3, <1>4

\* Two entries are tested in either order.
LEMMA CompareWork ==
  ASSUME WorkInv, ThreadsInv, NEW t \in Threads, Compare(t)
  PROVE  WorkInv'
<1>0. /\ phase = "narrow" /\ Busy(t) /\ UNCHANGED <<config, graph, queues, errors>>
      /\ queues \in [QueueIds -> Seq(Edges)] /\ thread \in [Threads -> ThreadStates]
      /\ (\A u \in Threads : thread[u].pc = "ended" => queues[QueueOf(u)] = <<>>)
      /\ Covered(Queued \cup Taken) /\ \A u \in Threads : InOrder(u)
  BY DEF WorkInv, ThreadsInv, Compare, At, Busy
<1> DEFINE a == thread[t].a
           b == thread[t].b
           Rest == {<<thread[u].a, thread[u].b>> : u \in {v \in Threads \ {t} : Busy(v)}}
<1>1. <<a, b>> \in Edges /\ Sound(<<a, b>>) /\ Taken = {<<a, b>>} \cup Rest
  <2>1. Taken = {<<a, b>>} \cup Rest
    BY <1>0 DEF Taken
  <2>2. QED
    BY <1>0, <2>1 DEF Covered
<1>2. Threads' = Threads /\ QueueIds' = QueueIds /\ Queued' = Queued
  BY <1>0, SameMeaning DEF Queued
<1> DEFINE Unknown == Deformed(t, a) \/ Deformed(t, b)
           Swapped(x, y) == thread' = [thread EXCEPT ![t] = [pc |-> IF Hard THEN "lock" ELSE "check order", a |-> x, b |-> y]]
<1>a. Unknown => Hard /\ config.numThreads > 1
  BY <1>0, ClashAssumption DEF Deformed, Threads, WorkInv
<1>b. Size[a[2]] \in Nat /\ Size[b[2]] \in Nat
  BY <1>1, ClashAssumption DEF Edges, Entries
<1>c. \/ (Unknown \/ Size[a[2]] > Size[b[2]]) /\ Swapped(b, a)
      \/ (Unknown \/ Size[a[2]] <= Size[b[2]]) /\ Swapped(a, b)
  BY DEF Compare
<1> HIDE DEF a, b, Unknown, Swapped
<1>d. Unknown \/ Size[a[2]] > Size[b[2]] => EntryLeads(b, a)
  BY <1>a, <1>b DEF EntryLeads
<1>e. Unknown \/ Size[a[2]] <= Size[b[2]] => EntryLeads(a, b)
  BY <1>a DEF EntryLeads
<1>3. PICK x, y : ((x = a /\ y = b) \/ (x = b /\ y = a)) /\ EntryLeads(x, y) /\ Swapped(x, y)
  <2>1. CASE EntryLeads(b, a) /\ Swapped(b, a)
    BY <2>1
  <2>2. CASE EntryLeads(a, b) /\ Swapped(a, b)
    BY <2>2
  <2>3. QED
    BY <1>c, <1>d, <1>e, <2>1, <2>2
<1>4. /\ thread'[t].pc \in {"lock", "check order"} /\ thread'[t].a = x /\ thread'[t].b = y
      /\ \A u \in Threads \ {t} : thread'[u] = thread[u]
  BY <1>0, <1>3 DEF Swapped
<1>5. Taken' = {<<x, y>>} \cup Rest
  <2>1. Busy(t)'
    BY <1>4 DEF Busy
  <2>2. \A u \in Threads \ {t} : Busy(u)' <=> Busy(u)
    BY <1>4 DEF Busy
  <2>3. QED
    BY <1>2, <1>4, <2>1, <2>2 DEF Taken
<1> HIDE DEF Rest
<1>6. /\ \A z : Shows(<<a, b>>, z) <=> Shows(<<x, y>>, z)
      /\ <<x, y>> \in Edges /\ Sound(<<x, y>>)
  <2>1. CASE x = a /\ y = b
    BY <1>1, <2>1
  <2>2. CASE x = b /\ y = a
    <3>1. /\ \A z : Shows(<<b, a>>, z) <=> Shows(<<a, b>>, z)
          /\ Sound(<<b, a>>) <=> Sound(<<a, b>>)
      BY EdgeSymmetric
    <3>2. <<b, a>> \in Edges
      BY <1>1 DEF Edges
    <3>3. QED
      BY <1>1, <2>2, <3>1, <3>2
  <2>3. QED
    BY <1>3, <2>1, <2>2
<1> DEFINE W == Queued \cup {<<x, y>>} \cup Rest
<1>7. (Queued \cup Taken)' = W
  BY <1>2, <1>5
<1>8. \A e \in W : e \in Queued \cup Taken \/ (e \in Edges /\ Sound(e))
  BY <1>1, <1>6
<1>9. \A z : \A e \in Queued \cup Taken : Shows(e, z) => \E d \in W : Shows(d, z)
  <2>1. SUFFICES ASSUME NEW z, NEW e \in Queued \cup Taken, Shows(e, z) PROVE \E d \in W : Shows(d, z)
    OBVIOUS
  <2>2. CASE e = <<a, b>>
    BY <1>6, <2>1, <2>2
  <2>3. CASE e # <<a, b>>
    BY <1>1, <2>1, <2>3
  <2>4. QED
    BY <2>2, <2>3
<1> HIDE DEF W
<1>10. \A u \in Threads : thread'[u].pc = "ended" => queues'[QueueOf(u)] = <<>>
  BY <1>0, <1>4
<1>11. UNCHANGED <<config, phase, graph, errors, clashes>> /\ queues' \in [QueueIds -> Seq(Edges)]
  BY <1>0 DEF Compare
<1>12. \A u \in Threads : InOrder(u)'
  BY <1>0, <1>3, <1>4, <1>11, SameMeaning DEF InOrder
<1>13. QED
  BY <1>0, <1>7, <1>8, <1>9, <1>10, <1>11, <1>12, ThreadWork

\* A test adds the clash it shows, and is done.
LEMMA TestWork ==
  ASSUME WorkInv, ThreadsInv, NEW t \in Threads, Test(t)
  PROVE  WorkInv'
<1>0. /\ phase = "narrow" /\ Busy(t) /\ UNCHANGED <<config, graph, queues, errors>>
      /\ queues \in [QueueIds -> Seq(Edges)] /\ thread \in [Threads -> ThreadStates]
      /\ (\A u \in Threads : thread[u].pc = "ended" => queues[QueueOf(u)] = <<>>)
      /\ Covered(Queued \cup Taken) /\ \A u \in Threads : InOrder(u)
  BY DEF WorkInv, ThreadsInv, Test, At, Busy
<1> DEFINE a == thread[t].a
           b == thread[t].b
           Rest == {<<thread[u].a, thread[u].b>> : u \in {v \in Threads \ {t} : Busy(v)}}
<1>1. <<a, b>> \in Edges /\ Sound(<<a, b>>) /\ Taken = {<<a, b>>} \cup Rest
  <2>1. Taken = {<<a, b>>} \cup Rest
    BY <1>0 DEF Taken
  <2>2. QED
    BY <1>0, <2>1 DEF Covered
<1>2. Threads' = Threads /\ QueueIds' = QueueIds /\ Queued' = Queued
  BY <1>0, SameMeaning DEF Queued
<1>a. EntryLeads(a, b)
  BY <1>0 DEF InOrder, Compares, Test, At
<1> HIDE DEF a, b
<1>b. <<IdOf(a), IdOf(b)>> \in KeysOfEdge(<<a, b>>)
  BY <1>a DEF KeysOfEdge
<1>3. CASE phase' = "terminated" /\ UNCHANGED clashes
  BY <1>0, <1>3, TerminatedWork
<1>4. CASE /\ clashes' = IF Touching(<<a, b>>) THEN clashes \cup {<<IdOf(a), IdOf(b)>>} ELSE clashes
           /\ thread' = [thread EXCEPT ![t] = Idle] /\ UNCHANGED phase
  <2>1. thread'[t].pc = "idle" /\ \A u \in Threads \ {t} : thread'[u] = thread[u]
    BY <1>0, <1>4 DEF Idle
  <2>2. Taken' = Rest
    <3>1. ~Busy(t)'
      BY <2>1 DEF Busy
    <3>2. \A u \in Threads \ {t} : Busy(u)' <=> Busy(u)
      BY <2>1 DEF Busy
    <3>3. QED
      BY <1>2, <2>1, <3>1, <3>2 DEF Taken
  <2> HIDE DEF Rest
  <2> DEFINE W == Queued \cup Rest
  <2>3. (Queued \cup Taken)' = W
    BY <1>2, <2>2
  <2>4. \A e \in W : e \in Queued \cup Taken
    BY <1>1
  <2>5. \A z : \A e \in Queued \cup Taken : Shows(e, z) => Found(z)' \/ \E d \in W : Shows(d, z)
    <3>1. SUFFICES ASSUME NEW z, NEW e \in Queued \cup Taken, Shows(e, z) PROVE Found(z)' \/ \E d \in W : Shows(d, z)
      OBVIOUS
    <3>2. CASE e = <<a, b>>
      <4>1. Touching(<<a, b>>) /\ <<IdOf(a), IdOf(b)>> \in KeysOf(z)'
        BY <1>0, <1>b, <3>1, <3>2, SameMeaning DEF Shows
      <4>2. <<IdOf(a), IdOf(b)>> \in clashes'
        BY <1>4, <4>1
      <4>3. QED
        BY <4>1, <4>2 DEF Found
    <3>3. CASE e # <<a, b>>
      BY <1>1, <3>1, <3>3
    <3>4. QED
      BY <3>2, <3>3
  <2> HIDE DEF W
  <2>6. \A c \in clashes' \ clashes : Due(c)
    <3>1. SUFFICES ASSUME NEW c \in clashes' \ clashes PROVE Due(c)
      OBVIOUS
    <3>2. Touching(<<a, b>>) /\ c = <<IdOf(a), IdOf(b)>>
      BY <1>4, <3>1
    <3>3. QED
      BY <1>1, <1>b, <3>1, <3>2 DEF Sound
  <2>7. \A u \in Threads : thread'[u].pc = "ended" => queues'[QueueOf(u)] = <<>>
    BY <1>0, <2>1
  <2>8. clashes \subseteq clashes' /\ queues' \in [QueueIds -> Seq(Edges)]
    BY <1>0, <1>4
  <2>9. \A u \in Threads : InOrder(u)'
    BY <1>0, <2>1, SameMeaning DEF InOrder, Compares, Ordering
  <2>10. QED
    BY <1>0, <1>4, <2>3, <2>4, <2>5, <2>6, <2>7, <2>8, <2>9, ThreadWork
<1>5. QED
  BY <1>3, <1>4 DEF Test, Touching, a, b

\* The other steps of a thread leave the work as it is.
LEMMA StepWork ==
  ASSUME WorkInv, ThreadsInv, NEW t \in Threads, ThreadStep(t)
  PROVE  WorkInv'
<1>1. CASE Take(t)
  BY <1>1, TakeWork
<1>2. CASE Compare(t)
  BY <1>2, CompareWork
<1>3. CASE Test(t)
  BY <1>3, TestWork
<1> DEFINE Moves == PCs \ {"idle", "ended"}
<1>a. Moves = {"compare", "lock", "half locked", "testing"} \cup Loading \cup Ordering
  BY DEF PCs, Loading, Ordering
<1>4. CASE \/ Check(t, thread[t].a, "check a", "load a", "check b")
           \/ Check(t, thread[t].b, "check b", "load b", "compare")
  <2>1. PICK l \in {"load a", "check b", "load b", "compare"} : Goto(t, l)
    BY <1>4 DEF Check
  <2>2. l \in Moves
    BY <1>a DEF Loading
  <2>3. QED
    BY <1>4, <2>1, <2>2, MoveWork DEF Check, At, Busy, Compares, Ordering
<1>5. CASE \/ LockToLoad(t, thread[t].a, "load a", "loading a")
           \/ LockToLoad(t, thread[t].b, "load b", "loading b")
  <2>1. PICK l \in {"loading a", "loading b"} : Goto(t, l)
    BY <1>5 DEF LockToLoad
  <2>2. l \in Moves
    BY <1>a DEF Loading
  <2>3. QED
    BY <1>5, <2>1, <2>2, MoveWork DEF LockToLoad, At, Busy, Compares, Ordering
<1>6. CASE \/ Load(t, thread[t].a, "loading a", "check b")
           \/ Load(t, thread[t].b, "loading b", "compare")
  <2>1. CASE phase' = "terminated"
    BY <1>6, <2>1, TerminatedWork DEF Load
  <2>2. CASE phase' = phase
    <3>1. PICK l \in {"check b", "compare"} : Goto(t, l)
      BY <1>6, <2>2 DEF Load, At
    <3>2. l \in Moves
      BY <1>a DEF Loading
    <3>3. QED
      BY <1>6, <2>2, <3>1, <3>2, MoveWork DEF Load, At, Busy, Compares, Ordering
  <2>3. QED
    BY <1>6, <2>1, <2>2 DEF Load
<1>7. CASE CheckOrder(t) \/ LockToOrder(t) \/ Order(t) \/ LockToTest(t)
  <2>1. PICK l \in {"lock", "order", "ordering", "testing", "half locked"} : Goto(t, l)
    BY <1>7 DEF CheckOrder, LockToOrder, Order, LockToTest
  <2>2. l \in Moves
    BY <1>a DEF Ordering
  <2>3. QED
    BY <1>7, <2>1, <2>2, MoveWork DEF CheckOrder, LockToOrder, Order, LockToTest, At, Busy, Compares, Ordering
<1>8. QED
  BY <1>1, <1>2, <1>3, <1>4, <1>5, <1>6, <1>7 DEF ThreadStep

ClashInv == ThreadsInv /\ WorkInv

LEMMA ClashStart == Init => ClashInv
<1> SUFFICES ASSUME Init PROVE ClashInv
  OBVIOUS
<1> USE DEF Init
<1>1. thread \in [Threads -> ThreadStates]
  BY DEF ThreadStates, Idle, PCs
<1>2. \A t \in Threads : thread[t].pc = "idle"
  BY DEF Idle
<1>3. \A t \in Threads : Progress(t) /\ Exclusive(t) = {} /\ Shared(t) = {}
  BY <1>2 DEF Progress, Ordering, Exclusive, Shared
<1>4. ThreadsInv
  BY <1>1, <1>3 DEF ThreadsInv, LocksApart
<1>5. WorkInv
  BY DEF WorkInv, Ended
<1>6. QED
  BY <1>4, <1>5 DEF ClashInv

\* One step of a clash detection keeps the invariant.
LEMMA ClashStepKeeps ==
  ASSUME ClashInv, [Next]_clashVars
  PROVE  ClashInv'
<1>0. ThreadsInv /\ WorkInv
  BY DEF ClashInv
<1>1. CASE Prepare \/ Broadphase \/ Schedule \/ Distribute \/ Report
  <2>1. ThreadsInv'
    BY <1>0, <1>1, ThreadsStay DEF Prepare, Broadphase, Find, Schedule, pipelineVars, Distribute, Report
  <2>2. WorkInv'
    BY <1>0, <1>1, PrepareWork, BroadphaseWork, ScheduleWork, DistributeWork, ReportWork
  <2>3. QED
    BY <2>1, <2>2 DEF ClashInv
<1>2. ASSUME NEW t \in Threads, ThreadStep(t) PROVE ClashInv'
  <2>1. WorkInv'
    BY <1>0, <1>2, StepWork
  <2>2. ThreadsInv'
    <3>1. QueueTypes /\ 1 \in Threads
      BY <1>0, ClashAssumption DEF WorkInv, QueueTypes, Threads
    <3>2. QED
      BY <1>0, <1>2, <3>1, TakeApart, CheckApart, LoadApart, OrderApart, LockToTestApart, CompareApart,
         TestApart DEF ThreadStep
  <2>3. QED
    BY <2>1, <2>2 DEF ClashInv
<1>3. CASE UNCHANGED clashVars
  <2>1. ThreadsInv'
    BY <1>0, <1>3, ThreadsStay DEF clashVars, pipelineVars
  <2>2. UNCHANGED <<config, phase, graph, queues, thread, clashes, errors, left, ranked, results>>
    BY <1>3 DEF clashVars, pipelineVars, schedulerVars
  <2>3. /\ Expected' = Expected /\ QueueIds' = QueueIds /\ Threads' = Threads /\ Split' = Split
        /\ (\A e, x : (Sound(e)' <=> Sound(e)) /\ (Shows(e, x)' <=> Shows(e, x)))
        /\ (\A w : KeysOf(w)' = KeysOf(w)) /\ (\A k : Due(k)' <=> Due(k))
        /\ \A x, y : EntryLeads(x, y)' <=> EntryLeads(x, y)
    BY <2>2, SameMeaning DEF Split
  <2>4. /\ Queued' = Queued /\ Taken' = Taken /\ (\A u : QueueOf(u)' = QueueOf(u))
        /\ (\A x : Found(x)' <=> Found(x)) /\ \A t : InOrder(t)' <=> InOrder(t)
    BY <2>2, <2>3 DEF Queued, Taken, Busy, Found, QueueOf, Hard, InOrder
  <2>5. /\ Covered(left \cup Range(results))' <=> Covered(left \cup Range(results))
        /\ Covered(Queued \cup Taken)' <=> Covered(Queued \cup Taken)
    BY <2>2, <2>3, <2>4 DEF Covered
  <2>6. WorkInv'
    BY <1>0, <2>2, <2>3, <2>4, <2>5 DEF WorkInv
  <2>7. QED
    BY <2>1, <2>6 DEF ClashInv
<1>4. QED
  BY <1>1, <1>2, <1>3 DEF Next

\* In every state the locks keep the threads apart, and what the configuration asks
\* for is in the clashes or in the work (Pipeline::runPipeline).
THEOREM ClashDetectionHolds == Spec => []ClashInv
<1>1. Init => ClashInv
  BY ClashStart
<1>2. ClashInv /\ [Next]_clashVars => ClashInv'
  BY ClashStepKeeps
<1>3. QED
  BY <1>1, <1>2, PTL DEF Spec

\* Tests find their geometry loaded, and no thread changes what another one uses
\* (Clearance::run and Hard::run, their locks).
THEOREM ThreadsApart == Spec => []TestsUndisturbed
<1>1. ClashInv => TestsUndisturbed
  BY ThreadsUndisturbed DEF ClashInv
<1>2. QED
  BY <1>1, ClashDetectionHolds, PTL

\* A report without errors has exactly the clashes the configuration asks for,
\* however the sets overlap, the tests are ordered and the threads interleave
\* (createDisjointSets, ClashScheduler, Clearance::run and Hard::run).
THEOREM ExactReport == Spec => []ReportIsExact
<1>1. ClashInv => ReportIsExact
  BY CoveredIsExact DEF ClashInv
<1>2. QED
  BY <1>1, ClashDetectionHolds, PTL

-----------------------------------------------------------------------------
(* The locks of Clearance.  Its tests are placed: the entries of each come   *)
(* in the order of the traversals and of the graphs until they are compared, *)
(* then in that of the sizes, and of the places where those are equal.       *)

Places == [Entries -> Nat]
Placed(place, W) == \A e \in W : place[e[1]] < place[e[2]]
Ahead(place, x, y) == Size[x[2]] < Size[y[2]] \/ (Size[x[2]] = Size[y[2]] /\ place[x] < place[y])

InPlace(place, t) ==
  /\ Busy(t) /\ thread[t].pc \notin Compares => place[thread[t].a] < place[thread[t].b]
  /\ thread[t].pc \in Compares => Ahead(place, thread[t].a, thread[t].b)

AllPlaced(place) == Placed(place, Queued) /\ \A t \in Threads : InPlace(place, t)

PlacesInv ==
  ~Hard =>
    /\ phase = "scheduling" => \E place \in Places : Placed(place, left \cup Range(results))
    /\ phase = "narrow" => \E place \in Places : AllPlaced(place)

\* The pairs of a broadphase are placed.
LEMMA TraversalPlaced ==
  ASSUME config \in Configs, graph = Split, NEW g \in Graphs, NEW traversal \in Traversals(g)
  PROVE  \E f \in [MeshesIn(graph[g]) -> 1..Cardinality(Meshes)] : \A n \in traversal : f[n[1]] < f[n[2]]
<1> DEFINE M == MeshesIn(graph[g])
<1>1. PICK f \in Injection(M, 1..Cardinality(M)) :
        traversal = {n \in M \X M : f[n[1]] < f[n[2]]}
  BY DEF Traversals
<1>2. /\ Cardinality(M) \in Nat /\ Cardinality(M) <= Cardinality(Meshes) /\ Cardinality(Meshes) \in Nat
      /\ f \in [M -> 1..Cardinality(M)]
  BY PlacesOfMeshes
<1> HIDE DEF M
<1>3. f \in [M -> 1..Cardinality(Meshes)]
  BY <1>2
<1>4. QED
  BY <1>1, <1>3 DEF M

LEMMA PairsPlaced ==
  ASSUME config \in Configs, graph = Split, ~Hard, NEW traversal, Traverse(traversal)
  PROVE  \E place \in Places : Placed(place, Pairs(traversal))
<1> DEFINE N == Cardinality(Meshes)
           Fits(g, f) == f \in [MeshesIn(graph[g]) -> 1..N] /\ \A n \in traversal[g] : f[n[1]] < f[n[2]]
           F(g) == CHOOSE f : Fits(g, f)
           base(g) == IF g = "A" THEN 0 ELSE IF g = "B" THEN N ELSE N + N
           at(e) == base(e[1]) + (IF e[2] \in MeshesIn(graph[e[1]]) THEN F(e[1])[e[2]] ELSE 0)
           place == [e \in Entries |-> at(e)]
<1>1. N \in Nat
  BY ClashAssumption, FS_CardinalityType
<1>2. ASSUME NEW g \in Graphs PROVE Fits(g, F(g))
  <2>1. \E f : Fits(g, f)
    BY TraversalPlaced DEF Traverse
  <2>2. QED
    BY <2>1
<1> HIDE DEF N, F
<1>3. ASSUME NEW g \in Graphs, NEW m \in MeshesIn(graph[g])
      PROVE  /\ <<g, m>> \in Entries /\ Entry(g, m) = <<g, m>>
             /\ F(g)[m] \in 1..N /\ place[<<g, m>>] = base(g) + F(g)[m]
  <2>1. Entry(g, m) = <<g, m>> /\ <<g, m>> \in Entries
    BY EntryOfMesh DEF Entry
  <2>2. F(g)[m] \in 1..N
    BY <1>2
  <2>3. <<g, m>>[1] = g /\ <<g, m>>[2] = m
    OBVIOUS
  <2>4. QED
    BY <2>1, <2>2, <2>3
<1>4. place \in Places
  <2>1. ASSUME NEW e \in Entries PROVE at(e) \in Nat
    <3>1. e[1] \in Graphs /\ base(e[1]) \in Nat
      BY <1>1 DEF Entries, Graphs
    <3>2. e[2] \in MeshesIn(graph[e[1]]) => F(e[1])[e[2]] \in 1..N
      BY <1>2, <3>1
    <3> HIDE DEF base
    <3>3. QED
      BY <1>1, <3>1, <3>2
  <2> HIDE DEF at
  <2>2. QED
    BY <2>1 DEF Places
<1> HIDE DEF place
<1>5. ASSUME NEW g \in Graphs, NEW h \in Graphs, NEW p \in MeshesIn(graph[g]), NEW q \in MeshesIn(graph[h]),
             g # h /\ <<g, h>> \in {<<"A", "B">>, <<"A", "C">>, <<"B", "C">>}
      PROVE  place[<<g, p>>] < place[<<h, q>>]
  <2>a. F(g)[p] \in 1..N /\ F(h)[q] \in 1..N
    BY <1>3
  <2>1. base(g) + N <= base(h) /\ base(g) \in Nat /\ base(h) \in Nat
    <3>1. (g = "A" /\ h = "B") \/ (g = "A" /\ h = "C") \/ (g = "B" /\ h = "C")
      BY <1>5
    <3>2. CASE g = "A" /\ h = "B"
      BY <1>1, <3>2
    <3>3. CASE g = "A" /\ h = "C"
      BY <1>1, <3>3
    <3>4. CASE g = "B" /\ h = "C"
      BY <1>1, <3>4
    <3>5. QED
      BY <3>1, <3>2, <3>3, <3>4
  <2>2. place[<<g, p>>] = base(g) + F(g)[p] /\ place[<<h, q>>] = base(h) + F(h)[q]
    BY <1>3
  <2> HIDE DEF base
  <2>3. QED
    BY <1>1, <2>a, <2>1, <2>2
<1>6. ASSUME NEW gh \in {<<"A", "B">>, <<"A", "C">>, <<"B", "C">>}, NEW e \in Inter(gh[1], gh[2])
      PROVE  place[e[1]] < place[e[2]]
  <2>1. PICK p \in MeshesIn(graph[gh[1]]), q \in MeshesIn(graph[gh[2]]) : e = <<Entry(gh[1], p), Entry(gh[2], q)>>
    BY DEF Inter
  <2>2. gh[1] \in Graphs /\ gh[2] \in Graphs /\ gh[1] # gh[2] /\ gh = <<gh[1], gh[2]>>
    BY DEF Graphs
  <2>3. e[1] = <<gh[1], p>> /\ e[2] = <<gh[2], q>>
    BY <1>3, <2>1, <2>2
  <2>4. QED
    BY <1>5, <2>2, <2>3
<1>7. ASSUME NEW g \in SelfIntersecting, NEW e \in Intra(g, traversal[g])
      PROVE  place[e[1]] < place[e[2]]
  <2>1. g \in Graphs
    BY DEF SelfIntersecting, Graphs
  <2>2. PICK n \in traversal[g] : e = <<Entry(g, n[1]), Entry(g, n[2])>>
    BY DEF Intra
  <2>3. n[1] \in MeshesIn(graph[g]) /\ n[2] \in MeshesIn(graph[g])
    BY <2>1, Oriented DEF Traverse
  <2>4. F(g)[n[1]] < F(g)[n[2]]
    BY <1>2, <2>1
  <2>5. /\ e[1] = <<g, n[1]>> /\ place[e[1]] = base(g) + F(g)[n[1]] /\ F(g)[n[1]] \in 1..N
        /\ e[2] = <<g, n[2]>> /\ place[e[2]] = base(g) + F(g)[n[2]] /\ F(g)[n[2]] \in 1..N
    BY <1>3, <2>1, <2>2, <2>3
  <2>6. base(g) \in Nat
    BY <1>1
  <2> HIDE DEF base
  <2>7. QED
    BY <2>4, <2>5, <2>6
<1>8. \A e \in Pairs(traversal) : place[e[1]] < place[e[2]]
  <2>1. SUFFICES ASSUME NEW e \in Pairs(traversal) PROVE place[e[1]] < place[e[2]]
    OBVIOUS
  <2>2. \/ \E gh \in {<<"A", "B">>, <<"A", "C">>, <<"B", "C">>} : e \in Inter(gh[1], gh[2])
        \/ \E g \in SelfIntersecting : e \in Intra(g, traversal[g])
    BY DEF Pairs
  <2>3. QED
    BY <1>6, <1>7, <2>2
<1>9. QED
  BY <1>4, <1>8 DEF Placed

\* A step of a thread leaves the places as they are.
LEMMA PlacesStep ==
  ASSUME PlacesInv, phase = "narrow", UNCHANGED <<config, phase>>, NEW t \in Threads,
         \A u \in Threads \ {t} : thread'[u] = thread[u],
         ~Hard => Queued' \subseteq Queued,
         ~Hard => \A place \in Places : AllPlaced(place) => InPlace(place, t)'
  PROVE  PlacesInv'
<1>1. Hard' = Hard /\ Threads' = Threads
  BY DEF Hard, Threads
<1>2. ASSUME ~Hard PROVE \E place \in Places : AllPlaced(place)'
  <2>1. PICK place \in Places : AllPlaced(place)
    BY <1>2 DEF PlacesInv
  <2>2. \A u \in Threads \ {t} : InPlace(place, u)'
    BY <2>1 DEF AllPlaced, InPlace, Busy, Ahead
  <2>3. InPlace(place, t)'
    BY <1>2, <2>1
  <2>4. Placed(place, Queued)'
    BY <1>2, <2>1 DEF AllPlaced, Placed
  <2>5. QED
    BY <1>1, <2>2, <2>3, <2>4 DEF AllPlaced
<1>3. QED
  BY <1>1, <1>2 DEF PlacesInv

\* A thread that moves keeps its entries in their order.
LEMMA MovePlaces ==
  ASSUME ClashInv, PlacesInv, NEW t \in Threads, phase = "narrow", Busy(t),
         NEW l \in PCs \ {"idle", "ended"}, Goto(t, l), UNCHANGED <<config, phase, graph, queues>>,
         l \in Compares <=> thread[t].pc \in Compares
  PROVE  PlacesInv'
<1>1. /\ thread'[t].pc = l /\ thread'[t].a = thread[t].a /\ thread'[t].b = thread[t].b
      /\ \A u \in Threads \ {t} : thread'[u] = thread[u]
  BY GoesOn DEF ThreadsInv, ClashInv
<1>2. Queued' = Queued
  BY SameMeaning DEF Queued
<1>3. \A place \in Places : AllPlaced(place) => InPlace(place, t)'
  BY <1>1 DEF AllPlaced, InPlace, Ahead, Busy
<1>4. QED
  BY <1>1, <1>2, <1>3, PlacesStep

LEMMA TakePlaces ==
  ASSUME ClashInv, PlacesInv, NEW t \in Threads, Take(t)
  PROVE  PlacesInv'
<1>0. /\ phase = "narrow" /\ UNCHANGED <<config, phase, graph>> /\ thread \in [Threads -> ThreadStates]
      /\ queues \in [QueueIds -> Seq(Edges)] /\ config \in Configs
  BY DEF Take, At, ClashInv, ThreadsInv, WorkInv
<1> DEFINE q == QueueOf(t)
<1>1. q \in QueueIds /\ QueueIds' = QueueIds
  <2>1. 1 \in Threads
    BY <1>0, ClashAssumption DEF Threads
  <2>2. QED
    BY <1>0, <2>1, SameMeaning DEF QueueOf, QueueIds
<1>2. CASE queues[q] = <<>>
  <2>1. Goto(t, "ended") /\ UNCHANGED queues
    BY <1>2 DEF Take
  <2>2. thread'[t].pc = "ended" /\ \A u \in Threads \ {t} : thread'[u] = thread[u]
    BY <1>0, <2>1, GoesOn DEF PCs
  <2>3. Queued' = Queued
    BY <1>1, <2>1 DEF Queued
  <2>4. \A place \in Places : InPlace(place, t)'
    BY <2>2 DEF InPlace, Busy, Compares, Ordering
  <2>5. QED
    BY <1>0, <2>2, <2>3, <2>4, PlacesStep
<1>3. CASE queues[q] # <<>>
  <2> DEFINE h == Head(queues[q])
  <2>1. /\ thread' = [thread EXCEPT ![t] = [pc |-> "check a", a |-> h[1], b |-> h[2]]]
        /\ queues' = [queues EXCEPT ![q] = Tail(@)]
    BY <1>3 DEF Take
  <2>2. queues[q] \in Seq(Edges)
    BY <1>0, <1>1
  <2>3. Range(queues[q]) = {h} \cup Range(Tail(queues[q]))
    BY <1>3, <2>2, RangeOfTail
  <2> HIDE DEF h, q
  <2>4. /\ thread'[t].pc = "check a" /\ thread'[t].a = h[1] /\ thread'[t].b = h[2]
        /\ \A u \in Threads \ {t} : thread'[u] = thread[u]
    BY <1>0, <2>1
  <2>5. queues'[q] = Tail(queues[q]) /\ \A r \in QueueIds \ {q} : queues'[r] = queues[r]
    BY <1>0, <1>1, <2>1
  <2>6. h \in Queued /\ Queued' \subseteq Queued
    BY <1>1, <2>3, <2>5 DEF Queued
  <2>7. \A place \in Places : AllPlaced(place) => InPlace(place, t)'
    BY <2>4, <2>6 DEF AllPlaced, Placed, InPlace, Busy, Compares, Ordering
  <2>8. QED
    BY <1>0, <2>4, <2>6, <2>7, PlacesStep
<1>4. QED
  BY <1>2, <1>3

LEMMA ComparePlaces ==
  ASSUME ClashInv, PlacesInv, NEW t \in Threads, Compare(t)
  PROVE  PlacesInv'
<1>0. /\ phase = "narrow" /\ Busy(t) /\ thread[t].pc \notin Compares
      /\ UNCHANGED <<config, phase, graph, queues>> /\ thread \in [Threads -> ThreadStates]
      /\ Covered(Queued \cup Taken)
  BY DEF ClashInv, WorkInv, ThreadsInv, Compare, At, Busy, Compares, Ordering
<1> DEFINE a == thread[t].a
           b == thread[t].b
           Ready(x, y) == thread' = [thread EXCEPT ![t] = [pc |-> IF Hard THEN "lock" ELSE "check order", a |-> x, b |-> y]]
<1>1. <<a, b>> \in Edges
  BY <1>0 DEF Covered, Taken
<1>2. Size[a[2]] \in Nat /\ Size[b[2]] \in Nat
  BY <1>1, ClashAssumption DEF Edges, Entries
<1>3. PICK x, y : Ready(x, y)
  BY DEF Compare
<1>4. \A u \in Threads \ {t} : thread'[u] = thread[u]
  BY <1>0, <1>3
<1>5. Queued' = Queued
  BY <1>0, SameMeaning DEF Queued
<1>6. ASSUME ~Hard, NEW place \in Places, AllPlaced(place) PROVE InPlace(place, t)'
  <2>1. place[a] < place[b]
    BY <1>0, <1>6 DEF AllPlaced, InPlace
  <2>2. ~Deformed(t, a) /\ ~Deformed(t, b)
    BY <1>6 DEF Deformed
  <2>3. \/ Size[a[2]] > Size[b[2]] /\ Ready(b, a)
        \/ Size[a[2]] <= Size[b[2]] /\ Ready(a, b)
    BY <2>2 DEF Compare
  <2> HIDE DEF a, b
  <2>4. PICK c, d : Ahead(place, c, d) /\ Ready(c, d)
    <3>1. CASE Size[a[2]] > Size[b[2]] /\ Ready(b, a)
      <4>1. Size[b[2]] < Size[a[2]]
        BY <1>2, <3>1
      <4>2. Ahead(place, b, a)
        BY <4>1 DEF Ahead
      <4>3. QED
        BY <3>1, <4>2
    <3>2. CASE Size[a[2]] <= Size[b[2]] /\ Ready(a, b)
      <4>0. Size[a[2]] <= Size[b[2]]
        BY <3>2
      <4>1. Size[a[2]] < Size[b[2]] \/ Size[a[2]] = Size[b[2]]
        BY <1>2, <4>0
      <4>2. Ahead(place, a, b)
        BY <2>1, <4>1 DEF Ahead
      <4>3. QED
        BY <3>2, <4>2
    <3>3. QED
      BY <2>3, <3>1, <3>2
  <2>5. thread'[t].pc = "check order" /\ thread'[t].a = c /\ thread'[t].b = d
    BY <1>0, <1>6, <2>4
  <2>6. QED
    BY <2>4, <2>5 DEF InPlace, Compares, Ordering, Ahead
<1>7. QED
  BY <1>0, <1>4, <1>5, <1>6, PlacesStep

LEMMA TestPlaces ==
  ASSUME ClashInv, PlacesInv, NEW t \in Threads, Test(t)
  PROVE  PlacesInv'
<1>0. phase = "narrow" /\ UNCHANGED <<config, graph, queues>> /\ thread \in [Threads -> ThreadStates]
  BY DEF ClashInv, ThreadsInv, Test, At
<1>1. CASE phase' = "terminated"
  BY <1>0, <1>1 DEF PlacesInv
<1>2. CASE thread' = [thread EXCEPT ![t] = Idle] /\ UNCHANGED phase
  <2>1. thread'[t].pc = "idle" /\ \A u \in Threads \ {t} : thread'[u] = thread[u]
    BY <1>0, <1>2 DEF Idle
  <2>2. Queued' = Queued
    BY <1>0, SameMeaning DEF Queued
  <2>3. \A place \in Places : InPlace(place, t)'
    BY <2>1 DEF InPlace, Busy, Compares, Ordering
  <2>4. QED
    BY <1>0, <1>2, <2>1, <2>2, <2>3, PlacesStep
<1>3. QED
  BY <1>1, <1>2 DEF Test

\* Every step of a thread.
LEMMA ThreadPlaces ==
  ASSUME ClashInv, PlacesInv, NEW t \in Threads, ThreadStep(t)
  PROVE  PlacesInv'
<1> DEFINE Moves == PCs \ {"idle", "ended"}
<1>a. Moves = {"compare", "lock", "half locked", "testing"} \cup Loading \cup Ordering
  BY DEF PCs, Loading, Ordering
<1>1. CASE \/ Check(t, thread[t].a, "check a", "load a", "check b")
           \/ Check(t, thread[t].b, "check b", "load b", "compare")
  <2>1. PICK l \in {"load a", "check b", "load b", "compare"} : Goto(t, l)
    BY <1>1 DEF Check
  <2>2. l \in Moves /\ l \notin Compares
    BY <1>a DEF Loading, Compares, Ordering
  <2>3. QED
    BY <1>1, <2>1, <2>2, MovePlaces DEF Check, At, Busy, Compares, Ordering
<1>2. CASE \/ LockToLoad(t, thread[t].a, "load a", "loading a")
           \/ LockToLoad(t, thread[t].b, "load b", "loading b")
  <2>1. PICK l \in {"loading a", "loading b"} : Goto(t, l)
    BY <1>2 DEF LockToLoad
  <2>2. l \in Moves /\ l \notin Compares
    BY <1>a DEF Loading, Compares, Ordering
  <2>3. QED
    BY <1>2, <2>1, <2>2, MovePlaces DEF LockToLoad, At, Busy, Compares, Ordering
<1>3. CASE \/ Load(t, thread[t].a, "loading a", "check b")
           \/ Load(t, thread[t].b, "loading b", "compare")
  <2>1. CASE phase' = "terminated"
    BY <1>3, <2>1 DEF Load, PlacesInv
  <2>2. CASE phase' = phase
    <3>1. PICK l \in {"check b", "compare"} : Goto(t, l)
      BY <1>3, <2>2 DEF Load, At
    <3>2. l \in Moves /\ l \notin Compares
      BY <1>a DEF Loading, Compares, Ordering
    <3>3. QED
      BY <1>3, <2>2, <3>1, <3>2, MovePlaces DEF Load, At, Busy, Compares, Ordering
  <2>3. QED
    BY <1>3, <2>1, <2>2 DEF Load
<1>4. CASE CheckOrder(t) \/ LockToOrder(t) \/ Order(t) \/ LockToTest(t)
  <2>1. PICK l \in {"lock", "order", "ordering", "testing", "half locked"} : Goto(t, l)
    BY <1>4 DEF CheckOrder, LockToOrder, Order, LockToTest
  <2>2. l \in Moves /\ l \in Compares
    BY <1>a DEF Compares, Ordering
  <2>3. QED
    BY <1>4, <2>1, <2>2, MovePlaces DEF CheckOrder, LockToOrder, Order, LockToTest, At, Busy, Compares, Ordering
<1>5. QED
  BY <1>1, <1>2, <1>3, <1>4, TakePlaces, ComparePlaces, TestPlaces DEF ThreadStep

\* The stages before the threads.
LEMMA BroadphasePlaces ==
  ASSUME ClashInv, Broadphase
  PROVE  PlacesInv'
<1>1. /\ phase = "broadphase" /\ phase' = "scheduling" /\ UNCHANGED config
      /\ config \in Configs /\ graph = Split
  BY DEF Broadphase, Find, ClashInv, WorkInv
<1>2. PICK traversal : Traverse(traversal) /\ CreateGraph(Pairs(traversal))
  BY BroadphasePairs
<1>3. left' = Pairs(traversal) /\ results' = <<>>
  BY <1>2 DEF CreateGraph
<1>4. (left \cup Range(results))' = Pairs(traversal)
  BY <1>3 DEF Range
<1>5. ASSUME ~Hard PROVE \E place \in Places : Placed(place, Pairs(traversal))
  BY <1>1, <1>2, <1>5, PairsPlaced
<1>6. Hard' = Hard
  BY <1>1 DEF Hard
<1>7. QED
  BY <1>1, <1>4, <1>5, <1>6 DEF PlacesInv, Placed

LEMMA StagePlaces ==
  ASSUME ClashInv, PlacesInv, Prepare \/ Schedule \/ Distribute \/ Report
  PROVE  PlacesInv'
<1>0. UNCHANGED config /\ Hard' = Hard
  BY DEF Prepare, Schedule, Distribute, Report, pipelineVars, Hard
<1>1. CASE Prepare
  BY <1>1 DEF Prepare, PlacesInv
<1>2. CASE Schedule
  <2>1. phase = "scheduling" /\ phase' = phase
    BY <1>2 DEF Schedule, pipelineVars
  <2>2. left' \cup Range(results') = left \cup Range(results)
    BY <1>2, ScheduleKeeps DEF ClashInv
  <2>3. QED
    BY <1>0, <2>1, <2>2 DEF PlacesInv, Placed
<1>3. CASE Distribute
  <2>1. phase = "scheduling" /\ phase' = "narrow" /\ UNCHANGED thread /\ Threads' = Threads
    BY <1>0, <1>3 DEF Distribute, Threads
  <2>2. ASSUME ~Hard PROVE Queued' \subseteq left \cup Range(results)
    <3>1. QueueIds' = {1} /\ queues' = [q \in {1} |-> results]
      BY <1>0, <1>3, <2>2 DEF Distribute, QueueIds
    <3>2. QED
      BY <3>1 DEF Queued
  <2>3. \A t \in Threads : thread'[t].pc = "idle"
    BY <2>1 DEF ClashInv, WorkInv, Idle
  <2>4. \A place \in Places, t \in Threads : InPlace(place, t)'
    BY <2>3 DEF InPlace, Busy, Compares, Ordering
  <2>5. ASSUME ~Hard PROVE \E place \in Places : AllPlaced(place)'
    <3>1. PICK place \in Places : Placed(place, left \cup Range(results))
      BY <2>1, <2>5 DEF PlacesInv
    <3>2. Placed(place, Queued')
      BY <2>2, <2>5, <3>1 DEF Placed
    <3>3. QED
      BY <2>1, <2>4, <3>2 DEF AllPlaced, Placed
  <2>6. QED
    BY <1>0, <2>1, <2>5 DEF PlacesInv
<1>4. CASE Report
  BY <1>4 DEF Report, PlacesInv
<1>5. QED
  BY <1>1, <1>2, <1>3, <1>4

THEOREM PlacesHold == Spec => [](ClashInv /\ PlacesInv)
<1>1. Init => PlacesInv
  BY DEF Init, PlacesInv
<1>2. ClashInv /\ PlacesInv /\ [Next]_clashVars => PlacesInv'
  <2> SUFFICES ASSUME ClashInv, PlacesInv, [Next]_clashVars PROVE PlacesInv'
    OBVIOUS
  <2>1. CASE Next
    BY <2>1, BroadphasePlaces, StagePlaces, ThreadPlaces DEF Next
  <2>2. CASE UNCHANGED clashVars
    <3>1. UNCHANGED <<config, graph, phase, queues, thread, left, results>>
      BY <2>2 DEF clashVars, pipelineVars, schedulerVars
    <3>2. Hard' = Hard /\ Threads' = Threads /\ Queued' = Queued
      BY <3>1, SameMeaning DEF Hard, Queued
    <3>3. \A place, t : InPlace(place, t)' <=> InPlace(place, t)
      BY <3>1 DEF InPlace, Busy, Ahead
    <3>4. QED
      BY <3>1, <3>2, <3>3 DEF PlacesInv, Placed, AllPlaced
  <2>3. QED
    BY <2>1, <2>2
<1>3. QED
  BY <1>1, <1>2, ClashDetectionHolds, PTL DEF Spec

\* An entry is not ahead of itself, nor of one that is ahead of one behind it.
LEMMA AheadOrders ==
  ASSUME NEW place \in Places, NEW x \in Entries, NEW y \in Entries, NEW z \in Entries
  PROVE  /\ Ahead(place, x, y) /\ Ahead(place, y, z) => Ahead(place, x, z)
         /\ ~Ahead(place, x, x)
<1>1. /\ Size[x[2]] \in Nat /\ Size[y[2]] \in Nat /\ Size[z[2]] \in Nat
      /\ place[x] \in Nat /\ place[y] \in Nat /\ place[z] \in Nat
  BY ClashAssumption DEF Entries, Places
<1>2. QED
  BY <1>1 DEF Ahead

LEMMA LeastNat ==
  ASSUME NEW T, T \subseteq Nat, T # {}
  PROVE  \E n \in T : \A m \in T : n <= m
<1>1. PICK n \in T : \A m \in T : ~ (<<m, n>> \in OpToRel(<, Nat))
  BY NatLessThanWellFounded, WFMin
<1>2. \A m \in T : ~ (m < n)
  BY <1>1 DEF OpToRel
<1>3. QED
  BY <1>2

\* Of some that each hold an entry and want one that is ahead of it, the furthest
\* ahead wants what none of them holds.
LEMMA OneIsFurthest ==
  ASSUME NEW place \in Places, NEW S, IsFiniteSet(S), S # {}, NEW held, NEW wanted,
         \A t \in S : held[t] \in Entries /\ wanted[t] \in Entries /\ Ahead(place, held[t], wanted[t])
  PROVE  \E t \in S : \A u \in S : wanted[t] # held[u]
<1> DEFINE Beyond(t) == {u \in S : Ahead(place, held[t], held[u])}
           count(t) == Cardinality(Beyond(t))
<1>1. ASSUME NEW t \in S PROVE IsFiniteSet(Beyond(t)) /\ count(t) \in Nat
  BY FS_Subset, FS_CardinalityType
<1>2. PICK t \in S : \A u \in S : count(t) <= count(u)
  <2> DEFINE T == {count(t) : t \in S}
  <2> HIDE DEF count
  <2>1. T \subseteq Nat /\ T # {}
    BY <1>1
  <2>2. \E n \in T : \A m \in T : n <= m
    <3> HIDE DEF T
    <3>1. QED
      BY <2>1, LeastNat
  <2>3. PICK t \in S : \A m \in T : count(t) <= m
    BY <2>2
  <2>4. QED
    BY <2>3
<1>3. ASSUME NEW u \in S, wanted[t] = held[u] PROVE FALSE
  <2>1. u \in Beyond(t)
    BY <1>3
  <2>2. Beyond(u) \subseteq Beyond(t)
    BY <2>1, AheadOrders
  <2>3. u \notin Beyond(u)
    BY AheadOrders
  <2> DEFINE more == Beyond(t)
             fewer == Beyond(u)
  <2>4. IsFiniteSet(more) /\ fewer \in SUBSET more /\ more # fewer
    BY <1>1, <2>1, <2>2, <2>3
  <2>5. Cardinality(fewer) \in Nat /\ Cardinality(more) \in Nat /\ Cardinality(more) <= Cardinality(fewer)
    BY <1>1, <1>2
  <2> HIDE DEF more, fewer
  <2>6. Cardinality(fewer) <= Cardinality(more) /\ Cardinality(fewer) # Cardinality(more)
    BY <2>4, FS_Subset
  <2>7. QED
    BY <2>5, <2>6
<1>4. QED
  BY <1>2, <1>3

LEMMA FiniteThreads == ClashInv => IsFiniteSet(Threads)
<1>1. ASSUME ClashInv PROVE config.numThreads \in Int
  BY <1>1, ClashAssumption DEF ClashInv, WorkInv
<1>2. QED
  BY <1>1, FS_Interval DEF Threads

LEMMA LocksOrdered == ClashInv /\ PlacesInv => LocksInOrder
<1> DEFINE Half == {t \in Threads : At(t, "half locked")}
           held == [t \in Threads |-> thread[t].a]
           wanted == [t \in Threads |-> thread[t].b]
<1>1. SUFFICES ASSUME ClashInv, PlacesInv, Half # {}
               PROVE  \A S \in SUBSET Half : S # {} => \E t \in S : \A u \in S : wanted[t] # held[u]
  BY DEF LocksInOrder
<1>2. ~Hard /\ phase = "narrow"
  BY <1>1 DEF At, ClashInv, ThreadsInv, Progress
<1>3. PICK place \in Places : AllPlaced(place)
  BY <1>1, <1>2 DEF PlacesInv
<1>4. ASSUME NEW t \in Half
      PROVE  held[t] \in Entries /\ wanted[t] \in Entries /\ Ahead(place, held[t], wanted[t])
  <2>1. <<thread[t].a, thread[t].b>> \in Taken /\ t \in Threads
    BY DEF Taken, Busy, At
  <2>2. <<thread[t].a, thread[t].b>> \in Edges
    BY <1>1, <1>2, <2>1 DEF ClashInv, WorkInv, Covered
  <2>3. Ahead(place, thread[t].a, thread[t].b)
    BY <1>3 DEF AllPlaced, InPlace, Compares, At
  <2>4. QED
    BY <2>1, <2>2, <2>3 DEF Edges
<1>5. IsFiniteSet(Half)
  BY <1>1, FiniteThreads, FS_Subset
<1> HIDE DEF Half, held, wanted
<1>6. ASSUME NEW S \in SUBSET Half, S # {}
      PROVE  \E t \in S : \A u \in S : wanted[t] # held[u]
  <2>1. IsFiniteSet(S)
    BY <1>5, FS_Subset
  <2>2. QED
    BY <1>4, <1>6, <2>1, OneIsFurthest
<1>7. QED
  BY <1>6

\* However many threads there are, among those of Clearance that hold the first lock
\* of a test one wants what no other holds (clash_clearance.cpp:304-311).
THEOREM LocksNeverCircle == Spec => []LocksInOrder
<1>1. QED
  BY LocksOrdered, PlacesHold, PTL

\* What a thread needs for its next step is not locked.
Unblocked(t) ==
  LET pc == thread[t].pc
  IN /\ pc = "check a" => CanShare(t, thread[t].a)
     /\ pc = "check b" => CanShare(t, thread[t].b)
     /\ pc \in {"load a", "order"} => CanLock(t, thread[t].a)
     /\ pc = "load b" => CanLock(t, thread[t].b)
     /\ pc = "check order" => CanShare(t, thread[t].a)
     /\ pc = "lock" /\ Hard => CanLock(t, thread[t].a) /\ CanLock(t, thread[t].b)
     /\ pc = "lock" /\ ~Hard => CanShare(t, thread[t].a)
     /\ pc = "half locked" => CanShare(t, thread[t].b)

SomeThreadGoesOn ==
  phase = "narrow" /\ (\E t \in Threads : thread[t].pc # "ended") =>
    \E t \in Threads : thread[t].pc # "ended" /\ Unblocked(t)

\* Threads that all wait would wait for a holder of shared locks, and of those the
\* one that is ahead waits for nobody.
LEMMA OneGoesOn == ClashInv /\ LocksInOrder => SomeThreadGoesOn
<1> SUFFICES ASSUME ClashInv, LocksInOrder, phase = "narrow", NEW w \in Threads, thread[w].pc # "ended",
                    \A t \in Threads : thread[t].pc # "ended" => ~Unblocked(t)
             PROVE  FALSE
  BY DEF SomeThreadGoesOn
<1>1. \A t \in Threads : Exclusive(t) = {}
  <2>1. SUFFICES ASSUME NEW t \in Threads, Exclusive(t) # {} PROVE FALSE
    OBVIOUS
  <2>2. thread[t].pc \in {"loading a", "ordering", "loading b", "testing"}
    BY <2>1 DEF Exclusive
  <2>3. Unblocked(t)
    BY <2>2 DEF Unblocked
  <2>4. QED
    BY <2>2, <2>3
<1>2. \A t \in Threads : Shared(t) # {} => thread[t].pc = "half locked" /\ Shared(t) = {thread[t].a}
  <2>1. SUFFICES ASSUME NEW t \in Threads, Shared(t) # {}
                 PROVE  thread[t].pc = "half locked" /\ Shared(t) = {thread[t].a}
    OBVIOUS
  <2>2. CASE thread[t].pc = "testing"
    <3>1. Unblocked(t)
      BY <2>2 DEF Unblocked
    <3>2. QED
      BY <2>2, <3>1
  <2>3. QED
    BY <2>1, <2>2 DEF Shared
<1> DEFINE S == {t \in Threads : At(t, "half locked")}
\* A writer waits for someone who shares the entry.
<1>3. ASSUME NEW t \in Threads, NEW e, ~CanLock(t, e)
      PROVE  \E u \in S : thread[u].a = e
  <2>1. PICK u \in Threads : e \in Exclusive(u) \cup Shared(u)
    BY <1>3 DEF CanLock
  <2>2. e \in Shared(u)
    BY <1>1, <2>1
  <2>3. thread[u].pc = "half locked" /\ thread[u].a = e
    BY <1>2, <2>2
  <2>4. QED
    BY <2>3 DEF At
<1>4. ASSUME NEW t \in Threads, NEW e, e # NoEntry, ~CanShare(t, e)
      PROVE  \E u \in S : thread[u].a = e
  <2>1. PICK u \in Threads : e = WaitsFor(u)
    BY <1>1, <1>4 DEF CanShare
  <2>2. CASE thread[u].pc \in {"load a", "order"} /\ e = thread[u].a
    <3>1. ~CanLock(u, e)
      BY <2>2 DEF Unblocked
    <3>2. QED
      BY <1>3, <3>1
  <2>3. CASE thread[u].pc = "load b" /\ e = thread[u].b
    <3>1. ~CanLock(u, e)
      BY <2>3 DEF Unblocked
    <3>2. QED
      BY <1>3, <3>1
  <2>4. QED
    BY <1>4, <2>1, <2>2, <2>3 DEF WaitsFor
<1>a. ASSUME NEW t \in Threads, Busy(t) PROVE thread[t].a # NoEntry /\ thread[t].b # NoEntry
  <2>1. <<thread[t].a, thread[t].b>> \in Edges
    BY <1>a DEF Taken, ClashInv, WorkInv, Covered
  <2>2. thread[t].a[1] \in Graphs /\ thread[t].b[1] \in Graphs
    BY <2>1 DEF Edges, Entries
  <2>3. NoEntry[1] \notin Graphs
    BY DEF NoEntry, Graphs
  <2>4. QED
    BY <2>2, <2>3
<1>5. S # {}
  <2>1. ~Unblocked(w) /\ Busy(w)
    BY DEF Unblocked, Busy
  <2>2. \E e : e # NoEntry /\ (~CanShare(w, e) \/ ~CanLock(w, e))
    BY <1>a, <2>1 DEF Unblocked
  <2>3. QED
    BY <1>3, <1>4, <2>2
<1>6. PICK t \in S : \A u \in S : thread[t].b # thread[u].a
  BY <1>5 DEF LocksInOrder
<1>7. ~CanShare(t, thread[t].b) /\ thread[t].b # NoEntry
  BY <1>a, <1>6 DEF Unblocked, At, Busy
<1>8. QED
  BY <1>4, <1>6, <1>7

\* However many threads there are, and whatever a waiting writer may do, they never
\* all wait for locks (Clearance::run and Hard::run).
THEOREM ThreadsNeverStuck == Spec => []SomeThreadGoesOn
<1>1. QED
  BY OneGoesOn, LocksOrdered, PlacesHold, PTL

==============================================================================
