# A verification development for 3drepobouncer

3drepobouncer converts 3D models and drawings into the documents, files and
bundles that 3D Repo serves.  This directory holds TLA+ modules that model its
concurrent and failure-prone parts, TLC configurations that check them on small
instances, and proofs for TLAPS.

Paths below are relative to `src/`; `repo/` stands for `bouncer/src/repo/`.

## 1. The system

| Component | State it keeps | Operations | Interacts with | Hard because |
|---|---|---|---|---|
| Scene builder (`repo/manipulator/modelutility/repo_scene_builder.*`) | parent updates kept back, lookups of materials and textures, count of live node references, an `AsyncImpl` with a queue, its size estimate, a semaphore and an exception | `addNode` (three forms), `addNodes`, `addParent`, `addMaterialReference`, `addTextureReference`, `commit`, `finalise`, destruction | called by the importers; its worker thread owns a bulk write context | two threads, a lossy-looking semaphore, a timeout, exceptions in destructors, updates that must not overtake inserts |
| Bulk write context (`MongoWriteContext` in `repo/core/handler/repo_database_handler_mongo.cpp`) | the bulk write, its size, a blob files handler | `insertDocument`, `updateDocument`, `flush`, destruction | MongoDB, the file service | partial execution; a destructor that executes |
| Mongo handler (same file) | a client pool | insert, upsert, drop, find, index creation | MongoDB, the file service | binaries are stored outside the document that refers to them |
| File service (`repo/core/handler/fileservice/`) | the active blob file, open streams | `insertBinary`, `uploadFileAndCommit`, `deleteFileAndRef`, `getFile` | the file system, the `.ref` collections | a file and its reference are two writes; upload results are ignored in places |
| Scene graph (`repo/core/model/collection/repo_scene.*`) | node sets per type, maps from shared and unique ids, parent-to-children lists, change sets, the stash graph, a revision node | `addNodes`, `addInheritance`, `abandonChild`, `removeNode`, `commit`, `loadRevision`, `loadScene`, `loadStash` | the handler; every modeller and optimiser | maps that must agree; revision first, nodes second |
| Scene manager and commit (`repo_scene_manager.cpp`, `repo_manipulator.cpp`, `repo_model_import_manager.cpp`) | the status of a revision | `commitScene`, `fetchScene`, `generateWebViewBuffers`, `generateAndCommitSelectionTree` | scene graph, optimiser, exporters | a revision becomes visible while later steps may still fail |
| Bouncer worker (`tools/bouncer_worker/src/`) | connection, channel, prefetch, the message being processed | consume, run a command, call back, acknowledge, reconnect | RabbitMQ, the client executable, the process monitor | redelivery, stale channels, timeouts that race with exits |
| Process monitor (`lib/processMonitor.js`) | per-task lists of process samples | `startMonitor`, `stopMonitor`, `clearReport`, `sendReport` | every queue handler | shared between tasks, cleared by some paths only |
| Controller worker pool (`repo/repo_controller_internal.cpp.inl`, `repo/lib/repo_stack.h`) | a blocking stack of manipulators | pop, work, push | every public operation | an exception keeps a worker for good |
| License validator (`repo/lib/repo_license.cpp`) | instance id, heartbeat thread, a condition | `activate`, heartbeat, `deactivate` | Cryptolens | the thread that deactivates may be the one to be joined |
| Client (`client/src/functions.cpp`) | none | import, generate stash, process drawing, clash detection | the controller | error codes that the worker interprets |
| Clash detection (`repo/manipulator/modelutility/clashdetection/`, engine and config) | sparse scene graph, composite objects, node cache, broadphase results | `runDetection`, `schedule`, the pipelines | scene collections | order of pairs, ids shared between sets, limits |
| Multipart optimiser (`repo/manipulator/modeloptimizer/repo_optimizer_multipart.cpp`) | branch groups, jobs, clusters, the supermesh in work | `processScene` | scene collections, the exporter | limits kept at four places, a hierarchy of any shape |
| Mesh map reorganiser (`repo_mesh_map_reorganiser.cpp`) | new vertices, faces, mappings, ids | its constructor | exporters outside this repository | an array that is moved while it is read |
| Selection tree, partitioner | trees | one pass over a scene each | scene manager | which node is the root |
| Importers, ODA processors, IFC utilities | per-format contexts | parse a file, feed the builder | third-party kernels | callbacks; exceptions half way through an import |
| Drawings (`repo_drawing_manager.cpp`) | a drawing's revision | `commitImage` | the file service | file and revision are two writes |

What makes each of them correct:

* **Scene builder**: every node and every parent handed over is stored exactly
  once and in an order in which each update finds its node; memory stays
  bounded; no call waits for ever; a call never returns as if a failed write had
  succeeded.
* **Bulk write context, file service**: a stored document never refers to binary
  data that is not stored; references into blob files do not overlap.
* **Scene graph**: the id maps, type sets and child lists describe the same
  nodes after any sequence of edits; what is committed is what was added.
* **Commit**: a revision that readers can see is complete, or says that it is not.
* **Worker**: every message is answered once, or redelivered until it is; a
  reply follows its work; a crash loses no message.
* **Pool and licence**: every borrowed worker is returned; a licence that was
  activated is released.
* **Clash detection**: the report has the clashes that the configuration asks
  for, each pair tested once on geometry that nobody changes meanwhile.
* **Client and licence**: whoever works has a seat and gives it back; a command
  ends, and its exit code says whether all of it was done.
* **Process monitor**: a report covers the processes of its task, and nothing is
  kept when a task is over.
* **Optimiser, reorganiser**: each face of each mesh is shown once, with its own
  vertices and under its own mesh, and no limit of the format is passed.

`PROJECT.json` lists every component with its state (modelled, partly or not)
and every hazard at the line where it bites.

## 2. The modules

| Module | Models | Notes |
|---|---|---|
| `SceneStore` | what the builder promises | abstract: writes are accepted in order and executed in order; `finalise` and the destructor return only when all are executed; a failure ends the process |
| `SceneBuilder` | `RepoSceneBuilder`, `AsyncImpl`, and the `MongoWriteContext` its worker owns | one action per call of the importer, per step of `push` (which counts a write and enqueues it in two), and per step of the worker |
| `MCSceneBuilder` | instances for TLC | node sizes |
| `SceneBuilderProofs` | theorems about `SceneBuilder` | |
| `TaskDelivery` | what the workers promise to the service that queues tasks | abstract: a task waits, is held by one worker, or is finished; it is spoken of only while held, and finished only on a result |
| `BouncerWorker` | `queueHandler.js`, the three queue handlers, `runCommand.js`, and the broker | one action per event of a worker's process and per frame the broker receives |
| `MCBouncerWorker` | instances for TLC | queues, prefetch counts, quotas |
| `BouncerWorkerProofs` | theorems about `BouncerWorker` | |
| `PublishedRevisions` | what an import promises to those who read revisions | abstract: a revision that can be seen holds one whole scene and does not change |
| `RevisionCommit` | `import` and `genStash` of the client: `SceneManager::commitScene`, `fetchScene`, `RepoScene::commit`, `loadRevision`, `_generateStash` | one action per write to the database or the file service, by any number of processes |
| `MCRevisionCommit` | instances for TLC | what each run does, and which import streams |
| `RevisionCommitProofs` | theorems about `RevisionCommit` | |
| `FileManager` | `FileManager`, `FSFileHandler` and the `.ref` collection | one action per write of a file or a reference, for each caller |
| `BlobFiles` | `BlobFilesHandler` under `MongoWriteContext` and `insertManyDocuments`; `loadBinaryBuffers` | extends `FileManager` |
| `Drawings` | `processDrawing` of the client, `DrawingManager` | extends `FileManager` |
| `SceneReferences` | `addMaterialReference`, `addTextureReference` of the scene builder | one action per mesh added |
| `MultipartOptimizer` | `processScene` down to the supermeshes the exporter is given | one action per job, group, cluster and streamed mesh |
| `MeshMapReorganiser` | `performSplitting`, `splitLargeMesh` | one action per mesh of a supermesh |
| `Storage` | the six above as one system | which processes run is chosen at the start; the clients of the file service interleave |
| `MCStorage` | instances of `Storage` for TLC | callers, writers, readers, drawings, scenes, supermeshes |
| `StorageProofs` | theorems about `FileManager`, `BlobFiles`, `Drawings` and `SceneReferences`, with every other client of `Storage` beside them | |
| `OptimiserProofs` | theorems about `MultipartOptimizer` | |
| `ReorganiserProofs` | theorems about `MeshMapReorganiser` | extends `OptimiserProofs`, for its lemmas about folds |
| `BouncerClient` | processes of the client: `main`, the commands, the worker pool, the licence and its heartbeat thread | one action per step of either thread, and of the licence server |
| `ProcessMonitor` | `processMonitor.js` as the queue handlers use it | one action between two `await`s |
| `MCMachine` | instances of `Storage` and of the two above, of which one part runs at a time | extends `MCStorage` |
| `ProcessesProofs` | theorems about `BouncerClient` and `ProcessMonitor` | |
| `ClashScheduler` | `clash_scheduler.cpp` | |
| `ClashPipeline` | the engine, the pipelines, and the threads of `clash_clearance.cpp` and `clash_hard.cpp` | extends `ClashScheduler`; one action per stage, and per lock, load, order, test of a thread |
| `MCClash` | instances of the two above | configurations, objects and meshes |
| `ClashProofs` | theorems about `ClashPipeline` and `ClashScheduler` | |

### SceneBuilder

*Actors.*  The importer's thread has a program counter `pc` and the `call` it is
in; a call of the builder puts the writes it has to push in `pending` and then
runs the loop of `AsyncImpl::push` for each: once there is room it raises the
estimate (`Count`) and then puts the write in the queue (`Push`), and the worker
may run between the two.  The worker's program counter is
`cpc`: it waits, has taken an entry (`inHand`), has accounted for it and visits
it, flushes its context, unwinds an exception, or has stopped.

*Data.*  A node is its unique id, an update a node with a set of parents.
Pointers in the queue are positions in `accepted`, the history of everything
pushed, so two writes are never confused.  `applied` lists the writes executed
on the collection; an update executed before its node's insert matches no
document, which is how `StoredParents` reads it.

*Failures* (`Failures`): acquiring the write context, appending a write (its
binary data is stored first), and executing a bulk write after any number of its
writes.  An exception in a visit unwinds the worker's loop, destroys the write
context, whose destructor executes what is left, and is kept in
`consumerException`.  If that destructor fails, the process terminates.  The
importer may throw for reasons of its own at any time (`ImportFails`).

*Destructors.*  An exception that leaves a destructor terminates the process:
`~AsyncImpl`, `~MongoWriteContext`, `~RepoSceneBuilder` with something
outstanding, and `push` called from the `Deleter` of a `shared_ptr`, including
the one that `makeMaterialNode` creates and drops while a mesh is added.

*Undefined behaviour.*  `binary_semaphore::release` above its maximum is
undefined; a `Notify` left in the queue by a wait that timed out can cause it.
`VisitNotify` lets the count go up or stay at one.

*Abstractions.*  A write has one size, for the queue's estimate and for the size of
the bulk; the code takes the first from the node and the second from its document.
Nothing that is checked compares them.

*Bounds.*  `MaxFinalise` calls of `finalise`; a wait may time out only until
`MaxNotify` entries are in the queue, unless the worker has thrown.  Each
(node, parent) pair is added once.

### BouncerWorker

*The broker* is external and modelled from how the workers use it: `ready` are
the messages in their queues, `unacked` what is delivered on each worker's
connection, `latest` the newest reply the callback queue holds about a message.
What a worker sends on its channel (replies, acks, nacks, the closing of the
channel) lies on `wire` until the broker receives it, in order.  When a
connection is lost its wire is gone and its unacknowledged messages are ready
again; the broker notices at once, the worker later (`link = "lost"` until its
`close` event).

*A worker* is a process with one connection (`link`, the number of connections
`conn`, the attempts `retry`) and the set of `tasks`: calls of
`onMessageReceived` that have not settled, each with the connection whose channel
it holds.  A task pauses, announces itself (`PROCESSING`), runs the client, and
sends the result with the acknowledgement after its report; after a refused
licence it waits and hands the message back.  A worker started with
`--exitAfter` fetches one message at a time, counts `done`, waits
for its channel to be closed and ends.

*Stale tasks.*  Tasks of an earlier connection go on after it is replaced.  Their
channel is closed, so sending throws; the error handler's `nack` throws for the
same reason, nothing catches it, and the process ends.  `Proceed` is that rule,
and `Exit` starts a listening worker again, as `pm2` does in `package.json`.

*Abstractions.*  The export of a drawing's image is part of running the client;
sending the report is one step with the answer; a client left behind by a killed
worker is not modelled.  Messages are well formed: one of the clash queue without a
`configPath` throws outside the `try` (`clashQueueHandler.js:60`), is handed back,
and comes again for ever, so that `EveryTaskAnswered` would not hold of it.

*Bounds.*  `MaxLosses`, `MaxKills` and `MaxRefusals` limit what goes wrong.
`Idle` is a step of the finished system only, so the deadlock check shows that
the workers never come to rest with a message left over.

### RevisionCommit

*The database* is `scene` (the nodes stored for each revision), `history` (the
revision documents: status and timestamp) and the file service `raw`, `tree` and
`bundles` (original files, selection trees, bundles).  A node is tagged with the
run that stored it: an import makes new ids every time, so a repeated one adds
nodes and replaces none.  Revision document, tree and bundles are found by the
revision's id, so a repeated run replaces those.

*A run* is a process of the client with a program counter.  It writes in the
order of the code: nodes (if the importer uses the scene builder), original file,
revision document (`GEN_DEFAULT`), nodes (if it does not), `GEN_SEL_TREE`, the
files of the tree, `GEN_WEB_STASH`, bundles, `COMPLETE`.  `held` is the revision
document it has in memory: `updateRevisionStatus` replaces the stored document by
it (`Mark`).  `left` and `shown` are what the tree maker has made and not stored
yet.  `genStash` starts with `LoadRevision`: the head of the branch is the newest
document without a status, and a revision given by its id is taken as it is.
`LoadScene` reads its nodes afterwards, those that other runs have added since
included, and refuses a scene with two roots.  `last` is the answer the worker has
reported last about a revision.

*Failures.*  A process ends, or an exception leaves the run, between any two
writes (`Break`); a file cannot be stored, or the original not be read again; the
bundles are not made, as in a build without the asset generator.  `commitScene`
goes on after the last two stages failed, `_generateStash` does not.

*Repeated runs.*  A task that comes again (see `BouncerWorker`) is a second
import for the same revision id, beside a run that may still be at work.

*Abstractions.*  The tree is the set of nodes below the root it was made from:
the last node whose parent it did not find.  The bundles are the nodes they were
made from.  A file and its reference are one write here (`FileManager`
splits them), a bulk insert of nodes is a write for each, the documents of a sequence
count as nodes.  `genStash` of all revisions is one run for each.  The codes for
missing nodes or textures count as success: the scene is stored the same way.
The error flag in the project settings is left out, since nothing reads it.  The
timestamp is taken in the step of the original file, which nothing can tell from
the moment before.

### FileManager, BlobFiles, Drawings

*State.*  `disk` and `refs` are what the file system and the `.ref` collections
hold, and outlive every process.  `call` is the call of the service that a client
is in: an upload makes a name, writes the file, then the reference; a deletion
removes the file, then the reference; a read looks the reference up and then
opens the file.  Other clients act between any two of these.

*BlobFiles.*  A writer takes the nodes of its `Work` in order; the data of each
goes to the active file (its size, and the ranges of it that hold a node's data),
which is uploaded when the next one does not fit and at
the end, and the documents with their ranges go into batches.  Both kinds of
writer are there: the write context, which executes when its batch is due, in
`flush` and once more in its destructor, and `insertManyDocuments`, which fills
batches of a fixed number.  The reader takes any document it finds and reads
its range, from a stream it may have opened before.

*Drawings.*  `node` is the revision a run has in memory.  A revision without the
field `incomplete` leaves that member uninitialised: `Fetch` lets it be either.
`Show` is the service outside that takes the field away (external).  The result of
an upload is not looked at, of images as of blob files: `unsaved` and `lost` remember
those that failed, which `ImageIsStored`, `ProcessedIsWhole` and `DataIsSomewhere`
except.
They say that nothing else can lose what is stored; the failed upload itself goes
unnoticed in the code (section 4).

*Failures* (`FileFaults`, `WriteFaults`, `DatabaseFaults`): a file that cannot be
written after three attempts, a directory that cannot be made, a reference that
cannot be written or dropped, a file that is not removed, a bulk write that
fails, a process that ends.

### SceneReferences

The nodes of materials and textures a mesh is entered under.  How a parent gets
to the database is `SceneBuilder`; here it is there at once.  `materialToNode`
is `materialToUniqueId`, with the count that makes a new node when
`MAX_MATERIALNODE_USAGE` is reached.  A texture whose file cannot be opened is
noticed and left out.

### MultipartOptimizer, MeshMapReorganiser

*Optimiser.*  A mesh is its attributes (those that jobs and groups look at) and
its faces, a face its vertices.  Each job selects meshes, `TakeJob` groups
them by the resource group and the floor, `TakeGroup` cuts a group into clusters
(`Clusters`: low bins, branches of a hierarchy, parts of clusters with too many
meshes), `OpenCluster` asks the database for a cluster's meshes, which come in
any order and are appended, split, or begin another supermesh.

*What is left out* is geometry: bounds decide the order of the meshes and the
shape of the two hierarchies, so the order is any, and so is the shape
(`BranchClusters`, `Splits` enumerate them, leaves of up to `LeafSize`
included).  All textured meshes have one number of texture coordinate sets;
`appendMesh` throws otherwise.  The hierarchy of a mesh that must be split is
not a single leaf, for which `branches.back()` would read an empty vector: such a
mesh has tens of thousands of vertices.  The vertices of a mesh are those its faces
name (`NumVertices`); the code counts those that were loaded, so a mesh with vertices
that no face names is larger to it.

*Reorganiser.*  A vertex is its index in the supermesh, so a face of a chunk can
be followed to the vertices it draws.  `chunks` are the new mappings with their
entries of `idMapBuf` and `matMap`, which are resized together.  `CutFaces` is
the loop over the faces of a large mesh, `Fit` the erasing or inserting of
vertices behind it.  Its caller is in the asset generator, outside this
repository; the supermeshes it is checked on are therefore all sequences of up
to three meshes of six kinds.

### BouncerClient

*A process* has its main thread (`main`), with the `plan` of operations that its
command still has to do, and its heartbeat thread (`beat`).  An operation takes
a worker from the pool (`Pop` blocks when there is none) and gives it back,
unless it throws.  `genStash` for all revisions goes on after a failure.
`deactivate` stops the heartbeat, joins it and releases the seat; the heartbeat
thread aborts the process when its licence was revoked, since it would have to
join itself.

*The licence server* is external: the instances that have a `seat`, whether the
licence is `revoked`.  A seat goes when no process of its instance sends
heartbeats any more.  Instances are machines, or all machines without a
configured instance together (`InstanceOf`): the default in
`tools/bouncer_worker/src/lib/config.js:92` is only for a licence that is `true`,
and a licence is a string, so `REPO_INSTANCE_ID` is `undefined`.  A process that ends
releases the seat of its instance, which others of the machine may still be working
with: `taken` marks them, and `SeatWhileWorking` excepts them, since the code does
this.

### ProcessMonitor

What is measured is kept per message id (`dataByRid`).  `startMonitor` is called
and not awaited, so that what it does after reading the memory is an action of
its own (`StartMonitor`), and may come after the process has ended (`late`).  Two
tasks of one message share what is kept (`shared`).  Memory,
ticks of the timer and the request to Elastic are left out: a report is the
number of processes it covers.

### ClashScheduler, ClashPipeline

*Stages.*  `Prepare` splits the sets and validates the meshes, `Broadphase` finds
pairs of meshes (Clearance) or objects (Hard), `Schedule` runs the scheduler to
its end, `Distribute` starts the threads, `Report` follows when all have ended.
Ties in sorting are open.  So is the order of the leaves of a hierarchy of bounds,
but one traversal yields all of its pairs, with the leaf that comes first on the left
(`bvh_operators.cpp`), and a pair between two graphs has the first graph on the left:
`Traversals` gives every order of the meshes.

*Threads.*  Each takes a test, checks and loads its two entries, has their
vertices ordered (Clearance), and tests under the locks of the code: a
`shared_mutex` per entry in Clearance, an exclusive lock over both in Hard, whose
test deforms an entry.  A lock's owner is derived from where its threads are.
The standard leaves open whether a waiting writer holds up readers, so
configurations have it both ways (`writersFirst`).

*The report* holds ordered pairs of ids, as in `ordered_pair.h`: `Compare` puts the
smaller side first, and `Test` enters the pair as it is.  In Hard the bounds are read
without a lock: `Compare` lets them be anything while another thread deforms the
entry, and `Leads` says the same of the report; `Reads`, which `TestsUndisturbed` is
about, has only what a test reads under its locks.

*Failures*: the database, loading, and degenerate geometry, which throws on a
thread and ends the process.

### Runs

| Run | Checks | Shows |
|---|---|---|
| `SceneBuilder` | `TypeOK`, `QueueSizeExact`, `QueueBounded`, `NoLostWakeup`, `ParentsStored`, `PipelineInOrder`, `ClosedLast`, `ImplementsStore`, `CallsReturn` | two nodes, one larger than the threshold, and two parents, so that updates are merged, committed early (`MaxUpdates = 1`), and left to `finalise` or not, with all failures: the accounting is exact, the threshold is kept, an oversized node goes in alone, every wait has a wake-up coming, order and completeness hold, and every call returns |
| `BouncerWorker` | `DeliveriesTracked`, `ResultIsLastWord`, `ImplementsDelivery` | an import and a clash run, a listening worker and one with a quota of two, one loss, one kill, one refusal: each delivery on a live channel is settled exactly once, nothing is dropped unanswered, and a task that outlived its connection says nothing |
| `BouncerWorkerLiveness` | `EveryTaskAnswered` | two imports and one listening worker, two losses, a kill and a refusal: both are answered in the end, and the result is what was last said |
| `RevisionCommit` | `TypeOK`, `RawFileBeforeRevision`, `StashesOfWholeScene`, `ImplementsPublished` | two imports of different revisions, one of them streaming, and a `genStash` of the head: whatever fails in between, what readers see is whole and does not change, and stashes are made from whole scenes |
| `RevisionReimport` | `VisibleSceneComplete`, `LastOkIsVisible` | two imports of one revision, in any overlap, and a `genStash` of its bundles: nobody sees a part of a scene; the runs take the revision back while they work and undo each other's status, but once the last of them has reported success it can be seen |
| `RevisionRoots` | `OneRootWhenVisible` (violated) | an import repeated after a kill leaves a visible revision with two roots, which loading refuses |
| `Machine` | `RefsHaveFiles`, `GetsAreWhole`, `DataIsSomewhere`, `ReadsOwnData`, `ImageIsStored`, `ProcessedIsWhole`, `MeshHasMaterial`, `EachFaceOnce`, `SupermeshesBounded`, `SupermeshesOfOneFloor`, `ChunksShowSupermesh`, `SeatWhileWorking`, `SeatReleased`, `ExitTellsTruth`, `ReportsCoverTask`, `NothingKept`, `CommandsEnd` | one part at a time of what runs beside the builder.  Storage: two callers of the file service, either kind of writer beside a reader, two runs for one drawing, all with failures between any two writes; six meshes of four materials; three scenes through the optimiser, with at most one cluster beyond the mesh limit; 258 supermeshes through the reorganiser.  Processes: one with any command, or two on one or two machines, and one seat.  Monitor: a drawing delivered twice, or a clash detection |
| `StorageDrawing` | `StaysComplete` (violated) | a drawing that is processed again is taken back from those who see it, by a flag that the run never read |
| `StorageSupermeshes` | `EachFaceOnce` (violated) | with two clusters beyond the mesh limit, what is left of the first is drawn by a supermesh of the second as well: `splitBigClusters` stores its last part and does not clear it |
| `Clash` | `TestsUndisturbed`, `ReportIsExact`, `LocksInOrder`, `ClashEnds` | five Clearance and four Hard configurations: disjoint and overlapping sets, tests within a set, a shared mesh, a mesh that is too large, two and three threads, both kinds of `shared_mutex`, every traversal: tests are undisturbed, no locks are waited for in a circle, and each clash that is asked for is in the report, under a pair of ids in the order of the sizes, and no other |
| `ClashSides` | `AOnTheLeft` (violated) | of two sets that do not meet, the object of set B is on the left of a clash when it is the smaller one, and an object with a smaller and a larger mesh is in two clashes with it, one each way round |
| `ClashSelf` | `NotWithItself` (violated) | Clearance within a set reports an object of two close meshes as a clash with itself, which the documentation of the option rules out |

In `Machine` the initial state chooses who runs (`Groups`, or the disjuncts of
`ProcessesInit`), so that the state spaces of parts that share nothing add up
and do not multiply.

Why the bounds are enough.  Scene builder: a threshold of three with sizes one to
three lets the queue hold none, one, two or three writes, and the oversized node
covers the clamp at zero; a bulk limit of three makes batches of one, two and
more; two waiting `Notify` entries already contain the stale one and the needed
one.  The theorems remove the bounds for the properties that are proved.

For the commit, two imports and a third run are the least in which one run can
hide, complete or replace what another one has written while a third reads; a
scene of a root and one other node has all that can be told apart: nothing
stored, no root, a root only, the whole.  Two files of a tree allow one to be
stored and the other not.

For the worker, two messages and two workers hold the cases that matter: a message given
back by one worker and taken by the other, and one that comes again on a new
connection while the task of the old one is still running.

For the storage, nodes of sizes 0, 1, 2 and 4 and files of 3 make one that fits
beside another, one that does not, one that fits into no file and one without
data; a batch of two makes documents that are written before their file and
behind it.  Two materials share a texture and one is used three times with a
limit of two.  Supermeshes of four vertices and two meshes, leaves of two, and a
mesh of four faces let each limit bind in each place that keeps it, with one
cluster beyond the limit; two such clusters are the violation run.

For the processes, one seat and two processes are enough for one to take what
another has, and a pool of one for a lost worker to be missed; it is
`numConcurrentOps`, 1 by default, which the client leaves alone.  For the clash detection, two threads
that share both, one or none of their entries, and a third that waits.  Circles of
more threads are too large for TLC: `LocksNeverCircle` and `ThreadsNeverStuck` are
proved for any number.

Fairness.  Scene builder: weak fairness of each thread.  The operating system
schedules both, and `try_acquire_for` returns after a second; nothing is assumed
about what the importer calls next.  `CallsReturn` needs no more.

`EveryTaskAnswered` assumes that the broker comes back and serves its consumers,
that the network delivers what it does not lose, that timers expire, and that the
client ends: `runCommand` kills it after `timeoutMS`.  Losses, kills and refusals
are finite, since a worker that is interrupted for ever finishes nothing.

`CommandsEnd` assumes that both threads of a process are scheduled and requests
return (with an answer or an error); operations end.  `ClashEnds` assumes that
the main thread goes on and each thread is scheduled: nothing is assumed about
which of the threads that wait for a lock gets it.  What the run adds to the proof
that some thread can always go on is that the stages and the scheduler's loop end.

`SeatExpires` assumes that heartbeats are as frequent as the pause in
`runHeartBeatLoop` makes them, half of the server's timeout at most.

## 3. Proofs

Each theorem holds for every value of the constants that satisfies the named
assumptions of its module: any number of nodes, threads, workers, callers and
files, any sizes and limits, any set of failures.  Where a premise goes beyond
these it stands in the theorem and below.  Every inductive invariant was given to
TLC as an invariant of the run that covers its module before it was proved.

### Scene builder (`SceneBuilderProofs`)

* `TypeCorrect`, `WritesInOrder`, `NothingAfterClose`: by the inductive
  invariant `IInv == TypeOK /\ PipelineInOrder /\ ClosedLast`.  The three need
  each other: the queue's order bounds the pointer of the write in hand, which
  gives the sizes their type, and `ClosedLast` says that a worker that has thrown
  has stopped, which is when order may lapse.
* `WakeupOnItsWay` (`NoLostWakeup`): with `InHandWhileBusy`, that the worker
  forgets an entry when it is done with it.
* `EstimateExact` (`QueueSizeExact`), by `SizeInv`: the estimate is the sum of the
  sizes of what the worker has not taken off yet (`Sizes`) and of the write that
  `push` has counted and not enqueued (`Coming`), at each point between the steps of
  the two threads, so that it does not wrap around.
  `QueueHeldToThreshold` (`QueueBounded`) follows from the same invariant.
* `ParentsAreStored` (`ParentsStored`), by `ParentInv`: a parent that was given is
  kept back, or in an update that lies behind its node's insert.  Its premise
  is `~ParentsWhileHeld`, since the code loses a parent otherwise (section 4).
* `Refinement` (`ImplementsStore`): by `IInv` the executed writes are a prefix of
  the accepted ones, so each step grows it, accepts, returns or fails.

### Commit (`RevisionCommitProofs`)

* `TypeCorrect`: with `TypeOK`, that a run which stores something has a revision.
* `SceneCompleteWhenVisible` (`VisibleSceneComplete`), if `genStash` works on
  heads (`StashesOfHeads`): by `DerivedFromWhole`, that a run past the nodes works
  on a revision with a whole scene.  An import has stored it itself, a `genStash`
  found it visible.  The premise is needed: given the id of a revision whose
  import was killed, `genStash` makes it visible all the same.
* `LastSuccessIsVisible` (`LastOkIsVisible`), without a premise: by the property
  itself and by which commands are at which step.
* `OriginalFileStored` (`RawFileBeforeRevision`), if the original can be read
  again: a file that cannot is logged and the document still names it.
* `Refinement` (`ImplementsPublished`), if each revision is imported once
  (`ImportedOnce`) and `genStash` works on heads: what is stored for a revision
  is from its only import (`ScenesOfImports`), so a whole scene is all of it and
  no node can be added while the revision is visible.
* `StashesAreWhole` (`StashesOfWholeScene`), under the same two premises: a tree
  maker's `left` and `shown` and the files it has stored are of one scene that
  was whole when the tree was made.

They share `HistorySteps` and `ControlSteps`: which step may change a status, and
where a run can go from where.

### Worker queues (`BouncerWorkerProofs`)

`Inductive` proves `IInv`: a message is in its queue or on one connection
(`Apart`), and for each worker the deliveries on a live channel are those of its
current tasks and of the settling frames on its wire, each once (`Tracked`); the
frames of a channel come in the order in which a task sends them, nothing follows
the frame that settles a message, and an ack has its result in front of it or
received (`Orderly`); the broker keeps nothing of a connection that is not live
(`Quiet`); a worker with a quota has one task at most (`WithinLimits`).  From it
follow `EveryDeliveryTracked`, `ResultLast`, and `Refinement`, that the workers
with the broker implement `TaskDelivery`: a frame that is received is a word about
a message that is held, and an ack finishes one whose result was the last word.

### File service and blob files (`StorageProofs`)

Both are about the whole of `Storage`: callers, writers, readers and runs for
drawings together, in any interleaving.

* `FileCalls` proves `StoreInv`: every reference is to a file stored whole or
  removed by a caller, no two references share a file (`FilesOK`), the file of
  an upload is used by nobody else (`CallsApart`), and a call has what its place
  says (`CallOK`).  From it follow `ReferencesHaveFiles` and
  `CallersGetWholeFiles`.  What the clients need of it is stated once as `Keeps`:
  a step of the service changes no entry but that of the call which ends, unless
  it is under an id that callers upload and delete.
* `BlobFilesHold` proves `BlobInv`: the range of a document, or of one that
  waits in a batch, is in its writer's active file or in a stored one, at the
  data of its own node, or in one whose upload failed (`EntryOK`); the active file
  is what is being uploaded (`FileOf`); what a writer without an exception was
  given is stored or in its batch (`Progress`); a reader has the file its document
  refers to, also in a stream it opened earlier (`ReaderOK`).  From it follow
  `DocumentsHaveData`, `ReadersGetTheirData` and `WritersStoreAll`, which no run
  checks: a writer that ended without a failure has stored all of its documents with
  their data.
* `DrawingsHold` proves `DrawingInv`: a revision names an image that was stored
  or whose upload failed unnoticed, in the database and in the copy every run
  holds.  From it follow `ImagesAreStored` and `ProcessedDrawings`.
* `ReferencesHold` proves `ReferenceInv`: the node in use for a material has no
  more parents than were counted, and each mesh is under one node.  From it
  follows `MeshesHaveMaterials`.

The assumption that ties them (`StorageAssumption`) is that kinds of process are
distinct and that the ids callers use are not those of blob files and images.

### Client, licence, monitor (`ProcessesProofs`)

* `ClientsHold` proves `ClientInv`: while the command runs the heartbeat thread
  beats or has missed a beat (`BeatWithMain`), the seat is there, or taken away
  (`SeatHeld`), and the exit code agrees with the mishaps and with what is left of
  the plan (`Accounted`).  From it follow `WorkingHaveSeats`, `SeatsGivenBack` and
  `ExitCodes`.
* `MonitorHolds` proves `MonitorInv`: what is kept under an id is that of the
  task which uses it and covers all of its processes so far, for tasks that no
  late start or shared id disturbs (`KeptFor`); and for all of them, disturbed or not
  and of any queue, whatever is kept has its reason (`KeptRightly`): an entry is of a
  process that runs, or of one that ended before it was entered, and a report is of
  an id that a task still uses, or whose clash detection failed.  From it follow
  `ReportsAreComplete`, which is about undisturbed tasks, and `NothingIsLeft`, which
  has no premise: it says where each timer, entry and report that is left comes from,
  and so that late starts, shared ids and failed clash detections are the only ways
  by which something stays.

### Clash detection (`ClashProofs`)

`ClashDetectionHolds` proves `ClashInv` in two parts.  `ThreadsInv`: what a thread
holds exclusively nobody else holds, and a thread at a step has loaded and
ordered what that step reads.  It is enough for `ThreadsApart`
(`TestsUndisturbed`), with both kinds of `shared_mutex`.  `WorkInv`: a clash
that is expected has been found, or one of the edges that are left, scheduled,
queued or with a thread shows it, and none of these shows another.  The
lemmas under it say that the division into three sets makes every pair of the
configuration once, that the broadphase leaves out no pair that can meet, that the
scheduler gives back the edges it was given, and that the queues share them out.
`ExactReport` (`ReportIsExact`) follows when the work is empty.  It is about the pairs
of ids as the code stores them: that a clash can be there both ways round, of an
object with itself in Clearance, and with either side first in Hard with more than
one thread, is part of the statement.

`PlacesHold` proves `PlacesInv` for Clearance: the entries can be numbered such that
each test that waits has the lower one on the left, because one order of the leaves
made all the pairs of a graph and the graphs come in one order; the scheduler and
the queue keep the sides.  Compared, the smaller one is on the left, and where sizes
are equal still the lower one.  So the two locks of a test are always taken in one
order (`Ahead`), whatever threads there are: of those that hold the first one the
thread that is furthest ahead wants what none of them holds, which is
`LocksNeverCircle` (`LocksInOrder`).  From it and `ThreadsInv` follows
`ThreadsNeverStuck`: until all threads have ended, one of them can take its step, also
where waiting writers go first.

### Optimiser (`OptimiserProofs`)

Bounds are left out of the model, so orders and hierarchies are any; the theorems
hold for all of them, and for any scenes, vertices, floors and limits.

* `LimitsHold` proves `LimitsInv`, from which `LimitsKept` follows: a cluster is
  short (`Short`), a part that `splitMesh` makes has few vertices, and the
  supermesh in work is of whole meshes within both limits.
* `CoverHolds` proves `CoverInv`: each mesh that is wanted is in one place, a job
  to come, a group, a cluster, the stream or the supermesh in work, or each of its
  faces is in exactly one supermesh that the exporter has.  `EachFaceIsShownOnce`
  follows when nothing is to come.  Its premise `FewMeshes` is that no group of a
  scene has more than 2 * `MaxMeshes` + 1 meshes: two clusters beyond the mesh
  limit need one more, and with two of them the code draws some faces twice, which
  is what the run `StorageSupermeshes` shows.  The scenes of the run `Machine`
  satisfy it.
* `KindsHold` proves `KindInv`, from which `FloorsKept` follows: groups, clusters
  and supermeshes are of one look, resource group and floor, and the walk over the
  transformations gives each the floor nearest above it.

What the code's loops compute is proved, not only checked:

* A fold is the last of a sequence of values, one for each element (`InTurn`); what
  holds of the first and is kept by each step holds of the last, by induction over
  the naturals (`InductiveSet`), which comes from the library's `WFMin` and needs
  no theorem with an operator parameter.
* The recursive functions over hierarchies (`Splits`, `BranchClusters`) and over
  the tree of transformations exist: on a set with a well-founded relation a
  function that satisfies the recursion is built from those on smaller sets
  (`Solvable`).  Their values are then known at each argument.
* Every front of a split mesh, whatever the hierarchy, parts its faces (`Parted`);
  every division into branches and bins deals the meshes of a group (`Deals`).

The assumptions are those of the model: meshes of a scene have vertices and do not
share them, a face in a leaf of a hierarchy fits a supermesh, and the
transformations form a tree.

### Mesh map reorganiser (`ReorganiserProofs`)

`RemappedSoFar` proves `RemapInv`, which says of every moment what the property
says of the end.  The vertices up to the end of the last chunk, the faces and the
chunks are laid out as the supermesh up to the mesh in work (`LaidOut`): a chunk
begins where the one before it ends, is within the limits and shows something,
and each of its faces stands for the face of the supermesh at the same place, with
the vertices and the mesh of that one (`ShowsFace`).  Behind them the array holds
the vertices of the meshes to come as they were (`Rest`), however many the parts of
the meshes before them have put in or taken out: the code moves none of the
vertices of a mesh that fits, so they have to lie where its chunk will draw them.
`room` is what the last chunk holds, unless it was closed (`RoomOK`), and
`splitMap` names the chunks that list a mesh, and no others (`NamesChunks`).

* A mesh that fits joins the last chunk or begins one (`PlaceMeshKeeps`): `LayMore`
  says that a block behind what is laid out, listed under its mesh, leaves it so.
* A mesh that does not is cut (`SplitLargeMeshKeeps`).  `CutFacesShow`: the parts
  have the faces of the mesh in their order, with indices into their own vertices,
  and are within the limits; `PartsLaid`: each becomes a chunk; and `Fit` puts their
  vertices in place of the mesh's, whether they are more, because parts name a vertex
  each for itself, or fewer, because no face names it.

`ChunksAreRight` (`ChunksShowSupermesh`) is the invariant when nothing is left: the
rest is empty, so the vertices are the chunks'.  It assumes that a supermesh is of
meshes with faces, that a face has corners, names vertices of its own mesh, and fits
a chunk.

### Only model-checked

* Liveness: `CallsReturn`, `EveryTaskAnswered`, `CommandsEnd`, `ClashEnds`.  Fair
  steps and `ENABLED` are out of the prover's reach.
* The five properties that the code violates, each on a run of its own.

Every safety property of the runs that pass is stated by a theorem.

## 4. What the models show of the code

Each of these has a run and is under "findings" in `PROJECT.json`: a repeated
import leaves two roots (`RevisionRoots`), a drawing processed again may be
hidden (`StorageDrawing`), meshes are drawn twice after a second big cluster
(`StorageSupermeshes`), Clearance reports an object as clashing with itself
(`ClashSelf`), and a clash has the smaller object on the left, not that of set A, so
that two objects may be in two clashes, one each way round (`ClashSides`).

These were met on the way and have no run:

* `ParentsStored` fails with `ParentsWhileHeld = TRUE`: `addParent`
  (`repo_scene_builder.cpp:362`) commits its updates when there are many, also
  that of a node which is still held and not queued yet.  The header (lines
  90-91) asks only that nodes have been added with `addNode`.
* `~AsyncImpl` rethrows the worker's exception (`repo_scene_builder.cpp:413`),
  which ends the process, since a destructor is `noexcept`.
* `commitScene` completes a revision whose tree or bundles failed
  (`repo_scene_manager.cpp:78`), and a `genStash` with the id of a revision whose
  import was killed completes it.
* A `DegenerateTestException` on a thread (`clash_clearance.cpp:343`,
  `clash_hard.cpp:308`) ends the process; the handler in
  `repo_clash_detection_engine.cpp:57-59` is never reached for it.
* `getBounds` reads an entry before its lock is taken (`clash_hard.cpp:279`), while
  another thread may be deforming it: which side of the clash is on the left is then
  a matter of chance.
* The results of uploading a blob file (`repo_blob_files_handler.cpp:30`) and an
  image (`repo_drawing_manager.cpp:56`) are ignored: nodes and revisions then name
  data that is not there.
* A process that ends gives back the seat of its instance
  (`repo_license.cpp:187`), which another process of the machine may hold on to.
* The monitor keeps the entry and the timer of a process that was entered after its
  end (`processMonitor.js:67`), may keep a timer when a message was delivered again,
  and keeps the report of a clash detection that failed.
* `REPO_MODEL_LOW_CLUSTERING_RATIO` (`repo_optimizer_multipart.cpp:46`) is 0.2 in
  an integer, and so 0: the low bins take what one supermesh may hold, not a
  fifth of the model.
* `getAllTransforms` keeps the last root it meets, as the tree maker does.
  Meshes of points are selected by no job.

## 5. Plan

Next, in order of importance:

1. The walk of the selection tree maker, with the id maps it fills.
2. The contexts of the geometry collector.

## 6. Not modelled

Geometry (floating-point predicates, bounding volumes, costs of partitions), file
parsing in the importers, the ODA kernels, BSON serialisation, logging and
vendored code: they are sequential computations over data that TLC cannot
enumerate, or not this project's code.  The maps of `RepoScene` under edits: the
operations that change a graph after it was loaded have no caller but tests,
except `addInheritance` and `clearStash`.
