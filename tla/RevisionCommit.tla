--------------------------- MODULE RevisionCommit ---------------------------
(***************************************************************************)
(* How a revision of a model gets into the database, and who can see it    *)
(* when: runs of the client (client/src/functions.cpp) that import a file  *)
(* or generate a stash, SceneManager::commitScene, RepoScene::commit and   *)
(* RepoScene::loadRevision.                                                *)
(*                                                                         *)
(* A revision can be seen when the status of its document is COMPLETE.     *)
(* An import stores the original file, the revision document, the nodes of *)
(* the scene (before or after that document), the files of the selection   *)
(* tree and the bundles, in that order and without a transaction: any step *)
(* may fail or be the last one of its process.  A task that is delivered   *)
(* again runs the same import for the same revision id, even while the     *)
(* first is still running.                                                 *)
(***************************************************************************)
EXTENDS Integers, FiniteSets

CONSTANTS
  Runs,        \* processes of the client
  Revisions,
  Nodes,       \* the nodes of a scene; with a sequence its documents too
  Root,        \* the transformation the other nodes hang from
  TreeFiles,   \* the files a selection tree is stored in
  Command,     \* what each run does, and to which revision
  Streams,     \* whether an import stores its nodes while it reads the file
  Failures     \* what may go wrong

\* genStash without a revision works on the head of the master branch.
Master == "master"

\* A revision that has no document, and a run that works on no revision.
None == "none"

Commands ==
  [name : {"import"}, rev : Revisions]
    \cup [name : {"tree", "repo"}, rev : Revisions \cup {Master}]

\* "error": an exception ends the run.  "killed": the process ends.  "file": a
\* file cannot be stored.  "original": the imported file cannot be read again.
\* "bundles": bundles are not generated.
AllFailures == {"error", "killed", "file", "original", "bundles"}

ASSUME ScenesAssumption ==
  /\ Root \in Nodes
  /\ IsFiniteSet(Nodes)
  /\ TreeFiles # {}

ASSUME RunsAssumption ==
  /\ Command \in [Runs -> Commands]
  /\ Streams \in [Runs -> BOOLEAN]
  /\ Master \notin Revisions
  /\ None \notin Revisions

ASSUME FailuresAssumption == Failures \subseteq AllFailures

VARIABLES
  \* The database and the file service.
  scene,     \* nodes stored for each revision, each with the run it is from
  raw,       \* revisions whose original file is stored
  history,   \* the revision documents
  tree,      \* what each stored file of a selection tree shows
  bundles,   \* the nodes the bundles of each revision were made from
  clock,     \* the latest timestamp
  \* The runs.
  pc,
  held,      \* the revision document a run has in memory, and if it has a root
  shown,     \* the selection tree a run has made
  left,      \* the files of it that are not stored yet
  last       \* how the latest run that worked on each revision ended

stored == <<scene, raw, history, tree, bundles>>
vars == <<scene, raw, history, tree, bundles, clock, pc, held, shown, left, last>>

Documents == Runs \X Nodes

Statuses == {"GEN_DEFAULT", "GEN_SEL_TREE", "GEN_WEB_STASH", "COMPLETE"}

Steps == {"import", "record", "nodes", "fetch", "loading", "fetched", "readTree",
          "storeTree", "markWeb", "bundles", "complete", "ended"}

Imports == {r \in Runs : Command[r].name = "import"}

Rev(r) == held[r].rev

\* The whole scene, as run r stores it.
SceneOf(r) == {r} \X Nodes

Written(r) == SceneOf(r) \subseteq scene[Rev(r)]

Visible(v) == history[v].status = "COMPLETE"

\* Variant: revisions that are not complete are looked at too.
HeadsOfAny == {v \in Revisions : history[v].status # None
                 /\ \A u \in Revisions : history[u].time <= history[v].time}

\* loadRevision: the newest revision of the branch that can be seen.
Heads == {v \in Revisions : Visible(v)
            /\ \A u \in Revisions : Visible(u) => history[u].time <= history[v].time}

Roots(v) == {d \in scene[v] : d[2] = Root}

\* The tree maker takes the last node it finds no parent for as the root.
Tops(v) == {d \in scene[v] : d[2] = Root \/ <<d[1], Root>> \notin scene[v]}

Below(v, top) ==
  IF top[2] = Root THEN {d \in scene[v] : d[1] = top[1]} ELSE {top}

Init ==
  /\ scene = [v \in Revisions |-> {}]
  /\ raw = {}
  /\ history = [v \in Revisions |-> [status |-> None, time |-> 0]]
  /\ tree = [v \in Revisions |-> [f \in TreeFiles |-> {}]]
  /\ bundles = [v \in Revisions |-> {}]
  /\ clock = 0
  /\ pc = [r \in Runs |-> IF r \in Imports THEN "import" ELSE "fetch"]
  /\ held = [r \in Runs |->
               [rev |-> IF r \in Imports THEN Command[r].rev ELSE None,
                time |-> 0, rooted |-> r \in Imports]]
  /\ shown = [r \in Runs |-> {}]
  /\ left = [r \in Runs |-> {}]
  /\ last = [v \in Revisions |-> None]

Goto(r, step) == pc' = [pc EXCEPT ![r] = step]

End(r, how) ==
  /\ Goto(r, "ended")
  /\ last' = [v \in Revisions |-> IF v = Rev(r) THEN how ELSE last[v]]

\* updateRevisionStatus, and the first write of the document: all of it is
\* replaced by the one the run holds.
Mark(r, status) ==
  history' = [history EXCEPT ![Rev(r)] =
                [status |-> status, time |-> held[r].time]]

(***************************************************************************)
(* Import.                                                                 *)
(***************************************************************************)
\* Insertion of a node, by the scene builder during the import or by
\* commitSceneChanges after the revision document.
WriteNode(r, n) ==
  /\ \/ pc[r] = "import" /\ r \in Imports /\ Streams[r]
     \/ pc[r] = "nodes"
  /\ <<r, n>> \notin scene[Rev(r)]
  /\ scene' = [scene EXCEPT ![Rev(r)] = @ \cup {<<r, n>>}]
  /\ UNCHANGED <<raw, history, tree, bundles, clock, pc, held, shown, left, last>>

\* Variant: the result of the upload is not looked at.
CommitUnchecked(r) ==
  /\ pc[r] = "import"
  /\ Streams[r] => Written(r)
  /\ clock' = clock + 1
  /\ held' = [held EXCEPT ![r].time = clock + 1]
  /\ Goto(r, "record")
  /\ \/ raw' = raw \cup {Rev(r)}
     \/ {"original", "file"} \cap Failures # {} /\ UNCHANGED raw
  /\ UNCHANGED <<scene, history, tree, bundles, shown, left, last>>

\* commitRevisionNode up to the original file, whose name has the revision id.
Commit(r) ==
  /\ pc[r] = "import"
  /\ Streams[r] => Written(r)
  /\ clock' = clock + 1
  /\ held' = [held EXCEPT ![r].time = clock + 1]
  /\ \/ /\ raw' = raw \cup {Rev(r)}
        /\ Goto(r, "record")
        /\ UNCHANGED last
     \/ /\ "original" \in Failures
        /\ Goto(r, "record")
        /\ UNCHANGED <<raw, last>>
     \/ /\ "file" \in Failures
        /\ End(r, "error")
        /\ UNCHANGED raw
  /\ UNCHANGED <<scene, history, tree, bundles, shown, left>>

\* Variant: a new document is left with the status it is constructed with.
RecordComplete(r) ==
  /\ pc[r] = "record"
  /\ Mark(r, "COMPLETE")
  /\ Goto(r, "nodes")
  /\ UNCHANGED <<scene, raw, tree, bundles, clock, held, shown, left, last>>

\* The revision document is stored.
Record(r) ==
  /\ pc[r] = "record"
  /\ Mark(r, "GEN_DEFAULT")
  /\ Goto(r, "nodes")
  /\ UNCHANGED <<scene, raw, tree, bundles, clock, held, shown, left, last>>

(***************************************************************************)
(* Generation of a stash: _generateStash.                                  *)
(***************************************************************************)
\* Nothing keeps other runs from adding nodes before the scene is read too.
LoadRevision(r, v) ==
  /\ pc[r] = "fetch"
  /\ IF Command[r].rev = Master
     THEN v \in Heads
     ELSE v = Command[r].rev /\ history[v].status # None
  /\ held' = [held EXCEPT ![r] = [rev |-> v, time |-> history[v].time, rooted |-> FALSE]]
  /\ Goto(r, "loading")
  /\ UNCHANGED <<stored, clock, shown, left, last>>

\* A scene with two roots is refused.
LoadScene(r) ==
  /\ pc[r] = "loading"
  /\ held' = [held EXCEPT ![r].rooted = Roots(Rev(r)) # {}]
  /\ IF Cardinality(Roots(Rev(r))) > 1
     THEN End(r, "error")
     ELSE Goto(r, "fetched") /\ UNCHANGED last
  /\ UNCHANGED <<stored, clock, shown, left>>

\* Variant: a scene that was not found is worked on.
FetchUnchecked(r) ==
  /\ pc[r] = "fetch"
  /\ IF Command[r].rev = Master
     THEN Heads = {}
     ELSE history[Command[r].rev].status = None
  /\ Goto(r, "fetched")
  /\ UNCHANGED <<stored, clock, held, shown, left, last>>

\* There is no such revision.
FetchNothing(r) ==
  /\ pc[r] = "fetch"
  /\ IF Command[r].rev = Master
     THEN Heads = {}
     ELSE history[Command[r].rev].status = None
  /\ End(r, "error")
  /\ UNCHANGED <<stored, clock, held, shown, left>>

(***************************************************************************)
(* The selection tree and the bundles: commitScene and _generateStash.     *)
(***************************************************************************)
\* Variant: the tree is made before the nodes are stored.
MarkTreeEarly(r) ==
  /\ \/ pc[r] = "nodes"
     \/ pc[r] = "fetched" /\ Command[r].name = "tree"
  /\ Mark(r, "GEN_SEL_TREE")
  /\ Goto(r, "readTree")
  /\ UNCHANGED <<scene, raw, tree, bundles, clock, held, shown, left, last>>

MarkTree(r) ==
  /\ \/ pc[r] = "nodes" /\ Written(r)
     \/ pc[r] = "fetched" /\ Command[r].name = "tree"
  /\ Mark(r, "GEN_SEL_TREE")
  /\ Goto(r, "readTree")
  /\ UNCHANGED <<scene, raw, tree, bundles, clock, held, shown, left, last>>

\* Without a node the tree maker follows a null pointer.
ReadTree(r) ==
  /\ pc[r] = "readTree"
  /\ IF Tops(Rev(r)) = {}
     THEN End(r, "killed") /\ UNCHANGED <<shown, left>>
     ELSE /\ \E top \in Tops(Rev(r)) :
               shown' = [shown EXCEPT ![r] = Below(Rev(r), top)]
          /\ left' = [left EXCEPT ![r] = TreeFiles]
          /\ Goto(r, "storeTree")
          /\ UNCHANGED last
  /\ UNCHANGED <<stored, clock, held>>

StoreTree(r, f) ==
  /\ pc[r] = "storeTree"
  /\ f \in left[r]
  /\ tree' = [tree EXCEPT ![Rev(r)][f] = shown[r]]
  /\ left' = [left EXCEPT ![r] = @ \ {f}]
  /\ UNCHANGED <<scene, raw, history, bundles, clock, pc, held, shown, last>>

TreeStored(r) ==
  /\ pc[r] = "storeTree"
  /\ left[r] = {}
  /\ Goto(r, IF r \in Imports THEN "markWeb" ELSE "complete")
  /\ UNCHANGED <<stored, clock, held, shown, left, last>>

\* commitScene goes on without the tree.
TreeFails(r) ==
  /\ pc[r] = "storeTree"
  /\ left[r] # {}
  /\ "file" \in Failures
  /\ IF r \in Imports THEN Goto(r, "markWeb") /\ UNCHANGED last ELSE End(r, "error")
  /\ UNCHANGED <<stored, clock, held, shown, left>>

MarkWeb(r) ==
  /\ \/ pc[r] = "markWeb"
     \/ pc[r] = "fetched" /\ Command[r].name = "repo"
  /\ Mark(r, "GEN_WEB_STASH")
  /\ Goto(r, "bundles")
  /\ UNCHANGED <<scene, raw, tree, bundles, clock, held, shown, left, last>>

\* generateWebViewBuffers needs a root in the scene that the run has in
\* memory, the optimiser one in the database.
Bundle(r) ==
  /\ pc[r] = "bundles"
  /\ IF ~held[r].rooted \/ Roots(Rev(r)) = {}
     THEN End(r, "error") /\ UNCHANGED bundles
     ELSE /\ bundles' = [bundles EXCEPT ![Rev(r)] = scene[Rev(r)]]
          /\ Goto(r, "complete")
          /\ UNCHANGED last
  /\ UNCHANGED <<scene, raw, history, tree, clock, held, shown, left>>

\* commitScene goes on without the bundles.
BundlesFail(r) ==
  /\ pc[r] = "bundles"
  /\ "bundles" \in Failures
  /\ IF r \in Imports THEN Goto(r, "complete") /\ UNCHANGED last ELSE End(r, "error")
  /\ UNCHANGED <<stored, clock, held, shown, left>>

\* Variant: a revision whose tree is not stored stays hidden, but the run
\* still returns success.
CompleteIfStored(r) ==
  /\ pc[r] = "complete"
  /\ IF left[r] = {} THEN Mark(r, "COMPLETE") ELSE UNCHANGED history
  /\ End(r, "ok")
  /\ UNCHANGED <<scene, raw, tree, bundles, clock, held, shown, left>>

\* The revision can be seen, and the run returns REPOERR_OK.
Complete(r) ==
  /\ pc[r] = "complete"
  /\ Mark(r, "COMPLETE")
  /\ End(r, "ok")
  /\ UNCHANGED <<scene, raw, tree, bundles, clock, held, shown, left>>

\* An exception leaves the run, or its process ends, between any two steps.
Break(r, how) ==
  /\ pc[r] # "ended"
  /\ how \in {"error", "killed"} \cap Failures
  /\ End(r, how)
  /\ UNCHANGED <<stored, clock, held, shown, left>>

(***************************************************************************)
(* The specification.                                                      *)
(***************************************************************************)
RunStep(r) ==
  \/ \E n \in Nodes : WriteNode(r, n)
  \/ Commit(r) \/ Record(r)
  \/ \E v \in Revisions : LoadRevision(r, v)
  \/ LoadScene(r) \/ FetchNothing(r)
  \/ MarkTree(r) \/ ReadTree(r)
  \/ \E f \in TreeFiles : StoreTree(r, f)
  \/ TreeStored(r) \/ TreeFails(r)
  \/ MarkWeb(r) \/ Bundle(r) \/ BundlesFail(r)
  \/ Complete(r)
  \/ \E how \in {"error", "killed"} : Break(r, how)

Finished == (\A r \in Runs : pc[r] = "ended") /\ UNCHANGED vars

Next == (\E r \in Runs : RunStep(r)) \/ Finished

Spec == Init /\ [][Next]_vars

TypeOK ==
  /\ scene \in [Revisions -> SUBSET Documents]
  /\ raw \subseteq Revisions
  /\ history \in [Revisions -> [status : Statuses \cup {None}, time : Nat]]
  /\ tree \in [Revisions -> [TreeFiles -> SUBSET Documents]]
  /\ bundles \in [Revisions -> SUBSET Documents]
  /\ clock \in Nat
  /\ pc \in [Runs -> Steps]
  /\ held \in [Runs -> [rev : Revisions \cup {None}, time : Nat, rooted : BOOLEAN]]
  /\ shown \in [Runs -> SUBSET Documents]
  /\ left \in [Runs -> SUBSET TreeFiles]
  /\ last \in [Revisions -> {None, "ok", "error", "killed"}]
  \* A run that stores something has a revision to store it for.
  /\ \A r \in Runs : pc[r] \notin {"fetch", "ended"} => Rev(r) \in Revisions
-----------------------------------------------------------------------------
(* What the runs guarantee.  The first and the last property below need    *)
(* that genStash is only used on heads.                                    *)

StashesOfHeads == \A r \in Runs \ Imports : Command[r].rev = Master

\* No import runs twice: no task is delivered again.
ImportedOnce ==
  \A i, j \in Imports : Command[i].rev = Command[j].rev => i = j

\* The scenes that may be stored for v, each by one of its imports.
ScenesOf(v) == {SceneOf(r) : r \in {i \in Imports : Command[i].rev = v}}

\* Nobody sees a revision before an import has stored its whole scene, no
\* matter which of its runs fail, are killed, or work on it at once.
VisibleSceneComplete ==
  \A v \in Revisions : Visible(v) => \E s \in ScenesOf(v) : s \subseteq scene[v]

\* A run that is at work on v.
At(r, v) == Rev(r) = v /\ pc[r] \notin {"fetch", "ended"}

\* If the last run on a revision to end reported success and no other one is
\* at work on it, the revision can be seen: what the task queue has been told
\* last is what readers find, whatever an earlier or overlapping run left.
LastOkIsVisible ==
  \A v \in Revisions :
    last[v] = "ok" /\ (\A r \in Runs : ~At(r, v)) => Visible(v)

\* A revision document never names an original file that is not stored, also
\* if the run ended in between.
RawFileBeforeRevision ==
  \A v \in Revisions : history[v].status # None => v \in raw

\* Where every revision is imported once, each file of a tree and the bundles
\* are made from the whole scene of their revision.
StashesOfWholeScene ==
  \A v \in Revisions :
    \A stash \in {tree[v][f] : f \in TreeFiles} \cup {bundles[v]} :
      stash # {} => stash \in ScenesOf(v)

\* Where every revision is imported once, a visible revision holds exactly
\* one scene, and keeps it.
Published == INSTANCE PublishedRevisions WITH
  Documents <- Documents,
  Scenes <- {SceneOf(r) : r \in Imports},
  content <- scene,
  visible <- {v \in Revisions : Visible(v)}

ImplementsPublished == Published!Spec

\* repo_scene.cpp:479: two candidates for the root are "possibly an invalid
\* Scene Graph"; a revision that can be seen has one.
OneRootWhenVisible ==
  \A v \in Revisions : Visible(v) => Cardinality(Roots(v)) = 1
=============================================================================
