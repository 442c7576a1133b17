------------------------ MODULE RevisionCommitProofs ------------------------
(***************************************************************************)
(* Proofs about RevisionCommit.                                            *)
(***************************************************************************)
EXTENDS RevisionCommit, TLAPS

LEMMA InitType == Init => TypeOK
<1> SUFFICES ASSUME Init PROVE TypeOK
  OBVIOUS
<1>1. \A r \in Imports : Command[r].rev \in Revisions
  BY RunsAssumption DEF Imports, Commands
<1>2. held \in [Runs -> [rev : Revisions \cup {None}, time : Nat, rooted : BOOLEAN]]
  BY <1>1 DEF Init, Imports
<1>3. \A r \in Runs : pc[r] \notin {"fetch", "ended"} => Rev(r) \in Revisions
  BY <1>1 DEF Init, Rev
<1>4. history \in [Revisions -> [status : Statuses \cup {None}, time : Nat]]
  BY DEF Init
<1>5. tree \in [Revisions -> [TreeFiles -> SUBSET Documents]]
  BY DEF Init
<1>6. pc \in [Runs -> Steps]
  BY DEF Init, Steps
<1> QED BY <1>2, <1>3, <1>4, <1>5, <1>6 DEF Init, TypeOK

\* The effects that the steps of a run share.
LEMMA GotoType ==
  ASSUME TypeOK, NEW r \in Runs, NEW step \in Steps, Goto(r, step)
  PROVE  pc' \in [Runs -> Steps]
BY DEF TypeOK, Goto

LEMMA EndType ==
  ASSUME TypeOK, NEW r \in Runs, NEW how \in {"ok", "error", "killed"}, End(r, how)
  PROVE  /\ pc' \in [Runs -> Steps]
         /\ last' \in [Revisions -> {None, "ok", "error", "killed"}]
         /\ pc' = [pc EXCEPT ![r] = "ended"]
BY DEF TypeOK, End, Goto, Steps

LEMMA MarkType ==
  ASSUME TypeOK, NEW r \in Runs, NEW status \in Statuses, Mark(r, status)
  PROVE  history' \in [Revisions -> [status : Statuses \cup {None}, time : Nat]]
<1>1. held[r].time \in Nat
  BY DEF TypeOK
<1> QED BY <1>1 DEF TypeOK, Mark

LEMMA StepType ==
  ASSUME TypeOK, NEW r \in Runs, RunStep(r)
  PROVE  TypeOK'
<1> USE DEF TypeOK
<1>0. Rev(r) \in Revisions \cup {None}
  BY DEF Rev
<1>1. ASSUME NEW n \in Nodes, WriteNode(r, n) PROVE TypeOK'
  <2>1. <<r, n>> \in Documents
    BY DEF Documents
  <2> QED BY <1>1, <2>1 DEF WriteNode, Rev
<1>2. CASE Commit(r)
  <2>1. Rev(r) \in Revisions /\ clock' \in Nat /\ raw' \subseteq Revisions
    BY SMTT(30), <1>2 DEF Commit, Rev
  <2> DEFINE Held == [rev : Revisions \cup {None}, time : Nat, rooted : BOOLEAN]
  <2>6. held[r] \in Held /\ clock + 1 \in Nat
    OBVIOUS
  <2>7. [held[r] EXCEPT !.time = clock + 1] \in Held
    BY <2>6
  <2>8. held' = [held EXCEPT ![r] = [held[r] EXCEPT !.time = clock + 1]]
    BY <1>2 DEF Commit
  <2>2. held' \in [Runs -> Held]
    BY <2>7, <2>8
  <2>3. \A q \in Runs : held'[q].rev = held[q].rev
    BY <1>2 DEF Commit
  <2>4. pc' \in [Runs -> Steps] /\ last' \in [Revisions -> {None, "ok", "error", "killed"}]
    BY <1>2, GotoType, EndType DEF Commit, Steps
  <2>5. \A q \in Runs : pc'[q] \notin {"fetch", "ended"} => pc[q] \notin {"fetch", "ended"}
    BY <1>2 DEF Commit, Goto, End
  <2> QED BY <1>2, <2>1, <2>2, <2>3, <2>4, <2>5 DEF Commit, Rev
<1>3. CASE Record(r)
  <2>1. history' \in [Revisions -> [status : Statuses \cup {None}, time : Nat]]
    BY <1>3, MarkType DEF Record, Statuses
  <2> QED BY <1>3, <2>1, GotoType DEF Record, Rev, Goto, Steps
<1>4. ASSUME NEW v \in Revisions, LoadRevision(r, v) PROVE TypeOK'
  <2>1. held' \in [Runs -> [rev : Revisions \cup {None}, time : Nat, rooted : BOOLEAN]]
    BY <1>4 DEF LoadRevision
  <2>2. \A q \in Runs : q # r => held'[q].rev = held[q].rev
    BY <1>4 DEF LoadRevision
  <2>3. held'[r].rev = v
    BY <1>4 DEF LoadRevision
  <2>4. pc' \in [Runs -> Steps] /\ \A q \in Runs : q # r => pc'[q] = pc[q]
    BY <1>4 DEF LoadRevision, Goto, Steps
  <2> QED BY <1>4, <2>1, <2>2, <2>3, <2>4 DEF LoadRevision, Rev, stored
<1>16. CASE LoadScene(r)
  <2> DEFINE Held == [rev : Revisions \cup {None}, time : Nat, rooted : BOOLEAN]
             loaded == [held[r] EXCEPT !.rooted = Roots(Rev(r)) # {}]
  <2>1. held[r] \in Held /\ (Roots(Rev(r)) # {}) \in BOOLEAN
    OBVIOUS
  <2>2. loaded \in Held
    BY <2>1
  <2>3. held' = [held EXCEPT ![r] = loaded]
    BY <1>16 DEF LoadScene
  <2>4. held' \in [Runs -> Held]
    BY <2>2, <2>3
  <2>5. \A q \in Runs : held'[q].rev = held[q].rev
    BY <1>16 DEF LoadScene
  <2>6. pc' \in [Runs -> Steps] /\ last' \in [Revisions -> {None, "ok", "error", "killed"}]
    BY <1>16, GotoType, EndType DEF LoadScene, Steps
  <2>7. \A q \in Runs : pc'[q] \notin {"fetch", "ended"} => pc[q] \notin {"fetch", "ended"}
    BY <1>16 DEF LoadScene, Goto, End
  <2> QED BY <1>16, <2>4, <2>5, <2>6, <2>7 DEF LoadScene, stored, Rev
<1>5. CASE FetchNothing(r)
  BY <1>5, EndType DEF FetchNothing, stored, Rev
<1>6. CASE MarkTree(r)
  <2>1. history' \in [Revisions -> [status : Statuses \cup {None}, time : Nat]]
    BY <1>6, MarkType DEF MarkTree, Statuses
  <2> QED BY <1>6, <2>1, GotoType DEF MarkTree, Rev, Goto, Steps
<1>7. CASE ReadTree(r)
  <2>1. Rev(r) \in Revisions
    BY <1>7 DEF ReadTree, Rev
  <2>2. \A top \in Tops(Rev(r)) : Below(Rev(r), top) \subseteq Documents
    BY <2>1 DEF Tops, Below
  <2>6. \/ UNCHANGED <<shown, left>>
        \/ /\ \E top \in Tops(Rev(r)) : shown' = [shown EXCEPT ![r] = Below(Rev(r), top)]
           /\ left' = [left EXCEPT ![r] = TreeFiles]
    BY <1>7 DEF ReadTree
  <2>7. ASSUME NEW S \in SUBSET Documents, shown' = [shown EXCEPT ![r] = S]
        PROVE  shown' \in [Runs -> SUBSET Documents]
    BY <2>7
  <2>8. shown' \in [Runs -> SUBSET Documents]
    BY <2>2, <2>6, <2>7
  <2>9. left' \in [Runs -> SUBSET TreeFiles]
    BY <2>6
  <2>3. shown' \in [Runs -> SUBSET Documents] /\ left' \in [Runs -> SUBSET TreeFiles]
    BY <2>8, <2>9
  <2>4. pc' \in [Runs -> Steps] /\ last' \in [Revisions -> {None, "ok", "error", "killed"}]
    BY <1>7, EndType, GotoType DEF ReadTree, Steps
  <2>5. \A q \in Runs : pc'[q] \notin {"fetch", "ended"} => pc[q] \notin {"fetch", "ended"}
    BY <1>7 DEF ReadTree, Goto, End
  <2> QED BY <1>7, <2>3, <2>4, <2>5 DEF ReadTree, stored, Rev
<1>8. ASSUME NEW f \in TreeFiles, StoreTree(r, f) PROVE TypeOK'
  <2>1. Rev(r) \in Revisions /\ shown[r] \subseteq Documents
    BY <1>8 DEF StoreTree, Rev
  <2>2. tree' \in [Revisions -> [TreeFiles -> SUBSET Documents]]
    BY <1>8, <2>1 DEF StoreTree
  <2> QED BY <1>8, <2>2 DEF StoreTree, Rev
<1>9. CASE TreeStored(r)
  BY <1>9, GotoType DEF TreeStored, stored, Rev, Goto, Steps
<1>10. CASE TreeFails(r)
  <2>1. pc' \in [Runs -> Steps] /\ last' \in [Revisions -> {None, "ok", "error", "killed"}]
    BY <1>10, EndType, GotoType DEF TreeFails, Steps
  <2>2. \A q \in Runs : pc'[q] \notin {"fetch", "ended"} => pc[q] \notin {"fetch", "ended"}
    BY <1>10 DEF TreeFails, Goto, End
  <2> QED BY <1>10, <2>1, <2>2 DEF TreeFails, stored, Rev
<1>11. CASE MarkWeb(r)
  <2>1. history' \in [Revisions -> [status : Statuses \cup {None}, time : Nat]]
    BY <1>11, MarkType DEF MarkWeb, Statuses
  <2> QED BY <1>11, <2>1, GotoType DEF MarkWeb, Rev, Goto, Steps
<1>12. CASE Bundle(r)
  <2>1. Rev(r) \in Revisions
    BY <1>12 DEF Bundle, Rev
  <2>2. bundles' \in [Revisions -> SUBSET Documents]
    BY <1>12, <2>1 DEF Bundle
  <2>3. pc' \in [Runs -> Steps] /\ last' \in [Revisions -> {None, "ok", "error", "killed"}]
    BY <1>12, EndType, GotoType DEF Bundle, Steps
  <2>4. \A q \in Runs : pc'[q] \notin {"fetch", "ended"} => pc[q] \notin {"fetch", "ended"}
    BY <1>12 DEF Bundle, Goto, End
  <2> QED BY <1>12, <2>2, <2>3, <2>4 DEF Bundle, Rev
<1>13. CASE BundlesFail(r)
  <2>1. pc' \in [Runs -> Steps] /\ last' \in [Revisions -> {None, "ok", "error", "killed"}]
    BY <1>13, EndType, GotoType DEF BundlesFail, Steps
  <2>2. \A q \in Runs : pc'[q] \notin {"fetch", "ended"} => pc[q] \notin {"fetch", "ended"}
    BY <1>13 DEF BundlesFail, Goto, End
  <2> QED BY <1>13, <2>1, <2>2 DEF BundlesFail, stored, Rev
<1>14. CASE Complete(r)
  <2>1. history' \in [Revisions -> [status : Statuses \cup {None}, time : Nat]]
    BY <1>14, MarkType DEF Complete, Statuses
  <2> QED BY <1>14, <2>1, EndType DEF Complete, Rev
<1>15. ASSUME NEW how \in {"error", "killed"}, Break(r, how) PROVE TypeOK'
  BY <1>15, EndType DEF Break, stored, Rev
<1> QED
  BY <1>1, <1>2, <1>3, <1>4, <1>5, <1>6, <1>7, <1>8, <1>9, <1>10, <1>11, <1>12, <1>13, <1>14, <1>15,
     <1>16
  DEF RunStep

LEMMA NextType == TypeOK /\ [Next]_vars => TypeOK'
<1> SUFFICES ASSUME TypeOK, [Next]_vars PROVE TypeOK'
  OBVIOUS
<1>1. CASE \E r \in Runs : RunStep(r)
  BY <1>1, StepType
<1>2. CASE UNCHANGED vars
  BY <1>2 DEF vars, TypeOK, Rev
<1> QED BY <1>1, <1>2 DEF Next, Finished

\* Type correctness, with the fact that a run that stores something has found
\* the revision it works on.
THEOREM TypeCorrect == Spec => []TypeOK
BY InitType, NextType, PTL DEF Spec
-----------------------------------------------------------------------------
(* What a step of a run changes.                                           *)

LEMMA OthersUnchanged ==
  ASSUME TypeOK, NEW r \in Runs, RunStep(r), NEW q \in Runs, q # r
  PROVE  pc'[q] = pc[q] /\ held'[q] = held[q]
BY DEF TypeOK, RunStep, Goto, End, WriteNode, Commit, Record, LoadRevision, LoadScene,
         FetchNothing, MarkTree, ReadTree, StoreTree,
         TreeStored, TreeFails, MarkWeb, Bundle, BundlesFail, Complete, Break

LEMMA SceneGrows ==
  ASSUME TypeOK, NEW r \in Runs, RunStep(r), NEW v \in Revisions
  PROVE  scene[v] \subseteq scene'[v]
BY DEF TypeOK, RunStep, stored, WriteNode, Commit, Record, LoadRevision, LoadScene,
         FetchNothing, MarkTree, ReadTree, StoreTree,
         TreeStored, TreeFails, MarkWeb, Bundle, BundlesFail, Complete, Break

\* The steps that store a revision document, and what they leave in it.
LEMMA HistorySteps ==
  ASSUME TypeOK, NEW r \in Runs, RunStep(r), NEW v \in Revisions
  PROVE  \/ history'[v] = history[v]
         \/ /\ v = Rev(r)
            /\ pc[r] \in {"record", "nodes", "fetched", "markWeb"}
            /\ pc'[r] \notin {"fetch", "ended"}
            /\ history'[v].status \in Statuses \ {"COMPLETE"}
         \/ /\ v = Rev(r)
            /\ pc[r] = "complete"
            /\ history'[v].status = "COMPLETE"
<1>1. CASE Record(r) \/ MarkTree(r) \/ MarkWeb(r)
  <2>1. PICK status \in Statuses \ {"COMPLETE"} :
          /\ Mark(r, status)
          /\ pc[r] \in {"record", "nodes", "fetched", "markWeb"}
          /\ pc' = [pc EXCEPT ![r] = pc'[r]] /\ pc'[r] \notin {"fetch", "ended"}
    BY <1>1 DEF Record, MarkTree, MarkWeb, Goto, Statuses, TypeOK
  <2> QED BY <2>1 DEF TypeOK, Mark
<1>2. CASE Complete(r)
  BY <1>2 DEF Complete, Mark, TypeOK
<1>3. CASE ~(Record(r) \/ MarkTree(r) \/ MarkWeb(r) \/ Complete(r))
  BY <1>3 DEF RunStep, stored, WriteNode, Commit, LoadRevision, LoadScene,
         FetchNothing, ReadTree, StoreTree,
         TreeStored, TreeFails, Bundle, BundlesFail, Break
<1> QED BY <1>1, <1>2, <1>3

\* The steps that a run's program counter may take.
Deriving == {"loading", "fetched", "readTree", "storeTree", "markWeb", "bundles", "complete"}

LEMMA ControlSteps ==
  ASSUME TypeOK, NEW r \in Runs, RunStep(r)
  PROVE  \/ /\ Rev(r)' = Rev(r)
            /\ \/ pc'[r] = pc[r]
               \/ pc[r] = "import" /\ pc'[r] = "record"
               \/ pc[r] = "record" /\ pc'[r] = "nodes"
               \/ pc[r] = "nodes" /\ Written(r) /\ pc'[r] = "readTree"
               \/ pc[r] = "loading" /\ pc'[r] = "fetched"
               \/ pc[r] \in Deriving /\ pc'[r] \in Deriving \ {"loading", "fetched"}
               \/ pc'[r] = "ended"
         \/ \E v \in Revisions :
              /\ pc[r] = "fetch" /\ pc'[r] = "loading" /\ Rev(r)' = v
              /\ Command[r].rev = Master => Visible(v)
              /\ history[v].status # None
<1>1. ASSUME NEW v \in Revisions, LoadRevision(r, v)
      PROVE  /\ pc[r] = "fetch" /\ pc'[r] = "loading" /\ Rev(r)' = v
             /\ Command[r].rev = Master => Visible(v)
             /\ history[v].status # None
  <2>1. held'[r].rev = v /\ pc'[r] = "loading"
    BY <1>1 DEF LoadRevision, TypeOK, Goto
  <2> QED BY <1>1, <2>1 DEF LoadRevision, Heads, Visible, Rev, None
<1>7. CASE LoadScene(r)
  <2>1. held'[r].rev = held[r].rev
    BY <1>7 DEF LoadScene, TypeOK
  <2> QED BY <1>7, <2>1 DEF LoadScene, TypeOK, Goto, End, Rev, Deriving
<1>2. CASE Commit(r)
  <2>1. held'[r].rev = held[r].rev
    BY <1>2 DEF Commit, TypeOK
  <2> QED BY <1>2, <2>1 DEF Commit, TypeOK, Goto, End, Rev
<1>3. CASE \E n \in Nodes : WriteNode(r, n)
  BY <1>3 DEF WriteNode, Rev
<1>4. CASE Record(r) \/ FetchNothing(r) \/ \E how \in {"error", "killed"} : Break(r, how)
  BY <1>4 DEF Record, FetchNothing, Break, TypeOK, Goto, End, Rev
<1>5. CASE MarkTree(r) \/ ReadTree(r) \/ TreeStored(r) \/ TreeFails(r)
            \/ \E f \in TreeFiles : StoreTree(r, f)
  BY <1>5 DEF MarkTree, ReadTree, TreeStored, TreeFails, StoreTree, TypeOK, Goto, End, Rev, Deriving
<1>6. CASE MarkWeb(r) \/ Bundle(r) \/ BundlesFail(r) \/ Complete(r)
  BY <1>6 DEF MarkWeb, Bundle, BundlesFail, Complete, TypeOK, Goto, End, Rev, Deriving
<1> QED BY <1>1, <1>2, <1>3, <1>4, <1>5, <1>6, <1>7 DEF RunStep
-----------------------------------------------------------------------------
(* Which commands are at which step.                                       *)

StepsOfCommands ==
  \A r \in Runs :
    /\ r \in Imports => Rev(r) = Command[r].rev /\ pc[r] \notin {"fetch", "loading", "fetched"}
    /\ r \notin Imports => pc[r] \notin {"import", "record", "nodes"}
    /\ pc[r] = "fetch" => Rev(r) = None

LEMMA InitSteps == Init => StepsOfCommands
BY DEF Init, StepsOfCommands, Imports, Rev

LEMMA NextSteps == TypeOK /\ StepsOfCommands /\ [Next]_vars => StepsOfCommands'
<1> SUFFICES ASSUME TypeOK, StepsOfCommands, [Next]_vars PROVE StepsOfCommands'
  OBVIOUS
<1>1. ASSUME NEW r \in Runs, RunStep(r) PROVE StepsOfCommands'
  BY <1>1, OthersUnchanged, ControlSteps DEF StepsOfCommands, Deriving, Rev
<1>2. CASE UNCHANGED vars
  BY <1>2 DEF vars, StepsOfCommands, Rev
<1> QED BY <1>1, <1>2 DEF Next, Finished
-----------------------------------------------------------------------------
(* A visible revision has a whole scene.                                   *)

WholeStored(v) == \E s \in ScenesOf(v) : s \subseteq scene[v]

\* A run that derives a tree or bundles from a revision works on a whole scene.
DerivedFromWhole == \A r \in Runs : pc[r] \in Deriving => WholeStored(Rev(r))

LEMMA WholeStays ==
  ASSUME TypeOK, NEW r \in Runs, RunStep(r), NEW v \in Revisions, WholeStored(v)
  PROVE  WholeStored(v)'
<1>1. PICK s \in ScenesOf(v) : s \subseteq scene[v]
  BY DEF WholeStored
<1>2. s \subseteq scene'[v]
  BY <1>1, SceneGrows
<1> QED BY <1>1, <1>2 DEF WholeStored

LEMMA WholeStep ==
  ASSUME StashesOfHeads, TypeOK, TypeOK', StepsOfCommands, DerivedFromWhole, VisibleSceneComplete,
         NEW r \in Runs, RunStep(r)
  PROVE  DerivedFromWhole' /\ VisibleSceneComplete'
<1>1. \A v \in Revisions : Visible(v) => WholeStored(v)
  BY DEF VisibleSceneComplete, WholeStored
<1>2. ASSUME pc[r] = "nodes", Written(r) PROVE WholeStored(Rev(r))
  <2>1. r \in Imports /\ Rev(r) = Command[r].rev
    BY <1>2 DEF StepsOfCommands
  <2> QED BY <1>2, <2>1 DEF WholeStored, ScenesOf, Written
<1>3. ASSUME NEW q \in Runs, pc'[q] \in Deriving PROVE WholeStored(Rev(q))'
  <2>1. Rev(q)' \in Revisions
    BY <1>3 DEF TypeOK, Deriving, Rev
  <2>2. CASE q # r
    <3>1. pc[q] \in Deriving /\ Rev(q)' = Rev(q)
      BY <1>3, <2>2, OthersUnchanged DEF Rev
    <3>2. WholeStored(Rev(q))
      BY <3>1 DEF DerivedFromWhole
    <3> QED BY <2>1, <3>1, <3>2, WholeStays DEF WholeStored
  <2>3. CASE q = r /\ Rev(r)' = Rev(r)
    <3>1. pc[r] \in Deriving \/ (pc[r] = "nodes" /\ Written(r)) \/ pc[r] = "fetch"
      BY <1>3, <2>3, ControlSteps DEF Deriving
    <3>2. pc[r] # "fetch"
      BY <2>1, <2>3, RunsAssumption DEF StepsOfCommands
    <3>3. WholeStored(Rev(r))
      BY <3>1, <3>2, <1>2 DEF DerivedFromWhole
    <3> QED BY <2>1, <2>3, <3>3, WholeStays DEF WholeStored
  <2>4. CASE q = r /\ Rev(r)' # Rev(r)
    <3>1. PICK v \in Revisions : /\ pc[r] = "fetch" /\ Rev(r)' = v
                                 /\ Command[r].rev = Master => Visible(v)
      BY <2>4, ControlSteps
    <3>2. Command[r].rev = Master
      BY <3>1 DEF StepsOfCommands, StashesOfHeads
    <3>3. WholeStored(v)'
      BY <1>1, <3>1, <3>2, WholeStays
    <3> QED BY <2>4, <3>1, <3>3 DEF WholeStored
  <2> QED BY <2>2, <2>3, <2>4
<1>4. ASSUME NEW v \in Revisions, Visible(v)' PROVE WholeStored(v)'
  <2>1. Visible(v) \/ (v = Rev(r) /\ pc[r] = "complete")
    BY <1>4, HistorySteps DEF Visible
  <2>2. WholeStored(v)
    BY <1>1, <2>1 DEF DerivedFromWhole, Deriving
  <2> QED BY <2>2, WholeStays
<1> QED BY <1>3, <1>4 DEF DerivedFromWhole, VisibleSceneComplete, WholeStored

WholeInv == TypeOK /\ StepsOfCommands /\ DerivedFromWhole /\ VisibleSceneComplete

LEMMA InitWhole == Init => WholeInv
<1> SUFFICES ASSUME Init PROVE WholeInv
  OBVIOUS
<1>1. DerivedFromWhole /\ VisibleSceneComplete
  BY DEF Init, DerivedFromWhole, Deriving, VisibleSceneComplete, Visible, None
<1> QED BY <1>1, InitType, InitSteps DEF WholeInv

LEMMA NextWhole ==
  ASSUME StashesOfHeads
  PROVE  WholeInv /\ [Next]_vars => WholeInv'
<1> SUFFICES ASSUME WholeInv, [Next]_vars PROVE WholeInv'
  OBVIOUS
<1>1. TypeOK' /\ StepsOfCommands'
  BY NextType, NextSteps DEF WholeInv
<1>2. CASE \E r \in Runs : RunStep(r)
  BY <1>1, <1>2, WholeStep DEF WholeInv
<1>3. CASE UNCHANGED vars
  BY <1>1, <1>3 DEF WholeInv, vars, DerivedFromWhole, WholeStored, VisibleSceneComplete, Visible, Rev
<1> QED BY <1>2, <1>3 DEF Next, Finished

\* A reader finds no revision that lacks part of its scene, whatever runs fail,
\* are killed, are repeated or overlap: commitScene stores the nodes before it
\* derives anything from them, and genStash starts from what can be seen.
THEOREM SceneCompleteWhenVisible ==
  ASSUME StashesOfHeads
  PROVE  Spec => []VisibleSceneComplete
<1>1. WholeInv => VisibleSceneComplete
  BY DEF WholeInv
<1> QED BY <1>1, InitWhole, NextWhole, PTL DEF Spec
-----------------------------------------------------------------------------
(* The last run that reported success.                                     *)

LEMMA LastSteps ==
  ASSUME TypeOK, NEW r \in Runs, RunStep(r), NEW v \in Revisions
  PROVE  \/ last'[v] = last[v] /\ (pc'[r] = "ended" => pc[r] = "ended" \/ v # Rev(r)')
         \/ last'[v] # "ok"
         \/ pc[r] = "complete" /\ v = Rev(r) /\ history'[v].status = "COMPLETE"
<1>1. ASSUME NEW how \in {"error", "killed"}, End(r, how), held' = held
      PROVE  last'[v] # "ok" \/ (last'[v] = last[v] /\ v # Rev(r)')
  BY <1>1 DEF End, Rev
<1>2. CASE Commit(r)
  <2>1. held'[r].rev = held[r].rev
    BY <1>2 DEF Commit, TypeOK
  <2> QED BY <1>2, <2>1 DEF Commit, TypeOK, Goto, End, Rev
<1>3. CASE \E u \in Revisions : LoadRevision(r, u)
  BY <1>3 DEF LoadRevision, Goto, TypeOK
<1>7. CASE LoadScene(r)
  <2>1. held'[r].rev = held[r].rev
    BY <1>7 DEF LoadScene, TypeOK
  <2> QED BY <1>7, <2>1 DEF LoadScene, TypeOK, Goto, End, Rev
<1>4. CASE (\E n \in Nodes : WriteNode(r, n)) \/ Record(r) \/ MarkTree(r) \/ MarkWeb(r)
             \/ TreeStored(r) \/ \E f \in TreeFiles : StoreTree(r, f)
  BY <1>4 DEF WriteNode, Record, MarkTree, MarkWeb, TreeStored, StoreTree, Goto, TypeOK
<1>5. CASE FetchNothing(r) \/ ReadTree(r) \/ TreeFails(r) \/ Bundle(r) \/ BundlesFail(r)
             \/ \E how \in {"error", "killed"} : Break(r, how)
  <2>1. \/ \E how \in {"error", "killed"} : End(r, how) /\ held' = held
        \/ last' = last /\ \E step \in Steps \ {"ended"} : Goto(r, step)
    BY <1>5 DEF FetchNothing, ReadTree, TreeFails, Bundle, BundlesFail, Break, Steps
  <2> QED BY <1>1, <2>1 DEF Goto, TypeOK
<1>6. CASE Complete(r)
  BY <1>6 DEF Complete, End, Mark, TypeOK, Goto, Rev
<1> QED BY <1>2, <1>3, <1>4, <1>5, <1>6, <1>7 DEF RunStep

LEMMA LastOkStep ==
  ASSUME TypeOK, StepsOfCommands, LastOkIsVisible, NEW r \in Runs, RunStep(r)
  PROVE  LastOkIsVisible'
<1> SUFFICES ASSUME NEW v \in Revisions, last'[v] = "ok", \A q \in Runs : ~At(q, v)'
             PROVE  Visible(v)'
  BY DEF LastOkIsVisible
<1>1. CASE pc[r] = "complete" /\ v = Rev(r) /\ history'[v].status = "COMPLETE"
  BY <1>1 DEF Visible
<1>2. CASE last'[v] = last[v] /\ (pc'[r] = "ended" => pc[r] = "ended" \/ v # Rev(r)')
  <2>1. ~At(r, v)
    BY <1>2, ControlSteps, RunsAssumption DEF At, StepsOfCommands, Deriving
  <2>2. \A q \in Runs : ~At(q, v)
    BY <2>1, OthersUnchanged DEF At, Rev
  <2>3. Visible(v)
    BY <1>2, <2>2 DEF LastOkIsVisible
  <2>4. history'[v] = history[v]
    BY <2>1, HistorySteps DEF At
  <2> QED BY <2>3, <2>4 DEF Visible
<1> QED BY <1>1, <1>2, LastSteps

LastInv == TypeOK /\ StepsOfCommands /\ LastOkIsVisible

\* What the task queue was told last about a revision is true of it: a success
\* is reported by the step that makes the revision visible, and a run that
\* hides it again is at work on it until it reports something else.
THEOREM LastSuccessIsVisible == Spec => []LastOkIsVisible
<1>1. Init => LastInv
  BY InitType, InitSteps DEF LastInv, Init, LastOkIsVisible, None
<1>2. LastInv /\ [Next]_vars => LastInv'
  <2> SUFFICES ASSUME LastInv, [Next]_vars PROVE LastInv'
    OBVIOUS
  <2>1. TypeOK' /\ StepsOfCommands'
    BY NextType, NextSteps DEF LastInv
  <2>2. CASE \E r \in Runs : RunStep(r)
    BY <2>1, <2>2, LastOkStep DEF LastInv
  <2>3. CASE UNCHANGED vars
    BY <2>1, <2>3 DEF LastInv, vars, LastOkIsVisible, At, Visible, Rev
  <2> QED BY <2>2, <2>3 DEF Next, Finished
<1>3. LastInv => LastOkIsVisible
  BY DEF LastInv
<1> QED BY <1>1, <1>2, <1>3, PTL DEF Spec
-----------------------------------------------------------------------------
(* The original file.                                                      *)

\* A run past the upload has an original file, as does every document.
RawInv ==
  /\ RawFileBeforeRevision
  /\ \A r \in Runs : pc[r] \in {"record", "nodes"} \cup Deriving => Rev(r) \in raw

LEMMA RawSteps ==
  ASSUME "original" \notin Failures, TypeOK, NEW r \in Runs, RunStep(r)
  PROVE  raw \subseteq raw' /\ (pc[r] = "import" /\ pc'[r] = "record" => Rev(r) \in raw')
<1>1. CASE Commit(r)
  BY <1>1 DEF Commit, End, Goto, TypeOK
<1>2. CASE pc[r] # "import"
  BY <1>2 DEF RunStep, stored, WriteNode, Commit, Record, LoadRevision, LoadScene,
         FetchNothing, MarkTree, ReadTree, StoreTree,
         TreeStored, TreeFails, MarkWeb, Bundle, BundlesFail, Complete, Break
<1>3. CASE (\E n \in Nodes : WriteNode(r, n)) \/ \E how \in {"error", "killed"} : Break(r, how)
  BY <1>3 DEF WriteNode, Break, End, Goto, TypeOK, stored
<1> QED
  BY <1>1, <1>2, <1>3 DEF RunStep, Record, LoadRevision, LoadScene, FetchNothing, MarkTree, ReadTree, StoreTree,
     TreeStored, TreeFails, MarkWeb, Bundle, BundlesFail, Complete

LEMMA RawStep ==
  ASSUME "original" \notin Failures, TypeOK, TypeOK', StepsOfCommands, RawInv, NEW r \in Runs, RunStep(r)
  PROVE  RawInv'
<1>1. ASSUME NEW v \in Revisions, history'[v].status # None PROVE v \in raw'
  <2>1. history[v].status # None \/ (v = Rev(r) /\ pc[r] \in {"record", "nodes"} \cup Deriving)
    BY <1>1, HistorySteps DEF Deriving
  <2> QED BY <2>1, RawSteps DEF RawInv, RawFileBeforeRevision
<1>2. ASSUME NEW q \in Runs, pc'[q] \in {"record", "nodes"} \cup Deriving PROVE Rev(q)' \in raw'
  <2>1. CASE q # r
    BY <1>2, <2>1, OthersUnchanged, RawSteps DEF RawInv, Rev
  <2>2. CASE q = r /\ Rev(r)' = Rev(r)
    <3>1. \/ pc[r] \in {"record", "nodes"} \cup Deriving
          \/ pc[r] = "import" /\ pc'[r] = "record"
          \/ pc[r] = "fetch"
      BY <1>2, <2>2, ControlSteps DEF Deriving
    <3>2. Rev(r)' \in Revisions
      BY <1>2, <2>2 DEF TypeOK, Deriving, Rev
    <3>3. pc[r] # "fetch"
      BY <2>2, <3>2, RunsAssumption DEF StepsOfCommands
    <3> QED BY <2>2, <3>1, <3>3, RawSteps DEF RawInv
  <2>3. CASE q = r /\ Rev(r)' # Rev(r)
    BY <2>3, ControlSteps, RawSteps DEF RawInv, RawFileBeforeRevision
  <2> QED BY <2>1, <2>2, <2>3
<1> QED BY <1>1, <1>2 DEF RawInv, RawFileBeforeRevision

OriginalInv == TypeOK /\ StepsOfCommands /\ RawInv

\* A revision document names an original file that is stored, at whatever step
\* a run stops: commitRevisionNode uploads the file first and gives up if that
\* fails.  It does not give up if the file cannot be read, hence the premise.
THEOREM OriginalFileStored ==
  ASSUME "original" \notin Failures
  PROVE  Spec => []RawFileBeforeRevision
<1>1. Init => OriginalInv
  <2> SUFFICES ASSUME Init PROVE RawInv
    BY InitType, InitSteps DEF OriginalInv
  <2>1. RawFileBeforeRevision
    BY DEF Init, RawFileBeforeRevision
  <2> QED BY <2>1 DEF Init, RawInv, Deriving
<1>2. OriginalInv /\ [Next]_vars => OriginalInv'
  <2> SUFFICES ASSUME OriginalInv, [Next]_vars PROVE OriginalInv'
    OBVIOUS
  <2>1. TypeOK' /\ StepsOfCommands'
    BY NextType, NextSteps DEF OriginalInv
  <2>2. CASE \E r \in Runs : RunStep(r)
    BY <2>1, <2>2, RawStep DEF OriginalInv
  <2>3. CASE UNCHANGED vars
    BY <2>1, <2>3 DEF OriginalInv, vars, RawInv, RawFileBeforeRevision, Rev
  <2> QED BY <2>2, <2>3 DEF Next, Finished
<1>3. OriginalInv => RawFileBeforeRevision
  BY DEF OriginalInv, RawInv
<1> QED BY <1>1, <1>2, <1>3, PTL DEF Spec
-----------------------------------------------------------------------------
(* The refinement.                                                         *)

\* What is stored for a revision is from its imports.
ScenesOfImports ==
  \A v \in Revisions : \A d \in scene[v] : d[1] \in Imports /\ Command[d[1]].rev = v

LEMMA ScenesStep ==
  ASSUME TypeOK, StepsOfCommands, ScenesOfImports, NEW r \in Runs, RunStep(r)
  PROVE  ScenesOfImports'
<1>1. CASE \E n \in Nodes : WriteNode(r, n)
  <2>1. PICK n \in Nodes : WriteNode(r, n)
    BY <1>1
  <2>2. r \in Imports /\ Command[r].rev = Rev(r)
    BY <2>1 DEF WriteNode, StepsOfCommands
  <2>3. \A v \in Revisions : \A d \in scene'[v] : d \in scene[v] \/ (d = <<r, n>> /\ v = Rev(r))
    BY <2>1 DEF WriteNode, TypeOK
  <2> QED BY <2>2, <2>3 DEF ScenesOfImports
<1>2. CASE UNCHANGED scene
  BY <1>2 DEF ScenesOfImports
<1> QED
  BY <1>1, <1>2 DEF RunStep, stored, Commit, Record, LoadRevision, LoadScene,
         FetchNothing, MarkTree, ReadTree, StoreTree,
     TreeStored, TreeFails, MarkWeb, Bundle, BundlesFail, Complete, Break

\* With one import for a revision, a whole scene is all that can be stored.
LEMMA WholeIsAll ==
  ASSUME ImportedOnce, TypeOK, ScenesOfImports, NEW v \in Revisions, WholeStored(v)
  PROVE  \E i \in Imports : Command[i].rev = v /\ scene[v] = SceneOf(i)
<1>1. PICK i \in Imports : Command[i].rev = v /\ SceneOf(i) \subseteq scene[v]
  BY DEF WholeStored, ScenesOf
<1>2. ASSUME NEW d \in scene[v] PROVE d \in SceneOf(i)
  <2>1. d \in Documents
    BY DEF TypeOK
  <2>2. d[1] = i
    BY <1>1 DEF ScenesOfImports, ImportedOnce
  <2> QED BY <2>1, <2>2 DEF Documents, SceneOf
<1>3. scene[v] = SceneOf(i)
  BY <1>1, <1>2
<1> QED BY <1>1, <1>3

PublishedInv == WholeInv /\ ScenesOfImports

\* The revisions that readers find.
SeenRevisions == {v \in Revisions : Visible(v)}

LEMMA PublishedStep ==
  ASSUME StashesOfHeads, ImportedOnce, PublishedInv, NEW r \in Runs, RunStep(r)
  PROVE  Published!Next \/ (scene' = scene /\ SeenRevisions' = SeenRevisions)
<1> USE DEF PublishedInv, WholeInv
<1>0. \A v \in Revisions : Visible(v) => WholeStored(v)
  BY DEF VisibleSceneComplete, WholeStored
<1>1. ASSUME NEW n \in Nodes, WriteNode(r, n) PROVE Published!Next
  <2> DEFINE v == Rev(r)
  <2>1. v \in Revisions /\ r \in Imports /\ Command[r].rev = v
    BY <1>1 DEF WriteNode, StepsOfCommands, TypeOK
  <2>2. ~Visible(v)
    <3>1. ASSUME Visible(v) PROVE FALSE
      <4>1. PICK i \in Imports : Command[i].rev = v /\ scene[v] = SceneOf(i)
        BY <1>0, <2>1, <3>1, WholeIsAll
      <4>2. i = r
        BY <2>1, <4>1 DEF ImportedOnce
      <4> QED BY <1>1, <4>1, <4>2 DEF WriteNode, SceneOf
    <3> QED BY <3>1
  <2>3. Published!Store(v, <<r, n>>)
    BY <1>1, <2>2 DEF Published!Store, WriteNode, Visible
  <2>4. <<r, n>> \in Documents
    BY DEF Documents
  <2> QED BY <2>1, <2>3, <2>4 DEF Published!Next
<1>2. CASE scene' = scene /\ pc[r] # "complete"
  <2>1. CASE history' = history
    BY <1>2, <2>1 DEF SeenRevisions, Visible
  <2>2. CASE history' # history
    <3>1. PICK v \in Revisions : history'[v] # history[v]
      BY <2>2, NextType DEF TypeOK, Next
    <3>2. Rev(r) \in Revisions /\ v = Rev(r) /\ ~Visible(v)'
      BY <1>2, <3>1, HistorySteps DEF Visible
    <3>3. \A u \in Revisions : u # v => Visible(u)' = Visible(u)
      BY <1>2, <3>2, HistorySteps DEF Visible
    <3>4. SeenRevisions' = SeenRevisions \ {v}
      BY <3>2, <3>3 DEF SeenRevisions
    <3>5. Published!Withdraw(v)
      BY <1>2, <3>4 DEF Published!Withdraw, SeenRevisions
    <3> QED BY <3>5 DEF Published!Next
  <2> QED BY <2>1, <2>2
<1>3. CASE Complete(r)
  <2>1. PICK v \in Revisions : v = Rev(r) /\ WholeStored(v)
    BY <1>3 DEF Complete, TypeOK, DerivedFromWhole, Deriving
  <2>2. PICK i \in Imports : scene[v] = SceneOf(i)
    BY <2>1, WholeIsAll
  <2>3. Visible(v)' /\ \A u \in Revisions : u # v => Visible(u)' = Visible(u)
    BY <1>3, <2>1 DEF Complete, Mark, Visible, TypeOK
  <2>4. SeenRevisions' = SeenRevisions \cup {v}
    BY <2>1, <2>3 DEF SeenRevisions
  <2>5. Published!Publish(v)
    BY <1>3, <2>2, <2>4 DEF Published!Publish, Complete, SeenRevisions
  <2> QED BY <2>1, <2>5 DEF Published!Next
<1>4. CASE UNCHANGED <<scene, history>>
  BY <1>4 DEF SeenRevisions, Visible
<1> QED
  BY <1>1, <1>2, <1>3, <1>4 DEF RunStep, stored, Commit, Record, LoadRevision, LoadScene,
         FetchNothing, MarkTree, ReadTree, StoreTree,
     TreeStored, TreeFails, MarkWeb, Bundle, BundlesFail, Break

\* Readers see whole scenes that do not change: for any number of runs, nodes
\* and failures, where no task is delivered twice and genStash works on heads,
\* the commit of revisions implements PublishedRevisions.
THEOREM Refinement ==
  ASSUME StashesOfHeads, ImportedOnce
  PROVE  Spec => ImplementsPublished
<1>1. Init => PublishedInv /\ Published!Init
  <2> SUFFICES ASSUME Init PROVE ScenesOfImports /\ Published!Init
    BY InitWhole DEF PublishedInv
  <2>1. \A v \in Revisions : ~Visible(v)
    BY DEF Init, Visible, None
  <2> QED BY <2>1 DEF Init, ScenesOfImports, Published!Init
<1>2. PublishedInv /\ [Next]_vars => PublishedInv' /\ [Published!Next]_Published!vars
  <2> SUFFICES ASSUME PublishedInv, [Next]_vars
               PROVE  PublishedInv' /\ [Published!Next]_Published!vars
    OBVIOUS
  <2>1. WholeInv'
    BY NextWhole DEF PublishedInv
  <2>2. ASSUME NEW r \in Runs, RunStep(r)
        PROVE  ScenesOfImports' /\ [Published!Next]_Published!vars
    BY <2>2, ScenesStep, PublishedStep DEF PublishedInv, WholeInv, Published!vars, SeenRevisions
  <2>3. CASE UNCHANGED vars
    BY <2>1, <2>3 DEF PublishedInv, ScenesOfImports, vars, Published!vars, Visible
  <2> QED BY <2>1, <2>2, <2>3 DEF Next, Finished, PublishedInv
<1> QED BY <1>1, <1>2, PTL DEF Spec, ImplementsPublished, Published!Spec
-----------------------------------------------------------------------------
(* Trees and bundles.                                                      *)

\* A tree that a run still has to store shows a whole scene.
ShownIsWhole == \A r \in Runs : pc[r] = "storeTree" => shown[r] \in ScenesOf(Rev(r))

\* The tree maker and the optimiser find a whole scene, below its one root.
LEMMA DerivedScene ==
  ASSUME ImportedOnce, PublishedInv, NEW r \in Runs, pc[r] \in Deriving
  PROVE  /\ Rev(r) \in Revisions
         /\ scene[Rev(r)] \in ScenesOf(Rev(r))
         /\ \A top \in Tops(Rev(r)) : Below(Rev(r), top) = scene[Rev(r)]
<1>1. PICK v \in Revisions : v = Rev(r) /\ WholeStored(v)
  BY DEF PublishedInv, WholeInv, TypeOK, DerivedFromWhole, Deriving
<1>2. PICK i \in Imports : Command[i].rev = v /\ scene[v] = SceneOf(i)
  BY <1>1, WholeIsAll DEF PublishedInv, WholeInv
<1>3. scene[v] \in ScenesOf(v)
  BY <1>2 DEF ScenesOf
<1>4. \A d \in scene[v] : d[1] = i
  BY <1>2 DEF SceneOf
<1>5. <<i, Root>> \in scene[v]
  BY <1>2, ScenesAssumption DEF SceneOf
<1>6. \A top \in Tops(v) : top[1] = i /\ top[2] = Root
  BY <1>4, <1>5 DEF Tops
<1>7. \A top \in Tops(v) : Below(v, top) = scene[v]
  BY <1>4, <1>6 DEF Below
<1> QED BY <1>1, <1>3, <1>7

\* The steps that store a tree or bundles, and what a run has to store.
LEMMA StashSteps ==
  ASSUME TypeOK, NEW r \in Runs, RunStep(r)
  PROVE  /\ \/ tree' = tree
            \/ /\ pc[r] = "storeTree"
               /\ \E f \in TreeFiles : tree' = [tree EXCEPT ![Rev(r)][f] = shown[r]]
         /\ \/ bundles' = bundles
            \/ /\ pc[r] = "bundles"
               /\ bundles' = [bundles EXCEPT ![Rev(r)] = scene[Rev(r)]]
         /\ \A q \in Runs : q # r => shown'[q] = shown[q]
         /\ pc'[r] = "storeTree" =>
              \/ pc[r] = "storeTree" /\ shown' = shown
              \/ /\ pc[r] = "readTree"
                 /\ \E top \in Tops(Rev(r)) : shown'[r] = Below(Rev(r), top)
<1>1. CASE ReadTree(r)
  BY <1>1 DEF ReadTree, stored, End, Goto, TypeOK
<1>2. CASE \E f \in TreeFiles : StoreTree(r, f)
  BY <1>2 DEF StoreTree
<1>3. CASE Bundle(r)
  BY <1>3 DEF Bundle, End, Goto, TypeOK
<1>4. CASE \/ \E n \in Nodes : WriteNode(r, n)
           \/ Commit(r) \/ Record(r)
           \/ \E v \in Revisions : LoadRevision(r, v)
           \/ LoadScene(r) \/ FetchNothing(r)
  BY <1>4 DEF WriteNode, Commit, Record, LoadRevision, LoadScene, FetchNothing, stored, End, Goto, TypeOK
<1>5. CASE \/ MarkTree(r) \/ TreeStored(r) \/ TreeFails(r) \/ MarkWeb(r) \/ BundlesFail(r)
           \/ Complete(r) \/ \E how \in {"error", "killed"} : Break(r, how)
  BY <1>5 DEF MarkTree, TreeStored, TreeFails, MarkWeb, BundlesFail, Complete, Break, stored, End, Goto, TypeOK
<1> QED BY <1>1, <1>2, <1>3, <1>4, <1>5 DEF RunStep

StashInv == PublishedInv /\ ShownIsWhole /\ StashesOfWholeScene

LEMMA StashStep ==
  ASSUME ImportedOnce, StashInv, StepsOfCommands', NEW r \in Runs, RunStep(r)
  PROVE  ShownIsWhole' /\ StashesOfWholeScene'
<1> USE DEF StashInv, PublishedInv, WholeInv
<1>1. ASSUME NEW q \in Runs, pc'[q] = "storeTree" PROVE shown'[q] \in ScenesOf(Rev(q)')
  <2>1. CASE q # r
    BY <1>1, <2>1, OthersUnchanged, StashSteps DEF ShownIsWhole, Rev
  <2>2. CASE q = r
    <3>1. pc[r] \in {"storeTree", "readTree"}
      BY <1>1, <2>2, StashSteps
    <3>2. Rev(r)' = Rev(r)
      BY <3>1, ControlSteps
    <3>3. pc[r] = "readTree" => shown'[r] \in ScenesOf(Rev(r))
      BY <1>1, <2>2, DerivedScene, StashSteps DEF Deriving
    <3>4. pc[r] = "storeTree" => shown'[r] \in ScenesOf(Rev(r))
      BY <1>1, <2>2, StashSteps DEF ShownIsWhole
    <3> QED BY <2>2, <3>1, <3>2, <3>3, <3>4
  <2> QED BY <2>1, <2>2
<1>2. ASSUME NEW v \in Revisions, NEW f \in TreeFiles, tree'[v][f] # {}
      PROVE  tree'[v][f] \in ScenesOf(v)
  <2>1. tree[v][f] # {} => tree[v][f] \in ScenesOf(v)
    BY DEF StashesOfWholeScene
  <2>2. \/ tree'[v][f] = tree[v][f]
        \/ pc[r] = "storeTree" /\ v = Rev(r) /\ tree'[v][f] = shown[r]
    <3>1. tree \in [Revisions -> [TreeFiles -> SUBSET Documents]]
      BY DEF TypeOK
    <3>2. CASE tree' = tree
      BY <3>2
    <3>3. CASE tree' # tree
      <4>1. PICK g \in TreeFiles : tree' = [tree EXCEPT ![Rev(r)][g] = shown[r]]
        BY <3>3, StashSteps
      <4>2. pc[r] = "storeTree"
        BY <3>3, StashSteps
      <4> QED BY <3>1, <4>1, <4>2
    <3> QED BY <3>2, <3>3
  <2> QED BY <1>2, <2>1, <2>2 DEF ShownIsWhole
<1>3. ASSUME NEW v \in Revisions, bundles'[v] # {} PROVE bundles'[v] \in ScenesOf(v)
  <2>1. bundles[v] # {} => bundles[v] \in ScenesOf(v)
    BY DEF StashesOfWholeScene
  <2>2. \/ bundles'[v] = bundles[v]
        \/ pc[r] = "bundles" /\ v = Rev(r) /\ bundles'[v] = scene[v]
    BY StashSteps DEF TypeOK
  <2> QED BY <1>3, <2>1, <2>2, DerivedScene DEF Deriving
<1>4. \A v \in Revisions : ScenesOf(v)' = ScenesOf(v)
  BY DEF ScenesOf, SceneOf, Imports
<1>5. ShownIsWhole'
  BY <1>1 DEF ShownIsWhole, ScenesOf, SceneOf, Imports
<1>6. StashesOfWholeScene'
  BY <1>2, <1>3 DEF StashesOfWholeScene, ScenesOf, SceneOf, Imports
<1> QED BY <1>5, <1>6

\* The files of a selection tree and the bundles of a revision show one whole
\* scene, whatever runs fail or overlap: commitScene and _generateStash read it
\* back from the database when every node of it is there.
THEOREM StashesAreWhole ==
  ASSUME StashesOfHeads, ImportedOnce
  PROVE  Spec => []StashesOfWholeScene
<1>1. Init => StashInv
  <2> SUFFICES ASSUME Init PROVE ScenesOfImports /\ ShownIsWhole /\ StashesOfWholeScene
    BY InitWhole DEF StashInv, PublishedInv
  <2> QED BY DEF Init, ScenesOfImports, ShownIsWhole, StashesOfWholeScene
<1>2. StashInv /\ [Next]_vars => StashInv'
  <2> SUFFICES ASSUME StashInv, [Next]_vars PROVE StashInv'
    OBVIOUS
  <2>1. WholeInv'
    BY NextWhole DEF StashInv, PublishedInv
  <2>2. ASSUME NEW r \in Runs, RunStep(r)
        PROVE  ScenesOfImports' /\ ShownIsWhole' /\ StashesOfWholeScene'
    BY <2>1, <2>2, ScenesStep, StashStep DEF StashInv, PublishedInv, WholeInv
  <2>3. CASE UNCHANGED vars
    BY <2>1, <2>3 DEF StashInv, PublishedInv, ScenesOfImports, ShownIsWhole, StashesOfWholeScene, vars, Rev
  <2> QED BY <2>1, <2>2, <2>3 DEF Next, Finished, StashInv, PublishedInv
<1>3. StashInv => StashesOfWholeScene
  BY DEF StashInv
<1> QED BY <1>1, <1>2, <1>3, PTL DEF Spec
=============================================================================
