------------------------------ MODULE Storage ------------------------------
(***************************************************************************)
(* The users of the file service, the references that a scene builder      *)
(* stores, the optimiser that makes supermeshes of a stored scene, and the *)
(* reorganiser that cuts one into chunks: those in a group run at the same *)
(* time.                                                                   *)
(***************************************************************************)
EXTENDS BlobFiles, Drawings, SceneReferences, MultipartOptimizer, MeshMapReorganiser

CONSTANT Groups

\* A client of the file service makes its own calls, and the ids that its callers
\* use are not those of blob files or images, which are new.
ASSUME StorageAssumption ==
  /\ Callers \cap (Writers \cup Readers \cup Drawers) = {}
  /\ Writers \cap (Readers \cup Drawers) = {} /\ Readers \cap Drawers = {}
  /\ Names \cap ((Writers \cup Drawers) \X Nat) = {}

VARIABLE running

vars == <<fileVars, writerVars, readerVars, drawerVars, referenceVars,
          optimiserVars, remapVars, running>>

\* The optimiser and the reorganiser have one input when they do not run.
Init ==
  /\ running \in Groups
  /\ FileInit /\ BlobInit /\ DrawingInit /\ ReferenceInit /\ OptimiserInit /\ RemapInit
  /\ "optimiser" \notin running => present = CHOOSE s \in Scenes : TRUE
  /\ "reorganiser" \notin running => meshMapping = CHOOSE s \in RemappedSupermeshes : TRUE

ClientStep ==
  \/ \E w \in running \cap Writers : WriterStep(w) /\ UNCHANGED drawerVars
  \/ \E r \in running \cap Readers : ReaderStep(r) /\ UNCHANGED drawerVars
  \/ \E d \in running \cap Drawers : DrawerStep(d) /\ UNCHANGED <<writerVars, readerVars>>
  \/ \E c \in running \cap Callers :
       CallerStep(c) /\ UNCHANGED <<writerVars, readerVars, drawerVars>>

Next ==
  /\ UNCHANGED running
  /\ \/ ClientStep /\ UNCHANGED <<referenceVars, optimiserVars, remapVars>>
     \/ /\ "builder" \in running /\ ReferenceStep
        /\ UNCHANGED <<fileVars, writerVars, readerVars, drawerVars, optimiserVars,
                       remapVars>>
     \/ /\ "optimiser" \in running /\ OptimiserStep
        /\ UNCHANGED <<fileVars, writerVars, readerVars, drawerVars, referenceVars,
                       remapVars>>
     \/ /\ "reorganiser" \in running /\ RemapStep
        /\ UNCHANGED <<fileVars, writerVars, readerVars, drawerVars, referenceVars,
                       optimiserVars>>

Spec == Init /\ [][Next]_vars
=============================================================================
