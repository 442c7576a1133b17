------------------------------ MODULE Drawings ------------------------------
(***************************************************************************)
(* How a drawing is processed: processDrawing of the client,               *)
(* RepoManipulator::processDrawingRevision and DrawingManager::commitImage.*)
(* A run fetches the revision, makes an image of its file, stores that and *)
(* writes the revision back.  A task that is delivered again is a second   *)
(* run for the same revision, beside the first or after it.                *)
(***************************************************************************)
EXTENDS FileManager

CONSTANTS
  Drawers,        \* runs that process a drawing, clients of the file service
  DrawingOf,      \* the revision each of them processes
  DatabaseFaults  \* whether writing to the database may fail

Revisions == {DrawingOf[d] : d \in Drawers}

\* No run is called as what stands for no image.
ASSUME DrawingAssumption ==
  /\ Drawers \subseteq Clients /\ "none" \notin Drawers
  /\ DatabaseFaults \in BOOLEAN

VARIABLES
  drawings,      \* the revision documents: image and incomplete
  calibrations,  \* how many calibrations each revision has
  dpc,
  node,          \* the revision a run has in memory
  calibrated,    \* whether the drawing came with a calibration
  unsaved        \* images whose upload failed, which nobody looked at

drawerVars == <<drawings, calibrations, dpc, node, calibrated, unsaved>>
drawingVars == <<fileVars, drawerVars>>

NoImage == <<"none", 0>>
Document == [image |-> NoImage, incomplete |-> TRUE]
ImageOf(d) == <<d, 0>>

Goto(d, l) == dpc' = [dpc EXCEPT ![d] = l]
-----------------------------------------------------------------------------
\* fetchRevision.  deserialise sets incomplete if the document has the field;
\* otherwise the member is never initialised, and may be anything.
Fetch(d) ==
  /\ dpc[d] = "start"
  /\ \E b \in BOOLEAN :
       /\ drawings[DrawingOf[d]].incomplete => b
       /\ node' = [node EXCEPT ![d] = [image |-> NoImage, incomplete |-> b]]
  /\ Goto(d, "fetched")
  /\ UNCHANGED <<fileVars, drawings, calibrations, calibrated, unsaved>>

\* Variant: the image is entered before it is uploaded.
ConvertAndAdd(d) ==
  /\ dpc[d] = "fetched"
  /\ \E b \in BOOLEAN : calibrated' = [calibrated EXCEPT ![d] = b]
  /\ CallUpload(d, ImageOf(d), <<ImageOf(d)>>)
  /\ Goto(d, "uploading")
  /\ drawings' = [drawings EXCEPT ![DrawingOf[d]].image = ImageOf(d)]
  /\ UNCHANGED <<calibrations, node, unsaved>>

\* The drawing's file is found and converted, or it is not; then the image is
\* uploaded under a new id.
Convert(d) ==
  /\ dpc[d] = "fetched"
  /\ \/ Goto(d, "failed") /\ UNCHANGED <<fileVars, calibrated>>
     \/ /\ \E b \in BOOLEAN : calibrated' = [calibrated EXCEPT ![d] = b]
        /\ CallUpload(d, ImageOf(d), <<ImageOf(d)>>)
        /\ Goto(d, "uploading")
  /\ UNCHANGED <<drawings, calibrations, node, unsaved>>

\* addImage: whatever uploadFileAndCommit returned; an exception ends the run.
AddImage(d) ==
  /\ dpc[d] = "uploading" /\ Returned(d)
  /\ IF call[d].value = "thrown"
     THEN Goto(d, "failed") /\ UNCHANGED <<node, unsaved>>
     ELSE /\ node' = [node EXCEPT ![d].image = ImageOf(d)]
          /\ unsaved' = IF call[d].value = "failed" THEN unsaved \cup {ImageOf(d)} ELSE unsaved
          /\ Goto(d, "updating")
  /\ Hangup(d)
  /\ UNCHANGED <<disk, refs, uuids, removed, drawings, calibrations, calibrated>>

\* Variant: whether the revision was written is not looked at.
UpdateUnchecked(d) ==
  /\ dpc[d] = "updating"
  /\ \/ drawings' = [drawings EXCEPT ![DrawingOf[d]] =
             [image |-> node[d].image, incomplete |-> @.incomplete \/ node[d].incomplete]]
     \/ UNCHANGED drawings
  /\ Goto(d, IF calibrated[d] THEN "calibrating" ELSE "ok")
  /\ UNCHANGED <<fileVars, calibrations, node, calibrated, unsaved>>

\* upsertDocument without overwriting sets the fields the node has: incomplete
\* is one only if it is true, so it is never taken away.
UpdateRevision(d) ==
  /\ dpc[d] = "updating"
  /\ \/ /\ drawings' = [drawings EXCEPT ![DrawingOf[d]] =
             [image |-> node[d].image, incomplete |-> @.incomplete \/ node[d].incomplete]]
        /\ Goto(d, IF calibrated[d] THEN "calibrating" ELSE "ok")
     \/ DatabaseFaults /\ Goto(d, "failed") /\ UNCHANGED drawings
  /\ UNCHANGED <<fileVars, calibrations, node, calibrated, unsaved>>

\* A calibration is a document of its own, with a new id each time.
InsertCalibration(d) ==
  /\ dpc[d] = "calibrating"
  /\ \/ calibrations' = [calibrations EXCEPT ![DrawingOf[d]] = @ + 1] /\ Goto(d, "ok")
     \/ DatabaseFaults /\ Goto(d, "failed") /\ UNCHANGED calibrations
  /\ UNCHANGED <<fileVars, drawings, node, calibrated, unsaved>>

KillDrawer(d) ==
  /\ "killed" \in FileFaults
  /\ dpc[d] \notin {"ok", "failed"}
  /\ Goto(d, "failed")
  /\ Hangup(d)
  /\ UNCHANGED <<disk, refs, uuids, removed, drawings, calibrations, node, calibrated, unsaved>>

\* The service that queued the task shows a drawing once it is told that it has
\* been processed.
Show(d) ==
  /\ dpc[d] = "ok"
  /\ drawings' = [drawings EXCEPT ![DrawingOf[d]].incomplete = FALSE]
  /\ Goto(d, "shown")
  /\ UNCHANGED <<fileVars, calibrations, node, calibrated, unsaved>>

DrawingInit ==
  /\ drawings = [r \in Revisions |-> Document]
  /\ calibrations = [r \in Revisions |-> 0]
  /\ dpc = [d \in Drawers |-> "start"]
  /\ node = [d \in Drawers |-> Document]
  /\ calibrated = [d \in Drawers |-> FALSE]
  /\ unsaved = {}

DrawerStep(d) ==
  \/ Fetch(d) \/ Convert(d) \/ AddImage(d) \/ UpdateRevision(d) \/ InsertCalibration(d)
  \/ KillDrawer(d) \/ Show(d)
  \/ Serve(d) /\ UNCHANGED drawerVars
-----------------------------------------------------------------------------
\* A drawing that is shown, and any image a revision names, has been stored,
\* whichever of its runs failed where, unless the upload returned failure
\* (DrawingManager::commitImage).
ImageIsStored ==
  \A r \in Revisions :
    LET image == drawings[r].image IN
      /\ ~drawings[r].incomplete => image # NoImage
      /\ image \in DOMAIN refs \cup unsaved \cup {NoImage}

\* A run that reports success leaves an image and, if the drawing has one, a
\* calibration; and there are calibrations only for revisions with an image
\* (DrawingManager::commitImage writes the revision first).
ProcessedIsWhole ==
  \A d \in Drawers :
    LET r == DrawingOf[d] IN
      /\ dpc[d] \in {"ok", "shown"} =>
           drawings[r].image # NoImage /\ (calibrated[d] => calibrations[r] > 0)
      /\ calibrations[r] > 0 => drawings[r].image # NoImage

\* "Writes the specificed DrawingImageInfo to the filesystem and updates the
\* DrawingRevisionNode image member to point to it" (repo_drawing_manager.h:48):
\* processing a drawing does not take it back from those who see it.
StaysComplete ==
  [][\A r \in Revisions :
       ~drawings[r].incomplete => ~drawings'[r].incomplete]_drawingVars
=============================================================================
