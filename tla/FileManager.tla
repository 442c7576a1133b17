---------------------------- MODULE FileManager ----------------------------
(***************************************************************************)
(* The file service: FileManager on top of FSFileHandler, as the threads   *)
(* and processes that call it see it.  A file is written under a name of   *)
(* its own; a document of the .ref collection (a reference) then says      *)
(* under which id it is found.  The two are separate writes, in that       *)
(* order, and separate removals in the same order: the caller may end, or  *)
(* the second write fail, in between.                                      *)
(***************************************************************************)
EXTENDS Integers, Sequences, FiniteSets

CONSTANTS
  Clients,      \* whoever calls the service
  Callers,      \* those of them that use it on its own
  Names,        \* the ids they use
  MaxUploads,   \* bound: how many files they make
  FileFaults    \* what may go wrong

\* "full": three attempts to write a file fail.  "folder": its directory cannot
\* be made, an exception.  "reference": a reference is not written or dropped.
\* "remove": the file system does not remove a file.  "killed": a caller ends.
AllFileFaults == {"full", "folder", "reference", "remove", "killed"}

ASSUME FileAssumption ==
  /\ FileFaults \subseteq AllFileFaults
  /\ Callers \subseteq Clients
  /\ MaxUploads \in Nat

VARIABLES
  disk,      \* what each file that is stored holds
  refs,      \* the file each id refers to
  uuids,     \* how many names for files have been made
  removed,   \* the files a deletion has removed
  call       \* the call each client is in, or what it returned

fileVars == <<disk, refs, uuids, removed, call>>

Idle == [op |-> "none"]

\* A file that does not exist reads as an empty one.
NoData == <<>>

Returned(c) == call[c].op = "returned"

Return(c, value, data) ==
  call' = [call EXCEPT ![c] = [op |-> "returned", value |-> value, data |-> data]]

With(f, x, v) == [y \in DOMAIN f \cup {x} |-> IF y = x THEN v ELSE f[y]]
Without(f, x) == [y \in DOMAIN f \ {x} |-> f[y]]
-----------------------------------------------------------------------------
\* Variant: the reference is entered before the file is written.
CallUploadReferring(c, id, data) ==
  /\ uuids' = uuids + 1
  /\ refs' = With(refs, id, uuids + 1)
  /\ call' = [call EXCEPT ![c] =
       [op |-> "write", id |-> id, data |-> data, link |-> uuids + 1]]
  /\ UNCHANGED <<disk, removed>>

\* uploadFileAndCommit, which makes the name of the file first.
CallUpload(c, id, data) ==
  /\ uuids' = uuids + 1
  /\ call' = [call EXCEPT ![c] =
       [op |-> "write", id |-> id, data |-> data, link |-> uuids + 1]]
  /\ UNCHANGED <<disk, refs, removed>>

\* Variant: the name of a file is returned whether it was written or not.
WriteUnchecked(c) ==
  /\ call[c].op = "write"
  /\ call' = [call EXCEPT ![c].op = "refer"]
  /\ disk' \in {disk, With(disk, call[c].link, call[c].data)}
  /\ UNCHANGED <<refs, uuids, removed>>

\* FSFileHandler::uploadFile.  What a failed attempt leaves has no reference.
WriteFile(c) ==
  /\ call[c].op = "write"
  /\ \/ /\ disk' = With(disk, call[c].link, call[c].data)
        /\ call' = [call EXCEPT ![c].op = "refer"]
     \/ "full" \in FileFaults /\ Return(c, "failed", NoData) /\ UNCHANGED disk
     \/ "folder" \in FileFaults /\ Return(c, "thrown", NoData) /\ UNCHANGED disk
  /\ UNCHANGED <<refs, uuids, removed>>

\* upsertFileRef: a reference of an earlier upload is replaced, its file stays.
Refer(c) ==
  /\ call[c].op = "refer"
  /\ \/ /\ refs' = With(refs, call[c].id, call[c].link)
        /\ Return(c, "ok", NoData)
     \/ "reference" \in FileFaults /\ Return(c, "failed", NoData) /\ UNCHANGED refs
  /\ UNCHANGED <<disk, uuids, removed>>

\* deleteFileAndRef, up to finding the reference.
CallDelete(c, id) ==
  /\ IF id \in DOMAIN refs
     THEN call' = [call EXCEPT ![c] = [op |-> "remove", id |-> id, link |-> refs[id]]]
     ELSE Return(c, "failed", NoData)
  /\ UNCHANGED <<disk, refs, uuids, removed>>

\* FSFileHandler::deleteFile; a file that is not there is a failure.
RemoveFile(c) ==
  /\ call[c].op = "remove"
  /\ \/ /\ call[c].link \in DOMAIN disk
        /\ disk' = Without(disk, call[c].link)
        /\ removed' = removed \cup {call[c].link}
        /\ call' = [call EXCEPT ![c].op = "drop"]
     \/ /\ call[c].link \notin DOMAIN disk \/ "remove" \in FileFaults
        /\ Return(c, "failed", NoData)
        /\ UNCHANGED <<disk, removed>>
  /\ UNCHANGED <<refs, uuids>>

\* dropFileRef, by the id.
DropRef(c) ==
  /\ call[c].op = "drop"
  /\ \/ refs' = Without(refs, call[c].id) /\ Return(c, "ok", NoData)
     \/ "reference" \in FileFaults /\ Return(c, "failed", NoData) /\ UNCHANGED refs
  /\ UNCHANGED <<disk, uuids, removed>>

\* getFile and getFileStream, up to finding the reference.
CallGet(c, id) ==
  /\ IF id \in DOMAIN refs
     THEN call' = [call EXCEPT ![c] = [op |-> "open", id |-> id, link |-> refs[id]]]
     ELSE Return(c, "thrown", NoData)
  /\ UNCHANGED <<disk, refs, uuids, removed>>

OpenFile(c) ==
  /\ call[c].op = "open"
  /\ Return(c, "ok", IF call[c].link \in DOMAIN disk THEN disk[call[c].link] ELSE NoData)
  /\ UNCHANGED <<disk, refs, uuids, removed>>

\* The steps of the service for the call of a client.
Serve(c) ==
  WriteFile(c) \/ Refer(c) \/ RemoveFile(c) \/ DropRef(c) \/ OpenFile(c)

\* The client has seen what its call returned, or is gone.
Hangup(c) == call' = [call EXCEPT ![c] = Idle]

\* The public functions, called in any order on any id: files of selection
\* trees, of sequences and originals.  What is uploaded names its uploader.
CallerStep(c) ==
  \/ /\ call[c] = Idle
     /\ \E id \in Names :
          \/ uuids < MaxUploads /\ CallUpload(c, id, <<id, c>>)
          \/ CallDelete(c, id)
          \/ CallGet(c, id)
  \/ /\ Returned(c) \/ ("killed" \in FileFaults /\ call[c] # Idle)
     /\ Hangup(c)
     /\ UNCHANGED <<disk, refs, uuids, removed>>
  \/ Serve(c)

FileInit ==
  /\ disk = <<>> /\ refs = <<>> /\ removed = {} /\ uuids = 0
  /\ call = [c \in Clients |-> Idle]
-----------------------------------------------------------------------------
\* A reference is to a file that is stored whole, or was until it was deleted:
\* callers that are killed between the two writes of an upload, or fail at the
\* second, leave a file without a reference and never the reverse
\* (FileManager::uploadFileAndCommit).
RefsHaveFiles == \A id \in DOMAIN refs : refs[id] \in DOMAIN disk \cup removed

\* What a caller gets is whole and was uploaded under that id, although files are
\* replaced and deleted under it: it is empty only after a deletion
\* (FileManager::getFile, FSFileHandler::getFile).
GetsAreWhole ==
  \A c \in Callers : call[c].op = "open" =>
    \/ call[c].link \in removed
    \/ /\ call[c].link \in DOMAIN disk
       /\ \E d \in Callers : disk[call[c].link] = <<call[c].id, d>>
=============================================================================
