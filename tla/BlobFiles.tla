----------------------------- MODULE BlobFiles -----------------------------
(***************************************************************************)
(* How nodes with binary data are stored and read: MongoWriteContext and   *)
(* insertManyDocuments of the Mongo handler, on top of BlobFilesHandler,   *)
(* which packs the data of many nodes into files and has a node refer to   *)
(* a range of one.                                                         *)
(*                                                                         *)
(* A node's document may be written before the file it refers to, since a  *)
(* file is uploaded when it is full or when the writer is done.  A reader  *)
(* in between gets an exception.                                           *)
(***************************************************************************)
EXTENDS FileManager

CONSTANTS
  Writers, Readers,  \* clients of the file service
  Nodes,
  Size,              \* of each node's binary data, 0 if it has none
  MaxFile,           \* MAX_FILE_SIZE_BYTES
  Kind,              \* how a writer writes: "context" or "insertMany"
  Work,              \* the nodes a writer is given, in order
  MaxBatch,          \* nodes for which a bulk write is kept back
  WriteFaults        \* whether a bulk write may fail

ASSUME BlobAssumption ==
  /\ Size \in [Nodes -> Nat]
  /\ MaxFile \in Nat \ {0}
  /\ MaxBatch \in Nat \ {0}
  /\ Kind \in [Writers -> {"context", "insertMany"}]
  /\ Work \in [Writers -> Seq(Nodes)]
  /\ Writers \cup Readers \subseteq Clients
  /\ WriteFaults \in BOOLEAN

VARIABLES
  docs,      \* the stored documents, each with the range it refers to
  \* Of a writer.
  wpc,
  handed,    \* how many nodes it has taken
  active,    \* the active file; there is none when empty
  fileNo,    \* how many files it has made
  batch,     \* the nodes of the bulk write, with the ranges they refer to
  broken,    \* a bulk write has failed such that its second execution fails
  failed,    \* an exception is on its way through the writer
  lost,      \* nodes whose file failed to upload, which nobody looked at
  \* Of a reader.
  cache,     \* what its open streams read
  wanted,    \* the node and range it is after
  got        \* the latest outcome

writerVars == <<docs, wpc, handed, active, fileNo, batch, broken, failed, lost>>
readerVars == <<cache, wanted, got>>
blobVars == <<fileVars, writerVars, readerVars>>

NoRange == [file |-> "none"]
Nothing == [node |-> "none"]

\* A file: its size, and which part of it is the data of which node.
EmptyFile == [size |-> 0, parts |-> {}]

\* The data of a node goes to the end of the file.
Extended(file, n) ==
  [size |-> file.size + Size[n],
   parts |-> file.parts \cup {[node |-> n, start |-> file.size, size |-> Size[n]]}]

\* The nodes whose data a range of a file is.
DataAt(file, range) ==
  {part.node : part \in {q \in file.parts : q.start = range.start /\ q.size = range.size}}

ActiveFile(w) == <<w, fileNo[w]>>
-----------------------------------------------------------------------------
Given(w) == Work[w][handed[w] + 1]

HasRoom(w, n) ==
  active[w] # EmptyFile /\ active[w].size + Size[n] <= MaxFile

\* The bulk write is due: above its limit, or a batch of insertMany is full or
\* holds the last node.
BatchDue(w, b, h) ==
  IF Kind[w] = "context" THEN Len(b) > MaxBatch
  ELSE Len(b) = MaxBatch \/ h = Len(Work[w])

\* Variant: the range is taken after the data was added.
InsertLate(w) ==
  /\ wpc[w] = "running" /\ handed[w] < Len(Work[w])
  /\ LET n == Given(w)
         kept == Extended(active[w], n)
         range == IF Size[n] = 0 THEN NoRange
                  ELSE [file |-> ActiveFile(w), start |-> kept.size, size |-> Size[n]]
     IN /\ Size[n] = 0 \/ active[w] = EmptyFile \/ HasRoom(w, n)
        /\ active' = [active EXCEPT ![w] = IF Size[n] = 0 THEN @ ELSE kept]
        /\ batch' = [batch EXCEPT ![w] = Append(@, [node |-> n, range |-> range])]
        /\ handed' = [handed EXCEPT ![w] = @ + 1]
        /\ wpc' = [wpc EXCEPT ![w] =
             IF BatchDue(w, batch'[w], handed'[w]) THEN "executing" ELSE "running"]
  /\ UNCHANGED <<fileVars, docs, fileNo, broken, failed, lost, readerVars>>

\* A node is added: its data goes to the active file, or to a new one if there
\* is none, and its document to the bulk write.
Insert(w) ==
  /\ wpc[w] = "running" /\ handed[w] < Len(Work[w])
  /\ LET n == Given(w)
         range == IF Size[n] = 0 THEN NoRange
                  ELSE [file |-> ActiveFile(w), start |-> active[w].size, size |-> Size[n]]
     IN /\ Size[n] = 0 \/ active[w] = EmptyFile \/ HasRoom(w, n)
        /\ active' = [active EXCEPT ![w] = IF Size[n] = 0 THEN @ ELSE Extended(@, n)]
        /\ batch' = [batch EXCEPT ![w] = Append(@, [node |-> n, range |-> range])]
        /\ handed' = [handed EXCEPT ![w] = @ + 1]
        /\ wpc' = [wpc EXCEPT ![w] =
             IF BatchDue(w, batch'[w], handed'[w]) THEN "executing" ELSE "running"]
  /\ UNCHANGED <<fileVars, docs, fileNo, broken, failed, lost, readerVars>>

\* newActiveFile: the active file has no room for a node and is uploaded first.
Rotate(w) ==
  /\ wpc[w] = "running" /\ handed[w] < Len(Work[w])
  /\ Size[Given(w)] > 0 /\ active[w] # EmptyFile /\ ~HasRoom(w, Given(w))
  /\ CallUpload(w, ActiveFile(w), active[w])
  /\ wpc' = [wpc EXCEPT ![w] = "rotating"]
  /\ UNCHANGED <<docs, handed, active, fileNo, batch, broken, failed, lost, readerVars>>

\* The last node was added.
LastDone(w) ==
  /\ wpc[w] = "running" /\ handed[w] = Len(Work[w])
  /\ wpc' = [wpc EXCEPT ![w] = "flushing"]
  /\ UNCHANGED <<fileVars, docs, handed, active, fileNo, batch, broken, failed, lost, readerVars>>

Elements(s) == {s[i] : i \in 1..Len(s)}

Execute(w) ==
  /\ wpc[w] = "executing"
  /\ docs' = docs \cup Elements(batch[w])
  /\ batch' = [batch EXCEPT ![w] = <<>>]
  /\ wpc' = [wpc EXCEPT ![w] = "running"]
  /\ UNCHANGED <<fileVars, handed, active, fileNo, broken, failed, lost, readerVars>>

\* The bulk write throws after some of its documents.  The context keeps it, and
\* executing it again fails if that repeats an insert; insertMany drops it.
ExecuteFails(w) ==
  /\ wpc[w] = "executing" /\ WriteFaults
  /\ \E k \in 0..Len(batch[w]) :
       /\ docs' = docs \cup Elements(SubSeq(batch[w], 1, k))
       /\ batch' = [batch EXCEPT ![w] = IF Kind[w] = "context" THEN @ ELSE <<>>]
       /\ broken' = [broken EXCEPT ![w] = k > 0]
  /\ failed' = [failed EXCEPT ![w] = TRUE]
  /\ wpc' = [wpc EXCEPT ![w] = "flushing"]
  /\ UNCHANGED <<fileVars, handed, active, fileNo, lost, readerVars>>

\* The destructor of a context executes what is left, also after an execution
\* that failed; if it throws the process ends.
Flush(w) ==
  /\ wpc[w] = "flushing"
  /\ ~broken[w] \/ Kind[w] = "insertMany"
  /\ docs' = docs \cup Elements(batch[w])
  /\ batch' = [batch EXCEPT ![w] = <<>>]
  /\ wpc' = [wpc EXCEPT ![w] = "closing"]
  /\ UNCHANGED <<fileVars, handed, active, fileNo, broken, failed, lost, readerVars>>

FlushFails(w) ==
  /\ wpc[w] = "flushing" /\ batch[w] # <<>> /\ WriteFaults
  /\ \E k \in 0..Len(batch[w]) : docs' = docs \cup Elements(SubSeq(batch[w], 1, k))
  /\ wpc' = [wpc EXCEPT ![w] = "dead"]
  /\ UNCHANGED <<fileVars, handed, active, fileNo, batch, broken, failed, lost, readerVars>>

\* The blob handler uploads the active file: when told to (finished), or when
\* it is destroyed.
Close(w) ==
  /\ wpc[w] = "closing"
  /\ IF active[w] = EmptyFile
     THEN wpc' = [wpc EXCEPT ![w] = "done"] /\ UNCHANGED fileVars
     ELSE wpc' = [wpc EXCEPT ![w] = "committing"] /\ CallUpload(w, ActiveFile(w), active[w])
  /\ UNCHANGED <<docs, handed, active, fileNo, batch, broken, failed, lost, readerVars>>

\* The nodes in the active file.
Held(w) == {part.node : part \in active[w].parts}

\* Variant: the next file has the same name.
CommittedUnderOneName(w) ==
  /\ wpc[w] \in {"rotating", "committing"}
  /\ Returned(w) /\ call[w].value # "thrown"
  /\ lost' = IF call[w].value = "failed" THEN lost \cup Held(w) ELSE lost
  /\ active' = [active EXCEPT ![w] = EmptyFile]
  /\ wpc' = [wpc EXCEPT ![w] = IF @ = "rotating" THEN "running" ELSE "done"]
  /\ Hangup(w)
  /\ UNCHANGED <<disk, refs, uuids, removed, docs, handed, fileNo, batch, broken, failed, readerVars>>

\* commitActiveFile forgets the active file whatever the upload returned.
Committed(w) ==
  /\ wpc[w] \in {"rotating", "committing"}
  /\ Returned(w) /\ call[w].value # "thrown"
  /\ lost' = IF call[w].value = "failed" THEN lost \cup Held(w) ELSE lost
  /\ active' = [active EXCEPT ![w] = EmptyFile]
  /\ fileNo' = [fileNo EXCEPT ![w] = @ + 1]
  /\ wpc' = [wpc EXCEPT ![w] = IF @ = "rotating" THEN "running" ELSE "done"]
  /\ Hangup(w)
  /\ UNCHANGED <<disk, refs, uuids, removed, docs, handed, batch, broken, failed, readerVars>>

\* The upload throws, and the active file is kept.  A context commits its last
\* file in its destructor, and insertMany unwinds into that of its blob
\* handler, which tries again: what throws there terminates the process.
CommitThrows(w) ==
  /\ Returned(w) /\ call[w].value = "thrown"
  /\ wpc[w] \in {"rotating", "committing"}
  /\ wpc' = [wpc EXCEPT ![w] =
       IF @ = "rotating" THEN "flushing"
       ELSE IF Kind[w] = "context" \/ failed[w] THEN "dead" ELSE "flushing"]
  /\ failed' = [failed EXCEPT ![w] = TRUE]
  /\ Hangup(w)
  /\ UNCHANGED <<disk, refs, uuids, removed, docs, handed, active, fileNo, batch,
                 broken, lost, readerVars>>

\* The process of a writer ends between any two steps.
Kill(w) ==
  /\ "killed" \in FileFaults
  /\ wpc[w] \notin {"done", "dead"}
  /\ wpc' = [wpc EXCEPT ![w] = "dead"]
  /\ Hangup(w)
  /\ UNCHANGED <<disk, refs, uuids, removed, docs, handed, active, fileNo, batch,
                 broken, failed, lost, readerVars>>
-----------------------------------------------------------------------------
\* readToBuffer, for a document that was found: from a stream that is open
\* already, or else the file is looked up.
Find(r) ==
  /\ wanted[r] = Nothing
  /\ \E d \in docs :
       /\ d.range # NoRange
       /\ \/ /\ d.range.file \in DOMAIN cache[r]
             /\ got' = [got EXCEPT ![r] =
                  [node |-> d.node, how |-> "read", data |-> DataAt(cache[r][d.range.file], d.range)]]
             /\ UNCHANGED <<wanted, fileVars>>
          \/ /\ d.range.file \notin DOMAIN cache[r]
             /\ wanted' = [wanted EXCEPT ![r] = d]
             /\ CallGet(r, d.range.file)
             /\ UNCHANGED got
  /\ UNCHANGED <<writerVars, cache>>

\* The file's stream is kept and read, or there is no reference: an exception.
Found(r) ==
  /\ Returned(r)
  /\ LET d == wanted[r] IN
       IF call[r].value = "thrown"
       THEN /\ got' = [got EXCEPT ![r] = [node |-> d.node, how |-> "refused", data |-> {}]]
            /\ UNCHANGED cache
       ELSE /\ got' = [got EXCEPT ![r] =
                 [node |-> d.node, how |-> "read", data |-> DataAt(call[r].data, d.range)]]
            /\ cache' = [cache EXCEPT ![r] = With(@, d.range.file, call[r].data)]
  /\ wanted' = [wanted EXCEPT ![r] = Nothing]
  /\ Hangup(r)
  /\ UNCHANGED <<disk, refs, uuids, removed, writerVars>>

BlobInit ==
  /\ docs = {} /\ lost = {}
  /\ wpc = [w \in Writers |-> "running"]
  /\ handed = [w \in Writers |-> 0]
  /\ active = [w \in Writers |-> EmptyFile]
  /\ fileNo = [w \in Writers |-> 1]
  /\ batch = [w \in Writers |-> <<>>]
  /\ broken = [w \in Writers |-> FALSE]
  /\ failed = [w \in Writers |-> FALSE]
  /\ cache = [r \in Readers |-> <<>>]
  /\ wanted = [r \in Readers |-> Nothing]
  /\ got = [r \in Readers |-> Nothing]

WriterStep(w) ==
  \/ Insert(w) \/ Rotate(w) \/ LastDone(w) \/ Execute(w) \/ ExecuteFails(w)
  \/ Flush(w) \/ FlushFails(w) \/ Close(w) \/ Committed(w) \/ CommitThrows(w) \/ Kill(w)
  \/ Serve(w) /\ UNCHANGED <<writerVars, readerVars>>

ReaderStep(r) == Find(r) \/ Found(r) \/ (Serve(r) /\ UNCHANGED <<writerVars, readerVars>>)
-----------------------------------------------------------------------------
Readable(d) ==
  /\ d.range.file \in DOMAIN refs
  /\ refs[d.range.file] \in DOMAIN disk
  /\ DataAt(disk[refs[d.range.file]], d.range) = {d.node}

\* A document that can be found refers to its own data: in a stored file, in the
\* active file of its writer (to be uploaded, or gone with the process), or in
\* a file whose upload returned failure, which nobody looks at
\* (BlobFilesHandler::insertBinary and commitActiveFile).
DataIsSomewhere ==
  \A d \in docs : d.range # NoRange =>
    \/ Readable(d)
    \/ d.node \in lost
    \/ \E w \in Writers :
         d.range.file = ActiveFile(w) /\ DataAt(active[w], d.range) = {d.node}

\* A writer that ends without an exception has stored all it was given, and with
\* data that can be read if its uploads worked (MongoWriteContext::flush).
WrittenIsReadable ==
  \A w \in Writers : wpc[w] = "done" /\ ~failed[w] =>
    \A n \in Elements(Work[w]) : \E d \in docs :
      d.node = n /\ (d.range = NoRange \/ n \in lost \/ Readable(d))

\* Whoever reads the data of a node gets that or an exception, also while files
\* are being uploaded, and from streams it opened earlier
\* (BlobFilesHandler::readToBuffer).
ReadsOwnData ==
  \A r \in Readers : got[r] # Nothing /\ got[r].how = "read" => got[r].data = {got[r].node}
=============================================================================
