--------------------------- MODULE StorageProofs ---------------------------
(***************************************************************************)
(* The clients of the file service at the same time: what they share, the  *)
(* nodes with data in files, the drawings, and the references of the scene *)
(* builder.                                                                *)
(***************************************************************************)
EXTENDS Storage, FiniteSetTheorems, TLAPS

-----------------------------------------------------------------------------
(* The calls of FileManager, whoever makes them: references have files,    *)
(* and the files of ids that nobody deletes stay as they are.              *)

Uploading(c) == call[c].op \in {"write", "refer"}

Using(c) == call[c].op \in {"remove", "drop", "open"}

\* What a file that is stored under a caller's id holds.
Whole(id, link) == link \in DOMAIN disk => \E d \in Callers : disk[link] = <<id, d>>

\* A file has one reference at most.  Only callers delete, by their own ids.
FilesOK ==
  /\ uuids \in Nat
  /\ DOMAIN disk \subseteq 1..uuids /\ removed \subseteq 1..uuids
  /\ RefsHaveFiles
  /\ \A i, j \in DOMAIN refs : refs[i] = refs[j] => i = j
  /\ \A id \in DOMAIN refs : IF id \in Names THEN Whole(id, refs[id]) ELSE refs[id] \in DOMAIN disk

\* The file of a call: not written yet, written and without a reference, or one
\* that no other id refers to.
CallOK(c) ==
  /\ call[c].op \in {"none", "returned", "write", "refer", "remove", "drop", "open"}
  /\ Uploading(c) =>
       /\ call[c] = [op |-> call[c].op, id |-> call[c].id, data |-> call[c].data,
                     link |-> call[c].link]
       /\ call[c].link \in 1..uuids
       /\ call[c].id \in Names => \E d \in Callers : call[c].data = <<call[c].id, d>>
  /\ call[c].op = "write" => call[c].link \notin DOMAIN disk \cup removed
  /\ call[c].op = "refer" =>
       /\ call[c].link \in DOMAIN disk /\ disk[call[c].link] = call[c].data
       /\ \A id \in DOMAIN refs : refs[id] # call[c].link
  /\ Using(c) =>
       /\ call[c] = [op |-> call[c].op, id |-> call[c].id, link |-> call[c].link]
       /\ call[c].link \in DOMAIN disk \cup removed
       /\ \A id \in DOMAIN refs : refs[id] = call[c].link => id = call[c].id
       /\ call[c].id \in Names => Whole(call[c].id, call[c].link)
       /\ c \in Callers \/ call[c].op # "open" => call[c].id \in Names

\* Nobody else uses a file that is being uploaded.
CallsApart ==
  \A c, d \in Clients : c # d /\ Uploading(c) /\ (Uploading(d) \/ Using(d)) =>
    call[c].link # call[d].link

FileInv ==
  /\ FilesOK
  /\ call = [c \in Clients |-> call[c]]
  /\ \A c \in Clients : CallOK(c)
  /\ CallsApart

\* What is stored under id stays.
Kept(id) ==
  /\ id \in DOMAIN refs' /\ refs'[id] = refs[id]
  /\ refs[id] \in DOMAIN disk' /\ disk'[refs[id]] = disk[refs[id]]

\* A step of c keeps what is stored under ids that are not the callers', but for the
\* id of an upload that ends, and enters no other id.
Keeps(c) ==
  LET ends == call[c].op = "refer" /\ call'[c].op = "returned" /\ call'[c].value = "ok"
  IN  /\ \A id \in DOMAIN refs \ Names : Kept(id) \/ (ends /\ id = call[c].id)
      /\ \A id \in DOMAIN refs' : id \in DOMAIN refs \/ (ends /\ id = call[c].id)
      /\ ends => call[c].id \in DOMAIN refs' /\ refs'[call[c].id] \in DOMAIN disk'
                 /\ disk'[refs'[call[c].id]] = call[c].data
-----------------------------------------------------------------------------
LEMMA InitFileInv == FileInit => FileInv
<1> SUFFICES ASSUME FileInit PROVE FileInv
  OBVIOUS
<1>1. DOMAIN <<>> = {}
  OBVIOUS
<1>2. FilesOK
  BY <1>1 DEF FileInit, FilesOK, RefsHaveFiles
<1>3. \A c \in Clients : call[c] = Idle
  BY DEF FileInit
<1>4. \A c \in Clients : CallOK(c)
  BY <1>3 DEF CallOK, Idle, Uploading, Using
<1>5. CallsApart
  BY <1>3 DEF CallsApart, Idle, Uploading
<1> QED BY <1>2, <1>4, <1>5 DEF FileInv, FileInit

\* The files stay, and the call of one client changes.
LEMMA CallChanges ==
  ASSUME FileInv, NEW c \in Clients, NEW new, call' = [call EXCEPT ![c] = new],
         UNCHANGED <<disk, refs, removed>>, uuids' \in Nat, uuids <= uuids',
         CallOK(c)',
         \A d \in Clients \ {c} :
           /\ Uploading(c)' /\ (Uploading(d) \/ Using(d)) => call'[c].link # call[d].link
           /\ Using(c)' /\ Uploading(d) => call'[c].link # call[d].link
  PROVE  FileInv'
<1>1. call'[c] = new /\ \A d \in Clients \ {c} : call'[d] = call[d]
  BY DEF FileInv
<1>2. FilesOK'
  BY DEF FileInv, FilesOK, RefsHaveFiles, Whole
<1>3. call' = [d \in Clients |-> call'[d]]
  BY DEF FileInv
<1>4. ASSUME NEW d \in Clients, d # c PROVE CallOK(d)'
  <2>1. CallOK(d) /\ call'[d] = call[d] /\ uuids \in Nat
    BY <1>1, <1>4 DEF FileInv, FilesOK
  <2>2. call[d].link \in 1..uuids => call[d].link \in 1..uuids'
    BY <2>1
  <2> QED BY <2>1, <2>2 DEF CallOK, Uploading, Using, Whole
<1>5. CallsApart'
  <2> SUFFICES ASSUME NEW d \in Clients, NEW e \in Clients, d # e, Uploading(d)',
                      Uploading(e)' \/ Using(e)'
               PROVE  call'[d].link # call'[e].link
    BY DEF CallsApart
  <2>1. CASE d = c
    BY <1>1, <2>1 DEF Uploading, Using
  <2>2. CASE e = c
    BY <1>1, <2>2 DEF Uploading, Using
  <2>3. CASE d # c /\ e # c
    BY <1>1, <2>3 DEF Uploading, Using, FileInv, CallsApart
  <2> QED BY <2>1, <2>2, <2>3
<1> QED BY <1>2, <1>3, <1>4, <1>5 DEF FileInv

\* A call returns, or the client is done with it.
LEMMA CallEnds ==
  ASSUME FileInv, NEW c \in Clients, NEW new, new.op = "none" \/ new.op = "returned",
         call' = [call EXCEPT ![c] = new], disk' = disk, refs' = refs, uuids' = uuids,
         removed' = removed
  PROVE  FileInv' /\ call'[c] = new
<1>1. call'[c] = new
  BY DEF FileInv
<1>2. uuids' \in Nat /\ uuids <= uuids'
  BY DEF FileInv, FilesOK
<1>3. CallOK(c)' /\ ~Uploading(c)' /\ ~Using(c)'
  BY <1>1 DEF CallOK, Uploading, Using
<1> QED BY <1>1, <1>2, <1>3, CallChanges

\* A call returns with a value.
LEMMA ReturnInv ==
  ASSUME FileInv, NEW c \in Clients, NEW value, NEW data, Return(c, value, data),
         disk' = disk, refs' = refs, uuids' = uuids, removed' = removed
  PROVE  /\ FileInv'
         /\ call'[c] = [op |-> "returned", value |-> value, data |-> data]
<1> DEFINE new == [op |-> "returned", value |-> value, data |-> data]
<1>1. call' = [call EXCEPT ![c] = new]
  BY DEF Return
<1>2. new.op = "none" \/ new.op = "returned"
  OBVIOUS
<1> HIDE DEF new
<1>3. FileInv' /\ call'[c] = new
  BY <1>1, <1>2, CallEnds
<1> QED BY <1>3 DEF new

\* Nothing is stored or removed, and no upload ends.
LEMMA SameFiles ==
  ASSUME FileInv, NEW c \in Clients, UNCHANGED <<disk, refs>>,
         ~(call'[c].op = "returned" /\ call'[c].value = "ok") \/ call[c].op # "refer"
  PROVE  Keeps(c)
BY DEF Keeps, Kept, FileInv, FilesOK

LEMMA HangupInv ==
  ASSUME FileInv, NEW c \in Clients, Hangup(c), UNCHANGED <<disk, refs, uuids, removed>>
  PROVE  FileInv' /\ Keeps(c) /\ call'[c] = Idle
<1>1. Idle.op = "none" \/ Idle.op = "returned"
  BY DEF Idle
<1>2. call' = [call EXCEPT ![c] = Idle] /\ disk' = disk /\ refs' = refs /\ uuids' = uuids
      /\ removed' = removed
  BY DEF Hangup
<1>3. FileInv' /\ call'[c] = Idle
  BY <1>1, <1>2, CallEnds
<1>4. call'[c].op # "returned"
  BY <1>3 DEF Idle
<1> QED BY <1>2, <1>3, <1>4, SameFiles

\* A new file is not one of those that are known.
LEMMA CallUploadInv ==
  ASSUME FileInv, NEW c \in Clients, NEW id, NEW data, CallUpload(c, id, data),
         id \in Names => \E d \in Callers : data = <<id, d>>
  PROVE  FileInv' /\ Keeps(c) /\ call'[c].op = "write" /\ call'[c].id = id /\ call'[c].data = data
<1> DEFINE new == [op |-> "write", id |-> id, data |-> data, link |-> uuids + 1]
<1>1. call' = [call EXCEPT ![c] = new] /\ call'[c] = new
      /\ UNCHANGED <<disk, refs, removed>> /\ uuids' = uuids + 1 /\ uuids \in Nat
  BY DEF FileInv, FilesOK, CallUpload
<1>2. new.op = "write" /\ new.id = id /\ new.data = data /\ new.link = uuids + 1
      /\ new = [op |-> new.op, id |-> new.id, data |-> new.data, link |-> new.link]
  OBVIOUS
<1> HIDE DEF new
<1>3. uuids + 1 \notin DOMAIN disk \cup removed /\ uuids + 1 \in 1..uuids' /\ uuids + 1 \notin 1..uuids
  BY <1>1 DEF FileInv, FilesOK
<1>4. CallOK(c)'
  BY <1>1, <1>2, <1>3 DEF CallOK, Uploading, Using
<1>5. ASSUME NEW d \in Clients PROVE Uploading(d) \/ Using(d) => call[d].link # uuids + 1
  BY <1>3 DEF FileInv, CallOK
<1>6. ~Using(c)'
  BY <1>1, <1>2 DEF Using
<1>7. FileInv'
  <2>1. \A d \in Clients \ {c} : Uploading(d) \/ Using(d) => call'[c].link # call[d].link
    BY <1>1, <1>2, <1>5
  <2>2. uuids' \in Nat /\ uuids <= uuids'
    BY <1>1
  <2> QED BY <1>1, <1>4, <1>6, <2>1, <2>2, CallChanges
<1>8. Keeps(c)
  BY <1>1, <1>2, SameFiles
<1> QED BY <1>1, <1>2, <1>7, <1>8

LEMMA CallGetInv ==
  ASSUME FileInv, NEW c \in Clients, NEW id, CallGet(c, id), c \in Callers => id \in Names
  PROVE  /\ FileInv' /\ Keeps(c) /\ UNCHANGED <<disk, refs>>
         /\ \/ id \in DOMAIN refs /\ call'[c] = [op |-> "open", id |-> id, link |-> refs[id]]
            \/ call'[c] = [op |-> "returned", value |-> "thrown", data |-> NoData]
<1>1. CASE id \in DOMAIN refs
  <2> DEFINE new == [op |-> "open", id |-> id, link |-> refs[id]]
  <2>1. call' = [call EXCEPT ![c] = new] /\ call'[c] = new /\ UNCHANGED <<disk, refs, uuids, removed>>
    BY <1>1 DEF FileInv, CallGet
  <2>2. new.op = "open" /\ new.id = id /\ new.link = refs[id]
        /\ new = [op |-> new.op, id |-> new.id, link |-> new.link]
    OBVIOUS
  <2> HIDE DEF new
  <2>3. refs[id] \in DOMAIN disk \cup removed /\ (id \in Names => Whole(id, refs[id]))
        /\ \A i \in DOMAIN refs : refs[i] = refs[id] => i = id
    BY <1>1 DEF FileInv, FilesOK, RefsHaveFiles
  <2>4. CallOK(c)' /\ ~Uploading(c)'
    BY <2>1, <2>2, <2>3 DEF CallOK, Uploading, Using, Whole
  <2>5. \A d \in Clients \ {c} : Uploading(d) => call'[c].link # call[d].link
    BY <1>1, <2>1, <2>2, <2>3 DEF FileInv, CallOK, Uploading
  <2>6. uuids' \in Nat /\ uuids <= uuids'
    BY <2>1 DEF FileInv, FilesOK
  <2>7. FileInv'
    BY <2>1, <2>4, <2>5, <2>6, CallChanges
  <2>8. Keeps(c)
    BY <2>1, <2>2, SameFiles
  <2> QED BY <1>1, <2>1, <2>7, <2>8 DEF new
<1>2. CASE id \notin DOMAIN refs
  <2>1. Return(c, "thrown", NoData) /\ disk' = disk /\ refs' = refs /\ uuids' = uuids
        /\ removed' = removed
    BY <1>2 DEF CallGet
  <2>2. FileInv' /\ call'[c] = [op |-> "returned", value |-> "thrown", data |-> NoData]
    BY <2>1, ReturnInv
  <2>3. Keeps(c)
    BY <2>1, <2>2, SameFiles
  <2> QED BY <2>1, <2>2, <2>3
<1> QED BY <1>1, <1>2

LEMMA CallDeleteInv ==
  ASSUME FileInv, NEW c \in Clients, NEW id \in Names, CallDelete(c, id)
  PROVE  FileInv' /\ Keeps(c)
<1>1. CASE id \in DOMAIN refs
  <2> DEFINE new == [op |-> "remove", id |-> id, link |-> refs[id]]
  <2>1. call' = [call EXCEPT ![c] = new] /\ call'[c] = new /\ UNCHANGED <<disk, refs, uuids, removed>>
    BY <1>1 DEF FileInv, CallDelete
  <2>2. new.op = "remove" /\ new.id = id /\ new.link = refs[id]
        /\ new = [op |-> new.op, id |-> new.id, link |-> new.link]
    OBVIOUS
  <2> HIDE DEF new
  <2>3. refs[id] \in DOMAIN disk \cup removed /\ Whole(id, refs[id])
        /\ \A i \in DOMAIN refs : refs[i] = refs[id] => i = id
    BY <1>1 DEF FileInv, FilesOK, RefsHaveFiles
  <2>4. CallOK(c)' /\ ~Uploading(c)'
    BY <2>1, <2>2, <2>3 DEF CallOK, Uploading, Using, Whole
  <2>5. \A d \in Clients \ {c} : Uploading(d) => call'[c].link # call[d].link
    BY <1>1, <2>1, <2>2, <2>3 DEF FileInv, CallOK, Uploading
  <2>6. uuids' \in Nat /\ uuids <= uuids'
    BY <2>1 DEF FileInv, FilesOK
  <2>7. FileInv'
    BY <2>1, <2>4, <2>5, <2>6, CallChanges
  <2>8. Keeps(c)
    BY <2>1, <2>2, SameFiles
  <2> QED BY <2>7, <2>8
<1>2. CASE id \notin DOMAIN refs
  <2>1. Return(c, "failed", NoData) /\ disk' = disk /\ refs' = refs /\ uuids' = uuids
        /\ removed' = removed
    BY <1>2 DEF CallDelete
  <2>2. FileInv' /\ call'[c] = [op |-> "returned", value |-> "failed", data |-> NoData]
    BY <2>1, ReturnInv
  <2>3. Keeps(c)
    BY <2>1, <2>2, SameFiles
  <2> QED BY <2>2, <2>3
<1> QED BY <1>1, <1>2
-----------------------------------------------------------------------------
(* The steps of the service.                                               *)

LEMMA WriteFileInv ==
  ASSUME FileInv, NEW c \in Clients, WriteFile(c)
  PROVE  /\ FileInv' /\ Keeps(c) /\ refs' = refs
         /\ \/ /\ call'[c].op = "refer" /\ call'[c].id = call[c].id
               /\ call'[c].data = call[c].data
            \/ call'[c].op = "returned" /\ call'[c].value \in {"failed", "thrown"}
<1>1. CallOK(c) /\ call[c].op = "write" /\ UNCHANGED <<refs, uuids, removed>>
  BY DEF FileInv, WriteFile
<1>2. CASE Return(c, "failed", NoData) /\ UNCHANGED disk
  <2>1. FileInv' /\ call'[c] = [op |-> "returned", value |-> "failed", data |-> NoData]
    BY <1>1, <1>2, ReturnInv
  <2> QED BY <1>1, <1>2, <2>1, SameFiles
<1>3. CASE Return(c, "thrown", NoData) /\ UNCHANGED disk
  <2>1. FileInv' /\ call'[c] = [op |-> "returned", value |-> "thrown", data |-> NoData]
    BY <1>1, <1>3, ReturnInv
  <2> QED BY <1>1, <1>3, <2>1, SameFiles
<1>4. CASE disk' = With(disk, call[c].link, call[c].data) /\ call' = [call EXCEPT ![c].op = "refer"]
  <2> DEFINE link == call[c].link
  <2>1. link \in 1..uuids /\ link \notin DOMAIN disk \cup removed
        /\ call[c] = [op |-> call[c].op, id |-> call[c].id, data |-> call[c].data, link |-> link]
    BY <1>1 DEF CallOK, Uploading
  <2>2. call'[c] = [op |-> "refer", id |-> call[c].id, data |-> call[c].data, link |-> link]
        /\ \A d \in Clients \ {c} : call'[d] = call[d]
    BY <1>4, <2>1 DEF FileInv
  <2>3. call' = [d \in Clients |-> call'[d]]
    BY <1>4 DEF FileInv
  <2>4. DOMAIN disk' = DOMAIN disk \cup {link} /\ disk'[link] = call[c].data
        /\ \A x \in DOMAIN disk : disk'[x] = disk[x]
    BY <1>4, <2>1 DEF With
  <2> HIDE DEF link
  <2>5. \A id \in DOMAIN refs : refs[id] # link
    BY <2>1 DEF FileInv, FilesOK, RefsHaveFiles
  <2>6. FilesOK'
    <3>1. RefsHaveFiles'
      BY <1>1, <2>4 DEF FileInv, FilesOK, RefsHaveFiles
    <3>2. \A id \in DOMAIN refs : IF id \in Names THEN Whole(id, refs[id])' ELSE refs[id] \in DOMAIN disk'
      BY <1>1, <2>4, <2>5 DEF FileInv, FilesOK, Whole
    <3> QED BY <1>1, <2>1, <2>4, <3>1, <3>2 DEF FileInv, FilesOK
  <2>7. CallOK(c)'
    BY <1>1, <2>1, <2>2, <2>4, <2>5 DEF CallOK, Uploading, Using
  <2>8. ASSUME NEW d \in Clients, d # c PROVE CallOK(d)'
    <3>1. CallOK(d) /\ call'[d] = call[d]
      BY <2>2, <2>8 DEF FileInv
    <3>2. Uploading(d) \/ Using(d) => call[d].link # link
      BY <1>1, <2>8 DEF FileInv, CallsApart, Uploading, link
    <3> QED BY <1>1, <2>4, <3>1, <3>2 DEF CallOK, Uploading, Using, Whole
  <2>9. CallsApart'
    BY <1>1, <2>2 DEF FileInv, CallsApart, Uploading, Using, link
  <2>10. FileInv'
    BY <2>3, <2>6, <2>7, <2>8, <2>9 DEF FileInv
  <2>11. Keeps(c)
    BY <1>1, <2>2, <2>4 DEF Keeps, Kept, FileInv, FilesOK
  <2> QED BY <1>1, <2>2, <2>10, <2>11
<1> QED BY <1>2, <1>3, <1>4 DEF WriteFile

LEMMA ReferInv ==
  ASSUME FileInv, NEW c \in Clients, Refer(c)
  PROVE  /\ FileInv' /\ Keeps(c)
         /\ call'[c].op = "returned"
         /\ \/ call'[c].value = "ok" /\ DOMAIN refs' = DOMAIN refs \cup {call[c].id}
            \/ call'[c].value = "failed" /\ refs' = refs
<1>1. CallOK(c) /\ call[c].op = "refer" /\ UNCHANGED <<disk, uuids, removed>>
  BY DEF FileInv, Refer
<1>2. CASE Return(c, "failed", NoData) /\ UNCHANGED refs
  <2>1. FileInv' /\ call'[c] = [op |-> "returned", value |-> "failed", data |-> NoData]
    BY <1>1, <1>2, ReturnInv
  <2> QED BY <1>1, <1>2, <2>1, SameFiles
<1>3. CASE refs' = With(refs, call[c].id, call[c].link) /\ Return(c, "ok", NoData)
  <2> PICK link, id : link = call[c].link /\ id = call[c].id
    OBVIOUS
  <2>1. /\ link \in 1..uuids /\ link \in DOMAIN disk /\ disk[link] = call[c].data
        /\ (id \in Names => \E d \in Callers : call[c].data = <<id, d>>)
        /\ \A i \in DOMAIN refs : refs[i] # link
    BY <1>1 DEF CallOK, Uploading
  <2>2. call'[c] = [op |-> "returned", value |-> "ok", data |-> NoData]
        /\ \A d \in Clients \ {c} : call'[d] = call[d]
    BY <1>3 DEF FileInv, Return
  <2>3. call' = [d \in Clients |-> call'[d]]
    BY <1>3 DEF FileInv, Return
  <2>4. DOMAIN refs' = DOMAIN refs \cup {id} /\ refs'[id] = link
        /\ \A i \in DOMAIN refs \ {id} : refs'[i] = refs[i]
    BY <1>3 DEF With
  <2>5. \A d \in Clients \ {c} : Uploading(d) \/ Using(d) => call[d].link # link
    BY <1>1 DEF FileInv, CallsApart, Uploading
  <2>6. Keeps(c)
    <3>1. \A i \in DOMAIN refs \ Names : Kept(i) \/ i = id
      BY <1>1, <2>4 DEF Kept, FileInv, FilesOK
    <3> QED BY <1>1, <2>1, <2>2, <2>4, <3>1 DEF Keeps
  <2>7. FilesOK'
    <3>1. RefsHaveFiles'
      BY <1>1, <2>1, <2>4 DEF FileInv, FilesOK, RefsHaveFiles
    <3>2. \A i, j \in DOMAIN refs' : refs'[i] = refs'[j] => i = j
      BY <2>1, <2>4 DEF FileInv, FilesOK
    <3>3. id \in Names => Whole(id, link)'
      BY <1>1, <2>1 DEF Whole
    <3>4. \A i \in DOMAIN refs \ {id} : IF i \in Names THEN Whole(i, refs[i]) ELSE refs[i] \in DOMAIN disk
      BY DEF FileInv, FilesOK
    <3>5. (\A i \in DOMAIN refs : IF i \in Names THEN Whole(i, refs[i]) ELSE refs[i] \in DOMAIN disk)'
      <4> SUFFICES ASSUME NEW i \in DOMAIN refs'
                   PROVE  (IF i \in Names THEN Whole(i, refs[i]) ELSE refs[i] \in DOMAIN disk)'
        OBVIOUS
      <4>1. CASE i = id
        BY <1>1, <2>1, <2>4, <3>3, <4>1 DEF Whole
      <4>2. CASE i # id
        BY <1>1, <2>4, <3>4, <4>2 DEF Whole
      <4> QED BY <4>1, <4>2
    <3> QED BY <1>1, <3>1, <3>2, <3>5 DEF FileInv, FilesOK
  <2>8. CallOK(c)'
    BY <2>2 DEF CallOK, Uploading, Using
  <2>9. ASSUME NEW d \in Clients, d # c PROVE CallOK(d)'
    <3>1. CallOK(d) /\ call'[d] = call[d] /\ (Uploading(d) \/ Using(d) => call[d].link # link)
      BY <2>2, <2>5, <2>9 DEF FileInv
    <3> QED BY <1>1, <2>4, <3>1 DEF CallOK, Uploading, Using, Whole
  <2>10. CallsApart'
    BY <2>2 DEF FileInv, CallsApart, Uploading, Using
  <2>11. FileInv'
    BY <2>3, <2>7, <2>8, <2>9, <2>10 DEF FileInv
  <2> QED BY <2>2, <2>4, <2>6, <2>11
<1> QED BY <1>2, <1>3 DEF Refer

\* A file that is deleted has the reference that is about to be dropped, or none.
LEMMA RemoveFileInv ==
  ASSUME FileInv, NEW c \in Clients, RemoveFile(c)
  PROVE  FileInv' /\ Keeps(c) /\ call'[c].op \in {"drop", "returned"}
<1>1. CallOK(c) /\ call[c].op = "remove" /\ UNCHANGED <<refs, uuids>>
  BY DEF FileInv, RemoveFile
<1>2. CASE Return(c, "failed", NoData) /\ UNCHANGED <<disk, removed>>
  <2>1. FileInv' /\ call'[c] = [op |-> "returned", value |-> "failed", data |-> NoData]
    BY <1>1, <1>2, ReturnInv
  <2> QED BY <1>1, <1>2, <2>1, SameFiles
<1>3. CASE /\ disk' = Without(disk, call[c].link) /\ removed' = removed \cup {call[c].link}
           /\ call' = [call EXCEPT ![c].op = "drop"] /\ call[c].link \in DOMAIN disk
  <2> PICK link, id : link = call[c].link /\ id = call[c].id
    OBVIOUS
  <2>1. /\ link \in DOMAIN disk /\ id \in Names /\ Whole(id, link)
        /\ \A i \in DOMAIN refs : refs[i] = link => i = id
        /\ call[c] = [op |-> call[c].op, id |-> id, link |-> link]
    BY <1>1, <1>3 DEF CallOK, Using
  <2>2. call'[c] = [op |-> "drop", id |-> id, link |-> link]
        /\ \A d \in Clients \ {c} : call'[d] = call[d]
    BY <1>3, <2>1 DEF FileInv
  <2>3. call' = [d \in Clients |-> call'[d]]
    BY <1>3 DEF FileInv
  <2>4. DOMAIN disk' = DOMAIN disk \ {link} /\ removed' = removed \cup {link}
        /\ \A x \in DOMAIN disk' : disk'[x] = disk[x]
    BY <1>3 DEF Without
  <2>5. FilesOK'
    <3>1. RefsHaveFiles'
      BY <1>1, <2>4 DEF FileInv, FilesOK, RefsHaveFiles
    <3>2. (\A i \in DOMAIN refs : IF i \in Names THEN Whole(i, refs[i]) ELSE refs[i] \in DOMAIN disk)'
      BY <1>1, <2>1, <2>4 DEF FileInv, FilesOK, Whole
    <3> QED BY <1>1, <2>1, <2>4, <3>1, <3>2 DEF FileInv, FilesOK
  <2>6. CallOK(c)'
    BY <1>1, <2>1, <2>2, <2>4 DEF CallOK, Uploading, Using, Whole
  <2>7. ASSUME NEW d \in Clients, d # c PROVE CallOK(d)'
    <3>1. CallOK(d) /\ call'[d] = call[d]
      BY <2>2, <2>7 DEF FileInv
    <3>2. Uploading(d) => call[d].link # link
      BY <1>1, <2>7 DEF FileInv, CallsApart, Using
    <3> QED BY <1>1, <2>4, <3>1, <3>2 DEF CallOK, Uploading, Using, Whole
  <2>8. CallsApart'
    BY <1>1, <2>2 DEF FileInv, CallsApart, Uploading, Using
  <2>9. FileInv'
    BY <2>3, <2>5, <2>6, <2>7, <2>8 DEF FileInv
  <2>10. Keeps(c)
    BY <1>1, <2>1, <2>2, <2>4 DEF Keeps, Kept, FileInv, FilesOK
  <2> QED BY <2>2, <2>9, <2>10
<1> QED BY <1>2, <1>3 DEF RemoveFile

LEMMA DropRefInv ==
  ASSUME FileInv, NEW c \in Clients, DropRef(c)
  PROVE  FileInv' /\ Keeps(c) /\ call'[c].op = "returned"
<1>1. CallOK(c) /\ call[c].op = "drop" /\ UNCHANGED <<disk, uuids, removed>>
  BY DEF FileInv, DropRef
<1>2. CASE Return(c, "failed", NoData) /\ UNCHANGED refs
  <2>1. FileInv' /\ call'[c] = [op |-> "returned", value |-> "failed", data |-> NoData]
    BY <1>1, <1>2, ReturnInv
  <2> QED BY <1>1, <1>2, <2>1, SameFiles
<1>3. CASE refs' = Without(refs, call[c].id) /\ Return(c, "ok", NoData)
  <2>1. call[c].id \in Names
    BY <1>1 DEF CallOK, Using
  <2>2. call'[c] = [op |-> "returned", value |-> "ok", data |-> NoData]
        /\ \A d \in Clients \ {c} : call'[d] = call[d]
    BY <1>3 DEF FileInv, Return
  <2>3. call' = [d \in Clients |-> call'[d]]
    BY <1>3 DEF FileInv, Return
  <2>4. DOMAIN refs' = DOMAIN refs \ {call[c].id} /\ \A i \in DOMAIN refs' : refs'[i] = refs[i]
    BY <1>3 DEF Without
  <2>5. FilesOK'
    <3>1. RefsHaveFiles'
      BY <1>1, <2>4 DEF FileInv, FilesOK, RefsHaveFiles
    <3>2. (\A i \in DOMAIN refs : IF i \in Names THEN Whole(i, refs[i]) ELSE refs[i] \in DOMAIN disk)'
      BY <1>1, <2>4 DEF FileInv, FilesOK, Whole
    <3> QED BY <1>1, <2>4, <3>1, <3>2 DEF FileInv, FilesOK
  <2>6. CallOK(c)'
    BY <2>2 DEF CallOK, Uploading, Using
  <2>7. ASSUME NEW d \in Clients, d # c PROVE CallOK(d)'
    <3>1. CallOK(d) /\ call'[d] = call[d]
      BY <2>2, <2>7 DEF FileInv
    <3> QED BY <1>1, <2>4, <3>1 DEF CallOK, Uploading, Using, Whole
  <2>8. CallsApart'
    BY <2>2 DEF FileInv, CallsApart, Uploading, Using
  <2>9. FileInv'
    BY <2>3, <2>5, <2>6, <2>7, <2>8 DEF FileInv
  <2>10. Keeps(c)
    BY <1>1, <2>1, <2>2, <2>4 DEF Keeps, Kept, FileInv, FilesOK
  <2> QED BY <2>2, <2>9, <2>10
<1> QED BY <1>2, <1>3 DEF DropRef

LEMMA OpenFileInv ==
  ASSUME FileInv, NEW c \in Clients, OpenFile(c)
  PROVE  /\ FileInv' /\ Keeps(c) /\ UNCHANGED <<disk, refs>>
         /\ call'[c].op = "returned" /\ call'[c].value = "ok"
         /\ call[c].link \in DOMAIN disk => call'[c].data = disk[call[c].link]
<1> PICK data : data = IF call[c].link \in DOMAIN disk THEN disk[call[c].link] ELSE NoData
  OBVIOUS
<1>1. Return(c, "ok", data) /\ disk' = disk /\ refs' = refs /\ uuids' = uuids /\ removed' = removed
      /\ call[c].op = "open"
  BY DEF OpenFile
<1>2. FileInv' /\ call'[c] = [op |-> "returned", value |-> "ok", data |-> data]
  BY <1>1, ReturnInv
<1>3. Keeps(c)
  BY <1>1, SameFiles
<1> QED BY <1>1, <1>2, <1>3

\* The calls that others are in stay as they are.
LEMMA ServeInv ==
  ASSUME FileInv, NEW c \in Clients, Serve(c)
  PROVE  FileInv' /\ Keeps(c) /\ \A d \in Clients \ {c} : call'[d] = call[d]
<1>1. FileInv' /\ Keeps(c)
  BY WriteFileInv, ReferInv, RemoveFileInv, DropRefInv, OpenFileInv DEF Serve
<1>2. ASSUME NEW d \in Clients \ {c} PROVE call'[d] = call[d]
  BY DEF FileInv, Serve, WriteFile, Refer, RemoveFile, DropRef, OpenFile, Return
<1> QED BY <1>1, <1>2

\* An upload goes on as it was called, or returns; the file is stored whole under
\* its id if it succeeded, and else no reference was entered.
LEMMA UploadServed ==
  ASSUME FileInv, NEW c \in Clients, Serve(c), Uploading(c)
  PROVE  \/ /\ call'[c].op = "refer" /\ call'[c].id = call[c].id
            /\ call'[c].data = call[c].data /\ refs' = refs
         \/ /\ call'[c].op = "returned"
            /\ \/ /\ call'[c].value = "ok" /\ call[c].id \in DOMAIN refs'
                  /\ refs'[call[c].id] \in DOMAIN disk' /\ disk'[refs'[call[c].id]] = call[c].data
               \/ call'[c].value \in {"failed", "thrown"} /\ refs' = refs
<1>1. CASE WriteFile(c)
  BY <1>1, WriteFileInv
<1>2. CASE Refer(c)
  <2>1. call[c].op = "refer"
    BY <1>2 DEF Refer
  <2> QED BY <1>2, <2>1, ReferInv DEF Keeps
<1>3. ~RemoveFile(c) /\ ~DropRef(c) /\ ~OpenFile(c)
  BY DEF Uploading, RemoveFile, DropRef, OpenFile
<1> QED BY <1>1, <1>2, <1>3 DEF Serve
-----------------------------------------------------------------------------
(* The clients at the same time.                                           *)

\* Who uploads does so under ids of its own.
OwnIds ==
  \A c \in Clients : Uploading(c) =>
    IF c \in Callers THEN call[c].id \in Names ELSE call[c].id \in {c} \X Nat

StoreInv ==
  /\ FileInv /\ OwnIds
  /\ running \in Groups
  /\ fileNo \in [Writers -> Nat \ {0}]

\* A step is one of c.
StepOf(c) == Keeps(c) /\ \A d \in Clients \ {c} : call'[d] = call[d]
-----------------------------------------------------------------------------
LEMMA ClientsApart ==
  /\ Writers \subseteq Clients /\ Readers \subseteq Clients
  /\ Drawers \subseteq Clients /\ Callers \subseteq Clients
  /\ \A c \in Writers \cup Drawers, k \in Nat : c \notin Callers /\ <<c, k>> \notin Names
  /\ \A r \in Readers : r \notin Callers \cup Writers \cup Drawers
  /\ \A d \in Drawers : d \notin Writers
BY FileAssumption, BlobAssumption, DrawingAssumption, StorageAssumption

\* What is stored under the ids of others is left alone.
LEMMA OthersKept ==
  ASSUME StoreInv, NEW c \in Clients, StepOf(c),
         NEW d \in Writers \cup Drawers, d # c, NEW k \in Nat
  PROVE  /\ <<d, k>> \in DOMAIN refs' <=> <<d, k>> \in DOMAIN refs
         /\ <<d, k>> \in DOMAIN refs => Kept(<<d, k>>)
<1>1. <<d, k>> \notin Names
  BY ClientsApart
<1>2. call[c].op = "refer" => call[c].id # <<d, k>>
  <2> SUFFICES ASSUME call[c].op = "refer" PROVE call[c].id # <<d, k>>
    OBVIOUS
  <2>1. CASE c \in Callers
    BY <1>1, <2>1 DEF StoreInv, OwnIds, Uploading
  <2>2. CASE c \notin Callers
    <3>1. PICK j \in Nat : call[c].id = <<c, j>>
      BY <2>2 DEF StoreInv, OwnIds, Uploading
    <3> QED BY <3>1
  <2> QED BY <2>1, <2>2
<1> QED BY <1>1, <1>2 DEF StepOf, Keeps, Kept

\* A reference that is not a caller's stays.
LEMMA ReferencesStay ==
  ASSUME StoreInv, NEW c \in Clients, StepOf(c), NEW id \in DOMAIN refs, id \notin Names
  PROVE  id \in DOMAIN refs'
BY DEF StepOf, Keeps, Kept
-----------------------------------------------------------------------------
LEMMA ServeStep ==
  ASSUME StoreInv, NEW c \in Clients, Serve(c)
  PROVE  FileInv' /\ OwnIds' /\ StepOf(c)
<1>1. FileInv' /\ StepOf(c)
  BY ServeInv DEF StoreInv, StepOf
<1>2. OwnIds'
  <2> SUFFICES ASSUME NEW d \in Clients, Uploading(d)'
               PROVE  IF d \in Callers THEN call'[d].id \in Names
                      ELSE call'[d].id \in {d} \X Nat
    BY DEF OwnIds
  <2>1. CASE d # c
    BY <1>1, <2>1 DEF StepOf, StoreInv, OwnIds, Uploading
  <2>2. CASE d = c
    <3>1. Uploading(c) /\ call'[c].id = call[c].id
      <4>1. CASE Uploading(c)
        BY <2>2, <4>1, UploadServed DEF Uploading, StoreInv
      <4>2. CASE ~Uploading(c)
        <5>1. RemoveFile(c) \/ DropRef(c) \/ OpenFile(c)
          BY <4>2 DEF Serve, WriteFile, Refer, Uploading
        <5>2. call'[c].op \in {"drop", "returned"}
          BY <5>1, RemoveFileInv, DropRefInv, OpenFileInv DEF StoreInv
        <5> QED BY <2>2, <5>2 DEF Uploading
      <4> QED BY <4>1, <4>2
    <3> QED BY <2>2, <3>1 DEF StoreInv, OwnIds
  <2> QED BY <2>1, <2>2
<1> QED BY <1>1, <1>2

LEMMA HangupStep ==
  ASSUME StoreInv, NEW c \in Clients, Hangup(c), UNCHANGED <<disk, refs, uuids, removed>>
  PROVE  FileInv' /\ OwnIds' /\ StepOf(c) /\ call'[c] = Idle
<1>1. FileInv' /\ Keeps(c) /\ call'[c] = Idle
  BY HangupInv DEF StoreInv
<1>2. \A d \in Clients \ {c} : call'[d] = call[d]
  BY DEF StoreInv, FileInv, Hangup
<1>3. OwnIds'
  BY <1>1, <1>2 DEF StoreInv, OwnIds, Uploading, Idle
<1> QED BY <1>1, <1>2, <1>3 DEF StepOf

LEMMA UploadStep ==
  ASSUME StoreInv, NEW c \in Clients, NEW id, NEW data, CallUpload(c, id, data),
         id \in Names => \E d \in Callers : data = <<id, d>>,
         IF c \in Callers THEN id \in Names ELSE id \in {c} \X Nat
  PROVE  /\ FileInv' /\ OwnIds' /\ StepOf(c) /\ refs' = refs /\ disk' = disk
         /\ call'[c].op = "write" /\ call'[c].id = id /\ call'[c].data = data
<1>1. FileInv' /\ Keeps(c) /\ call'[c].op = "write" /\ call'[c].id = id /\ call'[c].data = data
  BY CallUploadInv DEF StoreInv
<1>2. \A d \in Clients \ {c} : call'[d] = call[d]
  BY DEF StoreInv, FileInv, CallUpload
<1>3. OwnIds'
  BY <1>1, <1>2 DEF StoreInv, OwnIds, Uploading
<1> QED BY <1>1, <1>2, <1>3 DEF StepOf, CallUpload

LEMMA GetStep ==
  ASSUME StoreInv, NEW c \in Clients, NEW id, CallGet(c, id), c \in Callers => id \in Names
  PROVE  /\ FileInv' /\ OwnIds' /\ StepOf(c) /\ UNCHANGED <<disk, refs>>
         /\ \/ id \in DOMAIN refs /\ call'[c] = [op |-> "open", id |-> id, link |-> refs[id]]
            \/ call'[c] = [op |-> "returned", value |-> "thrown", data |-> NoData]
<1>1. /\ FileInv' /\ Keeps(c) /\ UNCHANGED <<disk, refs>>
      /\ \/ id \in DOMAIN refs /\ call'[c] = [op |-> "open", id |-> id, link |-> refs[id]]
         \/ call'[c] = [op |-> "returned", value |-> "thrown", data |-> NoData]
  BY CallGetInv DEF StoreInv
<1>2. \A d \in Clients \ {c} : call'[d] = call[d]
  BY DEF StoreInv, FileInv, CallGet, Return
<1>3. call'[c].op \in {"open", "returned"}
  BY <1>1
<1>4. OwnIds'
  BY <1>2, <1>3 DEF StoreInv, OwnIds, Uploading
<1> QED BY <1>1, <1>2, <1>4 DEF StepOf

LEMMA DeleteStep ==
  ASSUME StoreInv, NEW c \in Clients, NEW id \in Names, CallDelete(c, id)
  PROVE  FileInv' /\ OwnIds' /\ StepOf(c)
<1>1. FileInv' /\ Keeps(c)
  BY CallDeleteInv DEF StoreInv
<1>2. \A d \in Clients \ {c} : call'[d] = call[d]
  BY DEF StoreInv, FileInv, CallDelete, Return
<1>3. call'[c].op \in {"remove", "returned"}
  BY DEF StoreInv, FileInv, CallDelete, Return
<1>4. OwnIds'
  BY <1>2, <1>3 DEF StoreInv, OwnIds, Uploading
<1> QED BY <1>1, <1>2, <1>4 DEF StepOf

LEMMA NoFileStep ==
  ASSUME StoreInv, UNCHANGED fileVars
  PROVE  FileInv' /\ OwnIds' /\ \A c \in Clients : StepOf(c)
<1>1. FileInv' /\ OwnIds'
  BY DEF StoreInv, fileVars, FileInv, FilesOK, RefsHaveFiles, Whole, CallOK, CallsApart, Uploading,
         Using, OwnIds
<1>2. \A c \in Clients : StepOf(c)
  BY SameFiles DEF StoreInv, StepOf, fileVars
<1> QED BY <1>1, <1>2
-----------------------------------------------------------------------------
LEMMA CallerStepOf ==
  ASSUME StoreInv, NEW c \in Callers, CallerStep(c)
  PROVE  FileInv' /\ OwnIds' /\ StepOf(c)
<1>1. c \in Clients
  BY ClientsApart
<1>2. ASSUME NEW id \in Names, CallUpload(c, id, <<id, c>>)
      PROVE  FileInv' /\ OwnIds' /\ StepOf(c)
  BY <1>1, <1>2, UploadStep
<1>3. ASSUME NEW id \in Names, CallDelete(c, id) PROVE FileInv' /\ OwnIds' /\ StepOf(c)
  BY <1>1, <1>3, DeleteStep
<1>4. ASSUME NEW id \in Names, CallGet(c, id) PROVE FileInv' /\ OwnIds' /\ StepOf(c)
  BY <1>1, <1>4, GetStep
<1>5. CASE Hangup(c) /\ UNCHANGED <<disk, refs, uuids, removed>>
  BY <1>1, <1>5, HangupStep
<1>6. CASE Serve(c)
  BY <1>1, <1>6, ServeStep
<1> QED BY <1>2, <1>3, <1>4, <1>5, <1>6 DEF CallerStep

LEMMA DrawerStepOf ==
  ASSUME StoreInv, NEW d \in Drawers, DrawerStep(d)
  PROVE  FileInv' /\ OwnIds' /\ StepOf(d)
<1>1. d \in Clients /\ d \notin Callers /\ ImageOf(d) \notin Names /\ ImageOf(d) \in {d} \X Nat
  BY ClientsApart DEF ImageOf
<1>2. CASE UNCHANGED fileVars
  BY <1>1, <1>2, NoFileStep
<1>3. CASE CallUpload(d, ImageOf(d), <<ImageOf(d)>>)
  BY <1>1, <1>3, UploadStep
<1>4. CASE Hangup(d) /\ UNCHANGED <<disk, refs, uuids, removed>>
  BY <1>1, <1>4, HangupStep
<1>5. CASE Serve(d)
  BY <1>1, <1>5, ServeStep
<1> QED BY <1>2, <1>3, <1>4, <1>5
        DEF DrawerStep, Fetch, Convert, AddImage, UpdateRevision, InsertCalibration, KillDrawer, Show

LEMMA ReaderStepOf ==
  ASSUME StoreInv, NEW r \in Readers, ReaderStep(r)
  PROVE  FileInv' /\ OwnIds' /\ StepOf(r)
<1>1. r \in Clients /\ r \notin Callers
  BY ClientsApart
<1>2. CASE UNCHANGED fileVars
  BY <1>1, <1>2, NoFileStep
<1>3. ASSUME NEW id, CallGet(r, id) PROVE FileInv' /\ OwnIds' /\ StepOf(r)
  BY <1>1, <1>3, GetStep
<1>4. CASE Hangup(r) /\ UNCHANGED <<disk, refs, uuids, removed>>
  BY <1>1, <1>4, HangupStep
<1>5. CASE Serve(r)
  BY <1>1, <1>5, ServeStep
<1> QED BY <1>2, <1>3, <1>4, <1>5 DEF ReaderStep, Find, Found, fileVars

LEMMA WriterStepOf ==
  ASSUME StoreInv, NEW w \in Writers, WriterStep(w)
  PROVE  FileInv' /\ OwnIds' /\ StepOf(w) /\ fileNo' \in [Writers -> Nat \ {0}]
<1>1. w \in Clients /\ w \notin Callers /\ ActiveFile(w) \notin Names /\ ActiveFile(w) \in {w} \X Nat
  BY ClientsApart DEF StoreInv, ActiveFile
<1>2. FileInv' /\ OwnIds' /\ StepOf(w)
  <2>1. CASE UNCHANGED fileVars
    BY <1>1, <2>1, NoFileStep
  <2>2. CASE CallUpload(w, ActiveFile(w), active[w])
    BY <1>1, <2>2, UploadStep
  <2>3. CASE Hangup(w) /\ UNCHANGED <<disk, refs, uuids, removed>>
    BY <1>1, <2>3, HangupStep
  <2>4. CASE Serve(w)
    BY <1>1, <2>4, ServeStep
  <2> QED BY <2>1, <2>2, <2>3, <2>4
          DEF WriterStep, Insert, Rotate, LastDone, Execute, ExecuteFails, Flush, FlushFails, Close,
              Committed, CommitThrows, Kill
<1>3. fileNo' \in [Writers -> Nat \ {0}]
  BY DEF StoreInv, WriterStep, Insert, Rotate, LastDone, Execute, ExecuteFails, Flush, FlushFails,
         Close, Committed, CommitThrows, Kill, writerVars
<1> QED BY <1>2, <1>3

\* Whichever client has the step.
LEMMA ClientStepOf ==
  ASSUME StoreInv, ClientStep, UNCHANGED running
  PROVE  StoreInv'
<1>1. ASSUME NEW w \in Writers, WriterStep(w) PROVE StoreInv'
  BY <1>1, WriterStepOf DEF StoreInv
<1>2. ASSUME NEW r \in Readers, ReaderStep(r) PROVE StoreInv'
  <2>1. UNCHANGED fileNo
    BY <1>2 DEF ReaderStep, Find, Found, writerVars
  <2> QED BY <1>2, <2>1, ReaderStepOf DEF StoreInv
<1>3. ASSUME NEW d \in Drawers, DrawerStep(d), UNCHANGED writerVars PROVE StoreInv'
  BY <1>3, DrawerStepOf DEF StoreInv, writerVars
<1>4. ASSUME NEW c \in Callers, CallerStep(c), UNCHANGED writerVars PROVE StoreInv'
  BY <1>4, CallerStepOf DEF StoreInv, writerVars
<1> QED BY <1>1, <1>2, <1>3, <1>4 DEF ClientStep

\* References are to files, each to one of its own, and a call has what it needs.
THEOREM FileCalls == Spec => []StoreInv
<1>1. Init => StoreInv
  BY InitFileInv DEF Init, StoreInv, FileInit, BlobInit, OwnIds, Uploading, Idle
<1>2. StoreInv /\ [Next]_vars => StoreInv'
  <2> SUFFICES ASSUME StoreInv, [Next]_vars PROVE StoreInv'
    OBVIOUS
  <2>1. CASE ClientStep /\ UNCHANGED running
    BY <2>1, ClientStepOf
  <2>2. CASE UNCHANGED <<fileVars, writerVars, running>>
    BY <2>2, NoFileStep DEF StoreInv, writerVars
  <2> QED BY <2>1, <2>2 DEF Next, vars
<1> QED BY <1>1, <1>2, PTL DEF Spec

\* RefsHaveFiles of every run of every client: a reference is to a file that is stored
\* whole, or was until it was deleted (FileManager::uploadFileAndCommit).
THEOREM ReferencesHaveFiles == Spec => []RefsHaveFiles
<1>1. StoreInv => RefsHaveFiles
  BY DEF StoreInv, FileInv, FilesOK
<1> QED BY <1>1, FileCalls, PTL

\* GetsAreWhole: what a caller is about to read was uploaded whole under that id, or
\* has been deleted (FileManager::getFile).
THEOREM CallersGetWholeFiles == Spec => []GetsAreWhole
<1>1. StoreInv => GetsAreWhole
  <2> SUFFICES ASSUME StoreInv, NEW c \in Callers, call[c].op = "open"
               PROVE  \/ call[c].link \in removed
                      \/ /\ call[c].link \in DOMAIN disk
                         /\ \E d \in Callers : disk[call[c].link] = <<call[c].id, d>>
    BY DEF GetsAreWhole
  <2>1. CallOK(c)
    BY ClientsApart DEF StoreInv, FileInv
  <2> QED BY <2>1 DEF CallOK, Using, Whole
<1> QED BY <1>1, FileCalls, PTL
-----------------------------------------------------------------------------
(* Drawings.                                                               *)

Images == {ImageOf(d) : d \in Drawers}

Stored(image) == image \in DOMAIN refs \cup unsaved

DrawingTypes ==
  /\ drawings \in [Revisions -> [image : Images \cup {NoImage}, incomplete : BOOLEAN]]
  /\ calibrations \in [Revisions -> Nat]
  /\ node \in [Drawers -> [image : Images \cup {NoImage}, incomplete : BOOLEAN]]
  /\ calibrated \in [Drawers -> BOOLEAN]
  /\ dpc \in [Drawers -> {"start", "fetched", "uploading", "updating", "calibrating", "ok", "shown",
                          "failed"}]

\* A revision with an image that is not stored, shown or calibrated without one.
RevisionOK(r) ==
  /\ drawings[r].image # NoImage => Stored(drawings[r].image)
  /\ ~drawings[r].incomplete \/ calibrations[r] > 0 => drawings[r].image # NoImage

\* How far a run has come tells what is stored.
DrawerOK(d) ==
  /\ dpc[d] # "uploading" => call[d].op = "none"
  /\ dpc[d] = "uploading" =>
       \/ Uploading(d) /\ call[d].id = ImageOf(d)
       \/ /\ call[d].op = "returned" /\ call[d].value \in {"ok", "failed", "thrown"}
          /\ call[d].value = "ok" => ImageOf(d) \in DOMAIN refs
  /\ dpc[d] \in {"updating", "calibrating", "ok", "shown"} => Stored(ImageOf(d))
  /\ dpc[d] = "updating" => node[d].image = ImageOf(d)
  /\ dpc[d] \in {"calibrating", "ok", "shown"} => drawings[DrawingOf[d]].image # NoImage
  /\ dpc[d] \in {"ok", "shown"} /\ calibrated[d] => calibrations[DrawingOf[d]] > 0

DrawingInv ==
  /\ DrawingTypes
  /\ \A r \in Revisions : RevisionOK(r)
  /\ \A d \in Drawers : DrawerOK(d)

LEMMA ImagesApart ==
  /\ NoImage \notin Images
  /\ \A d \in Drawers : ImageOf(d) \in Images /\ DrawingOf[d] \in Revisions
  /\ \A i \in Images : i \notin Names
BY DrawingAssumption, ClientsApart DEF NoImage, ImageOf, Images, Revisions

\* A step of another client, or one that leaves the revisions alone.
LEMMA DrawingsKept ==
  ASSUME StoreInv, DrawingInv, NEW c \in Clients, StepOf(c), UNCHANGED drawerVars,
         c \in Drawers => DrawerOK(c)'
  PROVE  DrawingInv'
<1>1. \A i \in Images : Stored(i) => Stored(i)'
  BY ReferencesStay, ImagesApart DEF Stored, drawerVars
<1>2. DrawingTypes'
  BY DEF DrawingInv, DrawingTypes, drawerVars
<1>3. ASSUME NEW r \in Revisions PROVE RevisionOK(r)'
  BY <1>1 DEF DrawingInv, DrawingTypes, RevisionOK, drawerVars, Stored
<1>4. ASSUME NEW d \in Drawers, d # c PROVE DrawerOK(d)'
  <2>1. call'[d] = call[d]
    BY <1>4, ClientsApart DEF StepOf
  <2>2. ImageOf(d) \in DOMAIN refs => ImageOf(d) \in DOMAIN refs'
    BY ReferencesStay, ImagesApart
  <2> QED BY <1>1, <2>1, <2>2, ImagesApart DEF DrawingInv, DrawerOK, drawerVars, Uploading
<1> QED BY <1>2, <1>3, <1>4 DEF DrawingInv

\* A step of a run changes its own place: no revision loses its image or its
\* calibration, and the other runs are where they were.
LEMMA DrawerMoves ==
  ASSUME StoreInv, DrawingInv, NEW d \in Drawers, StepOf(d),
         NEW place, dpc' = [dpc EXCEPT ![d] = place], DrawingTypes', unsaved \subseteq unsaved',
         \A r \in Revisions : /\ drawings[r].image # NoImage => drawings'[r].image # NoImage
                              /\ calibrations[r] > 0 => calibrations'[r] > 0,
         \A e \in Drawers \ {d} : node'[e] = node[e] /\ calibrated'[e] = calibrated[e],
         \A r \in Revisions : RevisionOK(r)', DrawerOK(d)'
  PROVE  DrawingInv'
<1>1. \A e \in Drawers : /\ ImageOf(e) \in DOMAIN refs => ImageOf(e) \in DOMAIN refs'
                         /\ Stored(ImageOf(e)) => Stored(ImageOf(e))'
  BY ReferencesStay, ImagesApart, ClientsApart DEF Stored, ImageOf
<1>2. ASSUME NEW e \in Drawers, e # d PROVE DrawerOK(e)'
  <2>1. DrawerOK(e) /\ call'[e] = call[e] /\ dpc'[e] = dpc[e] /\ DrawingOf[e] \in Revisions
    BY <1>2, ClientsApart, ImagesApart DEF DrawingInv, StepOf, DrawingTypes
  <2> QED BY <1>1, <1>2, <2>1 DEF DrawerOK, Uploading
<1> QED BY <1>2 DEF DrawingInv

LEMMA DrawerStepInv ==
  ASSUME StoreInv, DrawingInv, NEW d \in Drawers, DrawerStep(d)
  PROVE  DrawingInv'
<1>1. d \in Clients /\ StepOf(d) /\ DrawerOK(d) /\ DrawingTypes /\ DrawingOf[d] \in Revisions
      /\ ImageOf(d) \in Images /\ NoImage \notin Images /\ \A r \in Revisions : RevisionOK(r)
  BY ClientsApart, ImagesApart, DrawerStepOf DEF DrawingInv
<1>2. \A i \in Images : unsaved \subseteq unsaved' /\ Stored(i) => Stored(i)'
  BY <1>1, ReferencesStay, ImagesApart DEF Stored
<1>3. ImageOf(d) \in DOMAIN refs => ImageOf(d) \in DOMAIN refs'
  BY <1>1, ReferencesStay, ImagesApart
<1>4. unsaved \subseteq unsaved' /\ UNCHANGED <<drawings, calibrations>>
      => \A r \in Revisions : RevisionOK(r)'
  BY <1>1, <1>2 DEF RevisionOK, DrawingTypes
<1>5. CASE Fetch(d)
  <2>1. dpc' = [dpc EXCEPT ![d] = "fetched"] /\ dpc[d] = "start"
        /\ UNCHANGED <<call, drawings, calibrations, calibrated, unsaved>>
    BY <1>5 DEF Fetch, Goto, fileVars
  <2>2. DrawingTypes' /\ \A e \in Drawers \ {d} : node'[e] = node[e]
    BY <1>1, <1>5 DEF Fetch, Goto, DrawingTypes
  <2>3. DrawerOK(d)'
    BY <1>1, <2>1 DEF DrawerOK, DrawingTypes
  <2> QED BY <1>1, <1>4, <2>1, <2>2, <2>3, DrawerMoves
<1>6. CASE dpc' = [dpc EXCEPT ![d] = "failed"]
           /\ UNCHANGED <<drawings, calibrations, node, calibrated, unsaved>> /\ call'[d].op = "none"
  <2>1. DrawingTypes'
    BY <1>1, <1>6 DEF DrawingTypes
  <2>2. DrawerOK(d)'
    BY <1>1, <1>6 DEF DrawerOK, DrawingTypes
  <2> QED BY <1>1, <1>4, <1>6, <2>1, <2>2, DrawerMoves
<1>7. CASE /\ dpc[d] = "fetched" /\ dpc' = [dpc EXCEPT ![d] = "uploading"]
           /\ CallUpload(d, ImageOf(d), <<ImageOf(d)>>)
           /\ \E b \in BOOLEAN : calibrated' = [calibrated EXCEPT ![d] = b]
           /\ UNCHANGED <<drawings, calibrations, node, unsaved>>
  <2>1. DrawingTypes' /\ \A e \in Drawers \ {d} : calibrated'[e] = calibrated[e]
    BY <1>1, <1>7 DEF DrawingTypes
  <2>2. call'[d].op = "write" /\ call'[d].id = ImageOf(d)
    BY <1>1, <1>7 DEF CallUpload, StoreInv, FileInv
  <2>3. DrawerOK(d)'
    BY <1>1, <1>7, <2>2 DEF DrawerOK, DrawingTypes, Uploading
  <2> QED BY <1>1, <1>4, <1>7, <2>1, <2>3, DrawerMoves
<1>8. CASE /\ dpc[d] = "uploading" /\ Returned(d) /\ call[d].value # "thrown" /\ Hangup(d)
           /\ node' = [node EXCEPT ![d].image = ImageOf(d)]
           /\ unsaved' = IF call[d].value = "failed" THEN unsaved \cup {ImageOf(d)} ELSE unsaved
           /\ dpc' = [dpc EXCEPT ![d] = "updating"]
           /\ UNCHANGED <<drawings, calibrations, calibrated>>
  <2>1. DrawingTypes' /\ node'[d].image = ImageOf(d) /\ dpc'[d] = "updating"
        /\ \A e \in Drawers \ {d} : node'[e] = node[e]
    BY <1>1, <1>8 DEF DrawingTypes
  <2>2. call[d].value \in {"ok", "failed"} /\ (call[d].value = "ok" => ImageOf(d) \in DOMAIN refs)
    BY <1>1, <1>8 DEF DrawerOK, Returned, Uploading
  <2>3. Stored(ImageOf(d))' /\ unsaved \subseteq unsaved'
    BY <1>3, <1>8, <2>2 DEF Stored
  <2>4. call'[d].op = "none"
    BY <1>1, <1>8 DEF Hangup, Idle, StoreInv, FileInv
  <2>5. DrawerOK(d)'
    BY <2>1, <2>3, <2>4 DEF DrawerOK, ImageOf
  <2> QED BY <1>1, <1>4, <1>8, <2>1, <2>3, <2>5, DrawerMoves
<1>9. CASE /\ dpc[d] = "updating" /\ UNCHANGED <<call, calibrations, node, calibrated, unsaved>>
           /\ drawings' = [drawings EXCEPT ![DrawingOf[d]] =
                [image |-> node[d].image, incomplete |-> @.incomplete \/ node[d].incomplete]]
           /\ dpc' = [dpc EXCEPT ![d] = IF calibrated[d] THEN "calibrating" ELSE "ok"]
  <2>1. DrawingTypes' /\ node[d].image = ImageOf(d) /\ Stored(ImageOf(d))
    BY <1>1, <1>9 DEF DrawingTypes, DrawerOK
  <2>2. /\ drawings'[DrawingOf[d]].image = ImageOf(d)
        /\ \A r \in Revisions \ {DrawingOf[d]} : drawings'[r] = drawings[r]
    BY <1>1, <1>9, <2>1 DEF DrawingTypes
  <2>3. \A r \in Revisions : RevisionOK(r)'
    BY <1>1, <1>2, <1>9, <2>1, <2>2 DEF RevisionOK, DrawingTypes, Stored
  <2>4. DrawerOK(d)'
    BY <1>1, <1>2, <1>9, <2>1, <2>2 DEF DrawerOK, DrawingTypes, ImageOf, Stored
  <2> QED BY <1>1, <1>9, <2>1, <2>2, <2>3, <2>4, DrawerMoves
<1>10. CASE /\ dpc[d] = "calibrating" /\ UNCHANGED <<call, drawings, node, calibrated, unsaved>>
            /\ calibrations' = [calibrations EXCEPT ![DrawingOf[d]] = @ + 1]
            /\ dpc' = [dpc EXCEPT ![d] = "ok"]
  <2>1. DrawingTypes' /\ drawings[DrawingOf[d]].image # NoImage
    BY <1>1, <1>10 DEF DrawingTypes, DrawerOK
  <2>2. calibrations'[DrawingOf[d]] > 0
        /\ \A r \in Revisions \ {DrawingOf[d]} : calibrations'[r] = calibrations[r]
    BY <1>1, <1>10 DEF DrawingTypes
  <2>3. \A r \in Revisions : RevisionOK(r)'
    BY <1>1, <1>2, <1>10, <2>1, <2>2 DEF RevisionOK, DrawingTypes, Stored
  <2>4. DrawerOK(d)'
    BY <1>1, <1>2, <1>10, <2>1, <2>2 DEF DrawerOK, DrawingTypes, ImageOf, Stored
  <2> QED BY <1>1, <1>10, <2>1, <2>2, <2>3, <2>4, DrawerMoves
<1>11. CASE Show(d)
  <2>1. /\ dpc[d] = "ok" /\ UNCHANGED <<call, calibrations, node, calibrated, unsaved>>
        /\ drawings' = [drawings EXCEPT ![DrawingOf[d]].incomplete = FALSE]
        /\ dpc' = [dpc EXCEPT ![d] = "shown"]
    BY <1>11 DEF Show, Goto, fileVars
  <2> DEFINE Doc == [image : Images \cup {NoImage}, incomplete : BOOLEAN]
  <2>2. drawings \in [Revisions -> Doc] /\ drawings[DrawingOf[d]].image # NoImage
    BY <1>1, <2>1 DEF DrawingTypes, DrawerOK
  <2>3. [drawings[DrawingOf[d]] EXCEPT !.incomplete = FALSE] \in Doc
    BY <1>1, <2>2
  <2>4. DrawingTypes' /\ \A r \in Revisions : drawings'[r].image = drawings[r].image
    BY <1>1, <2>1, <2>2, <2>3 DEF DrawingTypes
  <2>5. \A r \in Revisions : RevisionOK(r)'
    BY <1>1, <1>2, <2>1, <2>2, <2>4 DEF RevisionOK, DrawingTypes, Stored
  <2>6. dpc'[d] = "shown" /\ call'[d].op = "none" /\ drawings'[DrawingOf[d]].image # NoImage
    BY <1>1, <2>1, <2>2, <2>4 DEF DrawerOK, DrawingTypes
  <2>7. Stored(ImageOf(d))' /\ (calibrated'[d] => calibrations'[DrawingOf[d]] > 0)
    BY <1>1, <1>2, <2>1 DEF DrawerOK, ImageOf, Stored
  <2>8. DrawerOK(d)'
    BY <2>6, <2>7 DEF DrawerOK, ImageOf
  <2> QED BY <1>1, <2>1, <2>2, <2>4, <2>5, <2>8, DrawerMoves
<1>12. CASE Serve(d) /\ UNCHANGED drawerVars
  <2>1. dpc[d] = "uploading" /\ Uploading(d) /\ call[d].id = ImageOf(d)
    BY <1>1, <1>12 DEF DrawerOK, Serve, WriteFile, Refer, RemoveFile, DropRef, OpenFile
  <2>2. \/ call'[d].op = "refer" /\ call'[d].id = ImageOf(d)
        \/ /\ call'[d].op = "returned" /\ call'[d].value \in {"ok", "failed", "thrown"}
           /\ call'[d].value = "ok" => ImageOf(d) \in DOMAIN refs'
    BY <1>1, <1>12, <2>1, UploadServed DEF StoreInv
  <2>3. DrawerOK(d)'
    BY <1>12, <2>1, <2>2 DEF DrawerOK, Uploading, drawerVars, ImageOf
  <2> QED BY <1>1, <1>12, <2>3, DrawingsKept
<1>13. CASE Convert(d)
  BY <1>1, <1>6, <1>7, <1>13 DEF Convert, Goto, DrawerOK, fileVars
<1>14. CASE AddImage(d)
  <2>1. call'[d].op = "none"
    BY <1>1, <1>14 DEF AddImage, Hangup, Idle, StoreInv, FileInv
  <2> QED BY <1>6, <1>8, <1>14, <2>1 DEF AddImage, Goto
<1>15. CASE UpdateRevision(d)
  BY <1>1, <1>6, <1>9, <1>15 DEF UpdateRevision, Goto, DrawerOK, fileVars
<1>16. CASE InsertCalibration(d)
  BY <1>1, <1>6, <1>10, <1>16 DEF InsertCalibration, Goto, DrawerOK, fileVars
<1>17. CASE KillDrawer(d)
  <2>1. call'[d].op = "none"
    BY <1>1, <1>17 DEF KillDrawer, Hangup, Idle, StoreInv, FileInv
  <2> QED BY <1>6, <1>17, <2>1 DEF KillDrawer, Goto
<1> QED BY <1>5, <1>11, <1>12, <1>13, <1>14, <1>15, <1>16, <1>17 DEF DrawerStep

\* Every revision of a drawing names an image that was stored, and a run has what its
\* place says, whatever other runs for the drawing do (DrawingManager::commitImage).
THEOREM DrawingsHold == Spec => []DrawingInv
<1>1. Init => DrawingInv
  <2> SUFFICES ASSUME Init PROVE DrawingInv
    OBVIOUS
  <2>1. DrawingTypes
    BY DEF Init, DrawingInit, DrawingTypes, Document
  <2>2. \A r \in Revisions : RevisionOK(r)
    BY DEF Init, DrawingInit, RevisionOK, Document
  <2>3. \A d \in Drawers : DrawerOK(d)
    BY ClientsApart DEF Init, FileInit, DrawingInit, DrawerOK, Idle
  <2> QED BY <2>1, <2>2, <2>3 DEF DrawingInv
<1>2. StoreInv /\ DrawingInv /\ [Next]_vars => DrawingInv'
  <2> SUFFICES ASSUME StoreInv, DrawingInv, [Next]_vars PROVE DrawingInv'
    OBVIOUS
  <2>1. ASSUME NEW c \in Clients, c \notin Drawers, StepOf(c), UNCHANGED drawerVars
        PROVE  DrawingInv'
    BY <2>1, DrawingsKept
  <2>2. ASSUME NEW w \in Writers, WriterStep(w), UNCHANGED drawerVars PROVE DrawingInv'
    BY <2>1, <2>2, WriterStepOf, ClientsApart
  <2>3. ASSUME NEW r \in Readers, ReaderStep(r), UNCHANGED drawerVars PROVE DrawingInv'
    BY <2>1, <2>3, ReaderStepOf, ClientsApart
  <2>4. ASSUME NEW c \in Callers, CallerStep(c), UNCHANGED drawerVars PROVE DrawingInv'
    BY <2>1, <2>4, CallerStepOf, ClientsApart
  <2>5. ASSUME NEW d \in Drawers, DrawerStep(d) PROVE DrawingInv'
    BY <2>5, DrawerStepInv
  <2>6. CASE UNCHANGED <<fileVars, drawerVars>>
    BY <2>6 DEF fileVars, drawerVars, DrawingInv, DrawingTypes, RevisionOK, DrawerOK, Stored,
                Uploading
  <2> QED BY <2>2, <2>3, <2>4, <2>5, <2>6 DEF Next, ClientStep, vars
<1> QED BY <1>1, <1>2, FileCalls, PTL DEF Spec

\* ImageIsStored: a drawing that is shown, and any image a revision names, has been
\* stored, unless the upload returned failure (DrawingManager::commitImage).
THEOREM ImagesAreStored == Spec => []ImageIsStored
<1>1. DrawingInv => ImageIsStored
  BY DEF DrawingInv, RevisionOK, ImageIsStored, Stored
<1> QED BY <1>1, DrawingsHold, PTL

\* ProcessedIsWhole: a run that reports success leaves an image and its calibration, and
\* a calibration is of a revision with an image (DrawingManager::commitImage).
THEOREM ProcessedDrawings == Spec => []ProcessedIsWhole
<1>1. DrawingInv => ProcessedIsWhole
  <2> SUFFICES ASSUME DrawingInv, NEW d \in Drawers
               PROVE  /\ dpc[d] \in {"ok", "shown"} =>
                           /\ drawings[DrawingOf[d]].image # NoImage
                           /\ calibrated[d] => calibrations[DrawingOf[d]] > 0
                      /\ calibrations[DrawingOf[d]] > 0 => drawings[DrawingOf[d]].image # NoImage
    BY DEF ProcessedIsWhole
  <2>1. DrawerOK(d) /\ RevisionOK(DrawingOf[d])
    BY ImagesApart DEF DrawingInv
  <2> QED BY <2>1 DEF DrawerOK, RevisionOK
<1> QED BY <1>1, DrawingsHold, PTL
-----------------------------------------------------------------------------
(* The references of the scene builder.                                    *)

\* The texture nodes that the material node of a material is entered under.
Shown(mat) == {TexturePath[mat]} \cap ReadablePaths

MaterialNode == [material : Materials, parents : SUBSET AddedMeshes]

ReferenceTypes ==
  /\ added \subseteq AddedMeshes
  /\ materialNodes \in Seq(MaterialNode)
  /\ materialToNode \in [Materials -> [node : Nat, usage : Nat]]
  /\ meshTexture \in [AddedMeshes -> ReadablePaths \cup {NoPath}]
  /\ DOMAIN textureNodes \subseteq ReadablePaths
  /\ \A p \in DOMAIN textureNodes : textureNodes[p] \subseteq DOMAIN materialNodes

MaterialNodeOK(i) ==
  /\ materialNodes[i].parents \subseteq added
  /\ IsFiniteSet(materialNodes[i].parents) /\ Cardinality(materialNodes[i].parents) <= MaxUsage
  /\ {p \in DOMAIN textureNodes : i \in textureNodes[p]} = Shown(materialNodes[i].material)
  /\ TexturePath[materialNodes[i].material] \notin ReadablePaths \cup {NoPath} => isMissingTextures

\* The node in use has no more parents than were counted.
InUseOK(mat) ==
  LET entry == materialToNode[mat] IN entry.node # 0 =>
    /\ entry.node \in DOMAIN materialNodes
    /\ materialNodes[entry.node].material = mat
    /\ Cardinality(materialNodes[entry.node].parents) <= entry.usage

MeshOK(mesh) ==
  /\ \E i \in DOMAIN materialNodes :
       /\ materialNodes[i].material = MaterialOf[mesh]
       /\ \A j \in DOMAIN materialNodes : mesh \in materialNodes[j].parents <=> j = i
  /\ {meshTexture[mesh]} \ {NoPath} = Shown(MaterialOf[mesh])

ReferenceInv ==
  /\ ReferenceTypes
  /\ \A i \in DOMAIN materialNodes : MaterialNodeOK(i)
  /\ \A mat \in Materials : InUseOK(mat)
  /\ \A mesh \in added : MeshOK(mesh)

\* A mesh is added to the node in use.
LEMMA SharedNode ==
  ASSUME ReferenceInv, NEW mesh \in AddedMeshes, AddMesh(mesh),
         materialToNode[MaterialOf[mesh]].node # 0,
         materialToNode[MaterialOf[mesh]].usage < MaxUsage
  PROVE  ReferenceInv'
<1> PICK mat, i : mat = MaterialOf[mesh] /\ i = materialToNode[mat].node
  OBVIOUS
<1>1. /\ mat \in Materials /\ i # 0 /\ i \in Nat /\ materialToNode[mat].usage < MaxUsage
      /\ materialToNode[mat].usage \in Nat /\ MaxUsage \in Nat
  BY ReferenceAssumption DEF ReferenceInv, ReferenceTypes, Materials
<1>2. /\ mesh \notin added /\ added' = added \cup {mesh}
      /\ materialNodes' = [materialNodes EXCEPT ![i].parents = @ \cup {mesh}]
      /\ materialToNode' = [materialToNode EXCEPT ![mat].usage = @ + 1]
      /\ UNCHANGED <<textureNodes, isMissingTextures>>
      /\ meshTexture' = [meshTexture EXCEPT ![mesh] =
           IF TexturePath[mat] # NoPath /\ TexturePath[mat] \in DOMAIN textureNodes
           THEN TexturePath[mat] ELSE NoPath]
  <2>1. /\ mesh \notin added /\ added' = added \cup {mesh} /\ AddMaterialReference(mat, mesh)
        /\ meshTexture' = [meshTexture EXCEPT ![mesh] =
             IF TexturePath[mat] # NoPath /\ TexturePath[mat] \in DOMAIN textureNodes'
             THEN TexturePath[mat] ELSE NoPath]
    BY DEF AddMesh
  <2>2. ~(materialToNode[mat].node = 0 \/ materialToNode[mat].usage >= MaxUsage)
    BY <1>1
  <2>3. /\ materialNodes' = [materialNodes EXCEPT ![i].parents = @ \cup {mesh}]
        /\ materialToNode' = [materialToNode EXCEPT ![mat].usage = @ + 1]
        /\ UNCHANGED <<textureNodes, isMissingTextures>>
    BY <2>1, <2>2 DEF AddMaterialReference
  <2> QED BY <2>1, <2>3
<1>3. i \in DOMAIN materialNodes /\ materialNodes[i].material = mat /\ MaterialNodeOK(i)
      /\ Cardinality(materialNodes[i].parents) <= materialToNode[mat].usage
  BY <1>1 DEF ReferenceInv, InUseOK
<1>4. /\ DOMAIN materialNodes' = DOMAIN materialNodes
      /\ \A j \in DOMAIN materialNodes \ {i} : materialNodes'[j] = materialNodes[j]
      /\ materialNodes'[i] = [material |-> mat, parents |-> materialNodes[i].parents \cup {mesh}]
      /\ materialNodes' \in Seq(MaterialNode)
  <2>1. materialNodes \in Seq(MaterialNode) /\ materialNodes[i] \in MaterialNode
    BY <1>3 DEF ReferenceInv, ReferenceTypes
  <2>2. [materialNodes[i] EXCEPT !.parents = @ \cup {mesh}]
          = [material |-> mat, parents |-> materialNodes[i].parents \cup {mesh}]
    <3>1. \A n \in MaterialNode : [n EXCEPT !.parents = @ \cup {mesh}]
                                    = [material |-> n.material, parents |-> n.parents \cup {mesh}]
      BY DEF MaterialNode
    <3> QED BY <1>3, <2>1, <3>1
  <2>3. [material |-> mat, parents |-> materialNodes[i].parents \cup {mesh}] \in MaterialNode
    BY <1>1, <2>1 DEF MaterialNode
  <2> QED BY SMTT(30), <1>2, <1>3, <2>1, <2>2, <2>3
<1>5. \A j \in DOMAIN materialNodes : mesh \notin materialNodes[j].parents
  BY <1>2 DEF ReferenceInv, MaterialNodeOK
<1>6. /\ IsFiniteSet(materialNodes'[i].parents)
      /\ Cardinality(materialNodes'[i].parents) = Cardinality(materialNodes[i].parents) + 1
      /\ Cardinality(materialNodes[i].parents) \in Nat
  BY <1>3, <1>4, <1>5, FS_AddElement, FS_CardinalityType DEF MaterialNodeOK
<1>7. ReferenceTypes'
  <2>1. ReferenceTypes
    BY DEF ReferenceInv
  <2>2. materialToNode' \in [Materials -> [node : Nat, usage : Nat]]
    <3>1. \A e \in [node : Nat, usage : Nat] :
            [e EXCEPT !.usage = @ + 1] \in [node : Nat, usage : Nat]
      OBVIOUS
    <3> QED BY <1>1, <1>2, <2>1, <3>1 DEF ReferenceTypes
  <2>3. meshTexture' \in [AddedMeshes -> ReadablePaths \cup {NoPath}]
    BY <1>2, <2>1 DEF ReferenceTypes
  <2> QED BY <1>2, <1>4, <2>1, <2>2, <2>3 DEF ReferenceTypes
<1>8. ASSUME NEW j \in DOMAIN materialNodes' PROVE MaterialNodeOK(j)'
  <2>1. CASE j = i
    <3>1. /\ materialNodes'[i].parents \subseteq added'
          /\ materialNodes'[i].material = materialNodes[i].material
      <4>1. materialNodes[i].parents \subseteq added
        BY <1>3 DEF MaterialNodeOK
      <4> DEFINE old == materialNodes[i]
                 new == materialNodes'[i]
      <4>2. new = [material |-> mat, parents |-> old.parents \cup {mesh}] /\ old.material = mat
        BY <1>3, <1>4
      <4>3. added' = added \cup {mesh} /\ old.parents \subseteq added
        BY <1>2, <4>1
      <4> HIDE DEF old, new
      <4>4. new.parents = old.parents \cup {mesh} /\ new.material = old.material
        BY <4>2
      <4>5. new.parents \subseteq added'
        BY <4>3, <4>4
      <4> QED BY <4>4, <4>5 DEF old, new
    <3>2. Cardinality(materialNodes'[i].parents) <= MaxUsage
      BY <1>1, <1>3, <1>6
    <3> QED BY <1>2, <1>3, <1>6, <2>1, <3>1, <3>2 DEF MaterialNodeOK, Shown
  <2>2. CASE j # i
    BY <1>2, <1>4, <2>2 DEF ReferenceInv, MaterialNodeOK
  <2> QED BY <2>1, <2>2
<1>9. ASSUME NEW m \in Materials PROVE InUseOK(m)'
  <2> DEFINE old == materialToNode[m]
             entry == materialToNode'[m]
  <2>1. /\ materialToNode \in [Materials -> [node : Nat, usage : Nat]]
        /\ materialToNode' = [materialToNode EXCEPT ![mat].usage = @ + 1]
    BY <1>2 DEF ReferenceInv, ReferenceTypes
  <2>2. CASE m = mat
    <3>1. old \in [node : Nat, usage : Nat] /\ entry = [old EXCEPT !.usage = @ + 1] /\ old.node = i
      BY <1>1, <2>1, <2>2
    <3>2. entry.node = i /\ entry.usage = old.usage + 1 /\ old.usage \in Nat
      BY <3>1
    <3>3. Cardinality(materialNodes[i].parents) <= old.usage
      BY <1>3, <2>2
    <3> HIDE DEF old, entry
    <3>4. Cardinality(materialNodes'[i].parents) <= entry.usage
      <4> DEFINE a == Cardinality(materialNodes[i].parents)
                 b == Cardinality(materialNodes'[i].parents)
                 x == old.usage
                 y == entry.usage
      <4>1. a \in Nat /\ b = a + 1 /\ x \in Nat /\ y = x + 1 /\ a <= x
        BY <1>6, <3>2, <3>3
      <4> HIDE DEF a, b, x, y
      <4>2. b <= y
        BY <4>1
      <4> QED BY <4>2 DEF b, y
    <3>5. i \in DOMAIN materialNodes' /\ materialNodes'[i].material = m
      BY <1>3, <1>4, <2>2
    <3> QED BY <3>2, <3>4, <3>5 DEF InUseOK, entry
  <2>3. CASE m # mat
    <3>1. entry = old /\ InUseOK(m)
      BY <2>1, <2>3 DEF ReferenceInv
    <3>2. old.node # 0 => /\ old.node \in DOMAIN materialNodes
                          /\ materialNodes[old.node].material = m
                          /\ Cardinality(materialNodes[old.node].parents) <= old.usage
      BY <3>1 DEF InUseOK
    <3> HIDE DEF old, entry
    <3>3. old.node # 0 => materialNodes'[old.node] = materialNodes[old.node]
      BY <1>3, <1>4, <2>3, <3>2
    <3>4. entry.node # 0 => /\ entry.node \in DOMAIN materialNodes'
                            /\ materialNodes'[entry.node].material = m
                            /\ Cardinality(materialNodes'[entry.node].parents) <= entry.usage
      BY <1>4, <3>1, <3>2, <3>3
    <3> QED BY <3>4 DEF InUseOK, entry
  <2> QED BY <2>2, <2>3
<1>10. ASSUME NEW m \in added' PROVE MeshOK(m)'
  <2>1. CASE m = mesh
    <3>1. \A j \in DOMAIN materialNodes' : mesh \in materialNodes'[j].parents <=> j = i
      BY <1>4, <1>5
    <3>2. {p \in DOMAIN textureNodes : i \in textureNodes[p]} = Shown(mat)
      BY <1>3 DEF MaterialNodeOK
    <3>3. TexturePath[mat] \in DOMAIN textureNodes <=> TexturePath[mat] \in ReadablePaths
      BY <3>2 DEF Shown, ReferenceInv, ReferenceTypes
    <3>4. {meshTexture'[mesh]} \ {NoPath} = Shown(mat)
      BY <1>2, <3>3, ReferenceAssumption DEF Shown, ReferenceInv, ReferenceTypes
    <3> QED BY <1>3, <1>4, <2>1, <3>1, <3>4 DEF MeshOK
  <2>2. CASE m # mesh
    <3>1. m \in added /\ MeshOK(m) /\ m \in AddedMeshes /\ meshTexture'[m] = meshTexture[m]
      BY <1>2, <2>2 DEF ReferenceInv, ReferenceTypes
    <3>2. \A j \in DOMAIN materialNodes :
            /\ m \in materialNodes'[j].parents <=> m \in materialNodes[j].parents
            /\ materialNodes'[j].material = materialNodes[j].material
      BY <1>3, <1>4, <2>2
    <3> QED BY <1>4, <3>1, <3>2 DEF MeshOK
  <2> QED BY <2>1, <2>2
<1> QED BY <1>7, <1>8, <1>9, <1>10 DEF ReferenceInv

\* The texture of a material is entered for its new node, or noticed to be missing.
LEMMA TextureEntered ==
  ASSUME ReferenceInv, NEW mat, NEW i,
         IF TexturePath[mat] = NoPath THEN UNCHANGED <<textureNodes, isMissingTextures>>
         ELSE AddTextureReference(TexturePath[mat], i)
  PROVE  /\ DOMAIN textureNodes' = DOMAIN textureNodes \cup Shown(mat)
         /\ \A p \in DOMAIN textureNodes \ Shown(mat) : textureNodes'[p] = textureNodes[p]
         /\ \A p \in Shown(mat) :
              textureNodes'[p] = (IF p \in DOMAIN textureNodes THEN textureNodes[p] ELSE {}) \cup {i}
         /\ isMissingTextures => isMissingTextures'
         /\ TexturePath[mat] \notin ReadablePaths \cup {NoPath} => isMissingTextures'
<1> PICK path : path = TexturePath[mat]
  OBVIOUS
<1>1. Shown(mat) = {path} \cap ReadablePaths /\ DOMAIN textureNodes \subseteq ReadablePaths
      /\ NoPath \notin ReadablePaths
  BY ReferenceAssumption DEF Shown, ReferenceInv, ReferenceTypes
<1>2. CASE path = NoPath
  BY <1>1, <1>2
<1>3. CASE path # NoPath /\ path \in DOMAIN textureNodes
  BY <1>1, <1>3 DEF AddTextureReference
<1>4. CASE path # NoPath /\ path \notin DOMAIN textureNodes /\ path \in ReadablePaths
  <2>1. textureNodes' = [p \in DOMAIN textureNodes \cup {path} |->
            IF p = path THEN {i} ELSE textureNodes[p]] /\ UNCHANGED isMissingTextures
    BY <1>4 DEF AddTextureReference
  <2> QED BY <1>1, <1>4, <2>1
<1>5. CASE path # NoPath /\ path \notin ReadablePaths
  BY <1>1, <1>5 DEF AddTextureReference
<1> QED BY <1>2, <1>3, <1>4, <1>5

\* A mesh is added to a new node.
LEMMA FreshNode ==
  ASSUME ReferenceInv, NEW mesh \in AddedMeshes, AddMesh(mesh),
         ~(/\ materialToNode[MaterialOf[mesh]].node # 0
           /\ materialToNode[MaterialOf[mesh]].usage < MaxUsage)
  PROVE  ReferenceInv'
<1> PICK mat, i : mat = MaterialOf[mesh] /\ i = Len(materialNodes) + 1
  OBVIOUS
<1>1. /\ mat \in Materials /\ materialNodes \in Seq(MaterialNode) /\ MaxUsage \in Nat \ {0}
      /\ DOMAIN materialNodes = 1..Len(materialNodes) /\ Len(materialNodes) \in Nat
      /\ materialToNode[mat].usage \in Nat
  BY ReferenceAssumption DEF ReferenceInv, ReferenceTypes, Materials
<1>2. /\ mesh \notin added /\ added' = added \cup {mesh}
      /\ materialNodes' = Append(materialNodes, [material |-> mat, parents |-> {mesh}])
      /\ materialToNode' = [materialToNode EXCEPT ![mat] = [node |-> i, usage |-> 1]]
      /\ meshTexture' = [meshTexture EXCEPT ![mesh] =
           IF TexturePath[mat] # NoPath /\ TexturePath[mat] \in DOMAIN textureNodes'
           THEN TexturePath[mat] ELSE NoPath]
      /\ IF TexturePath[mat] = NoPath THEN UNCHANGED <<textureNodes, isMissingTextures>>
         ELSE AddTextureReference(TexturePath[mat], i)
  <2>1. /\ mesh \notin added /\ added' = added \cup {mesh} /\ AddMaterialReference(mat, mesh)
        /\ meshTexture' = [meshTexture EXCEPT ![mesh] =
             IF TexturePath[mat] # NoPath /\ TexturePath[mat] \in DOMAIN textureNodes'
             THEN TexturePath[mat] ELSE NoPath]
    BY DEF AddMesh
  <2>2. materialToNode[mat].node = 0 \/ materialToNode[mat].usage >= MaxUsage
    BY <1>1
  <2>3. MakeMaterialNode(mat, mesh)
    BY <2>1, <2>2 DEF AddMaterialReference
  <2> QED BY <2>1, <2>3 DEF MakeMaterialNode
<1>3. /\ DOMAIN textureNodes' = DOMAIN textureNodes \cup Shown(mat)
      /\ \A p \in DOMAIN textureNodes \ Shown(mat) : textureNodes'[p] = textureNodes[p]
      /\ \A p \in Shown(mat) :
           textureNodes'[p] = (IF p \in DOMAIN textureNodes THEN textureNodes[p] ELSE {}) \cup {i}
      /\ isMissingTextures => isMissingTextures'
      /\ TexturePath[mat] \notin ReadablePaths \cup {NoPath} => isMissingTextures'
  BY ZenonT(40), <1>2, TextureEntered
<1>4. /\ DOMAIN materialNodes' = DOMAIN materialNodes \cup {i} /\ i \notin DOMAIN materialNodes
      /\ materialNodes'[i] = [material |-> mat, parents |-> {mesh}]
      /\ \A j \in DOMAIN materialNodes : materialNodes'[j] = materialNodes[j]
      /\ materialNodes' \in Seq(MaterialNode)
  <2>1. [material |-> mat, parents |-> {mesh}] \in MaterialNode
    BY <1>1 DEF MaterialNode
  <2> QED BY <1>1, <1>2, <2>1
<1>5. \A j \in DOMAIN materialNodes : mesh \notin materialNodes[j].parents
  BY <1>2 DEF ReferenceInv, MaterialNodeOK
<1>6. Shown(mat) \subseteq ReadablePaths /\ DOMAIN textureNodes \subseteq ReadablePaths
      /\ \A p \in DOMAIN textureNodes : textureNodes[p] \subseteq DOMAIN materialNodes
  BY DEF Shown, ReferenceInv, ReferenceTypes
<1>7. {p \in DOMAIN textureNodes' : i \in textureNodes'[p]} = Shown(mat)
      /\ \A j \in DOMAIN materialNodes : {p \in DOMAIN textureNodes' : j \in textureNodes'[p]}
                                         = {p \in DOMAIN textureNodes : j \in textureNodes[p]}
  BY <1>3, <1>4, <1>6
<1>8. ReferenceTypes'
  <2>1. ReferenceTypes
    BY DEF ReferenceInv
  <2>2. materialToNode' \in [Materials -> [node : Nat, usage : Nat]]
    BY <1>1, <1>2, <2>1 DEF ReferenceTypes
  <2>3. meshTexture' \in [AddedMeshes -> ReadablePaths \cup {NoPath}]
    BY <1>2, <1>3, <1>6, <2>1 DEF ReferenceTypes
  <2>4. \A p \in DOMAIN textureNodes' : textureNodes'[p] \subseteq DOMAIN materialNodes'
    BY <1>3, <1>4, <1>6
  <2> QED BY <1>2, <1>3, <1>4, <1>6, <2>1, <2>2, <2>3, <2>4 DEF ReferenceTypes
<1>9. ASSUME NEW j \in DOMAIN materialNodes' PROVE MaterialNodeOK(j)'
  <2>1. CASE j = i
    <3>1. IsFiniteSet({mesh}) /\ Cardinality({mesh}) = 1
      BY FS_Singleton
    <3> QED BY <1>1, <1>2, <1>3, <1>4, <1>7, <2>1, <3>1 DEF MaterialNodeOK, Shown
  <2>2. CASE j # i
    <3>1. j \in DOMAIN materialNodes /\ MaterialNodeOK(j) /\ materialNodes'[j] = materialNodes[j]
      BY <1>4, <2>2 DEF ReferenceInv
    <3> QED BY <1>2, <1>3, <1>7, <3>1 DEF MaterialNodeOK, Shown
  <2> QED BY <2>1, <2>2
<1>10. ASSUME NEW m \in Materials PROVE InUseOK(m)'
  <2>1. CASE m = mat
    <3>1. materialToNode'[mat] = [node |-> i, usage |-> 1]
      BY <1>1, <1>2 DEF ReferenceInv, ReferenceTypes
    <3>2. Cardinality({mesh}) = 1
      BY FS_Singleton
    <3>3. materialToNode'[mat].node = i /\ materialToNode'[mat].usage = 1
      BY <3>1
    <3>4. materialNodes'[i].material = mat /\ Cardinality(materialNodes'[i].parents) = 1
      BY <1>4, <3>2
    <3>5. i \in DOMAIN materialNodes' /\ 1 <= 1
      BY <1>4
    <3>6. InUseOK(mat)'
      BY <3>3, <3>4, <3>5 DEF InUseOK
    <3> QED BY <2>1, <3>6
  <2>2. CASE m # mat
    <3>1. materialToNode'[m] = materialToNode[m] /\ InUseOK(m)
      BY <1>2, <2>2 DEF ReferenceInv, ReferenceTypes
    <3> QED BY <1>4, <3>1 DEF InUseOK
  <2> QED BY <2>1, <2>2
<1>11. ASSUME NEW m \in added' PROVE MeshOK(m)'
  <2>1. CASE m = mesh
    <3>1. \A j \in DOMAIN materialNodes' : mesh \in materialNodes'[j].parents <=> j = i
      BY <1>4, <1>5
    <3>2. meshTexture'[mesh] = IF TexturePath[mat] # NoPath /\ TexturePath[mat] \in DOMAIN textureNodes'
                               THEN TexturePath[mat] ELSE NoPath
      BY <1>2 DEF ReferenceInv, ReferenceTypes
    <3>3. {meshTexture'[mesh]} \ {NoPath} = Shown(mat)
      BY <1>3, <1>6, <3>2, ReferenceAssumption DEF Shown
    <3> QED BY <1>4, <2>1, <3>1, <3>3 DEF MeshOK, Shown
  <2>2. CASE m # mesh
    <3>1. m \in added /\ MeshOK(m) /\ m \in AddedMeshes /\ meshTexture'[m] = meshTexture[m]
      BY <1>2, <2>2 DEF ReferenceInv, ReferenceTypes
    <3>2. m \notin materialNodes'[i].parents
      BY <1>4, <2>2
    <3> QED BY <1>4, <3>1, <3>2 DEF MeshOK, Shown
  <2> QED BY <2>1, <2>2
<1> QED BY <1>8, <1>9, <1>10, <1>11 DEF ReferenceInv

\* The nodes, the counts of their references and the maps that lead to them agree after
\* each mesh (addMaterialReference, addTextureReference of RepoSceneBuilder::Impl).
THEOREM ReferencesHold == Spec => []ReferenceInv
<1>1. Init => ReferenceInv
  <2> SUFFICES ASSUME Init PROVE ReferenceInv
    OBVIOUS
  <2>1. DOMAIN materialNodes = {} /\ DOMAIN textureNodes = {} /\ added = {}
    BY DEF Init, ReferenceInit
  <2>2. ReferenceTypes
    BY <2>1 DEF Init, ReferenceInit, ReferenceTypes
  <2>3. \A mat \in Materials : InUseOK(mat)
    BY DEF Init, ReferenceInit, InUseOK
  <2> QED BY <2>1, <2>2, <2>3 DEF ReferenceInv
<1>2. ReferenceInv /\ [Next]_vars => ReferenceInv'
  <2> SUFFICES ASSUME ReferenceInv, [Next]_vars PROVE ReferenceInv'
    OBVIOUS
  <2>1. CASE ReferenceStep
    BY <2>1, SharedNode, FreshNode DEF ReferenceStep
  <2>2. CASE UNCHANGED referenceVars
    <3>1. UNCHANGED <<added, materialNodes, materialToNode, textureNodes, meshTexture,
                      isMissingTextures>>
      BY <2>2 DEF referenceVars
    <3>2. ReferenceTypes'
      BY <3>1 DEF ReferenceInv, ReferenceTypes
    <3>3. \A i \in DOMAIN materialNodes' : MaterialNodeOK(i)'
      BY <3>1 DEF ReferenceInv, MaterialNodeOK, Shown
    <3>4. \A mat \in Materials : InUseOK(mat)'
      BY <3>1 DEF ReferenceInv, InUseOK
    <3>5. \A mesh \in added' : MeshOK(mesh)'
      BY <3>1 DEF ReferenceInv, MeshOK, Shown
    <3> QED BY <3>2, <3>3, <3>4, <3>5 DEF ReferenceInv
  <2> QED BY <2>1, <2>2 DEF Next, vars
<1> QED BY <1>1, <1>2, PTL DEF Spec

\* MeshHasMaterial: whatever meshes are added in whatever order, each has one material
\* node, of its material, that is full at most and names its texture
\* (RepoSceneBuilder::Impl::addMaterialReference).
THEOREM MeshesHaveMaterials == Spec => []MeshHasMaterial
<1>1. ReferenceInv => MeshHasMaterial
  <2> SUFFICES ASSUME ReferenceInv, NEW mesh \in added
               PROVE  LET nodes == {i \in DOMAIN materialNodes : mesh \in materialNodes[i].parents}
                      IN  \E i \in nodes :
                            /\ nodes = {i}
                            /\ materialNodes[i].material = MaterialOf[mesh]
                            /\ {p \in DOMAIN textureNodes : i \in textureNodes[p]}
                                 = {meshTexture[mesh]} \ {NoPath}
                            /\ Cardinality(materialNodes[i].parents) <= MaxUsage
                            /\ TexturePath[MaterialOf[mesh]] \notin {meshTexture[mesh]}
                                 => isMissingTextures
    BY DEF MeshHasMaterial
  <2>1. PICK i \in DOMAIN materialNodes :
          /\ materialNodes[i].material = MaterialOf[mesh]
          /\ \A j \in DOMAIN materialNodes : mesh \in materialNodes[j].parents <=> j = i
    BY DEF ReferenceInv, MeshOK
  <2>2. {j \in DOMAIN materialNodes : mesh \in materialNodes[j].parents} = {i}
    BY <2>1
  <2>3. {meshTexture[mesh]} \ {NoPath} = Shown(MaterialOf[mesh]) /\ MaterialNodeOK(i)
    BY DEF ReferenceInv, MeshOK
  <2>4. meshTexture[mesh] \in ReadablePaths \cup {NoPath}
    BY DEF ReferenceInv, ReferenceTypes
  <2>5. TexturePath[MaterialOf[mesh]] # meshTexture[mesh]
          => TexturePath[MaterialOf[mesh]] \notin ReadablePaths \cup {NoPath}
    BY <2>3, <2>4, ReferenceAssumption DEF Shown
  <2> QED BY <2>1, <2>2, <2>3, <2>5 DEF MaterialNodeOK
<1> QED BY <1>1, ReferencesHold, PTL

-----------------------------------------------------------------------------
(* Nodes whose data is packed into files: at every moment an entry, in the *)
(* database or in a bulk write that is kept back, refers to the data of    *)
(* its node, be the file stored, on its way, or not full yet.              *)

Parts == [node : Nodes, start : Nat, size : Nat \ {0}]

\* Parts lie within the file, and no two begin at the same place.
Files == {file \in [size : Nat, parts : SUBSET Parts] :
            /\ \A p \in file.parts : p.start + p.size <= file.size
            /\ \A p, q \in file.parts : p.start = q.start => p = q}

Ranges == [file : Writers \X Nat, start : Nat, size : Nat \ {0}]

Entries == [node : Nodes, range : Ranges \cup {NoRange}]

Places == {"running", "rotating", "executing", "flushing", "closing", "committing", "done", "dead"}

BlobTypes ==
  /\ docs \subseteq Entries
  /\ wpc \in [Writers -> Places]
  /\ handed \in [Writers -> Nat]
  /\ active = [w \in Writers |-> active[w]]
  /\ batch \in [Writers -> Seq(Entries)]
  /\ failed \in [Writers -> BOOLEAN]
  /\ cache = [r \in Readers |-> cache[r]]
  /\ wanted = [r \in Readers |-> wanted[r]]
  /\ got = [r \in Readers |-> got[r]]

\* The active file: it is uploaded as it is, and once it has a reference the writer
\* has been told, or ends before.
FileOf(w) ==
  /\ active[w] \in Files
  /\ \A id \in DOMAIN refs : id \in {w} \X Nat => id[2] <= fileNo[w]
  /\ call[w].op \in {"none", "write", "refer", "returned"}
  /\ Uploading(w) =>
       call[w].id = ActiveFile(w) /\ call[w].data = active[w] /\ ActiveFile(w) \notin DOMAIN refs
  /\ Returned(w) => /\ call[w].value \in {"ok", "failed", "thrown"}
                    /\ call[w].value = "ok" <=> ActiveFile(w) \in DOMAIN refs
  /\ wpc[w] \in {"rotating", "committing"} <=> Uploading(w) \/ Returned(w)
  /\ ActiveFile(w) \in DOMAIN refs =>
       disk[refs[ActiveFile(w)]] = active[w] /\ (wpc[w] = "dead" \/ Returned(w))

\* A range of the active file, or of one that was committed before.
EntryOK(e) == e.range # NoRange =>
  LET w == e.range.file[1]
      k == e.range.file[2]
  IN  /\ k <= fileNo[w]
      /\ k = fileNo[w] => DataAt(active[w], e.range) = {e.node}
      /\ k < fileNo[w] => Readable(e) \/ (e.node \in lost /\ e.range.file \notin DOMAIN refs)

\* What a writer without an exception was given is in the database or to be written.
Progress(w) == ~failed[w] /\ wpc[w] # "dead" =>
  /\ handed[w] <= Len(Work[w])
  /\ \A i \in 1..handed[w] : \E e \in docs \cup Elements(batch[w]) :
       e.node = Work[w][i] /\ (e.range = NoRange \/ e.range.file[1] = w)
  /\ wpc[w] \in {"flushing", "closing", "committing", "done"} => handed[w] = Len(Work[w])
  /\ wpc[w] \in {"closing", "committing", "done"} => batch[w] = <<>>
  /\ wpc[w] = "done" => active[w] = EmptyFile

\* A reader has a document, and the file it refers to or an exception.
ReaderOK(r) ==
  /\ call[r].op \in {"none", "open", "returned"}
  /\ call[r].op \in {"open", "returned"} => wanted[r] \in docs /\ wanted[r].range # NoRange
  /\ call[r].op = "open" => /\ call[r].id = wanted[r].range.file /\ call[r].id \in DOMAIN refs
                            /\ call[r].link = refs[call[r].id]
  /\ Returned(r) =>
       \/ call[r].value = "thrown"
       \/ /\ wanted[r].range.file \in DOMAIN refs
          /\ call[r].data = disk[refs[wanted[r].range.file]]
  /\ \A f \in DOMAIN cache[r] :
       f \in Writers \X Nat /\ f \in DOMAIN refs /\ cache[r][f] = disk[refs[f]]
  /\ got[r] # Nothing /\ got[r].how = "read" => got[r].data = {got[r].node}

BlobInv ==
  /\ BlobTypes
  /\ \A w \in Writers : FileOf(w) /\ Progress(w)
  /\ \A e \in docs : EntryOK(e)
  /\ \A w \in Writers : \A i \in DOMAIN batch[w] : EntryOK(batch[w][i])
  /\ \A r \in Readers : ReaderOK(r)
-----------------------------------------------------------------------------
(* Files and ranges.                                                       *)

LEMMA EmptyFileHasNone ==
  EmptyFile \in Files /\ \A range : DataAt(EmptyFile, range) = {}
BY DEF EmptyFile, Files, DataAt

\* A range that has data lies within the file.
LEMMA DataWithin ==
  ASSUME NEW file \in Files, NEW range, NEW n, DataAt(file, range) = {n}
  PROVE  /\ \E p \in file.parts : p.start = range.start /\ p.size = range.size /\ p.node = n
         /\ n \in {p.node : p \in file.parts}
<1>1. n \in DataAt(file, range)
  OBVIOUS
<1> QED BY <1>1 DEF DataAt

LEMMA ExtendedParts ==
  ASSUME NEW file \in Files, NEW n \in Nodes, Size[n] # 0
  PROVE  LET part == [node |-> n, start |-> file.size, size |-> Size[n]]
         IN  /\ file.size \in Nat /\ file.parts \subseteq Parts /\ Size[n] \in Nat \ {0}
             /\ \A p \in file.parts : p.start + p.size <= file.size /\ p.start < file.size
             /\ \A p, q \in file.parts : p.start = q.start => p = q
             /\ part \in Parts /\ part.start = file.size /\ part.size = Size[n] /\ part.node = n
             /\ Extended(file, n) = [size |-> file.size + Size[n], parts |-> file.parts \cup {part}]
<1>1. /\ file.size \in Nat /\ file.parts \subseteq Parts /\ Size[n] \in Nat \ {0}
      /\ \A p \in file.parts : p.start + p.size <= file.size /\ p.start < file.size
      /\ \A p, q \in file.parts : p.start = q.start => p = q
  BY BlobAssumption DEF Files, Parts
<1> QED BY <1>1 DEF Extended, Parts

\* The data of one more node is found at the end, and the others where they were.
LEMMA ExtendedIsFile ==
  ASSUME NEW file \in Files, NEW n \in Nodes, Size[n] # 0
  PROVE  Extended(file, n) \in Files
<1> PICK part : part = [node |-> n, start |-> file.size, size |-> Size[n]]
  OBVIOUS
<1> DEFINE more == Extended(file, n)
<1>1. /\ file.size \in Nat /\ file.parts \subseteq Parts /\ Size[n] \in Nat \ {0}
      /\ \A p \in file.parts : p.start + p.size <= file.size /\ p.start < file.size
      /\ \A p, q \in file.parts : p.start = q.start => p = q
      /\ part \in Parts /\ part.start = file.size /\ part.size = Size[n]
  BY ExtendedParts
<1>2. more.size = file.size + Size[n] /\ more.parts = file.parts \cup {part}
      /\ more = [size |-> more.size, parts |-> more.parts]
  BY DEF Extended
<1> HIDE DEF more
<1>3. more \in [size : Nat, parts : SUBSET Parts]
  <2>1. more.size \in Nat /\ more.parts \subseteq Parts
    BY <1>1, <1>2
  <2> QED BY <1>2, <2>1
<1>4. \A p \in more.parts : p.start + p.size <= more.size
  BY <1>1, <1>2 DEF Parts
<1>5. \A p, q \in more.parts : p.start = q.start => p = q
  BY <1>1, <1>2
<1> QED BY <1>3, <1>4, <1>5 DEF Files, more

LEMMA ExtendedHasData ==
  ASSUME NEW file \in Files, NEW n \in Nodes, Size[n] # 0,
         NEW range, range.start = file.size, range.size = Size[n]
  PROVE  DataAt(Extended(file, n), range) = {n}
<1> PICK part : part = [node |-> n, start |-> file.size, size |-> Size[n]]
  OBVIOUS
<1>1. /\ \A p \in file.parts : p.start < file.size
      /\ file.size \in Nat /\ part.start = file.size /\ part.size = Size[n] /\ part.node = n
  BY ExtendedParts
<1>2. Extended(file, n).parts = file.parts \cup {part}
  BY DEF Extended
<1>3. {q \in file.parts \cup {part} : q.start = range.start /\ q.size = range.size} = {part}
  BY <1>1
<1> QED BY <1>1, <1>2, <1>3 DEF DataAt

LEMMA ExtendedKeepsData ==
  ASSUME NEW file \in Files, NEW n \in Nodes, Size[n] # 0,
         NEW range, NEW m \in DataAt(file, range)
  PROVE  DataAt(Extended(file, n), range) = DataAt(file, range)
<1> PICK part : part = [node |-> n, start |-> file.size, size |-> Size[n]]
  OBVIOUS
<1>1. /\ \A p \in file.parts : p.start < file.size
      /\ file.size \in Nat /\ part.start = file.size /\ part.size = Size[n] /\ part.node = n
  BY ExtendedParts
<1>2. Extended(file, n).parts = file.parts \cup {part}
  BY DEF Extended
<1>3. range.start # file.size
  <2>1. PICK p \in file.parts : p.start = range.start
    BY DEF DataAt
  <2> QED BY <1>1, <2>1
<1>4. {q \in file.parts \cup {part} : q.start = range.start /\ q.size = range.size}
        = {q \in file.parts : q.start = range.start /\ q.size = range.size}
  BY <1>1, <1>3
<1> QED BY <1>2, <1>4 DEF DataAt
-----------------------------------------------------------------------------
(* What a step of a client leaves as it is.                                *)

\* A blob file with a reference stays, and only a writer's active file gets one.
LEMMA BlobFilesKept ==
  ASSUME StoreInv, BlobInv, NEW c \in Clients, StepOf(c), NEW w \in Writers, NEW k \in Nat
  PROVE  /\ <<w, k>> \in DOMAIN refs => Kept(<<w, k>>)
         /\ <<w, k>> \in DOMAIN refs' /\ (c # w \/ k # fileNo[w]) => <<w, k>> \in DOMAIN refs
<1>1. CASE c # w
  BY <1>1, OthersKept
<1>2. CASE c = w
  <2>1. call[w].op = "refer" => call[w].id = <<w, fileNo[w]>> /\ <<w, fileNo[w]>> \notin DOMAIN refs
    BY DEF BlobInv, FileOf, Uploading, ActiveFile
  <2>2. <<w, k>> \notin Names
    BY ClientsApart
  <2> QED BY <1>2, <2>1, <2>2 DEF StepOf, Keeps
<1> QED BY <1>1, <1>2

\* Another writer's file.
LEMMA FileOfOther ==
  ASSUME StoreInv, BlobInv, NEW c \in Clients, StepOf(c), NEW w \in Writers, w # c,
         wpc'[w] = wpc[w], active'[w] = active[w], fileNo'[w] = fileNo[w]
  PROVE  FileOf(w)'
<1>1. call'[w] = call[w] /\ FileOf(w) /\ fileNo[w] \in Nat
  BY ClientsApart DEF StepOf, BlobInv, StoreInv
<1>2. ActiveFile(w)' = ActiveFile(w) /\ ActiveFile(w) = <<w, fileNo[w]>>
  BY DEF ActiveFile
<1>3. <<w, fileNo[w]>> \in DOMAIN refs => Kept(<<w, fileNo[w]>>)
  BY <1>1, BlobFilesKept
<1>4. <<w, fileNo[w]>> \in DOMAIN refs' <=> <<w, fileNo[w]>> \in DOMAIN refs
  BY <1>1, <1>3, BlobFilesKept DEF Kept
<1>5. \A id \in DOMAIN refs' : id \in {w} \X Nat => id[2] <= fileNo[w]
  <2> SUFFICES ASSUME NEW k \in Nat, <<w, k>> \in DOMAIN refs' PROVE k <= fileNo[w]
    OBVIOUS
  <2>1. <<w, k>> \in DOMAIN refs
    BY BlobFilesKept
  <2> QED BY <1>1, <2>1 DEF FileOf
<1> QED BY <1>1, <1>2, <1>3, <1>4, <1>5 DEF FileOf, Uploading, Returned, Kept

\* An entry that refers to a file that stays active, or that has been committed.
LEMMA EntryStays ==
  ASSUME StoreInv, BlobInv, NEW c \in Clients, StepOf(c), lost \subseteq lost',
         NEW e \in Entries, EntryOK(e),
         e.range # NoRange => /\ fileNo'[e.range.file[1]] = fileNo[e.range.file[1]]
                              /\ active'[e.range.file[1]] = active[e.range.file[1]]
  PROVE  EntryOK(e)'
<1> SUFFICES ASSUME e.range # NoRange PROVE EntryOK(e)'
  BY DEF EntryOK
<1>1. e.range \in Ranges
  BY DEF Entries
<1>2. PICK w \in Writers, k \in Nat : e.range.file = <<w, k>>
  BY <1>1 DEF Ranges
<1>3. /\ k <= fileNo[w] /\ (k = fileNo[w] => DataAt(active[w], e.range) = {e.node})
      /\ k < fileNo[w] => Readable(e) \/ (e.node \in lost /\ <<w, k>> \notin DOMAIN refs)
  BY <1>2 DEF EntryOK
<1>4. fileNo'[w] = fileNo[w] /\ active'[w] = active[w] /\ fileNo[w] \in Nat
  BY <1>2 DEF StoreInv
<1>5. Readable(e) => Readable(e)'
  BY <1>2, BlobFilesKept DEF Readable, Kept
<1>6. k < fileNo[w] /\ <<w, k>> \notin DOMAIN refs => <<w, k>> \notin DOMAIN refs'
  BY <1>4, BlobFilesKept
<1> QED BY <1>2, <1>3, <1>4, <1>5, <1>6 DEF EntryOK

\* A reader that does not move.
LEMMA ReaderStays ==
  ASSUME StoreInv, BlobInv, NEW c \in Clients, StepOf(c), NEW r \in Readers, r # c,
         docs \subseteq docs', cache'[r] = cache[r], wanted'[r] = wanted[r], got'[r] = got[r]
  PROVE  ReaderOK(r)'
<1>1. call'[r] = call[r] /\ ReaderOK(r) /\ docs \subseteq Entries
  BY ClientsApart DEF StepOf, BlobInv, BlobTypes
<1>2. \A f \in Writers \X Nat : f \in DOMAIN refs => Kept(f)
  BY BlobFilesKept
<1>3. wanted[r] \in docs /\ wanted[r].range # NoRange => wanted[r].range.file \in Writers \X Nat
  BY <1>1 DEF Entries, Ranges
<1> QED BY <1>1, <1>2, <1>3 DEF ReaderOK, Returned, Kept

\* Another writer's progress: documents stay.
LEMMA ProgressOther ==
  ASSUME BlobInv, NEW w \in Writers, docs \subseteq docs', wpc'[w] = wpc[w],
         handed'[w] = handed[w], active'[w] = active[w], batch'[w] = batch[w], failed'[w] = failed[w]
  PROVE  Progress(w)'
<1>1. Progress(w)
  BY DEF BlobInv
<1>2. docs \cup Elements(batch[w]) \subseteq docs' \cup Elements(batch'[w])
  BY DEF Elements
<1> QED BY <1>1, <1>2 DEF Progress

\* A step of a writer: it is enough to look at what it is about.
LEMMA WriterMoves ==
  ASSUME StoreInv, BlobInv, NEW w \in Writers, StepOf(w), UNCHANGED readerVars,
         BlobTypes', docs \subseteq docs', lost \subseteq lost',
         \A v \in Writers \ {w} :
           /\ wpc'[v] = wpc[v] /\ handed'[v] = handed[v] /\ active'[v] = active[v]
           /\ fileNo'[v] = fileNo[v] /\ batch'[v] = batch[v] /\ failed'[v] = failed[v],
         FileOf(w)', Progress(w)',
         \A e \in docs' \ docs : EntryOK(e)',
         (\A i \in DOMAIN batch[w] : EntryOK(batch[w][i]))',
         \A e \in Entries : EntryOK(e) /\ e.range # NoRange /\ e.range.file[1] = w => EntryOK(e)'
  PROVE  BlobInv'
<1>1. w \in Clients
  BY ClientsApart
<1>2. ASSUME NEW e \in Entries, EntryOK(e) PROVE EntryOK(e)'
  <2>1. CASE e.range = NoRange
    BY <2>1 DEF EntryOK
  <2>2. CASE e.range # NoRange /\ e.range.file[1] # w
    <3>1. e.range.file[1] \in Writers \ {w}
      BY <2>2 DEF Entries, Ranges
    <3> QED BY <1>1, <1>2, <3>1, EntryStays
  <2> QED BY <1>2, <2>1, <2>2
<1>3. \A e \in docs' : EntryOK(e)'
  BY <1>2 DEF BlobInv, BlobTypes
<1>4. ASSUME NEW v \in Writers, v # w, NEW i \in DOMAIN batch'[v] PROVE EntryOK(batch[v][i])'
  <2>1. batch'[v] = batch[v] /\ batch[v][i] \in Entries /\ EntryOK(batch[v][i])
    BY <1>4 DEF BlobInv, BlobTypes
  <2>2. PICK e : e = batch[v][i]
    OBVIOUS
  <2>3. EntryOK(e)'
    BY <1>2, <2>1, <2>2
  <2> QED BY <2>1, <2>2, <2>3 DEF EntryOK, Readable
<1>5. ASSUME NEW v \in Writers, v # w PROVE FileOf(v)' /\ Progress(v)'
  BY <1>1, <1>5, FileOfOther, ProgressOther
<1>6. ASSUME NEW r \in Readers PROVE ReaderOK(r)'
  BY <1>1, ReaderStays, ClientsApart DEF readerVars
<1> QED BY <1>3, <1>4, <1>5, <1>6 DEF BlobInv
-----------------------------------------------------------------------------
(* The steps of a writer.                                                  *)

LEMMA WriterFacts ==
  ASSUME StoreInv, BlobInv, NEW w \in Writers
  PROVE  /\ w \in Clients /\ FileOf(w) /\ Progress(w) /\ BlobTypes
         /\ fileNo[w] \in Nat /\ handed[w] \in Nat /\ Work[w] \in Seq(Nodes)
         /\ batch[w] \in Seq(Entries) /\ active[w] \in Files /\ wpc[w] \in Places
BY ClientsApart, BlobAssumption DEF StoreInv, BlobInv, BlobTypes, FileOf

LEMMA ElementsOfPart ==
  ASSUME NEW s \in Seq(Entries), NEW k \in 0..Len(s)
  PROVE  Elements(SubSeq(s, 1, k)) \subseteq Elements(s) /\ Elements(s) \subseteq Entries
BY DEF Elements

\* The service is not called, and what is written was in the bulk write.
LEMMA WriterMovesOn ==
  ASSUME StoreInv, BlobInv, NEW w \in Writers,
         UNCHANGED <<fileVars, handed, active, fileNo, lost, readerVars>>,
         NEW place \in Places, place # "rotating", place # "committing",
         wpc' = [wpc EXCEPT ![w] = place], wpc[w] \notin {"rotating", "committing", "dead"},
         batch' = batch \/ batch' = [batch EXCEPT ![w] = <<>>],
         docs \subseteq docs', docs' \subseteq docs \cup Elements(batch[w]),
         failed' = failed \/ failed' = [failed EXCEPT ![w] = TRUE],
         Progress(w)'
  PROVE  BlobInv'
<1>1. /\ w \in Clients /\ FileOf(w) /\ BlobTypes /\ batch[w] \in Seq(Entries)
      /\ UNCHANGED <<disk, refs, call, lost>> /\ fileNo[w] \in Nat /\ StepOf(w)
  BY WriterFacts, NoFileStep DEF fileVars
<1>2. BlobTypes'
  <2>1. docs' \subseteq Entries
    <3>1. Len(batch[w]) \in 0..Len(batch[w])
      BY <1>1
    <3>2. Elements(batch[w]) \subseteq Entries
      BY <1>1, <3>1, ElementsOfPart
    <3> QED BY <1>1, <3>2 DEF BlobTypes
  <2>2. batch' \in [Writers -> Seq(Entries)]
    <3>1. <<>> \in Seq(Entries) /\ batch \in [Writers -> Seq(Entries)]
      BY <1>1 DEF BlobTypes
    <3>2. CASE batch' = batch
      BY <3>1, <3>2
    <3>3. CASE batch' = [batch EXCEPT ![w] = <<>>]
      BY <3>1, <3>3
    <3> QED BY <3>2, <3>3
  <2>3. wpc' \in [Writers -> Places] /\ failed' \in [Writers -> BOOLEAN]
    BY <1>1 DEF BlobTypes
  <2> QED BY <1>1, <2>1, <2>2, <2>3 DEF BlobTypes, readerVars
<1>3. \A v \in Writers \ {w} :
        /\ wpc'[v] = wpc[v] /\ handed'[v] = handed[v] /\ active'[v] = active[v]
        /\ fileNo'[v] = fileNo[v] /\ batch'[v] = batch[v] /\ failed'[v] = failed[v]
  BY <1>1 DEF BlobTypes
<1>4. FileOf(w)'
  <2>1. wpc'[w] = place
    BY <1>1 DEF BlobTypes
  <2> QED BY <1>1, <2>1 DEF FileOf, Uploading, Returned, ActiveFile
<1>5. ASSUME NEW e \in Entries, EntryOK(e) PROVE EntryOK(e)'
  BY <1>1, <1>5, EntryStays
<1>6. \A e \in docs' \ docs : EntryOK(e)'
  BY <1>1, <1>5 DEF BlobInv, Elements
<1>7. (\A i \in DOMAIN batch[w] : EntryOK(batch[w][i]))'
  <2> SUFFICES ASSUME NEW i \in DOMAIN batch'[w] PROVE EntryOK(batch[w][i])'
    OBVIOUS
  <2>1. batch'[w] = batch[w]
    BY <1>1 DEF BlobTypes
  <2>2. PICK e \in Entries : e = batch[w][i] /\ EntryOK(e)
    BY <1>1, <2>1 DEF BlobInv
  <2>3. EntryOK(e)'
    BY <1>5, <2>2
  <2> QED BY <2>1, <2>2, <2>3 DEF EntryOK, Readable
<1>8. UNCHANGED readerVars /\ lost \subseteq lost'
  BY <1>1
<1> QED BY <1>1, <1>2, <1>3, <1>4, <1>5, <1>6, <1>7, <1>8, WriterMoves

LEMMA LastDoneInv ==
  ASSUME StoreInv, BlobInv, NEW w \in Writers, LastDone(w)
  PROVE  BlobInv'
<1>1. Progress(w) /\ BlobTypes /\ "flushing" \in Places
  BY WriterFacts DEF Places
<1>2. /\ UNCHANGED <<fileVars, docs, handed, active, fileNo, batch, failed, lost, readerVars>>
      /\ wpc' = [wpc EXCEPT ![w] = "flushing"] /\ wpc[w] = "running" /\ handed[w] = Len(Work[w])
  BY DEF LastDone
<1>3. Progress(w)'
  BY <1>1, <1>2 DEF Progress, BlobTypes
<1> QED BY <1>1, <1>2, <1>3, WriterMovesOn

LEMMA ExecuteInv ==
  ASSUME StoreInv, BlobInv, NEW w \in Writers, Execute(w) \/ Flush(w)
  PROVE  BlobInv'
<1>1. Progress(w) /\ BlobTypes /\ "running" \in Places /\ "closing" \in Places
  BY WriterFacts DEF Places
<1>2. PICK place \in {"running", "closing"} :
      /\ UNCHANGED <<fileVars, handed, active, fileNo, failed, lost, readerVars>>
      /\ docs' = docs \cup Elements(batch[w]) /\ batch' = [batch EXCEPT ![w] = <<>>]
      /\ wpc' = [wpc EXCEPT ![w] = place] /\ wpc[w] \in {"executing", "flushing"}
      /\ place = "closing" => wpc[w] = "flushing"
  BY DEF Execute, Flush
<1>3. Progress(w)'
  <2>1. wpc'[w] = place /\ batch'[w] = <<>>
    BY <1>1, <1>2 DEF BlobTypes
  <2>2. docs \cup Elements(batch[w]) \subseteq docs' \cup Elements(batch'[w])
    BY <1>2
  <2> QED BY <1>1, <1>2, <2>1, <2>2 DEF Progress
<1> QED BY <1>1, <1>2, <1>3, WriterMovesOn

LEMMA ExecuteFailsInv ==
  ASSUME StoreInv, BlobInv, NEW w \in Writers, ExecuteFails(w) \/ FlushFails(w)
  PROVE  BlobInv'
<1>1. BlobTypes /\ "flushing" \in Places /\ "dead" \in Places /\ batch[w] \in Seq(Entries)
  BY WriterFacts DEF Places
<1>2. PICK k \in 0..Len(batch[w]) : docs' = docs \cup Elements(SubSeq(batch[w], 1, k))
  BY DEF ExecuteFails, FlushFails
<1>3. docs \subseteq docs' /\ docs' \subseteq docs \cup Elements(batch[w])
  BY <1>1, <1>2, ElementsOfPart
<1>4. UNCHANGED <<fileVars, handed, active, fileNo, lost, readerVars>>
  BY DEF ExecuteFails, FlushFails
<1>5. wpc[w] \in {"executing", "flushing"} /\ (batch' = batch \/ batch' = [batch EXCEPT ![w] = <<>>])
  BY <1>1 DEF ExecuteFails, FlushFails, BlobTypes
<1>6. CASE failed' = [failed EXCEPT ![w] = TRUE] /\ wpc' = [wpc EXCEPT ![w] = "flushing"]
  <2>1. Progress(w)'
    BY <1>1, <1>6 DEF Progress, BlobTypes
  <2> QED BY <1>1, <1>3, <1>4, <1>5, <1>6, <2>1, WriterMovesOn
<1>7. CASE failed' = failed /\ wpc' = [wpc EXCEPT ![w] = "dead"]
  <2>1. Progress(w)'
    BY <1>1, <1>7 DEF Progress, BlobTypes
  <2> QED BY <1>1, <1>3, <1>4, <1>5, <1>7, <2>1, WriterMovesOn
<1> QED BY <1>6, <1>7 DEF ExecuteFails, FlushFails

\* The active file is on its way.
LEMMA UploadBegins ==
  ASSUME StoreInv, BlobInv, NEW w \in Writers, CallUpload(w, ActiveFile(w), active[w]),
         NEW place \in {"rotating", "committing"}, wpc' = [wpc EXCEPT ![w] = place],
         wpc[w] \in {"running", "closing"}, place = "committing" => wpc[w] = "closing",
         UNCHANGED <<docs, handed, active, fileNo, batch, failed, lost, readerVars>>
  PROVE  BlobInv'
<1>1. /\ w \in Clients /\ FileOf(w) /\ Progress(w) /\ BlobTypes /\ fileNo[w] \in Nat
      /\ batch[w] \in Seq(Entries) /\ place \in Places
  BY WriterFacts DEF Places
<1>2. ActiveFile(w) \notin Names /\ ActiveFile(w) \in {w} \X Nat /\ w \notin Callers
  BY <1>1, ClientsApart DEF ActiveFile
<1>3. /\ StepOf(w) /\ refs' = refs /\ disk' = disk
      /\ call'[w].op = "write" /\ call'[w].id = ActiveFile(w) /\ call'[w].data = active[w]
  BY <1>1, <1>2, UploadStep
<1>4. BlobTypes' /\ wpc'[w] = place /\ \A v \in Writers \ {w} : wpc'[v] = wpc[v]
  BY <1>1 DEF BlobTypes, readerVars
<1>5. FileOf(w)'
  <2>1. ActiveFile(w) \notin DOMAIN refs
    BY <1>1 DEF FileOf
  <2> QED BY <1>1, <1>3, <1>4, <2>1 DEF FileOf, Uploading, Returned, ActiveFile
<1>6. Progress(w)'
  BY <1>1, <1>4 DEF Progress
<1>7. ASSUME NEW e \in Entries, EntryOK(e) PROVE EntryOK(e)'
  BY <1>1, <1>3, <1>7, EntryStays
<1>8. (\A i \in DOMAIN batch[w] : EntryOK(batch[w][i]))'
  <2> SUFFICES ASSUME NEW i \in DOMAIN batch'[w] PROVE EntryOK(batch[w][i])'
    OBVIOUS
  <2>1. PICK e \in Entries : e = batch[w][i] /\ EntryOK(e)
    BY <1>1 DEF BlobInv
  <2>2. EntryOK(e)'
    BY <1>7, <2>1
  <2> QED BY <2>1, <2>2 DEF EntryOK, Readable
<1>9. UNCHANGED readerVars /\ lost \subseteq lost' /\ docs \subseteq docs' /\ docs' \ docs = {}
  OBVIOUS
<1> QED BY <1>1, <1>3, <1>4, <1>5, <1>6, <1>7, <1>8, <1>9, WriterMoves

\* The upload threw, or the process ends.
LEMMA WriterHangsUp ==
  ASSUME StoreInv, BlobInv, NEW w \in Writers, Hangup(w), UNCHANGED <<disk, refs, uuids, removed>>,
         NEW place \in {"flushing", "dead"}, wpc' = [wpc EXCEPT ![w] = place],
         place = "dead" \/ (Returned(w) /\ call[w].value = "thrown"),
         (place = "dead" /\ failed' = failed) \/ failed' = [failed EXCEPT ![w] = TRUE],
         UNCHANGED <<docs, handed, active, fileNo, batch, lost, readerVars>>
  PROVE  BlobInv'
<1>1. /\ w \in Clients /\ FileOf(w) /\ BlobTypes /\ fileNo[w] \in Nat
      /\ batch[w] \in Seq(Entries) /\ place \in Places
  BY WriterFacts DEF Places
<1>2. StepOf(w) /\ call'[w].op = "none"
  BY <1>1, HangupStep DEF Idle
<1>3. /\ BlobTypes' /\ wpc'[w] = place
      /\ \A v \in Writers \ {w} : wpc'[v] = wpc[v] /\ failed'[v] = failed[v]
  BY <1>1 DEF BlobTypes, readerVars
<1>4. FileOf(w)'
  BY <1>1, <1>2, <1>3 DEF FileOf, Uploading, Returned, ActiveFile
<1>5. Progress(w)'
  BY <1>1, <1>3 DEF Progress, BlobTypes
<1>6. ASSUME NEW e \in Entries, EntryOK(e) PROVE EntryOK(e)'
  BY <1>1, <1>2, <1>6, EntryStays
<1>7. (\A i \in DOMAIN batch[w] : EntryOK(batch[w][i]))'
  <2> SUFFICES ASSUME NEW i \in DOMAIN batch'[w] PROVE EntryOK(batch[w][i])'
    OBVIOUS
  <2>1. PICK e \in Entries : e = batch[w][i] /\ EntryOK(e)
    BY <1>1 DEF BlobInv
  <2>2. EntryOK(e)'
    BY <1>6, <2>1
  <2> QED BY <2>1, <2>2 DEF EntryOK, Readable
<1>8. UNCHANGED readerVars /\ lost \subseteq lost' /\ docs \subseteq docs' /\ docs' \ docs = {}
  OBVIOUS
<1> QED BY <1>1, <1>2, <1>3, <1>4, <1>5, <1>6, <1>7, <1>8, WriterMoves

LEMMA RotateInv ==
  ASSUME StoreInv, BlobInv, NEW w \in Writers, Rotate(w)
  PROVE  BlobInv'
BY UploadBegins DEF Rotate

LEMMA CloseInv ==
  ASSUME StoreInv, BlobInv, NEW w \in Writers, Close(w)
  PROVE  BlobInv'
<1>1. CASE active[w] # EmptyFile
  BY <1>1, UploadBegins DEF Close
<1>2. CASE active[w] = EmptyFile
  <2>1. Progress(w) /\ BlobTypes /\ "done" \in Places
    BY WriterFacts DEF Places
  <2>2. /\ UNCHANGED <<fileVars, docs, handed, active, fileNo, batch, failed, lost, readerVars>>
        /\ wpc' = [wpc EXCEPT ![w] = "done"] /\ wpc[w] = "closing"
    BY <1>2 DEF Close
  <2>3. Progress(w)'
    BY <1>2, <2>1, <2>2 DEF Progress, BlobTypes
  <2> QED BY <2>1, <2>2, <2>3, WriterMovesOn
<1> QED BY <1>1, <1>2

LEMMA CommitThrowsInv ==
  ASSUME StoreInv, BlobInv, NEW w \in Writers, CommitThrows(w)
  PROVE  BlobInv'
<1> PICK place : place = IF wpc[w] = "rotating" THEN "flushing"
                         ELSE IF Kind[w] = "context" \/ failed[w] THEN "dead" ELSE "flushing"
  OBVIOUS
<1>1. place \in {"flushing", "dead"} /\ wpc' = [wpc EXCEPT ![w] = place]
  BY DEF CommitThrows
<1> QED BY <1>1, WriterHangsUp DEF CommitThrows

LEMMA KillInv ==
  ASSUME StoreInv, BlobInv, NEW w \in Writers, Kill(w)
  PROVE  BlobInv'
BY WriterHangsUp DEF Kill

\* The active file has been committed: what referred to it finds it stored, or is lost.
LEMMA CommittedInv ==
  ASSUME StoreInv, BlobInv, NEW w \in Writers, Committed(w)
  PROVE  BlobInv'
<1>1. /\ w \in Clients /\ FileOf(w) /\ Progress(w) /\ BlobTypes /\ fileNo[w] \in Nat
      /\ batch[w] \in Seq(Entries) /\ active[w] \in Files /\ "running" \in Places /\ "done" \in Places
  BY WriterFacts DEF Places
<1> PICK place : place = IF wpc[w] = "rotating" THEN "running" ELSE "done"
  OBVIOUS
<1>2. /\ wpc[w] \in {"rotating", "committing"} /\ Returned(w) /\ call[w].value \in {"ok", "failed"}
      /\ wpc' = [wpc EXCEPT ![w] = place] /\ active' = [active EXCEPT ![w] = EmptyFile]
      /\ fileNo' = [fileNo EXCEPT ![w] = @ + 1]
      /\ lost' = IF call[w].value = "failed" THEN lost \cup Held(w) ELSE lost
      /\ UNCHANGED <<disk, refs, docs, handed, batch, failed, readerVars>>
  BY <1>1 DEF Committed, FileOf
<1>3. StepOf(w) /\ call'[w].op = "none"
  BY <1>1, HangupStep DEF Committed, Idle
<1>4. /\ BlobTypes' /\ wpc'[w] = place /\ active'[w] = EmptyFile /\ fileNo'[w] = fileNo[w] + 1
      /\ \A v \in Writers \ {w} : wpc'[v] = wpc[v] /\ active'[v] = active[v] /\ fileNo'[v] = fileNo[v]
  BY <1>1, <1>2 DEF BlobTypes, readerVars, StoreInv
<1>5. FileOf(w)'
  <2>1. /\ ActiveFile(w)' = <<w, fileNo[w] + 1>> /\ <<w, fileNo[w] + 1>> \notin DOMAIN refs
        /\ \A id \in DOMAIN refs : id \in {w} \X Nat => id[2] <= fileNo[w] + 1
    BY <1>1, <1>4 DEF FileOf, ActiveFile
  <2> QED BY <1>2, <1>3, <1>4, <2>1, EmptyFileHasNone DEF FileOf, Uploading, Returned
<1>6. Progress(w)'
  BY <1>1, <1>2, <1>4 DEF Progress
<1>7. ASSUME NEW e \in Entries, EntryOK(e), e.range # NoRange, e.range.file[1] = w
      PROVE  EntryOK(e)'
  <2>1. PICK k \in Nat : e.range.file = <<w, k>>
    BY <1>7 DEF Entries, Ranges
  <2>2. /\ k <= fileNo[w] /\ (k = fileNo[w] => DataAt(active[w], e.range) = {e.node})
        /\ k < fileNo[w] => Readable(e) \/ (e.node \in lost /\ <<w, k>> \notin DOMAIN refs)
    BY <1>7, <2>1 DEF EntryOK
  <2>3. CASE k < fileNo[w]
    <3>1. Readable(e) => Readable(e)'
      BY <1>2 DEF Readable
    <3>2. e.node \in lost /\ <<w, k>> \notin DOMAIN refs => e.node \in lost' /\ <<w, k>> \notin DOMAIN refs'
      BY <1>2
    <3>3. k <= fileNo[w] + 1 /\ k # fileNo[w] + 1
      BY <1>1, <2>3
    <3> QED BY <1>4, <2>1, <2>2, <2>3, <3>1, <3>2, <3>3 DEF EntryOK
  <2>4. CASE k = fileNo[w] /\ call[w].value = "ok"
    <3>1. <<w, k>> \in DOMAIN refs /\ disk[refs[<<w, k>>]] = active[w]
      BY <1>1, <1>2, <2>4 DEF FileOf, ActiveFile
    <3>2. refs[<<w, k>>] \in DOMAIN disk
      BY <3>1, ClientsApart DEF StoreInv, FileInv, FilesOK
    <3>3. Readable(e)'
      BY <1>2, <2>1, <2>2, <2>4, <3>1, <3>2 DEF Readable
    <3> QED BY <1>1, <1>4, <2>1, <2>4, <3>3 DEF EntryOK
  <2>5. CASE k = fileNo[w] /\ call[w].value = "failed"
    <3>1. <<w, k>> \notin DOMAIN refs
      BY <1>1, <1>2, <2>5 DEF FileOf, ActiveFile
    <3>2. e.node \in Held(w)
      BY <1>1, <2>2, <2>5, DataWithin DEF Held
    <3> QED BY <1>1, <1>2, <1>4, <2>1, <2>5, <3>1, <3>2 DEF EntryOK
  <2> QED BY <1>1, <1>2, <2>2, <2>3, <2>4, <2>5
<1>8. (\A i \in DOMAIN batch[w] : EntryOK(batch[w][i]))'
  <2> SUFFICES ASSUME NEW i \in DOMAIN batch'[w] PROVE EntryOK(batch[w][i])'
    OBVIOUS
  <2>1. PICK e \in Entries : e = batch[w][i] /\ EntryOK(e) /\ batch'[w] = batch[w]
    BY <1>1, <1>2 DEF BlobInv
  <2>2. EntryOK(e)'
    <3>1. CASE e.range = NoRange
      BY <3>1 DEF EntryOK
    <3>2. CASE e.range # NoRange /\ e.range.file[1] = w
      BY <1>7, <2>1, <3>2
    <3>3. CASE e.range # NoRange /\ e.range.file[1] # w
      <4>1. e.range.file[1] \in Writers \ {w} /\ lost \subseteq lost'
        BY <1>2, <3>3 DEF Entries, Ranges
      <4> QED BY <1>1, <1>3, <1>4, <2>1, <4>1, EntryStays
    <3> QED BY <3>1, <3>2, <3>3
  <2> QED BY <2>1, <2>2 DEF EntryOK, Readable
<1>9. UNCHANGED readerVars /\ lost \subseteq lost' /\ docs \subseteq docs' /\ docs' \ docs = {}
  BY <1>2
<1>10. UNCHANGED <<handed, batch, failed>>
  BY <1>2
<1> QED BY <1>3, <1>4, <1>5, <1>6, <1>7, <1>8, <1>9, <1>10, WriterMoves

\* The service works for the call of a writer.
LEMMA WriterServed ==
  ASSUME StoreInv, BlobInv, NEW w \in Writers, Serve(w), UNCHANGED <<writerVars, readerVars>>
  PROVE  BlobInv'
<1>1. /\ w \in Clients /\ FileOf(w) /\ Progress(w) /\ BlobTypes /\ fileNo[w] \in Nat
      /\ batch[w] \in Seq(Entries) /\ StepOf(w)
  BY WriterFacts, ServeStep
<1>2. UNCHANGED <<docs, wpc, handed, active, fileNo, batch, failed, lost, readerVars>>
  BY DEF writerVars
<1>3. Uploading(w) /\ call[w].id = ActiveFile(w) /\ call[w].data = active[w]
      /\ ActiveFile(w) \notin DOMAIN refs
  BY <1>1 DEF FileOf, Serve, WriteFile, Refer, RemoveFile, DropRef, OpenFile, Uploading
<1>4. \/ /\ call'[w].op = "refer" /\ call'[w].id = call[w].id
         /\ call'[w].data = call[w].data /\ refs' = refs
      \/ /\ call'[w].op = "returned"
         /\ \/ /\ call'[w].value = "ok" /\ call[w].id \in DOMAIN refs'
               /\ refs'[call[w].id] \in DOMAIN disk' /\ disk'[refs'[call[w].id]] = call[w].data
            \/ call'[w].value \in {"failed", "thrown"} /\ refs' = refs
  BY <1>1, <1>3, UploadServed DEF StoreInv
<1>5. FileOf(w)'
  <2>1. \A id \in DOMAIN refs' : id \in {w} \X Nat => id[2] <= fileNo[w]
    <3> SUFFICES ASSUME NEW k \in Nat, <<w, k>> \in DOMAIN refs' PROVE k <= fileNo[w]
      OBVIOUS
    <3>1. k # fileNo[w] => <<w, k>> \in DOMAIN refs
      BY <1>1, BlobFilesKept
    <3> QED BY <1>1, <3>1 DEF FileOf
  <2>2. ActiveFile(w)' = ActiveFile(w)
    BY <1>2 DEF ActiveFile
  <2> QED BY <1>1, <1>2, <1>3, <1>4, <2>1, <2>2 DEF FileOf, Uploading, Returned
<1>6. Progress(w)'
  BY <1>1, <1>2 DEF Progress, Elements
<1>7. ASSUME NEW e \in Entries, EntryOK(e) PROVE EntryOK(e)'
  BY <1>1, <1>2, <1>7, EntryStays
<1>8. (\A i \in DOMAIN batch[w] : EntryOK(batch[w][i]))'
  <2> SUFFICES ASSUME NEW i \in DOMAIN batch'[w] PROVE EntryOK(batch[w][i])'
    OBVIOUS
  <2>1. PICK e \in Entries : e = batch[w][i] /\ EntryOK(e) /\ batch' = batch
    BY <1>1, <1>2 DEF BlobInv
  <2>2. EntryOK(e)'
    BY <1>7, <2>1
  <2> QED BY <2>1, <2>2 DEF EntryOK, Readable
<1>9. lost \subseteq lost' /\ docs \subseteq docs' /\ docs' \ docs = {} /\ BlobTypes'
  BY <1>1, <1>2 DEF BlobTypes, readerVars
<1> QED BY <1>1, <1>2, <1>5, <1>6, <1>7, <1>8, <1>9, WriterMoves

\* A node is added: the bulk write gets an entry, and the active file its data if any.
LEMMA InsertInv ==
  ASSUME StoreInv, BlobInv, NEW w \in Writers, Insert(w)
  PROVE  BlobInv'
<1>1. /\ w \in Clients /\ FileOf(w) /\ Progress(w) /\ BlobTypes /\ fileNo[w] \in Nat
      /\ handed[w] \in Nat /\ Work[w] \in Seq(Nodes) /\ batch[w] \in Seq(Entries) /\ active[w] \in Files
      /\ "running" \in Places /\ "executing" \in Places
  BY WriterFacts DEF Places
<1> PICK n, file, b, place :
      /\ n = Given(w) /\ file = IF Size[n] = 0 THEN active[w] ELSE Extended(active[w], n)
      /\ b = [node |-> n, range |-> IF Size[n] = 0 THEN NoRange
                 ELSE [file |-> ActiveFile(w), start |-> active[w].size, size |-> Size[n]]]
      /\ place = IF BatchDue(w, Append(batch[w], b), handed[w] + 1) THEN "executing" ELSE "running"
  OBVIOUS
<1>2. /\ wpc[w] = "running" /\ handed[w] < Len(Work[w])
      /\ active' = [active EXCEPT ![w] = file]
      /\ batch' = [batch EXCEPT ![w] = Append(@, b)]
      /\ handed' = [handed EXCEPT ![w] = @ + 1]
      /\ UNCHANGED <<fileVars, docs, fileNo, broken, failed, lost, readerVars>>
  BY DEF Insert
<1>3. wpc' = [wpc EXCEPT ![w] = place]
  BY <1>1, <1>2 DEF Insert, BlobTypes
<1>4. StepOf(w) /\ UNCHANGED <<disk, refs, call>>
  BY <1>1, <1>2, NoFileStep DEF fileVars
<1>5. n \in Nodes /\ n = Work[w][handed[w] + 1] /\ Size[n] \in Nat
  BY <1>1, <1>2, BlobAssumption DEF Given
<1>6. /\ b \in Entries /\ b.node = n /\ (b.range = NoRange \/ b.range.file[1] = w)
      /\ Size[n] # 0 => /\ b.range.file = <<w, fileNo[w]>> /\ b.range.start = active[w].size
                        /\ b.range.size = Size[n]
      /\ Size[n] = 0 => b.range = NoRange
  <2>1. active[w].size \in Nat
    BY <1>1 DEF Files
  <2>2. CASE Size[n] = 0
    BY <1>5, <2>2 DEF Entries
  <2>3. CASE Size[n] # 0
    <3>1. [file |-> <<w, fileNo[w]>>, start |-> active[w].size, size |-> Size[n]] \in Ranges
      BY <1>1, <1>5, <2>1, <2>3 DEF Ranges
    <3>2. b = [node |-> n, range |->
                 [file |-> <<w, fileNo[w]>>, start |-> active[w].size, size |-> Size[n]]]
      BY <2>3 DEF ActiveFile
    <3> QED BY <1>5, <2>3, <3>1, <3>2 DEF Entries
  <2> QED BY <2>2, <2>3
<1>7. /\ file \in Files
      /\ Size[n] # 0 => DataAt(file, b.range) = {n}
  <2>1. CASE Size[n] = 0
    BY <1>1, <2>1
  <2>2. CASE Size[n] # 0
    <3>1. file = Extended(active[w], n)
      BY <2>2
    <3>2. Extended(active[w], n) \in Files
      BY <1>1, <1>5, <2>2, ExtendedIsFile
    <3>3. DataAt(Extended(active[w], n), b.range) = {n}
      BY <1>1, <1>5, <1>6, <2>2, ExtendedHasData
    <3> QED BY <3>1, <3>2, <3>3
  <2> QED BY <2>1, <2>2
<1>8. /\ BlobTypes' /\ wpc'[w] = place /\ active'[w] = file /\ batch'[w] = Append(batch[w], b)
      /\ handed'[w] = handed[w] + 1
  <2>1. Append(batch[w], b) \in Seq(Entries) /\ handed[w] + 1 \in Nat /\ place \in Places
    BY <1>1, <1>6
  <2>2. batch' \in [Writers -> Seq(Entries)] /\ batch'[w] = Append(batch[w], b)
    BY <1>1, <1>2, <2>1 DEF BlobTypes
  <2>3. /\ wpc' \in [Writers -> Places] /\ wpc'[w] = place
        /\ handed' \in [Writers -> Nat] /\ handed'[w] = handed[w] + 1
        /\ active' = [v \in Writers |-> active'[v]] /\ active'[w] = file
    BY <1>1, <1>2, <1>3, <2>1 DEF BlobTypes
  <2> QED BY <1>1, <1>2, <2>2, <2>3 DEF BlobTypes, readerVars
<1>9. \A v \in Writers \ {w} : /\ wpc'[v] = wpc[v] /\ active'[v] = active[v] /\ handed'[v] = handed[v]
                               /\ batch'[v] = batch[v] /\ fileNo'[v] = fileNo[v] /\ failed'[v] = failed[v]
  BY <1>1, <1>2, <1>3 DEF BlobTypes
<1>10. FileOf(w)'
  BY <1>1, <1>2, <1>4, <1>7, <1>8 DEF FileOf, Uploading, Returned, ActiveFile
<1>11. Progress(w)'
  <2>1. \A e \in docs \cup Elements(batch[w]) : e \in docs' \cup Elements(batch'[w])
    BY <1>1, <1>2, <1>6, <1>8 DEF Elements
  <2>2. b \in Elements(batch'[w])
    BY <1>1, <1>6, <1>8 DEF Elements
  <2> SUFFICES ASSUME ~failed'[w] PROVE Progress(w)'
    BY DEF Progress
  <2>3. ~failed[w] /\ wpc[w] # "dead" /\ handed[w] + 1 <= Len(Work[w])
    BY <1>1, <1>2
  <2>4. \A i \in 1..handed[w] : \E e \in docs \cup Elements(batch[w]) :
          e.node = Work[w][i] /\ (e.range = NoRange \/ e.range.file[1] = w)
    BY <1>1, <2>3 DEF Progress
  <2>5. \A i \in 1..handed'[w] : \E e \in docs' \cup Elements(batch'[w]) :
          e.node = Work[w][i] /\ (e.range = NoRange \/ e.range.file[1] = w)
    <3> SUFFICES ASSUME NEW i \in 1..handed'[w]
                 PROVE  \E e \in docs' \cup Elements(batch'[w]) :
                          e.node = Work[w][i] /\ (e.range = NoRange \/ e.range.file[1] = w)
      OBVIOUS
    <3>1. CASE i = handed[w] + 1
      BY <1>5, <1>6, <2>2, <3>1
    <3>2. CASE i # handed[w] + 1
      <4>1. i \in 1..handed[w]
        BY <1>1, <1>8, <3>2
      <4> QED BY <2>1, <2>4, <4>1
    <3> QED BY <3>1, <3>2
  <2>6. wpc'[w] \in {"running", "executing"}
    BY <1>8
  <2> QED BY <1>8, <2>3, <2>5, <2>6 DEF Progress
<1>12. ASSUME NEW e \in Entries, EntryOK(e) PROVE EntryOK(e)'
  <2>1. CASE e.range = NoRange
    BY <2>1 DEF EntryOK
  <2>2. CASE e.range # NoRange /\ e.range.file[1] = w
    <3>1. PICK k \in Nat : e.range.file = <<w, k>>
      BY <2>2 DEF Entries, Ranges
    <3>2. Readable(e) => Readable(e)'
      BY <1>4 DEF Readable
    <3>3. k = fileNo[w] => DataAt(active[w], e.range) = {e.node}
      BY <1>12, <2>2, <3>1 DEF EntryOK
    <3>4. k = fileNo[w] => DataAt(file, e.range) = {e.node}
      <4>1. CASE Size[n] = 0
        BY <3>3, <4>1
      <4>2. CASE Size[n] # 0
        <5>1. file = Extended(active[w], n)
          BY <4>2
        <5>2. ASSUME k = fileNo[w] PROVE DataAt(Extended(active[w], n), e.range) = {e.node}
          <6>1. e.node \in DataAt(active[w], e.range)
            BY <3>3, <5>2
          <6>2. DataAt(Extended(active[w], n), e.range) = DataAt(active[w], e.range)
            BY <1>1, <1>5, <4>2, <6>1, ExtendedKeepsData
          <6> QED BY <3>3, <5>2, <6>2
        <5> QED BY <5>1, <5>2
      <4> QED BY <4>1, <4>2
    <3> QED BY <1>2, <1>4, <1>8, <1>12, <3>1, <3>2, <3>4 DEF EntryOK
  <2>3. CASE e.range # NoRange /\ e.range.file[1] # w
    <3>1. e.range.file[1] \in Writers \ {w} /\ lost \subseteq lost'
      BY <1>2, <2>3 DEF Entries, Ranges
    <3> QED BY <1>1, <1>4, <1>9, <1>12, <3>1, EntryStays
  <2> QED BY <2>1, <2>2, <2>3
<1>13. EntryOK(b)'
  <2>1. CASE Size[n] = 0
    BY <1>6, <2>1 DEF EntryOK
  <2>2. CASE Size[n] # 0
    BY <1>1, <1>2, <1>6, <1>7, <1>8, <2>2 DEF EntryOK
  <2> QED BY <2>1, <2>2
<1>14. (\A i \in DOMAIN batch[w] : EntryOK(batch[w][i]))'
  <2> SUFFICES ASSUME NEW i \in DOMAIN batch'[w] PROVE EntryOK(batch[w][i])'
    OBVIOUS
  <2>1. CASE i \in DOMAIN batch[w]
    <3>1. PICK e \in Entries : e = batch[w][i] /\ EntryOK(e) /\ batch'[w][i] = e
      BY <1>1, <1>6, <1>8, <2>1 DEF BlobInv
    <3>2. EntryOK(e)'
      BY <1>12, <3>1
    <3> QED BY <3>1, <3>2 DEF EntryOK, Readable
  <2>2. CASE i \notin DOMAIN batch[w]
    <3>1. batch'[w][i] = b
      BY <1>1, <1>6, <1>8, <2>2
    <3> QED BY <1>13, <3>1 DEF EntryOK, Readable
  <2> QED BY <2>1, <2>2
<1>15. UNCHANGED readerVars /\ lost \subseteq lost' /\ docs \subseteq docs' /\ docs' \ docs = {}
  BY <1>2
<1> QED BY <1>4, <1>8, <1>9, <1>10, <1>11, <1>12, <1>14, <1>15, WriterMoves
-----------------------------------------------------------------------------
(* Readers, and clients that have nothing to do with blob files.           *)

\* What a document refers to is its own data as soon as it can be found.
LEMMA FoundData ==
  ASSUME StoreInv, BlobInv, NEW e \in docs, e.range # NoRange, e.range.file \in DOMAIN refs
  PROVE  DataAt(disk[refs[e.range.file]], e.range) = {e.node}
<1>1. e \in Entries /\ EntryOK(e)
  BY DEF BlobInv, BlobTypes
<1>2. PICK w \in Writers, k \in Nat : e.range.file = <<w, k>>
  BY <1>1 DEF Entries, Ranges
<1>3. /\ k <= fileNo[w] /\ (k = fileNo[w] => DataAt(active[w], e.range) = {e.node})
      /\ k < fileNo[w] => Readable(e) \/ (e.node \in lost /\ <<w, k>> \notin DOMAIN refs)
      /\ fileNo[w] \in Nat
  BY <1>1, <1>2 DEF EntryOK, StoreInv
<1>4. CASE k = fileNo[w]
  <2>1. disk[refs[<<w, k>>]] = active[w]
    BY <1>2, <1>4 DEF BlobInv, FileOf, ActiveFile
  <2> QED BY <1>2, <1>3, <1>4, <2>1
<1>5. CASE k < fileNo[w]
  BY <1>2, <1>3, <1>5 DEF Readable
<1> QED BY <1>3, <1>4, <1>5

LEMMA OtherStep ==
  ASSUME StoreInv, BlobInv, NEW c \in Clients, c \notin Writers, StepOf(c), UNCHANGED writerVars,
         cache' = [r \in Readers |-> cache'[r]], wanted' = [r \in Readers |-> wanted'[r]],
         got' = [r \in Readers |-> got'[r]],
         \A r \in Readers \ {c} : cache'[r] = cache[r] /\ wanted'[r] = wanted[r] /\ got'[r] = got[r],
         c \in Readers => ReaderOK(c)'
  PROVE  BlobInv'
<1>1. UNCHANGED <<docs, wpc, handed, active, fileNo, batch, failed, lost>>
  BY DEF writerVars
<1>2. BlobTypes /\ BlobTypes'
  BY <1>1 DEF BlobInv, BlobTypes
<1>3. \A w \in Writers : FileOf(w)' /\ Progress(w)'
  BY <1>1, FileOfOther, ProgressOther
<1>4. \A e \in Entries : EntryOK(e) => EntryOK(e)'
  BY <1>1, EntryStays
<1>5. \A e \in docs' : EntryOK(e)'
  BY <1>1, <1>2, <1>4 DEF BlobInv, BlobTypes
<1>6. ASSUME NEW w \in Writers, NEW i \in DOMAIN batch'[w] PROVE EntryOK(batch[w][i])'
  <2>1. PICK e \in Entries : e = batch[w][i] /\ EntryOK(e)
    BY <1>1, <1>2, <1>6 DEF BlobInv, BlobTypes
  <2>2. EntryOK(e)'
    BY <1>4, <2>1
  <2> QED BY <1>1, <2>1, <2>2 DEF EntryOK, Readable
<1>7. \A r \in Readers : ReaderOK(r)'
  BY <1>1, ReaderStays
<1> QED BY <1>2, <1>3, <1>5, <1>6, <1>7 DEF BlobInv

LEMMA FindInv ==
  ASSUME StoreInv, BlobInv, NEW r \in Readers, Find(r)
  PROVE  BlobInv'
<1>1. r \in Clients /\ r \notin Writers /\ r \notin Callers /\ StepOf(r) /\ ReaderOK(r) /\ BlobTypes
  BY ClientsApart, ReaderStepOf DEF BlobInv, ReaderStep
<1>2. PICK e \in docs :
        /\ e.range # NoRange
        /\ \/ /\ e.range.file \in DOMAIN cache[r]
              /\ got' = [got EXCEPT ![r] =
                   [node |-> e.node, how |-> "read", data |-> DataAt(cache[r][e.range.file], e.range)]]
              /\ UNCHANGED <<wanted, fileVars>>
           \/ /\ e.range.file \notin DOMAIN cache[r]
              /\ wanted' = [wanted EXCEPT ![r] = e]
              /\ CallGet(r, e.range.file)
              /\ UNCHANGED got
  BY DEF Find
<1>3. UNCHANGED <<docs, cache, writerVars>>
  BY DEF Find, writerVars
<1>4. /\ cache' = [q \in Readers |-> cache'[q]] /\ wanted' = [q \in Readers |-> wanted'[q]]
      /\ got' = [q \in Readers |-> got'[q]]
      /\ \A q \in Readers \ {r} : cache'[q] = cache[q] /\ wanted'[q] = wanted[q] /\ got'[q] = got[q]
  BY <1>1, <1>2, <1>3 DEF BlobTypes
<1>5. CASE UNCHANGED <<wanted, fileVars>> /\ e.range.file \in DOMAIN cache[r]
           /\ got' = [got EXCEPT ![r] =
                [node |-> e.node, how |-> "read", data |-> DataAt(cache[r][e.range.file], e.range)]]
  <2>1. cache[r][e.range.file] = disk[refs[e.range.file]] /\ e.range.file \in DOMAIN refs
    BY <1>1, <1>5 DEF ReaderOK
  <2>2. DataAt(cache[r][e.range.file], e.range) = {e.node}
    BY <1>2, <2>1, FoundData
  <2>3. got'[r] = [node |-> e.node, how |-> "read", data |-> {e.node}]
    BY <1>1, <1>5, <2>2 DEF BlobTypes
  <2>4. ReaderOK(r)'
    BY <1>1, <1>3, <1>5, <2>3 DEF ReaderOK, Returned, fileVars
  <2> QED BY <1>1, <1>3, <1>4, <2>4, OtherStep
<1>6. CASE CallGet(r, e.range.file) /\ wanted' = [wanted EXCEPT ![r] = e] /\ UNCHANGED got
  <2>1. /\ UNCHANGED <<disk, refs>>
        /\ \/ /\ e.range.file \in DOMAIN refs
              /\ call'[r] = [op |-> "open", id |-> e.range.file, link |-> refs[e.range.file]]
           \/ call'[r] = [op |-> "returned", value |-> "thrown", data |-> NoData]
    BY <1>1, <1>6, GetStep
  <2>2. wanted'[r] = e
    BY <1>1, <1>6 DEF BlobTypes
  <2>3. ReaderOK(r)'
    BY <1>1, <1>2, <1>3, <1>6, <2>1, <2>2 DEF ReaderOK, Returned
  <2> QED BY <1>1, <1>3, <1>4, <2>3, OtherStep
<1> QED BY <1>2, <1>5, <1>6

LEMMA FoundInv ==
  ASSUME StoreInv, BlobInv, NEW r \in Readers, Found(r)
  PROVE  BlobInv'
<1>1. r \in Clients /\ r \notin Writers /\ StepOf(r) /\ ReaderOK(r) /\ BlobTypes
  BY ClientsApart, ReaderStepOf DEF BlobInv, ReaderStep
<1> PICK e : e = wanted[r]
  OBVIOUS
<1>2. /\ UNCHANGED <<disk, refs, writerVars, docs>> /\ Returned(r)
      /\ IF call[r].value = "thrown"
         THEN /\ got' = [got EXCEPT ![r] = [node |-> e.node, how |-> "refused", data |-> {}]]
              /\ UNCHANGED cache
         ELSE /\ got' = [got EXCEPT ![r] =
                   [node |-> e.node, how |-> "read", data |-> DataAt(call[r].data, e.range)]]
              /\ cache' = [cache EXCEPT ![r] = With(@, e.range.file, call[r].data)]
      /\ wanted' = [wanted EXCEPT ![r] = Nothing]
  BY DEF Found, writerVars
<1>3. call'[r].op = "none"
  BY <1>1, HangupStep DEF Found, Idle
<1>4. /\ cache' = [q \in Readers |-> cache'[q]] /\ wanted' = [q \in Readers |-> wanted'[q]]
      /\ got' = [q \in Readers |-> got'[q]]
      /\ \A q \in Readers \ {r} : cache'[q] = cache[q] /\ wanted'[q] = wanted[q] /\ got'[q] = got[q]
  BY <1>1, <1>2 DEF BlobTypes
<1>5. CASE call[r].value = "thrown"
  <2>1. got'[r].how = "refused" /\ cache' = cache
    BY <1>1, <1>2, <1>5 DEF BlobTypes
  <2>2. ReaderOK(r)'
    BY <1>1, <1>2, <1>3, <2>1 DEF ReaderOK, Returned
  <2> QED BY <1>1, <1>2, <1>4, <2>2, OtherStep
<1>6. CASE call[r].value # "thrown"
  <2>1. /\ e \in docs /\ e.range # NoRange /\ e.range.file \in DOMAIN refs
        /\ call[r].data = disk[refs[e.range.file]]
    BY <1>1, <1>2, <1>6 DEF ReaderOK, Returned
  <2>2. DataAt(call[r].data, e.range) = {e.node}
    BY <2>1, FoundData
  <2>3. got'[r] = [node |-> e.node, how |-> "read", data |-> {e.node}]
    BY <1>1, <1>2, <1>6, <2>2 DEF BlobTypes
  <2>4. cache'[r] = With(cache[r], e.range.file, call[r].data)
    BY <1>1, <1>2, <1>6 DEF BlobTypes
  <2>5. e.range.file \in Writers \X Nat
    BY <1>1, <2>1 DEF BlobTypes, Entries, Ranges
  <2>6. \A f \in DOMAIN cache'[r] :
          f \in Writers \X Nat /\ f \in DOMAIN refs /\ cache'[r][f] = disk[refs[f]]
    BY <1>1, <2>1, <2>4, <2>5 DEF ReaderOK, With
  <2>7. ReaderOK(r)'
    BY <1>2, <1>3, <2>3, <2>6 DEF ReaderOK, Returned
  <2> QED BY <1>1, <1>2, <1>4, <2>7, OtherStep
<1> QED BY <1>5, <1>6

LEMMA ReaderServed ==
  ASSUME StoreInv, BlobInv, NEW r \in Readers, Serve(r), UNCHANGED <<writerVars, readerVars>>
  PROVE  BlobInv'
<1>1. r \in Clients /\ r \notin Writers /\ ReaderOK(r) /\ BlobTypes /\ StepOf(r)
  BY ClientsApart, ServeStep DEF BlobInv
<1>2. OpenFile(r) /\ call[r].op = "open"
  BY <1>1 DEF ReaderOK, Serve, WriteFile, Refer, RemoveFile, DropRef, OpenFile
<1>3. /\ wanted[r].range.file \in DOMAIN refs /\ call[r].link = refs[wanted[r].range.file]
      /\ wanted[r] \in docs /\ wanted[r].range # NoRange
  BY <1>1, <1>2 DEF ReaderOK
<1>4. refs[wanted[r].range.file] \in DOMAIN disk
  <2>1. wanted[r].range.file \in Writers \X Nat
    BY <1>1, <1>3 DEF BlobTypes, Entries, Ranges
  <2>2. wanted[r].range.file \notin Names
    BY <2>1, ClientsApart
  <2> QED BY <1>3, <2>2 DEF StoreInv, FileInv, FilesOK
<1>5. /\ UNCHANGED <<disk, refs>> /\ call'[r].op = "returned"
      /\ call'[r].data = disk[refs[wanted[r].range.file]]
  BY <1>1, <1>2, <1>3, <1>4, OpenFileInv DEF StoreInv
<1>6. UNCHANGED <<docs, cache, wanted, got>>
  BY DEF writerVars, readerVars
<1>7. ReaderOK(r)'
  BY <1>1, <1>3, <1>5, <1>6 DEF ReaderOK, Returned
<1> QED BY <1>1, <1>6, <1>7, OtherStep DEF BlobTypes
-----------------------------------------------------------------------------
\* Whatever interleaves, every entry refers to its node's data or to where it will be.
THEOREM BlobFilesHold == Spec => []BlobInv
<1>1. Init => BlobInv
  <2> SUFFICES ASSUME Init PROVE BlobInv
    OBVIOUS
  <2>1. BlobTypes
    BY DEF Init, BlobInit, BlobTypes, Places
  <2>2. ASSUME NEW w \in Writers PROVE FileOf(w)
    <3>1. active[w] = EmptyFile /\ call[w] = Idle /\ DOMAIN refs = {} /\ wpc[w] = "running"
      BY ClientsApart DEF Init, BlobInit, FileInit
    <3> QED BY <3>1, EmptyFileHasNone DEF FileOf, Uploading, Returned, Idle
  <2>3. ASSUME NEW w \in Writers PROVE Progress(w)
    <3>1. Work[w] \in Seq(Nodes) /\ handed[w] = 0 /\ wpc[w] = "running"
      BY BlobAssumption DEF Init, BlobInit
    <3> QED BY <3>1 DEF Progress
  <2>4. docs = {} /\ \A w \in Writers : DOMAIN batch[w] = {}
    BY DEF Init, BlobInit
  <2>5. ASSUME NEW r \in Readers PROVE ReaderOK(r)
    <3>1. call[r] = Idle /\ DOMAIN cache[r] = {} /\ got[r] = Nothing
      BY ClientsApart DEF Init, BlobInit, FileInit
    <3> QED BY <3>1 DEF ReaderOK, Returned, Idle
  <2> QED BY <2>1, <2>2, <2>3, <2>4, <2>5 DEF BlobInv
<1>2. StoreInv /\ BlobInv /\ [Next]_vars => BlobInv'
  <2> SUFFICES ASSUME StoreInv, BlobInv, [Next]_vars PROVE BlobInv'
    OBVIOUS
  <2>1. ASSUME NEW w \in Writers, WriterStep(w) PROVE BlobInv'
    <3>1. CASE Insert(w) \/ LastDone(w) \/ Execute(w) \/ ExecuteFails(w) \/ Flush(w) \/ FlushFails(w)
      BY <3>1, InsertInv, LastDoneInv, ExecuteInv, ExecuteFailsInv
    <3>2. CASE Rotate(w) \/ Close(w) \/ Committed(w) \/ CommitThrows(w) \/ Kill(w)
      BY <3>2, RotateInv, CloseInv, CommittedInv, CommitThrowsInv, KillInv
    <3>3. CASE Serve(w) /\ UNCHANGED <<writerVars, readerVars>>
      BY <3>3, WriterServed
    <3> QED BY <2>1, <3>1, <3>2, <3>3 DEF WriterStep
  <2>2. ASSUME NEW r \in Readers, ReaderStep(r) PROVE BlobInv'
    BY <2>2, FindInv, FoundInv, ReaderServed DEF ReaderStep
  <2>3. ASSUME NEW c \in Clients, c \notin Writers \cup Readers, StepOf(c),
               UNCHANGED <<writerVars, readerVars>>
        PROVE  BlobInv'
    <3>1. UNCHANGED <<writerVars, cache, wanted, got>> /\ BlobTypes
      BY <2>3 DEF readerVars, BlobInv
    <3> QED BY <2>3, <3>1, OtherStep DEF BlobTypes
  <2>4. ASSUME NEW d \in Drawers, DrawerStep(d), UNCHANGED <<writerVars, readerVars>>
        PROVE  BlobInv'
    BY <2>3, <2>4, DrawerStepOf, ClientsApart
  <2>5. ASSUME NEW c \in Callers, CallerStep(c), UNCHANGED <<writerVars, readerVars>>
        PROVE  BlobInv'
    BY <2>3, <2>5, CallerStepOf, ClientsApart
  <2>6. CASE UNCHANGED <<fileVars, writerVars, readerVars>>
    <3>1. UNCHANGED <<disk, refs, call, docs, wpc, handed, active, fileNo, batch, failed, lost,
                      cache, wanted, got>>
      BY <2>6 DEF fileVars, writerVars, readerVars
    <3>2. BlobTypes'
      BY <3>1 DEF BlobInv, BlobTypes
    <3>3. \A w \in Writers : FileOf(w)' /\ Progress(w)'
      BY <3>1 DEF BlobInv, FileOf, Progress, Uploading, Returned, ActiveFile, Elements
    <3>4. \A e \in docs' : EntryOK(e)'
      BY <3>1 DEF BlobInv, EntryOK, Readable
    <3>5. (\A w \in Writers : \A i \in DOMAIN batch[w] : EntryOK(batch[w][i]))'
      BY ZenonT(40), <3>1 DEF BlobInv, EntryOK, Readable
    <3>6. \A r \in Readers : ReaderOK(r)'
      BY <3>1 DEF BlobInv, ReaderOK, Returned
    <3> QED BY <3>2, <3>3, <3>4, <3>5, <3>6 DEF BlobInv
  <2> QED BY <2>1, <2>2, <2>4, <2>5, <2>6 DEF Next, ClientStep, vars
<1> QED BY <1>1, <1>2, FileCalls, PTL DEF Spec

\* DataIsSomewhere: a document that can be found refers to its own data, which is
\* stored, in its writer's active file, or lost by an upload that nobody looked at
\* (BlobFilesHandler::insertBinary and commitActiveFile).
THEOREM DocumentsHaveData == Spec => []DataIsSomewhere
<1>1. StoreInv /\ BlobInv => DataIsSomewhere
  <2> SUFFICES ASSUME StoreInv, BlobInv, NEW e \in docs, e.range # NoRange
               PROVE  \/ Readable(e) \/ e.node \in lost
                      \/ \E w \in Writers :
                           e.range.file = ActiveFile(w) /\ DataAt(active[w], e.range) = {e.node}
    BY DEF DataIsSomewhere
  <2>1. EntryOK(e) /\ e \in Entries
    BY DEF BlobInv, BlobTypes
  <2>2. PICK w \in Writers, k \in Nat : e.range.file = <<w, k>>
    BY <2>1 DEF Entries, Ranges
  <2>3. fileNo[w] \in Nat /\ k <= fileNo[w] /\ (k = fileNo[w] => DataAt(active[w], e.range) = {e.node})
        /\ (k < fileNo[w] => Readable(e) \/ e.node \in lost)
    BY <2>1, <2>2 DEF EntryOK, StoreInv
  <2>4. k = fileNo[w] => e.range.file = ActiveFile(w)
    BY <2>2 DEF ActiveFile
  <2>5. k = fileNo[w] \/ k < fileNo[w]
    BY <2>3
  <2> QED BY <2>3, <2>4, <2>5
<1> QED BY <1>1, FileCalls, BlobFilesHold, PTL

\* WrittenIsReadable: a writer that ends without an exception has stored all it was
\* given, with data that can be read if its uploads worked (MongoWriteContext::flush).
THEOREM WritersStoreAll == Spec => []WrittenIsReadable
<1>1. StoreInv /\ BlobInv => WrittenIsReadable
  <2> SUFFICES ASSUME StoreInv, BlobInv, NEW w \in Writers, wpc[w] = "done", ~failed[w],
                      NEW n \in Elements(Work[w])
               PROVE  \E d \in docs : d.node = n /\ (d.range = NoRange \/ n \in lost \/ Readable(d))
    BY DEF WrittenIsReadable
  <2>1. Progress(w) /\ BlobTypes
    BY DEF BlobInv
  <2>2. /\ handed[w] = Len(Work[w]) /\ batch[w] = <<>> /\ active[w] = EmptyFile
        /\ \A i \in 1..handed[w] : \E e \in docs \cup Elements(batch[w]) :
             e.node = Work[w][i] /\ (e.range = NoRange \/ e.range.file[1] = w)
    BY <2>1 DEF Progress
  <2>3. PICK i \in 1..Len(Work[w]) : n = Work[w][i]
    BY DEF Elements
  <2>4. Elements(batch[w]) = {}
    BY <2>2 DEF Elements
  <2>5. PICK e \in docs : e.node = n /\ (e.range = NoRange \/ e.range.file[1] = w)
    BY <2>2, <2>3, <2>4
  <2>6. CASE e.range # NoRange
    <3>1. EntryOK(e) /\ e \in Entries
      BY <2>1 DEF BlobInv, BlobTypes
    <3>2. PICK k \in Nat : e.range.file = <<w, k>>
      BY <2>5, <2>6, <3>1 DEF Entries, Ranges
    <3>3. fileNo[w] \in Nat /\ k <= fileNo[w] /\ (k = fileNo[w] => DataAt(active[w], e.range) = {e.node})
          /\ (k < fileNo[w] => Readable(e) \/ e.node \in lost)
      BY <2>6, <3>1, <3>2 DEF EntryOK, StoreInv
    <3>4. DataAt(active[w], e.range) = {}
      BY <2>2, EmptyFileHasNone
    <3>5. k < fileNo[w]
      BY <3>3, <3>4
    <3> QED BY <2>5, <3>3, <3>5
  <2> QED BY <2>5, <2>6
<1> QED BY <1>1, FileCalls, BlobFilesHold, PTL

\* ReadsOwnData: whoever reads the data of a node gets that or an exception, also while
\* files are uploaded and from streams it opened earlier (readToBuffer).
THEOREM ReadersGetTheirData == Spec => []ReadsOwnData
<1>1. BlobInv => ReadsOwnData
  BY DEF BlobInv, ReaderOK, ReadsOwnData
<1> QED BY <1>1, BlobFilesHold, PTL
=============================================================================
