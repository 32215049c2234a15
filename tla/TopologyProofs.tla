---------------------------- MODULE TopologyProofs ----------------------------
(***************************************************************************)
(* Proofs about module Topology, for any number of requests, collections,  *)
(* topologies, bind files, labs and faults.                                *)
(***************************************************************************)
EXTENDS Topology, TLAPS

Saving == {"saveDefinition", "writeDefinition", "saveAnnotations", "saveRow"}
Binding == {"removeOld", "writeBind", "saveBind", "removeFile", "deleteBind"}
Creating == {"load", "policy", "rename", "copyEnvironment", "writeRun", "insertLab"}
Deleting == {"deleteLabs", "deleteLabRow", "deleteCollection"}
Steps == {"idle", "deleteRow"} \cup Saving \cup Binding \cup Creating \cup Deleting

(* Rows as they are saved: one that is not empty has a name and a          *)
(* collection.                                                             *)
SavedRows == {r \in Rows : r.state # "none" => r.name # None /\ r.collection # None}

Locals == [topology : Topologies \cup {None}, bindFile : BindFiles \cup {None}, lab : Labs \cup {None},
           collection : Collections \cup {None}, definition : Definitions \cup {None},
           run : Definitions \cup {None}, old : Paths \cup {None}, path : Paths \cup {None},
           copy : SavedRows, labs : SUBSET Labs, annotations : BOOLEAN]

BindRows == [state : {"none", "live", "deleted"}, topology : Topologies \cup {None}, path : Paths \cup {None}]

LabRows == [state : {"none", "live", "deleted"}, topology : Topologies \cup {None}, copy : SavedRows,
            definition : Definitions \cup {None}]

RecordInv ==
  /\ row \in [Topologies -> SavedRows] /\ bindRow \in [BindFiles -> BindRows] /\ labRow \in [Labs -> LabRows]
  /\ pc \in [Procs -> Steps] /\ reg \in [Procs -> Locals]
  /\ overlapped \in BOOLEAN /\ failed \in BOOLEAN

HasFiles(t) == t \in Topologies /\ definition[t] # None /\ t \in annotated

(* What a request at a step knows of its local variables r: what it is     *)
(* about exists, and a row is saved after its files.                       *)
LocalOK(step, r) ==
  /\ step \in Saving => r.topology \in Topologies /\ r.copy.state = "live"
  /\ step \in {"saveDefinition", "writeDefinition"} => r.definition # None
  /\ step \in {"writeDefinition", "saveAnnotations"} => definition[r.topology] # None
  /\ step \in {"saveDefinition", "writeDefinition"} /\ ~r.annotations => r.topology \in annotated
  /\ step \in {"saveRow"} \cup Creating => HasFiles(r.topology)
  /\ step \in Creating => r.copy.state = "live"
  /\ step = "deleteRow" => r.topology \in Topologies /\ row[r.topology].state # "none"
  /\ step \in Binding => r.topology \in Topologies /\ r.bindFile \in BindFiles
  /\ step \in {"removeOld", "writeBind", "saveBind"} => r.path \in Paths
  /\ step \in {"removeOld", "removeFile"} => r.old \in Paths

(* A lab is being created by one request and has no row yet; a lab that is *)
(* being deleted has one.                                                  *)
LabOK(step, r) ==
  /\ step \in Creating => r.lab \in Labs /\ labRow[r.lab].state = "none"
  /\ step \in Deleting => \A l \in r.labs : labRow[l].state # "none"
  /\ step = "deleteLabRow" => r.lab \in Labs /\ labRow[r.lab].state # "none"

OneCreator ==
  \A p, q \in Procs : p # q /\ pc[p] \in Creating /\ pc[q] \in Creating => reg[p].lab # reg[q].lab

(* What was checked is what is read again, unless it was rewritten; and    *)
(* the run environment holds what was read again.                          *)
CheckedOK(step, r) ==
  /\ step \in {"policy", "rename"} => definition[r.topology] \in {r.definition, Empty} \/ r.lab \in reread
  /\ step \in {"copyEnvironment", "writeRun", "insertLab"} => r.run = r.definition \/ r.lab \in reread
  /\ step = "insertLab" => env[r.lab] = r.run

(* As long as requests do not run side by side: the row that is going to   *)
(* be saved is of a collection that is there, and the deletion of a        *)
(* collection knows all its labs.                                          *)
CollectionOK(step, r) ==
  ~overlapped =>
    /\ step \in Saving \cup Creating => r.copy.collection \in collections
    /\ step \in {"deleteLabs", "deleteLabRow"} =>
         \A l \in Labs : labRow[l].state = "live" /\ labRow[l].copy.collection = r.collection
           => l \in r.labs \/ (step = "deleteLabRow" /\ l = r.lab)
    /\ step = "deleteCollection" =>
         /\ \A t \in Topologies : Live(t) => row[t].collection # r.collection
         /\ \A l \in Labs : labRow[l].state = "live" => labRow[l].copy.collection # r.collection

OneRequest == ~overlapped => \A p, q \in Busy : p = q

(* As long as nothing has failed either: the path a bind file is going to  *)
(* have is free, and the file that is removed is its own.                  *)
Smooth == ~overlapped /\ ~failed

BindOK(step, r) ==
  Smooth =>
    /\ step \in {"removeOld", "writeBind", "saveBind"} => ~PathTaken(r.topology, r.path, r.bindFile)
    /\ step \in {"removeOld", "removeFile"} =>
         LiveBind(r.bindFile) /\ bindRow[r.bindFile].topology = r.topology /\ bindRow[r.bindFile].path = r.old
    /\ step = "saveBind" => disk[r.topology][r.path] = "file"

HasFile(b) == disk[bindRow[b].topology][bindRow[b].path] = "file"

(* Then every bind file has a path of its own and a file, but for the one  *)
(* that is being written or deleted.                                       *)
FilesInv ==
  /\ \A t \in Topologies : disk[t]["a/b"] = "file" => disk[t]["a"] = "dir"
  /\ \A t \in Topologies : disk[t]["a/b"] # "dir"
  /\ Smooth => \A b \in BindFiles : LiveBind(b) =>
       /\ ~PathTaken(bindRow[b].topology, bindRow[b].path, b)
       /\ HasFile(b) \/ \E p \in Procs : pc[p] \in {"writeBind", "saveBind", "deleteBind"} /\ reg[p].bindFile = b

LabsHaveFiles == \A l \in Labs : labRow[l].state = "live" => HasFiles(labRow[l].topology)

RequestInv ==
  \A p \in Procs :
    /\ LocalOK(pc[p], reg[p]) /\ LabOK(pc[p], reg[p]) /\ CheckedOK(pc[p], reg[p])
    /\ CollectionOK(pc[p], reg[p]) /\ BindOK(pc[p], reg[p])

Inv ==
  /\ TypeOK /\ RecordInv /\ RequestInv /\ OneCreator /\ OneRequest
  /\ TopologiesHaveFiles /\ NamesAreUnique /\ LabsHaveFiles
  /\ EnvironmentIsWhatWasChecked /\ DeletedCollectionsAreEmpty /\ FilesInv

-----------------------------------------------------------------------------
USE TopologyAssumption DEF rowVars, fileVars, Saving, Binding, Creating, Deleting, Steps, Live, LiveBind, Contents

(* None is no value of any kind.                                           *)
LEMMA NoneIsNothing ==
  /\ None \notin Topologies /\ None \notin BindFiles /\ None \notin Labs /\ None \notin Names
  /\ None \notin Collections /\ None \notin Paths /\ None \notin Definitions
  /\ Empty \notin Definitions /\ Empty # None
OBVIOUS

(* The fields of rows.                                                     *)
LEMMA RowFields ==
  /\ \A r \in SavedRows : /\ r \in Rows /\ r.state \in {"none", "live", "deleted"}
                          /\ r.name \in Names \cup {None} /\ r.collection \in Collections \cup {None}
                          /\ r.state # "none" => r.name # None /\ r.collection # None
  /\ NoRow \in SavedRows
BY NoneIsNothing DEF SavedRows, Rows, NoRow

(* The fields of bind files and labs.                                      *)
LEMMA OtherFields ==
  /\ \A b \in BindRows : /\ b.state \in {"none", "live", "deleted"} /\ b.topology \in Topologies \cup {None}
                         /\ b.path \in Paths \cup {None}
  /\ \A l \in LabRows : /\ l.state \in {"none", "live", "deleted"} /\ l.topology \in Topologies \cup {None}
                        /\ l.copy \in SavedRows /\ l.definition \in Definitions \cup {None}
BY DEF BindRows, LabRows

(* The local variables of requests.                                        *)
LEMMA LocalFields ==
  /\ \A r \in Locals :
       /\ r.topology \in Topologies \cup {None} /\ r.bindFile \in BindFiles \cup {None} /\ r.lab \in Labs \cup {None}
       /\ r.collection \in Collections \cup {None} /\ r.definition \in Definitions \cup {None}
       /\ r.run \in Definitions \cup {None} /\ r.old \in Paths \cup {None} /\ r.path \in Paths \cup {None}
       /\ r.copy \in SavedRows /\ r.labs \in SUBSET Labs /\ r.annotations \in BOOLEAN
  /\ NoLocals \in Locals
BY RowFields DEF Locals, NoLocals

(* A request that is idle knows nothing.                                   *)
LEMMA IdleOK ==
  ASSUME NEW r
  PROVE  LocalOK("idle", r) /\ LabOK("idle", r) /\ CheckedOK("idle", r) /\ CollectionOK("idle", r) /\ BindOK("idle", r)
BY DEF LocalOK, LabOK, CheckedOK, CollectionOK, BindOK

-----------------------------------------------------------------------------
(* A request begins, having read only.                                     *)
LEMMA BeginStep ==
  ASSUME Inv, NEW p \in Procs, NEW command, NEW step \in Steps, NEW r \in Locals,
         Begin(p, command, step, r),
         LocalOK(step, r), LabOK(step, r), CheckedOK(step, r), CollectionOK(step, r), BindOK(step, r),
         step \in Creating => \A q \in Procs : reg[q].lab # r.lab
  PROVE  Inv'
<1>1. /\ pc'[p] = step /\ reg'[p] = r /\ \A q \in Procs : q # p => pc'[q] = pc[q] /\ reg'[q] = reg[q]
      /\ pc' \in [Procs -> Steps] /\ reg' \in [Procs -> Locals]
      /\ overlapped' = (overlapped \/ Busy # {}) /\ pc[p] = "idle"
  BY DEF Inv, RecordInv, Begin
<1>2. UNCHANGED <<collections, row, bindRow, labRow, definition, damaged, annotated, disk, env, faults, failed, reread>>
  BY DEF Begin
<1>3. overlapped => overlapped'
  BY <1>1
<1>4. TypeOK' /\ RecordInv'
  <2>1. requests' \in 0 .. MaxRequests
    BY DEF Inv, TypeOK, Begin
  <2>2. overlapped' \in BOOLEAN
    BY <1>1 DEF Inv, RecordInv
  <2> QED BY <1>1, <1>2, <2>1, <2>2 DEF Inv, TypeOK, RecordInv
<1>5. RequestInv'
  <2>1. ASSUME NEW q \in Procs
        PROVE  LocalOK(pc[q], reg[q])' /\ LabOK(pc[q], reg[q])' /\ CheckedOK(pc[q], reg[q])'
    <3>1. LocalOK(pc'[q], reg'[q]) /\ LabOK(pc'[q], reg'[q]) /\ CheckedOK(pc'[q], reg'[q])
      BY <1>1 DEF Inv, RequestInv
    <3> QED BY <1>2, <3>1 DEF LocalOK, LabOK, CheckedOK, HasFiles
  <2>2. ASSUME NEW q \in Procs
        PROVE  CollectionOK(pc[q], reg[q])' /\ BindOK(pc[q], reg[q])'
    <3>1. CollectionOK(pc'[q], reg'[q]) /\ BindOK(pc'[q], reg'[q])
      BY <1>1 DEF Inv, RequestInv
    <3> QED BY <1>2, <1>3, <3>1 DEF CollectionOK, BindOK, Smooth, PathTaken
  <2> QED BY <2>1, <2>2 DEF RequestInv
<1>6. OneCreator'
  BY <1>1 DEF Inv, OneCreator
<1>7. OneRequest'
  BY <1>1 DEF OneRequest, Busy
<1>8. FilesInv'
  BY <1>1, <1>2, <1>3 DEF Inv, FilesInv, HasFile, Smooth, PathTaken
<1>9. /\ TopologiesHaveFiles' /\ NamesAreUnique' /\ LabsHaveFiles'
      /\ EnvironmentIsWhatWasChecked' /\ DeletedCollectionsAreEmpty'
  BY <1>2, <1>3 DEF Inv, TopologiesHaveFiles, NamesAreUnique, LabsHaveFiles, HasFiles,
     EnvironmentIsWhatWasChecked, DeletedCollectionsAreEmpty
<1> QED BY <1>4, <1>5, <1>6, <1>7, <1>8, <1>9 DEF Inv

(* A request ends without having changed anything in its last step.        *)
LEMMA EndStep ==
  ASSUME Inv, NEW p \in Procs,
         pc' = [pc EXCEPT ![p] = "idle"], reg' = [reg EXCEPT ![p] = NoLocals],
         UNCHANGED <<collections, row, bindRow, labRow, definition, damaged, annotated, disk, env, requests, overlapped, reread>>,
         faults' \in 0 .. MaxFaults, failed' \in BOOLEAN, failed => failed',
         failed' \/ pc[p] \notin Binding
  PROVE  Inv'
<1>1. /\ pc'[p] = "idle" /\ \A q \in Procs : q # p => pc'[q] = pc[q] /\ reg'[q] = reg[q]
      /\ pc' \in [Procs -> Steps] /\ reg' \in [Procs -> Locals]
  BY LocalFields DEF Inv, RecordInv
<1>2. TypeOK' /\ RecordInv'
  BY <1>1 DEF Inv, TypeOK, RecordInv
<1>3. RequestInv'
  <2>1. ASSUME NEW q \in Procs
        PROVE  /\ LocalOK(pc[q], reg[q])' /\ LabOK(pc[q], reg[q])' /\ CheckedOK(pc[q], reg[q])'
               /\ CollectionOK(pc[q], reg[q])' /\ BindOK(pc[q], reg[q])'
    <3>1. /\ LocalOK(pc'[q], reg'[q]) /\ LabOK(pc'[q], reg'[q]) /\ CheckedOK(pc'[q], reg'[q])
          /\ CollectionOK(pc'[q], reg'[q]) /\ BindOK(pc'[q], reg'[q])
      BY <1>1, IdleOK DEF Inv, RequestInv
    <3> QED BY <3>1 DEF LocalOK, LabOK, CheckedOK, CollectionOK, BindOK, HasFiles, Smooth, PathTaken
  <2> QED BY <2>1 DEF RequestInv
<1>4. OneCreator' /\ OneRequest'
  BY <1>1 DEF Inv, OneCreator, OneRequest, Busy
<1>5. FilesInv'
  BY <1>1 DEF Inv, FilesInv, HasFile, Smooth, PathTaken
<1>6. /\ TopologiesHaveFiles' /\ NamesAreUnique' /\ LabsHaveFiles'
      /\ EnvironmentIsWhatWasChecked' /\ DeletedCollectionsAreEmpty'
  BY DEF Inv, TopologiesHaveFiles, NamesAreUnique, LabsHaveFiles, HasFiles,
     EnvironmentIsWhatWasChecked, DeletedCollectionsAreEmpty
<1> QED BY <1>2, <1>3, <1>4, <1>5, <1>6 DEF Inv

-----------------------------------------------------------------------------
(* A topology is created in a collection that is there.                    *)
LEMMA BeginCreateStep ==
  ASSUME Inv, NEW p \in Procs, NEW t \in Topologies, NEW d \in Definitions, NEW c \in Collections,
         BeginCreate(p, t, d, c)
  PROVE  Inv'
<1>1. PICK copy : copy = [state |-> "live", name |-> d.name, collection |-> c, lastDeployFailed |-> FALSE]
  OBVIOUS
<1>2. copy \in SavedRows /\ copy.state = "live" /\ copy.collection = c
  BY <1>1, NoneIsNothing DEF SavedRows, Rows, Definitions
<1>3. PICK r : r = [NoLocals EXCEPT !.topology = t, !.definition = d, !.annotations = TRUE, !.copy = copy]
  OBVIOUS
<1>4. r \in Locals /\ r.topology = t /\ r.definition = d /\ r.copy = copy /\ r.annotations = TRUE
  BY <1>2, <1>3 DEF NoLocals, Locals
<1>5. Begin(p, "create", "saveDefinition", r) /\ c \in collections
  BY <1>1, <1>3 DEF BeginCreate
<1>6. /\ LocalOK("saveDefinition", r) /\ LabOK("saveDefinition", r) /\ CheckedOK("saveDefinition", r)
      /\ CollectionOK("saveDefinition", r) /\ BindOK("saveDefinition", r)
  BY <1>2, <1>4, <1>5, NoneIsNothing DEF LocalOK, LabOK, CheckedOK, CollectionOK, BindOK
<1> QED BY <1>4, <1>5, <1>6, BeginStep

(* A topology is updated: it has its files, and its new collection is      *)
(* there or its old one.                                                   *)
LEMMA BeginUpdateStep ==
  ASSUME Inv, NEW p \in Procs, NEW t \in Topologies, NEW d \in Definitions \cup {None}, NEW c \in Collections,
         NEW given \in BOOLEAN, BeginUpdate(p, t, d, c, given)
  PROVE  Inv'
<1>1. PICK name : name = IF d = None THEN row[t].name ELSE d.name
  OBVIOUS
<1>2. PICK step : step = IF d # None THEN "saveDefinition" ELSE IF given THEN "saveAnnotations" ELSE "saveRow"
  OBVIOUS
<1>3. PICK copy : copy = [row[t] EXCEPT !.name = name, !.collection = c]
  OBVIOUS
<1>4. row[t] \in SavedRows /\ row[t].state = "live"
  BY DEF Inv, RecordInv, BeginUpdate
<1>5. name \in Names
  BY <1>1, <1>4, RowFields DEF Definitions
<1>6. copy \in SavedRows /\ copy.state = "live" /\ copy.collection = c
  BY <1>3, <1>4, <1>5, NoneIsNothing DEF SavedRows, Rows
<1>7. PICK r : r = [NoLocals EXCEPT !.topology = t, !.definition = d, !.annotations = given, !.copy = copy]
  OBVIOUS
<1>8. r \in Locals /\ r.topology = t /\ r.definition = d /\ r.copy = copy
  BY <1>6, <1>7 DEF NoLocals, Locals
<1>9. Begin(p, "update", step, r) /\ c \in collections \cup {row[t].collection}
  BY <1>1, <1>2, <1>3, <1>7 DEF BeginUpdate
<1>10. ~overlapped => c \in collections
  BY <1>4, <1>9 DEF Inv, DeletedCollectionsAreEmpty
<1>11. HasFiles(t)
  BY <1>4 DEF Inv, TopologiesHaveFiles, HasFiles
<1>12. LocalOK(step, r) /\ LabOK(step, r) /\ CheckedOK(step, r) /\ CollectionOK(step, r) /\ BindOK(step, r)
  BY <1>2, <1>6, <1>8, <1>10, <1>11 DEF LocalOK, LabOK, CheckedOK, CollectionOK, BindOK, HasFiles
<1> QED BY <1>2, <1>8, <1>9, <1>12, BeginStep

(* A topology that is listed is deleted.                                   *)
LEMMA BeginDeleteStep ==
  ASSUME Inv, NEW p \in Procs, NEW t \in Topologies, BeginDelete(p, t)
  PROVE  Inv'
<1>1. PICK r : r = [NoLocals EXCEPT !.topology = t]
  OBVIOUS
<1>2. r \in Locals /\ r.topology = t
  BY <1>1, RowFields DEF NoLocals, Locals
<1>3. Begin(p, "delete", "deleteRow", r) /\ row[t].state = "live"
  BY <1>1 DEF BeginDelete
<1>4. /\ LocalOK("deleteRow", r) /\ LabOK("deleteRow", r) /\ CheckedOK("deleteRow", r)
      /\ CollectionOK("deleteRow", r) /\ BindOK("deleteRow", r)
  BY <1>2, <1>3 DEF LocalOK, LabOK, CheckedOK, CollectionOK, BindOK
<1> QED BY <1>2, <1>3, <1>4, BeginStep

(* A bind file is created at a path that is free.                          *)
LEMMA BeginCreateBindStep ==
  ASSUME Inv, NEW p \in Procs, NEW b \in BindFiles, NEW t \in Topologies, NEW path \in Paths,
         BeginCreateBind(p, b, t, path)
  PROVE  Inv'
<1>1. PICK r : r = [NoLocals EXCEPT !.topology = t, !.bindFile = b, !.path = path]
  OBVIOUS
<1>2. r \in Locals /\ r.topology = t /\ r.bindFile = b /\ r.path = path
  BY <1>1, RowFields DEF NoLocals, Locals
<1>3. Begin(p, "createBind", "writeBind", r)
  BY <1>1 DEF BeginCreateBind
<1>4. ~PathTaken(t, path, b)
  BY NoneIsNothing DEF BeginCreateBind, PathTaken
<1>5. /\ LocalOK("writeBind", r) /\ LabOK("writeBind", r) /\ CheckedOK("writeBind", r)
      /\ CollectionOK("writeBind", r) /\ BindOK("writeBind", r)
  BY <1>2, <1>4 DEF LocalOK, LabOK, CheckedOK, CollectionOK, BindOK
<1> QED BY <1>2, <1>3, <1>5, BeginStep

(* A bind file is moved or rewritten.                                      *)
LEMMA BeginUpdateBindStep ==
  ASSUME Inv, NEW p \in Procs, NEW b \in BindFiles, NEW path \in Paths, NEW given \in BOOLEAN,
         BeginUpdateBind(p, b, path, given)
  PROVE  Inv'
<1>1. PICK t : t = bindRow[b].topology
  OBVIOUS
<1>2. PICK old : old = bindRow[b].path
  OBVIOUS
<1>3. t \in Topologies /\ old \in Paths /\ bindRow[b].state = "live"
  BY <1>1, <1>2 DEF Inv, TypeOK, BeginUpdateBind
<1>4. PICK r : r = [NoLocals EXCEPT !.topology = t, !.bindFile = b, !.path = path, !.old = old]
  OBVIOUS
<1>5. r \in Locals /\ r.topology = t /\ r.bindFile = b /\ r.path = path /\ r.old = old
  BY <1>3, <1>4, RowFields DEF NoLocals, Locals
<1>6. PICK step : step = IF path = old THEN "writeBind" ELSE "removeOld"
  OBVIOUS
<1>7. Begin(p, "updateBind", step, r) /\ ~PathTaken(t, path, b)
  BY <1>1, <1>2, <1>4, <1>6 DEF BeginUpdateBind
<1>8. LocalOK(step, r) /\ LabOK(step, r) /\ CheckedOK(step, r) /\ CollectionOK(step, r) /\ BindOK(step, r)
  BY <1>1, <1>2, <1>3, <1>5, <1>6, <1>7 DEF LocalOK, LabOK, CheckedOK, CollectionOK, BindOK
<1> QED BY <1>5, <1>6, <1>7, <1>8, BeginStep

(* A bind file is deleted.                                                 *)
LEMMA BeginDeleteBindStep ==
  ASSUME Inv, NEW p \in Procs, NEW b \in BindFiles, BeginDeleteBind(p, b)
  PROVE  Inv'
<1>1. PICK t : t = bindRow[b].topology
  OBVIOUS
<1>2. PICK old : old = bindRow[b].path
  OBVIOUS
<1>3. t \in Topologies /\ old \in Paths /\ bindRow[b].state = "live"
  BY <1>1, <1>2 DEF Inv, TypeOK, BeginDeleteBind
<1>4. PICK r : r = [NoLocals EXCEPT !.topology = t, !.bindFile = b, !.old = old]
  OBVIOUS
<1>5. r \in Locals /\ r.topology = t /\ r.bindFile = b /\ r.old = old
  BY <1>3, <1>4, RowFields DEF NoLocals, Locals
<1>6. Begin(p, "deleteBind", "removeFile", r)
  BY <1>1, <1>2, <1>4 DEF BeginDeleteBind
<1>7. /\ LocalOK("removeFile", r) /\ LabOK("removeFile", r) /\ CheckedOK("removeFile", r)
      /\ CollectionOK("removeFile", r) /\ BindOK("removeFile", r)
  BY <1>1, <1>2, <1>3, <1>5 DEF LocalOK, LabOK, CheckedOK, CollectionOK, BindOK
<1> QED BY <1>5, <1>6, <1>7, BeginStep

(* A lab is created that nobody creates and that has no row.               *)
LEMMA BeginCreateLabStep ==
  ASSUME Inv, NEW p \in Procs, NEW l \in Labs, NEW t \in Topologies, BeginCreateLab(p, l, t)
  PROVE  Inv'
<1>1. row[t] \in SavedRows /\ row[t].state = "live"
  BY DEF Inv, RecordInv, BeginCreateLab
<1>2. PICK r : r = [NoLocals EXCEPT !.topology = t, !.lab = l, !.copy = row[t]]
  OBVIOUS
<1>3. r \in Locals /\ r.topology = t /\ r.lab = l /\ r.copy = row[t]
  BY <1>1, <1>2 DEF NoLocals, Locals
<1>4. Begin(p, "createLab", "load", r) /\ labRow[l].state = "none" /\ \A q \in Procs : reg[q].lab # l
  BY <1>2 DEF BeginCreateLab
<1>5. HasFiles(t) /\ (~overlapped => row[t].collection \in collections)
  BY <1>1 DEF Inv, TopologiesHaveFiles, DeletedCollectionsAreEmpty, HasFiles
<1>6. LocalOK("load", r) /\ LabOK("load", r) /\ CheckedOK("load", r) /\ CollectionOK("load", r) /\ BindOK("load", r)
  BY <1>1, <1>3, <1>4, <1>5 DEF LocalOK, LabOK, CheckedOK, CollectionOK, BindOK
<1> QED BY <1>3, <1>4, <1>6, BeginStep

(* A deployment saves the row its lab was created with, or the current     *)
(* one.                                                                    *)
LEMMA BeginDeployStep ==
  ASSUME Inv, NEW p \in Procs, NEW l \in Labs, NEW hasFailed \in BOOLEAN, NEW copy \in Copies(l),
         BeginDeploy(p, l, copy, hasFailed)
  PROVE  Inv'
<1>1. labRow[l] \in LabRows /\ labRow[l].state = "live" /\ copy.state = "live"
  BY DEF Inv, RecordInv, BeginDeploy
<1>2. copy \in SavedRows /\ (~overlapped => copy.collection \in collections)
  <2>1. CASE copy = labRow[l].copy
    BY <1>1, <2>1, OtherFields DEF Inv, DeletedCollectionsAreEmpty
  <2>2. CASE \E t \in Topologies : copy = row[t]
    BY <1>1, <2>2 DEF Inv, RecordInv, DeletedCollectionsAreEmpty
  <2> QED BY <2>1, <2>2 DEF Copies
<1>3. PICK new : new = [copy EXCEPT !.lastDeployFailed = hasFailed]
  OBVIOUS
<1>4. new \in SavedRows /\ new.state = "live" /\ new.collection = copy.collection
  BY <1>1, <1>2, <1>3 DEF SavedRows, Rows
<1>5. PICK t : t = labRow[l].topology
  OBVIOUS
<1>6. HasFiles(t)
  BY <1>1, <1>5 DEF Inv, LabsHaveFiles
<1>7. PICK r : r = [NoLocals EXCEPT !.topology = t, !.lab = l, !.copy = new]
  OBVIOUS
<1>8. r \in Locals /\ r.topology = t /\ r.lab = l /\ r.copy = new
  BY <1>4, <1>6, <1>7 DEF NoLocals, Locals, HasFiles
<1>9. Begin(p, "deploy", "saveRow", r)
  BY <1>3, <1>5, <1>7 DEF BeginDeploy
<1>10. /\ LocalOK("saveRow", r) /\ LabOK("saveRow", r) /\ CheckedOK("saveRow", r)
       /\ CollectionOK("saveRow", r) /\ BindOK("saveRow", r)
  BY <1>2, <1>4, <1>6, <1>8 DEF LocalOK, LabOK, CheckedOK, CollectionOK, BindOK, HasFiles
<1> QED BY <1>8, <1>9, <1>10, BeginStep

(* The deletion of a collection begins with all its labs.                  *)
LEMMA BeginDeleteCollectionStep ==
  ASSUME Inv, NEW p \in Procs, NEW c \in Collections, BeginDeleteCollection(p, c)
  PROVE  Inv'
<1>1. PICK labs : labs = LabsOf(c)
  OBVIOUS
<1>2. labs \in SUBSET Labs
  BY <1>1 DEF LabsOf
<1>3. PICK r : r = [NoLocals EXCEPT !.collection = c, !.labs = labs]
  OBVIOUS
<1>4. r \in Locals /\ r.collection = c /\ r.labs = labs
  BY <1>2, <1>3, RowFields DEF NoLocals, Locals
<1>5. Begin(p, "deleteCollection", "deleteLabs", r)
  BY <1>1, <1>3 DEF BeginDeleteCollection
<1>6. /\ LocalOK("deleteLabs", r) /\ LabOK("deleteLabs", r) /\ CheckedOK("deleteLabs", r)
      /\ CollectionOK("deleteLabs", r) /\ BindOK("deleteLabs", r)
  BY <1>1, <1>4 DEF LocalOK, LabOK, CheckedOK, CollectionOK, BindOK, LabsOf
<1> QED BY <1>4, <1>5, <1>6, BeginStep

-----------------------------------------------------------------------------
(* A step of request p, which is at step with the local variables r        *)
(* afterwards.  Files are written and never unwritten, rows stay, a lab    *)
(* gets its row and its run environment from the request that creates it,  *)
(* and requests that have read a definition that is rewritten are known:   *)
(* then the other requests still know what they knew.                      *)
LEMMA StepKeeps ==
  ASSUME Inv, NEW p \in Procs, NEW step \in Steps, NEW r \in Locals,
         pc' = [pc EXCEPT ![p] = step], reg' = [reg EXCEPT ![p] = r], pc[p] # "idle", overlapped' = overlapped,
         step \in Creating => pc[p] \in Creating /\ r.lab = reg[p].lab,
         \A t \in Topologies : definition[t] # None => definition'[t] # None,
         annotated \subseteq annotated', reread \subseteq reread',
         \A t \in Topologies : row[t].state # "none" => row'[t].state # "none",
         \A l \in Labs : labRow[l].state # "none" => labRow'[l].state # "none",
         \A l \in Labs : labRow[l].state # labRow'[l].state /\ labRow[l].state = "none"
                           => pc[p] \in Creating /\ l = reg[p].lab,
         \A l \in Labs : env[l] # env'[l]
                           => (pc[p] \in Creating /\ l = reg[p].lab) \/ labRow[l].state # "none",
         \A q \in Procs : pc[q] \in {"policy", "rename"} =>
           definition'[reg[q].topology] \in {definition[reg[q].topology], Empty} \/ reg[q].lab \in reread',
         LocalOK(step, r)', LabOK(step, r)', CheckedOK(step, r)', CollectionOK(step, r)', BindOK(step, r)'
  PROVE  RequestInv' /\ OneCreator' /\ OneRequest' /\ pc' \in [Procs -> Steps] /\ reg' \in [Procs -> Locals]
<1>1. /\ pc'[p] = step /\ reg'[p] = r /\ \A q \in Procs : q # p => pc'[q] = pc[q] /\ reg'[q] = reg[q]
      /\ pc' \in [Procs -> Steps] /\ reg' \in [Procs -> Locals]
  BY DEF Inv, RecordInv
<1>2. OneCreator' /\ OneRequest'
  BY <1>1 DEF Inv, OneCreator, OneRequest, Busy
<1>3. ASSUME NEW q \in Procs, q # p
      PROVE  /\ LocalOK(pc[q], reg[q])' /\ LabOK(pc[q], reg[q])' /\ CheckedOK(pc[q], reg[q])'
             /\ CollectionOK(pc[q], reg[q])' /\ BindOK(pc[q], reg[q])'
  <2>1. reg[q] \in Locals /\ pc'[q] = pc[q] /\ reg'[q] = reg[q]
    BY <1>1, <1>3 DEF Inv, RecordInv
  <2>2. LocalOK(pc[q], reg[q]) /\ LabOK(pc[q], reg[q]) /\ CheckedOK(pc[q], reg[q])
    BY DEF Inv, RequestInv
  <2>3. LocalOK(pc[q], reg[q])'
    BY <2>1, <2>2, LocalFields DEF LocalOK, HasFiles
  <2>4. pc[q] \in Creating /\ pc[p] \in Creating => reg[q].lab # reg[p].lab
    BY <1>3 DEF Inv, OneCreator
  <2>5. LabOK(pc[q], reg[q])'
    BY <2>1, <2>2, <2>4, LocalFields DEF LabOK
  <2>6. CheckedOK(pc[q], reg[q])'
    BY <2>1, <2>2, <2>4 DEF CheckedOK, LabOK
  <2>7. ~overlapped => pc[q] = "idle"
    BY <1>3 DEF Inv, OneRequest, Busy
  <2>8. CollectionOK(pc[q], reg[q])' /\ BindOK(pc[q], reg[q])'
    BY <2>1, <2>7 DEF CollectionOK, BindOK, Smooth
  <2> QED BY <2>3, <2>5, <2>6, <2>8
<1>4. RequestInv'
  BY <1>1, <1>3 DEF RequestInv
<1> QED BY <1>1, <1>2, <1>4

(* The same for a request that ends.                                       *)
LEMMA IdleOKPrime ==
  ASSUME NEW r
  PROVE  /\ LocalOK("idle", r)' /\ LabOK("idle", r)' /\ CheckedOK("idle", r)'
         /\ CollectionOK("idle", r)' /\ BindOK("idle", r)'
BY DEF LocalOK, LabOK, CheckedOK, CollectionOK, BindOK

(* A step that leaves the bind files and their requests alone.             *)
LEMMA FilesKept ==
  ASSUME Inv, NEW p \in Procs, disk' = disk, bindRow' = bindRow, overlapped' = overlapped, failed' = failed,
         pc[p] \notin Binding,
         \A q \in Procs : q # p => pc'[q] = pc[q] /\ reg'[q] = reg[q]
  PROVE  FilesInv'
BY DEF Inv, FilesInv, HasFile, Smooth, PathTaken

(* What a request at a step knows.                                         *)
LEMMA Knows ==
  ASSUME Inv, NEW p \in Procs
  PROVE  /\ reg[p] \in Locals /\ pc[p] \in Steps
         /\ LocalOK(pc[p], reg[p]) /\ LabOK(pc[p], reg[p]) /\ CheckedOK(pc[p], reg[p])
         /\ CollectionOK(pc[p], reg[p]) /\ BindOK(pc[p], reg[p])
BY DEF Inv, RecordInv, RequestInv

-----------------------------------------------------------------------------
(* The definition is truncated: it is there, and a request that is going   *)
(* to read it again will find nothing to parse.                            *)
LEMMA TruncateDefinitionStep ==
  ASSUME Inv, NEW p \in Procs, TruncateDefinition(p)
  PROVE  Inv'
<1>1. PICK r : r = reg[p]
  OBVIOUS
<1>2. /\ r \in Locals /\ pc[p] = "saveDefinition" /\ r.topology \in Topologies /\ r.definition # None
      /\ r.copy.state = "live" /\ (~r.annotations => r.topology \in annotated) /\ CollectionOK("saveDefinition", r)
  BY <1>1, Knows, LocalFields DEF TruncateDefinition, LocalOK
<1>3. /\ pc' = [pc EXCEPT ![p] = "writeDefinition"] /\ reg' = [reg EXCEPT ![p] = r]
      /\ definition' = [definition EXCEPT ![r.topology] = Empty]
      /\ UNCHANGED <<collections, row, bindRow, labRow, damaged, annotated, disk, env, requests, faults, overlapped,
                     failed, reread>>
  BY <1>1 DEF Inv, RecordInv, TruncateDefinition, Go
<1>4. definition \in [Topologies -> Contents]
  BY DEF Inv, TypeOK
<1>5. /\ definition' \in [Topologies -> Contents] /\ definition'[r.topology] # None
      /\ \A t \in Topologies : definition[t] # None => definition'[t] # None
  BY <1>2, <1>3, <1>4, NoneIsNothing
<1>6. /\ LocalOK("writeDefinition", r)' /\ LabOK("writeDefinition", r)' /\ CheckedOK("writeDefinition", r)'
      /\ CollectionOK("writeDefinition", r)' /\ BindOK("writeDefinition", r)'
  BY <1>2, <1>3, <1>5 DEF LocalOK, LabOK, CheckedOK, CollectionOK, BindOK
<1>7. \A q \in Procs : pc[q] \in {"policy", "rename"} =>
        definition'[reg[q].topology] \in {definition[reg[q].topology], Empty} \/ reg[q].lab \in reread'
  <2>1. \A q \in Procs : pc[q] \in {"policy", "rename"} => reg[q].topology \in Topologies
    BY Knows DEF LocalOK, HasFiles
  <2> QED BY <1>3, <1>4, <2>1
<1>8. RequestInv' /\ OneCreator' /\ OneRequest' /\ pc' \in [Procs -> Steps] /\ reg' \in [Procs -> Locals]
  BY <1>2, <1>3, <1>5, <1>6, <1>7, StepKeeps
<1>9. TypeOK' /\ RecordInv'
  BY <1>3, <1>5, <1>8 DEF Inv, TypeOK, RecordInv
<1>10. TopologiesHaveFiles' /\ LabsHaveFiles'
  BY <1>3, <1>5 DEF Inv, TopologiesHaveFiles, LabsHaveFiles, HasFiles
<1>11. NamesAreUnique' /\ DeletedCollectionsAreEmpty' /\ EnvironmentIsWhatWasChecked'
  BY <1>3 DEF Inv, NamesAreUnique, DeletedCollectionsAreEmpty, EnvironmentIsWhatWasChecked
<1>12. FilesInv'
  BY <1>2, <1>3, FilesKept
<1> QED BY <1>8, <1>9, <1>10, <1>11, <1>12 DEF Inv

(* The definition is there before the annotations and the row, and the     *)
(* requests that have read the old one are known.                          *)
LEMMA SaveDefinitionStep ==
  ASSUME Inv, NEW p \in Procs, SaveDefinition(p)
  PROVE  Inv'
<1>1. PICK r : r = reg[p]
  OBVIOUS
<1>2. /\ r \in Locals /\ pc[p] = "writeDefinition" /\ r.topology \in Topologies /\ r.definition \in Definitions
      /\ r.copy.state = "live" /\ (~r.annotations => r.topology \in annotated) /\ CollectionOK("writeDefinition", r)
  BY <1>1, Knows, LocalFields DEF SaveDefinition, LocalOK
<1>3. PICK step : step = IF r.annotations THEN "saveAnnotations" ELSE "saveRow"
  OBVIOUS
<1>4. PICK content : content \in {r.definition, Empty} /\ definition' = [definition EXCEPT ![r.topology] = content]
  BY <1>1 DEF SaveDefinition
<1>5. /\ pc' = [pc EXCEPT ![p] = step] /\ reg' = [reg EXCEPT ![p] = r]
      /\ UNCHANGED <<collections, row, bindRow, labRow, annotated, disk, env, requests, faults, overlapped, failed>>
      /\ damaged' \in {damaged \ {r.topology}, damaged \cup {r.topology}}
  BY <1>1, <1>3 DEF Inv, RecordInv, SaveDefinition, Go
<1>6. reread' = reread \cup {reg[q].lab : q \in {s \in Procs : pc[s] \in {"policy", "rename"} /\ reg[s].topology = r.topology}}
  BY <1>1 DEF SaveDefinition
<1>7. definition \in [Topologies -> Contents] /\ damaged \subseteq Topologies
  BY DEF Inv, TypeOK
<1>8. /\ definition' \in [Topologies -> Contents] /\ definition'[r.topology] # None
      /\ \A t \in Topologies : definition[t] # None => definition'[t] # None
  BY <1>2, <1>4, <1>7, NoneIsNothing
<1>9. LocalOK(step, r)' /\ LabOK(step, r)' /\ CheckedOK(step, r)' /\ CollectionOK(step, r)' /\ BindOK(step, r)'
  BY <1>2, <1>3, <1>5, <1>8 DEF LocalOK, LabOK, CheckedOK, CollectionOK, BindOK, HasFiles
<1>10. /\ reread \subseteq reread' /\ reread' \subseteq Labs
       /\ \A q \in Procs : pc[q] \in {"policy", "rename"} =>
            definition'[reg[q].topology] \in {definition[reg[q].topology], Empty} \/ reg[q].lab \in reread'
  <2>1. \A q \in Procs : pc[q] \in {"policy", "rename"} => reg[q].lab \in Labs /\ reg[q].topology \in Topologies
    BY Knows DEF LabOK, LocalOK, HasFiles
  <2>2. reread \subseteq Labs
    BY DEF Inv, TypeOK
  <2> QED BY <1>4, <1>6, <1>7, <2>1, <2>2
<1>11. RequestInv' /\ OneCreator' /\ OneRequest' /\ pc' \in [Procs -> Steps] /\ reg' \in [Procs -> Locals]
  BY <1>2, <1>3, <1>5, <1>8, <1>9, <1>10, StepKeeps
<1>12. TypeOK' /\ RecordInv'
  BY <1>2, <1>5, <1>7, <1>8, <1>10, <1>11 DEF Inv, TypeOK, RecordInv
<1>13. TopologiesHaveFiles' /\ LabsHaveFiles'
  BY <1>5, <1>8 DEF Inv, TopologiesHaveFiles, LabsHaveFiles, HasFiles
<1>14. NamesAreUnique' /\ DeletedCollectionsAreEmpty' /\ EnvironmentIsWhatWasChecked'
  BY <1>5, <1>10 DEF Inv, NamesAreUnique, DeletedCollectionsAreEmpty, EnvironmentIsWhatWasChecked
<1>15. FilesInv'
  BY <1>2, <1>5, FilesKept
<1> QED BY <1>11, <1>12, <1>13, <1>14, <1>15 DEF Inv

(* So are the annotations before the row.                                  *)
LEMMA SaveAnnotationsStep ==
  ASSUME Inv, NEW p \in Procs, SaveAnnotations(p)
  PROVE  Inv'
<1>1. PICK r : r = reg[p]
  OBVIOUS
<1>2. /\ r \in Locals /\ pc[p] = "saveAnnotations" /\ r.topology \in Topologies /\ definition[r.topology] # None
      /\ r.copy.state = "live" /\ CollectionOK("saveAnnotations", r)
  BY <1>1, Knows DEF SaveAnnotations, LocalOK
<1>3. /\ pc' = [pc EXCEPT ![p] = "saveRow"] /\ reg' = [reg EXCEPT ![p] = r]
      /\ annotated' = annotated \cup {r.topology}
      /\ UNCHANGED <<collections, row, bindRow, labRow, definition, damaged, disk, env, requests, faults, overlapped,
                     failed, reread>>
  BY <1>1 DEF Inv, RecordInv, SaveAnnotations, Go
<1>4. /\ LocalOK("saveRow", r)' /\ LabOK("saveRow", r)' /\ CheckedOK("saveRow", r)'
      /\ CollectionOK("saveRow", r)' /\ BindOK("saveRow", r)'
  BY <1>2, <1>3 DEF LocalOK, LabOK, CheckedOK, CollectionOK, BindOK, HasFiles
<1>5. RequestInv' /\ OneCreator' /\ OneRequest' /\ pc' \in [Procs -> Steps] /\ reg' \in [Procs -> Locals]
  BY <1>2, <1>3, <1>4, StepKeeps
<1>6. TypeOK' /\ RecordInv'
  <2>1. annotated' \subseteq Topologies
    BY <1>2, <1>3 DEF Inv, TypeOK
  <2>2. TypeOK'
    BY <1>3, <2>1 DEF Inv, TypeOK
  <2>3. RecordInv'
    BY <1>3, <1>5 DEF Inv, RecordInv
  <2> QED BY <2>2, <2>3
<1>7. TopologiesHaveFiles' /\ LabsHaveFiles'
  BY <1>3 DEF Inv, TopologiesHaveFiles, LabsHaveFiles, HasFiles
<1>8. NamesAreUnique' /\ DeletedCollectionsAreEmpty' /\ EnvironmentIsWhatWasChecked'
  BY <1>3 DEF Inv, NamesAreUnique, DeletedCollectionsAreEmpty, EnvironmentIsWhatWasChecked
<1>9. FilesInv'
  BY <1>2, <1>3, FilesKept
<1> QED BY <1>5, <1>6, <1>7, <1>8, <1>9 DEF Inv

(* The row that is saved has its files, and the index keeps its name       *)
(* unique.                                                                 *)
LEMMA SaveRowStep ==
  ASSUME Inv, NEW p \in Procs, SaveRow(p)
  PROVE  Inv'
<1>1. PICK r : r = reg[p]
  OBVIOUS
<1>2. /\ r \in Locals /\ pc[p] = "saveRow" /\ r.topology \in Topologies /\ HasFiles(r.topology)
      /\ r.copy \in SavedRows /\ r.copy.state = "live" /\ (~overlapped => r.copy.collection \in collections)
      /\ IndexAllows(r.topology, r.copy)
  BY <1>1, Knows, LocalFields DEF SaveRow, LocalOK, CollectionOK
<1>3. /\ pc' = [pc EXCEPT ![p] = "idle"] /\ reg' = [reg EXCEPT ![p] = NoLocals]
      /\ row' = [row EXCEPT ![r.topology] = r.copy]
      /\ UNCHANGED <<collections, bindRow, labRow, definition, damaged, annotated, disk, env, requests, faults, overlapped, failed, reread>>
  BY <1>1 DEF Inv, RecordInv, SaveRow, Finish
<1>4. row' \in [Topologies -> SavedRows]
  BY <1>2, <1>3 DEF Inv, RecordInv
<1>5. RequestInv' /\ OneCreator' /\ OneRequest' /\ pc' \in [Procs -> Steps] /\ reg' \in [Procs -> Locals]
  <2>1. \A t \in Topologies : row[t].state # "none" => row'[t].state # "none"
    BY <1>2, <1>3 DEF Inv, RecordInv
  <2> QED BY <1>2, <1>3, <2>1, IdleOKPrime, LocalFields, StepKeeps
<1>6. TypeOK' /\ RecordInv'
  <2>1. row' \in [Topologies -> Rows]
    BY <1>4, RowFields
  <2>2. \A t \in Topologies : row'[t].state # "none" => row'[t].name # None /\ row'[t].collection # None
    BY <1>4, RowFields
  <2> QED BY <1>3, <1>4, <1>5, <2>1, <2>2 DEF Inv, TypeOK, RecordInv
<1>7. TopologiesHaveFiles' /\ LabsHaveFiles'
  BY <1>2, <1>3 DEF Inv, RecordInv, TopologiesHaveFiles, LabsHaveFiles, HasFiles
<1>8. NamesAreUnique'
  BY <1>2, <1>3 DEF Inv, RecordInv, NamesAreUnique, IndexAllows, GetByName
<1>9. DeletedCollectionsAreEmpty'
  BY <1>2, <1>3 DEF Inv, RecordInv, DeletedCollectionsAreEmpty
<1>10. EnvironmentIsWhatWasChecked'
  BY <1>3 DEF Inv, EnvironmentIsWhatWasChecked
<1>11. FilesInv'
  BY <1>2, <1>3, FilesKept
<1> QED BY <1>5, <1>6, <1>7, <1>8, <1>9, <1>10, <1>11 DEF Inv

(* A row that is deleted stays a row.                                      *)
LEMMA DeleteRowStep ==
  ASSUME Inv, NEW p \in Procs, DeleteRow(p)
  PROVE  Inv'
<1>1. PICK r : r = reg[p]
  OBVIOUS
<1>2. pc[p] = "deleteRow" /\ r.topology \in Topologies /\ row[r.topology].state # "none"
  BY <1>1, Knows DEF DeleteRow, LocalOK
<1>3. PICK new : new = [row[r.topology] EXCEPT !.state = "deleted"]
  OBVIOUS
<1>4. new \in SavedRows /\ new.state = "deleted"
  BY <1>2, <1>3 DEF Inv, RecordInv, SavedRows, Rows
<1>5. /\ pc' = [pc EXCEPT ![p] = "idle"] /\ reg' = [reg EXCEPT ![p] = NoLocals]
      /\ row' = [row EXCEPT ![r.topology] = new]
      /\ UNCHANGED <<collections, bindRow, labRow, definition, damaged, annotated, disk, env, requests, faults, overlapped, failed, reread>>
  BY <1>1, <1>2, <1>3 DEF Inv, RecordInv, DeleteRow, Finish
<1>6. /\ row' \in [Topologies -> SavedRows] /\ row'[r.topology].state = "deleted"
      /\ \A t \in Topologies : t # r.topology => row'[t] = row[t]
  BY <1>2, <1>4, <1>5 DEF Inv, RecordInv
<1>7. RequestInv' /\ OneCreator' /\ OneRequest' /\ pc' \in [Procs -> Steps] /\ reg' \in [Procs -> Locals]
  BY <1>2, <1>5, <1>6, IdleOKPrime, LocalFields, StepKeeps
<1>8. TypeOK' /\ RecordInv'
  <2>1. row' \in [Topologies -> Rows]
    BY <1>6, RowFields
  <2>2. \A t \in Topologies : row'[t].state # "none" => row'[t].name # None /\ row'[t].collection # None
    BY <1>6, RowFields
  <2> QED BY <1>5, <1>6, <1>7, <2>1, <2>2 DEF Inv, TypeOK, RecordInv
<1>9. TopologiesHaveFiles' /\ LabsHaveFiles'
  BY <1>5, <1>6 DEF Inv, TopologiesHaveFiles, LabsHaveFiles, HasFiles
<1>10. NamesAreUnique' /\ DeletedCollectionsAreEmpty'
  BY <1>5, <1>6 DEF Inv, NamesAreUnique, DeletedCollectionsAreEmpty
<1>11. EnvironmentIsWhatWasChecked'
  BY <1>5 DEF Inv, EnvironmentIsWhatWasChecked
<1>12. FilesInv'
  BY <1>2, <1>5, FilesKept
<1> QED BY <1>7, <1>8, <1>9, <1>10, <1>11, <1>12 DEF Inv

-----------------------------------------------------------------------------
(* A step of the creation of a lab that changes the request and the lab's  *)
(* run environment only.                                                   *)
LEMMA CreatingStep ==
  ASSUME Inv, NEW p \in Procs, NEW step \in Creating, NEW r \in Locals,
         pc[p] \in Creating, r.lab = reg[p].lab, r.topology = reg[p].topology, r.copy = reg[p].copy,
         pc' = [pc EXCEPT ![p] = step], reg' = [reg EXCEPT ![p] = r],
         UNCHANGED <<collections, row, bindRow, labRow, definition, damaged, annotated, disk, requests, faults, overlapped,
                     failed, reread>>,
         env' \in [Labs -> Contents],
         \A l \in Labs : l # r.lab => env'[l] = env[l],
         CheckedOK(step, r)'
  PROVE  Inv'
<1>1. /\ reg[p].lab \in Labs /\ labRow[r.lab].state = "none" /\ HasFiles(r.topology) /\ r.copy.state = "live"
      /\ (~overlapped => r.copy.collection \in collections)
  BY Knows DEF LocalOK, LabOK, CollectionOK
<1>2. LocalOK(step, r)' /\ LabOK(step, r)' /\ CollectionOK(step, r)' /\ BindOK(step, r)'
  BY <1>1 DEF LocalOK, LabOK, CollectionOK, BindOK, HasFiles
<1>3. RequestInv' /\ OneCreator' /\ OneRequest' /\ pc' \in [Procs -> Steps] /\ reg' \in [Procs -> Locals]
  BY <1>1, <1>2, StepKeeps
<1>4. TypeOK' /\ RecordInv'
  BY <1>3 DEF Inv, TypeOK, RecordInv
<1>5. TopologiesHaveFiles' /\ LabsHaveFiles' /\ NamesAreUnique' /\ DeletedCollectionsAreEmpty'
  BY DEF Inv, TopologiesHaveFiles, LabsHaveFiles, NamesAreUnique, DeletedCollectionsAreEmpty, HasFiles
<1>6. EnvironmentIsWhatWasChecked'
  BY <1>1 DEF Inv, EnvironmentIsWhatWasChecked
<1>7. FilesInv'
  BY <1>3, FilesKept DEF Inv, RecordInv
<1> QED BY <1>3, <1>4, <1>5, <1>6, <1>7 DEF Inv

(* The definition that is going to be checked is the one on disk.          *)
LEMMA LoadTopologyStep ==
  ASSUME Inv, NEW p \in Procs, LoadTopology(p)
  PROVE  Inv'
<1>1. reg[p] \in Locals /\ pc[p] = "load" /\ reg[p].topology \in Topologies
  BY Knows DEF LoadTopology, LocalOK, HasFiles
<1>2. definition[reg[p].topology] \in Definitions /\ env \in [Labs -> Contents]
  BY <1>1 DEF Inv, TypeOK, LoadTopology
<1>3. PICK r : r = [reg[p] EXCEPT !.definition = definition[reg[p].topology]]
  OBVIOUS
<1>4. /\ r \in Locals /\ r.definition = definition[reg[p].topology]
      /\ r.topology = reg[p].topology /\ r.lab = reg[p].lab /\ r.copy = reg[p].copy
  BY <1>1, <1>2, <1>3 DEF Locals
<1>5. /\ pc' = [pc EXCEPT ![p] = "policy"] /\ reg' = [reg EXCEPT ![p] = r]
      /\ UNCHANGED <<collections, row, bindRow, labRow, definition, damaged, annotated, disk, env, requests, faults, overlapped,
                     failed, reread>>
  BY <1>3 DEF Inv, RecordInv, LoadTopology
<1>6. CheckedOK("policy", r)'
  BY <1>4, <1>5 DEF CheckedOK
<1> QED BY <1>1, <1>2, <1>4, <1>5, <1>6, CreatingStep

(* The policy is asked about it.                                           *)
LEMMA PolicyAcceptsStep ==
  ASSUME Inv, NEW p \in Procs, PolicyAccepts(p)
  PROVE  Inv'
<1>1. PICK r : r = reg[p]
  OBVIOUS
<1>2. r \in Locals /\ pc[p] = "policy" /\ CheckedOK("policy", r) /\ env \in [Labs -> Contents]
  BY <1>1, Knows DEF PolicyAccepts, Inv, TypeOK
<1>3. /\ pc' = [pc EXCEPT ![p] = "rename"] /\ reg' = [reg EXCEPT ![p] = r]
      /\ UNCHANGED <<collections, row, bindRow, labRow, definition, damaged, annotated, disk, env, requests, faults, overlapped,
                     failed, reread>>
  BY <1>1 DEF Inv, RecordInv, PolicyAccepts, Go
<1>4. CheckedOK("rename", r)'
  BY <1>2, <1>3 DEF CheckedOK
<1> QED BY <1>1, <1>2, <1>3, <1>4, CreatingStep

(* What is read the second time is what was checked, unless the topology   *)
(* was rewritten in between.                                               *)
LEMMA RenameTopologyStep ==
  ASSUME Inv, NEW p \in Procs, RenameTopology(p)
  PROVE  Inv'
<1>1. reg[p] \in Locals /\ pc[p] = "rename" /\ reg[p].topology \in Topologies /\ CheckedOK("rename", reg[p])
  BY Knows DEF RenameTopology, LocalOK, HasFiles
<1>2. definition[reg[p].topology] \in Definitions /\ env \in [Labs -> Contents]
  BY <1>1 DEF Inv, TypeOK, RenameTopology
<1>3. PICK r : r = [reg[p] EXCEPT !.run = definition[reg[p].topology]]
  OBVIOUS
<1>4. /\ r \in Locals /\ r.run = definition[reg[p].topology] /\ r.definition = reg[p].definition
      /\ r.topology = reg[p].topology /\ r.lab = reg[p].lab /\ r.copy = reg[p].copy
  BY <1>1, <1>2, <1>3 DEF Locals
<1>5. /\ pc' = [pc EXCEPT ![p] = "copyEnvironment"] /\ reg' = [reg EXCEPT ![p] = r]
      /\ UNCHANGED <<collections, row, bindRow, labRow, definition, damaged, annotated, disk, env, requests, faults, overlapped,
                     failed, reread>>
  BY <1>3 DEF Inv, RecordInv, RenameTopology
<1>6. CheckedOK("copyEnvironment", r)'
  BY <1>1, <1>2, <1>4, <1>5, NoneIsNothing DEF CheckedOK
<1> QED BY <1>1, <1>2, <1>4, <1>5, <1>6, CreatingStep

(* The directory is copied ...                                             *)
LEMMA CopyEnvironmentStep ==
  ASSUME Inv, NEW p \in Procs, CopyEnvironment(p)
  PROVE  Inv'
<1>1. PICK r : r = reg[p]
  OBVIOUS
<1>2. /\ r \in Locals /\ pc[p] = "copyEnvironment" /\ r.topology \in Topologies /\ r.lab \in Labs
      /\ CheckedOK("copyEnvironment", r)
  BY <1>1, Knows DEF CopyEnvironment, LocalOK, LabOK, HasFiles
<1>3. /\ pc' = [pc EXCEPT ![p] = "writeRun"] /\ reg' = [reg EXCEPT ![p] = r]
      /\ env' = [env EXCEPT ![r.lab] = definition[r.topology]]
      /\ UNCHANGED <<collections, row, bindRow, labRow, definition, damaged, annotated, disk, requests, faults, overlapped,
                     failed, reread>>
  BY <1>1 DEF Inv, RecordInv, CopyEnvironment, Go
<1>4. env' \in [Labs -> Contents] /\ \A l \in Labs : l # r.lab => env'[l] = env[l]
  BY <1>2, <1>3 DEF Inv, TypeOK
<1>5. CheckedOK("writeRun", r)'
  BY <1>2, <1>3 DEF CheckedOK
<1> QED BY <1>1, <1>2, <1>3, <1>4, <1>5, CreatingStep

(* ... and the definition in it replaced by the one read the second time.  *)
LEMMA WriteRunStep ==
  ASSUME Inv, NEW p \in Procs, WriteRun(p)
  PROVE  Inv'
<1>1. PICK r : r = reg[p]
  OBVIOUS
<1>2. r \in Locals /\ pc[p] = "writeRun" /\ r.lab \in Labs /\ CheckedOK("writeRun", r)
  BY <1>1, Knows DEF WriteRun, LabOK
<1>3. /\ pc' = [pc EXCEPT ![p] = "insertLab"] /\ reg' = [reg EXCEPT ![p] = r]
      /\ env' = [env EXCEPT ![r.lab] = r.run]
      /\ UNCHANGED <<collections, row, bindRow, labRow, definition, damaged, annotated, disk, requests, faults, overlapped,
                     failed, reread>>
  BY <1>1 DEF Inv, RecordInv, WriteRun, Go
<1>4. /\ env' \in [Labs -> Contents] /\ env'[r.lab] = r.run
      /\ \A l \in Labs : l # r.lab => env'[l] = env[l]
  BY <1>2, <1>3, LocalFields DEF Inv, TypeOK
<1>5. CheckedOK("insertLab", r)'
  BY <1>2, <1>3, <1>4 DEF CheckedOK
<1> QED BY <1>1, <1>2, <1>3, <1>4, <1>5, CreatingStep

(* The row of the lab holds what was checked, its run environment what was *)
(* read the second time.                                                   *)
LEMMA InsertLabStep ==
  ASSUME Inv, NEW p \in Procs, InsertLab(p)
  PROVE  Inv'
<1>1. PICK r : r = reg[p]
  OBVIOUS
<1>2. /\ r \in Locals /\ pc[p] = "insertLab" /\ r.lab \in Labs /\ HasFiles(r.topology) /\ labRow[r.lab].state = "none"
      /\ env[r.lab] = r.run /\ (r.run = r.definition \/ r.lab \in reread)
      /\ (~overlapped => r.copy.collection \in collections)
  BY <1>1, Knows DEF InsertLab, LocalOK, LabOK, CheckedOK, CollectionOK
<1>3. PICK new : new = [state |-> "live", topology |-> r.topology, copy |-> r.copy, definition |-> r.definition]
  OBVIOUS
<1>4. /\ new \in LabRows /\ new.state = "live" /\ new.topology = r.topology /\ new.copy = r.copy
      /\ new.definition = r.definition
  BY <1>2, <1>3, LocalFields DEF LabRows
<1>5. /\ pc' = [pc EXCEPT ![p] = "idle"] /\ reg' = [reg EXCEPT ![p] = NoLocals]
      /\ labRow' = [labRow EXCEPT ![r.lab] = new]
      /\ UNCHANGED <<collections, row, bindRow, definition, damaged, annotated, disk, env, requests, faults, overlapped, failed, reread>>
  BY <1>1, <1>3 DEF Inv, RecordInv, InsertLab, Finish
<1>6. labRow' \in [Labs -> LabRows] /\ labRow'[r.lab] = new /\ \A l \in Labs : l # r.lab => labRow'[l] = labRow[l]
  BY <1>2, <1>4, <1>5 DEF Inv, RecordInv
<1>7. RequestInv' /\ OneCreator' /\ OneRequest' /\ pc' \in [Procs -> Steps] /\ reg' \in [Procs -> Locals]
  BY <1>1, <1>2, <1>4, <1>5, <1>6, IdleOKPrime, LocalFields, StepKeeps
<1>8. TypeOK' /\ RecordInv'
  <2>1. \A l \in Labs : labRow'[l].state = "live" => labRow'[l].copy \in Rows
    BY <1>6, OtherFields, RowFields
  <2> QED BY <1>5, <1>6, <1>7, <2>1 DEF Inv, TypeOK, RecordInv
<1>9. TopologiesHaveFiles' /\ NamesAreUnique'
  BY <1>5 DEF Inv, TopologiesHaveFiles, NamesAreUnique
<1>10. LabsHaveFiles' /\ DeletedCollectionsAreEmpty' /\ EnvironmentIsWhatWasChecked'
  BY <1>2, <1>4, <1>5, <1>6 DEF Inv, LabsHaveFiles, DeletedCollectionsAreEmpty, EnvironmentIsWhatWasChecked, HasFiles
<1>11. FilesInv'
  BY <1>2, <1>5, FilesKept
<1> QED BY <1>7, <1>8, <1>9, <1>10, <1>11 DEF Inv

-----------------------------------------------------------------------------
(* The run environment of a lab of a collection that is being deleted      *)
(* goes; the lab is the one whose row goes next.                           *)
LEMMA DeleteEnvironmentStep ==
  ASSUME Inv, NEW p \in Procs, NEW l \in Labs, DeleteEnvironment(p, l)
  PROVE  Inv'
<1>1. /\ reg[p] \in Locals /\ pc[p] = "deleteLabs" /\ l \in reg[p].labs
      /\ LabOK("deleteLabs", reg[p]) /\ CollectionOK("deleteLabs", reg[p])
  BY Knows DEF DeleteEnvironment
<1>2. PICK r : r = [reg[p] EXCEPT !.lab = l, !.labs = reg[p].labs \ {l}]
  OBVIOUS
<1>3. r \in Locals /\ r.lab = l /\ r.labs = reg[p].labs \ {l} /\ r.collection = reg[p].collection
  BY <1>1, <1>2 DEF Locals
<1>4. /\ pc' = [pc EXCEPT ![p] = "deleteLabRow"] /\ reg' = [reg EXCEPT ![p] = r]
      /\ env' = [env EXCEPT ![l] = None]
      /\ UNCHANGED <<collections, row, bindRow, labRow, definition, damaged, annotated, disk, requests, faults, overlapped,
                     failed, reread>>
  BY <1>2 DEF Inv, RecordInv, DeleteEnvironment
<1>5. env' \in [Labs -> Contents] /\ env'[l] = None /\ \A k \in Labs : k # l => env'[k] = env[k]
  BY <1>4 DEF Inv, TypeOK
<1>6. labRow[l].state # "none"
  BY <1>1 DEF LabOK
<1>7. /\ LocalOK("deleteLabRow", r)' /\ LabOK("deleteLabRow", r)' /\ CheckedOK("deleteLabRow", r)'
      /\ CollectionOK("deleteLabRow", r)' /\ BindOK("deleteLabRow", r)'
  BY <1>1, <1>3, <1>4, <1>6 DEF LocalOK, LabOK, CheckedOK, CollectionOK, BindOK
<1>8. RequestInv' /\ OneCreator' /\ OneRequest' /\ pc' \in [Procs -> Steps] /\ reg' \in [Procs -> Locals]
  BY <1>1, <1>3, <1>4, <1>5, <1>6, <1>7, StepKeeps
<1>9. TypeOK' /\ RecordInv'
  BY <1>4, <1>5, <1>8 DEF Inv, TypeOK, RecordInv
<1>10. TopologiesHaveFiles' /\ LabsHaveFiles' /\ NamesAreUnique' /\ DeletedCollectionsAreEmpty'
  BY <1>4 DEF Inv, TopologiesHaveFiles, LabsHaveFiles, NamesAreUnique, DeletedCollectionsAreEmpty, HasFiles
<1>11. EnvironmentIsWhatWasChecked'
  BY <1>4, <1>5 DEF Inv, EnvironmentIsWhatWasChecked
<1>12. FilesInv'
  BY <1>1, <1>4, FilesKept
<1> QED BY <1>8, <1>9, <1>10, <1>11, <1>12 DEF Inv

(* Its row goes.                                                           *)
LEMMA DeleteLabRowStep ==
  ASSUME Inv, NEW p \in Procs, DeleteLabRow(p)
  PROVE  Inv'
<1>1. PICK r : r = reg[p]
  OBVIOUS
<1>2. /\ r \in Locals /\ pc[p] = "deleteLabRow" /\ r.lab \in Labs /\ labRow[r.lab].state # "none"
      /\ LabOK("deleteLabRow", r) /\ CollectionOK("deleteLabRow", r)
  BY <1>1, Knows DEF DeleteLabRow, LabOK
<1>3. PICK new : new = [labRow[r.lab] EXCEPT !.state = "deleted"]
  OBVIOUS
<1>4. new \in LabRows /\ new.state = "deleted"
  BY <1>2, <1>3 DEF Inv, RecordInv, LabRows
<1>5. /\ pc' = [pc EXCEPT ![p] = "deleteLabs"] /\ reg' = [reg EXCEPT ![p] = r]
      /\ labRow' = [labRow EXCEPT ![r.lab] = new]
      /\ UNCHANGED <<collections, row, bindRow, definition, damaged, annotated, disk, env, requests, faults, overlapped, failed, reread>>
  BY <1>1, <1>2, <1>3 DEF Inv, RecordInv, DeleteLabRow, Go
<1>6. /\ labRow' \in [Labs -> LabRows] /\ labRow'[r.lab].state = "deleted"
      /\ \A l \in Labs : l # r.lab => labRow'[l] = labRow[l]
  BY <1>2, <1>4, <1>5 DEF Inv, RecordInv
<1>7. /\ LocalOK("deleteLabs", r)' /\ LabOK("deleteLabs", r)' /\ CheckedOK("deleteLabs", r)'
      /\ CollectionOK("deleteLabs", r)' /\ BindOK("deleteLabs", r)'
  <2>1. LabOK("deleteLabs", r)'
    BY <1>2, <1>6, LocalFields DEF LabOK
  <2> QED BY <1>2, <1>5, <1>6, <2>1 DEF LocalOK, CheckedOK, CollectionOK, BindOK
<1>8. RequestInv' /\ OneCreator' /\ OneRequest' /\ pc' \in [Procs -> Steps] /\ reg' \in [Procs -> Locals]
  BY <1>2, <1>5, <1>6, <1>7, StepKeeps
<1>9. TypeOK' /\ RecordInv'
  <2>1. \A l \in Labs : labRow'[l].state = "live" => labRow'[l].copy \in Rows
    BY <1>6, OtherFields, RowFields
  <2> QED BY <1>5, <1>6, <1>8, <2>1 DEF Inv, TypeOK, RecordInv
<1>10. TopologiesHaveFiles' /\ NamesAreUnique'
  BY <1>5 DEF Inv, TopologiesHaveFiles, NamesAreUnique
<1>11. LabsHaveFiles' /\ DeletedCollectionsAreEmpty' /\ EnvironmentIsWhatWasChecked'
  BY <1>5, <1>6 DEF Inv, LabsHaveFiles, DeletedCollectionsAreEmpty, EnvironmentIsWhatWasChecked, HasFiles
<1>12. FilesInv'
  BY <1>2, <1>5, FilesKept
<1> QED BY <1>8, <1>9, <1>10, <1>11, <1>12 DEF Inv

(* When it has no lab left, its topologies go.                             *)
LEMMA DeleteTopologiesStep ==
  ASSUME Inv, NEW p \in Procs, DeleteTopologies(p)
  PROVE  Inv'
<1>1. PICK r : r = reg[p]
  OBVIOUS
<1>2. /\ r \in Locals /\ pc[p] = "deleteLabs" /\ r.labs = {} /\ CollectionOK("deleteLabs", r)
  BY <1>1, Knows DEF DeleteTopologies
<1>3. /\ pc' = [pc EXCEPT ![p] = "deleteCollection"] /\ reg' = [reg EXCEPT ![p] = r]
      /\ row' = [t \in Topologies |-> IF row[t].state = "live" /\ row[t].collection = r.collection
                                      THEN [row[t] EXCEPT !.state = "deleted"] ELSE row[t]]
      /\ UNCHANGED <<collections, bindRow, labRow, definition, damaged, annotated, disk, env, requests, faults, overlapped, failed, reread>>
  BY <1>1 DEF Inv, RecordInv, DeleteTopologies, Go
<1>4. ASSUME NEW t \in Topologies
      PROVE  /\ row'[t] \in SavedRows /\ (row[t].state # "none" => row'[t].state # "none")
             /\ row'[t].state = "live" => row'[t] = row[t] /\ row[t].collection # r.collection
  <2>1. row[t] \in SavedRows
    BY DEF Inv, RecordInv
  <2>2. CASE row[t].state = "live" /\ row[t].collection = r.collection
    BY <1>3, <2>1, <2>2 DEF SavedRows, Rows
  <2>3. CASE ~(row[t].state = "live" /\ row[t].collection = r.collection)
    BY <1>3, <2>1, <2>3
  <2> QED BY <2>2, <2>3
<1>5. row' \in [Topologies -> SavedRows]
  BY <1>3, <1>4
<1>6. /\ LocalOK("deleteCollection", r)' /\ LabOK("deleteCollection", r)' /\ CheckedOK("deleteCollection", r)'
      /\ CollectionOK("deleteCollection", r)' /\ BindOK("deleteCollection", r)'
  BY <1>2, <1>3, <1>4 DEF LocalOK, LabOK, CheckedOK, CollectionOK, BindOK
<1>7. RequestInv' /\ OneCreator' /\ OneRequest' /\ pc' \in [Procs -> Steps] /\ reg' \in [Procs -> Locals]
  BY <1>2, <1>3, <1>4, <1>6, StepKeeps
<1>8. TypeOK' /\ RecordInv'
  <2>1. row' \in [Topologies -> Rows]
    BY <1>5, RowFields
  <2>2. \A t \in Topologies : row'[t].state # "none" => row'[t].name # None /\ row'[t].collection # None
    BY <1>5, RowFields
  <2> QED BY <1>3, <1>5, <1>7, <2>1, <2>2 DEF Inv, TypeOK, RecordInv
<1>9. TopologiesHaveFiles' /\ LabsHaveFiles'
  BY <1>3, <1>4 DEF Inv, TopologiesHaveFiles, LabsHaveFiles, HasFiles
<1>10. NamesAreUnique' /\ DeletedCollectionsAreEmpty'
  BY <1>3, <1>4 DEF Inv, NamesAreUnique, DeletedCollectionsAreEmpty
<1>11. EnvironmentIsWhatWasChecked'
  BY <1>3 DEF Inv, EnvironmentIsWhatWasChecked
<1>12. FilesInv'
  BY <1>2, <1>3, FilesKept
<1> QED BY <1>7, <1>8, <1>9, <1>10, <1>11, <1>12 DEF Inv

(* The collection goes, and has nothing left if no request ran beside.     *)
LEMMA DeleteCollectionRowStep ==
  ASSUME Inv, NEW p \in Procs, DeleteCollectionRow(p)
  PROVE  Inv'
<1>1. PICK r : r = reg[p]
  OBVIOUS
<1>2. pc[p] = "deleteCollection" /\ CollectionOK("deleteCollection", r)
  BY <1>1, Knows DEF DeleteCollectionRow
<1>3. /\ pc' = [pc EXCEPT ![p] = "idle"] /\ reg' = [reg EXCEPT ![p] = NoLocals]
      /\ collections' = collections \ {r.collection}
      /\ UNCHANGED <<row, bindRow, labRow, definition, damaged, annotated, disk, env, requests, faults, overlapped, failed, reread>>
  BY <1>1 DEF Inv, RecordInv, DeleteCollectionRow, Finish
<1>4. RequestInv' /\ OneCreator' /\ OneRequest' /\ pc' \in [Procs -> Steps] /\ reg' \in [Procs -> Locals]
  BY <1>2, <1>3, IdleOKPrime, LocalFields, StepKeeps
<1>5. TypeOK' /\ RecordInv'
  BY <1>3, <1>4 DEF Inv, TypeOK, RecordInv
<1>6. TopologiesHaveFiles' /\ LabsHaveFiles' /\ NamesAreUnique' /\ EnvironmentIsWhatWasChecked'
  BY <1>3 DEF Inv, TopologiesHaveFiles, LabsHaveFiles, NamesAreUnique, EnvironmentIsWhatWasChecked, HasFiles
<1>7. DeletedCollectionsAreEmpty'
  BY <1>2, <1>3 DEF Inv, DeletedCollectionsAreEmpty, CollectionOK
<1>8. FilesInv'
  BY <1>2, <1>3, FilesKept
<1> QED BY <1>4, <1>5, <1>6, <1>7, <1>8 DEF Inv

-----------------------------------------------------------------------------
(* A step of a request about a bind file, which leaves topologies and labs *)
(* alone.                                                                  *)
LEMMA BindingStep ==
  ASSUME Inv, NEW p \in Procs, NEW step \in {"idle"} \cup Binding, NEW r \in Locals, pc[p] \in Binding,
         pc' = [pc EXCEPT ![p] = step], reg' = [reg EXCEPT ![p] = r],
         UNCHANGED <<collections, row, labRow, definition, damaged, annotated, env, requests, overlapped, reread>>,
         faults' \in 0 .. MaxFaults, failed' \in BOOLEAN,
         bindRow' \in [BindFiles -> BindRows], disk' \in [Topologies -> [Paths -> {"none", "file", "dir"}]],
         \A b \in BindFiles : bindRow'[b].state = "live" => bindRow'[b].topology \in Topologies /\ bindRow'[b].path \in Paths,
         LocalOK(step, r)', BindOK(step, r)', FilesInv'
  PROVE  Inv'
<1>1. LabOK(step, r)' /\ CheckedOK(step, r)' /\ CollectionOK(step, r)'
  BY DEF LabOK, CheckedOK, CollectionOK
<1>2. RequestInv' /\ OneCreator' /\ OneRequest' /\ pc' \in [Procs -> Steps] /\ reg' \in [Procs -> Locals]
  BY <1>1, StepKeeps
<1>3. TypeOK' /\ RecordInv'
  BY <1>2 DEF Inv, TypeOK, RecordInv
<1>4. /\ TopologiesHaveFiles' /\ NamesAreUnique' /\ LabsHaveFiles'
      /\ EnvironmentIsWhatWasChecked' /\ DeletedCollectionsAreEmpty'
  BY DEF Inv, TopologiesHaveFiles, NamesAreUnique, LabsHaveFiles, HasFiles,
     EnvironmentIsWhatWasChecked, DeletedCollectionsAreEmpty
<1> QED BY <1>2, <1>3, <1>4 DEF Inv

(* As long as requests do not run side by side, a bind file has its file,  *)
(* unless it is the one the only request writes or deletes.                *)
LEMMA OthersHaveFiles ==
  ASSUME Inv, Smooth, NEW p \in Procs, pc[p] \in Binding, NEW b \in BindFiles, bindRow[b].state = "live",
         b # reg[p].bindFile \/ pc[p] \in {"removeOld", "removeFile"}
  PROVE  HasFile(b) /\ bindRow[b].topology \in Topologies /\ bindRow[b].path \in Paths
<1>1. \A q \in Procs : q # p => pc[q] = "idle"
  BY DEF Inv, Smooth, OneRequest, Busy
<1>2. HasFile(b) \/ \E q \in Procs : pc[q] \in {"writeBind", "saveBind", "deleteBind"} /\ reg[q].bindFile = b
  BY DEF Inv, FilesInv
<1> QED BY <1>1, <1>2 DEF Inv, TypeOK

(* What is removed leaves no file below a file.                            *)
LEMMA RemovedShape ==
  ASSUME Inv, NEW t \in Topologies, NEW old \in Paths, disk' = Removed(t, old)
  PROVE  /\ \A u \in Topologies : u # t => disk'[u] = disk[u]
         /\ \A q \in Paths : disk'[t][q] = IF q = old \/ Parent(q) = old THEN "none" ELSE disk[t][q]
         /\ disk' \in [Topologies -> [Paths -> {"none", "file", "dir"}]]
         /\ \A u \in Topologies : (disk'[u]["a/b"] = "file" => disk'[u]["a"] = "dir") /\ disk'[u]["a/b"] # "dir"
<1>1. disk \in [Topologies -> [Paths -> {"none", "file", "dir"}]]
  BY DEF Inv, TypeOK
<1>2. /\ \A u \in Topologies : u # t => disk'[u] = disk[u]
      /\ \A q \in Paths : disk'[t][q] = IF q = old \/ Parent(q) = old THEN "none" ELSE disk[t][q]
      /\ disk' \in [Topologies -> [Paths -> {"none", "file", "dir"}]]
  BY <1>1 DEF Removed, Below
<1>3. \A u \in Topologies : (disk'[u]["a/b"] = "file" => disk'[u]["a"] = "dir") /\ disk'[u]["a/b"] # "dir"
  BY <1>2 DEF Inv, FilesInv, Parent, Paths
<1> QED BY <1>2, <1>3

(* Neither does what is written.                                           *)
LEMMA WrittenShape ==
  ASSUME Inv, NEW t \in Topologies, NEW path \in Paths, Writable(t, path), disk' = Written(t, path)
  PROVE  /\ \A u \in Topologies : u # t => disk'[u] = disk[u]
         /\ \A q \in Paths : disk'[t][q] = IF q = path THEN "file" ELSE IF q = Parent(path) THEN "dir" ELSE disk[t][q]
         /\ disk' \in [Topologies -> [Paths -> {"none", "file", "dir"}]]
         /\ \A u \in Topologies : (disk'[u]["a/b"] = "file" => disk'[u]["a"] = "dir") /\ disk'[u]["a/b"] # "dir"
<1>1. disk \in [Topologies -> [Paths -> {"none", "file", "dir"}]]
  BY DEF Inv, TypeOK
<1>2. /\ \A u \in Topologies : u # t => disk'[u] = disk[u]
      /\ \A q \in Paths : disk'[t][q] = IF q = path THEN "file" ELSE IF q = Parent(path) THEN "dir" ELSE disk[t][q]
      /\ disk' \in [Topologies -> [Paths -> {"none", "file", "dir"}]]
  BY <1>1 DEF Written
<1>3. "a/b" # None /\ "a" # None /\ (path = "a" \/ path = "a/b")
  BY NoneIsNothing DEF Paths
<1>4. \A u \in Topologies : (disk'[u]["a/b"] = "file" => disk'[u]["a"] = "dir") /\ disk'[u]["a/b"] # "dir"
  BY <1>2, <1>3 DEF Inv, FilesInv, Parent, Paths, Writable
<1> QED BY <1>2, <1>4

(* A file that is removed is no directory with files of others in it.      *)
LEMMA RemovedFiles ==
  ASSUME Inv, NEW p \in Procs, pc[p] \in {"removeOld", "removeFile"}, NEW t \in Topologies, NEW old \in Paths,
         t = reg[p].topology, old = reg[p].old, disk' = Removed(t, old), bindRow' = bindRow,
         pc'[p] \in {"writeBind", "deleteBind"}, reg'[p].bindFile = reg[p].bindFile, failed' = failed, overlapped' = overlapped
  PROVE  disk' \in [Topologies -> [Paths -> {"none", "file", "dir"}]] /\ FilesInv'
<1>2. /\ \A u \in Topologies : u # t => disk'[u] = disk[u]
      /\ \A q \in Paths : disk'[t][q] = IF q = old \/ Parent(q) = old THEN "none" ELSE disk[t][q]
      /\ disk' \in [Topologies -> [Paths -> {"none", "file", "dir"}]]
  BY RemovedShape
<1>3. \A u \in Topologies : (disk'[u]["a/b"] = "file" => disk'[u]["a"] = "dir") /\ disk'[u]["a/b"] # "dir"
  BY RemovedShape
<1>4. ASSUME Smooth, NEW b \in BindFiles, bindRow[b].state = "live", b # reg[p].bindFile
      PROVE  HasFile(b)'
  <2>1. PICK own : own = reg[p].bindFile
    OBVIOUS
  <2>2. /\ own \in BindFiles /\ bindRow[own].state = "live" /\ bindRow[own].topology = t /\ bindRow[own].path = old
    BY <1>4, <2>1, Knows DEF LocalOK, BindOK
  <2>3. HasFile(own)
    BY <1>4, <2>1, <2>2, OthersHaveFiles
  <2>4. HasFile(b) /\ bindRow[b].topology \in Topologies /\ bindRow[b].path \in Paths
    BY <1>4, OthersHaveFiles
  <2>5. ~(bindRow[b].topology = t /\ bindRow[b].path = old)
    BY <1>4, <2>1, <2>2 DEF Inv, FilesInv, PathTaken
  <2>6. CASE bindRow[b].topology # t
    BY <1>2, <2>4, <2>6 DEF HasFile
  <2>7. CASE bindRow[b].topology = t
    <3>1. Parent(bindRow[b].path) # old
      <4>1. SUFFICES ASSUME Parent(bindRow[b].path) = old PROVE FALSE
        OBVIOUS
      <4>2. bindRow[b].path = "a/b" /\ old = "a"
        BY <2>4, <4>1, NoneIsNothing DEF Parent
      <4> QED BY <2>2, <2>3, <2>4, <2>7, <4>2 DEF HasFile, Inv, FilesInv
    <3> QED BY <1>2, <2>4, <2>5, <2>7, <3>1 DEF HasFile
  <2> QED BY <2>6, <2>7
<1>5. ASSUME Smooth, NEW b \in BindFiles, bindRow[b].state = "live"
      PROVE  ~PathTaken(bindRow[b].topology, bindRow[b].path, b)'
  BY <1>5 DEF Inv, FilesInv, PathTaken
<1>6. ASSUME NEW b \in BindFiles, b = reg[p].bindFile
      PROVE  \E q \in Procs : pc'[q] \in {"writeBind", "saveBind", "deleteBind"} /\ reg'[q].bindFile = b
  BY <1>6
<1> QED BY <1>2, <1>3, <1>4, <1>5, <1>6 DEF FilesInv, Smooth, PathTaken

(* The file at the old path goes.                                          *)
LEMMA RemoveOldStep ==
  ASSUME Inv, NEW p \in Procs, RemoveOld(p)
  PROVE  Inv'
<1>1. PICK r : r = reg[p]
  OBVIOUS
<1>2. /\ r \in Locals /\ pc[p] = "removeOld" /\ r.topology \in Topologies /\ r.bindFile \in BindFiles
      /\ r.path \in Paths /\ r.old \in Paths /\ BindOK("removeOld", r)
  BY <1>1, Knows DEF RemoveOld, LocalOK
<1>3. /\ pc' = [pc EXCEPT ![p] = "writeBind"] /\ reg' = [reg EXCEPT ![p] = r] /\ disk' = Removed(r.topology, r.old)
      /\ UNCHANGED <<collections, row, bindRow, labRow, definition, damaged, annotated, env, requests, faults, overlapped, failed, reread>>
  BY <1>1 DEF Inv, RecordInv, RemoveOld, Go
<1>4. pc'[p] = "writeBind" /\ reg'[p] = r
  BY <1>3 DEF Inv, RecordInv
<1>5. disk' \in [Topologies -> [Paths -> {"none", "file", "dir"}]] /\ FilesInv'
  BY <1>1, <1>2, <1>3, <1>4, RemovedFiles
<1>6. LocalOK("writeBind", r)' /\ BindOK("writeBind", r)'
  BY <1>2, <1>3 DEF LocalOK, BindOK, Smooth, PathTaken
<1> QED BY <1>2, <1>3, <1>5, <1>6, BindingStep DEF Inv, TypeOK, RecordInv

(* The file of a bind file that is deleted goes.                           *)
LEMMA RemoveFileStep ==
  ASSUME Inv, NEW p \in Procs, RemoveFile(p)
  PROVE  Inv'
<1>1. PICK r : r = reg[p]
  OBVIOUS
<1>2. /\ r \in Locals /\ pc[p] = "removeFile" /\ r.topology \in Topologies /\ r.bindFile \in BindFiles
      /\ r.old \in Paths /\ BindOK("removeFile", r)
  BY <1>1, Knows DEF RemoveFile, LocalOK
<1>3. /\ pc' = [pc EXCEPT ![p] = "deleteBind"] /\ reg' = [reg EXCEPT ![p] = r] /\ disk' = Removed(r.topology, r.old)
      /\ UNCHANGED <<collections, row, bindRow, labRow, definition, damaged, annotated, env, requests, faults, overlapped, failed, reread>>
  BY <1>1 DEF Inv, RecordInv, RemoveFile, Go
<1>4. pc'[p] = "deleteBind" /\ reg'[p] = r
  BY <1>3 DEF Inv, RecordInv
<1>5. disk' \in [Topologies -> [Paths -> {"none", "file", "dir"}]] /\ FilesInv'
  BY <1>1, <1>2, <1>3, <1>4, RemovedFiles
<1>6. LocalOK("deleteBind", r)' /\ BindOK("deleteBind", r)'
  BY <1>2, <1>3 DEF LocalOK, BindOK, Smooth, PathTaken
<1> QED BY <1>2, <1>3, <1>5, <1>6, BindingStep DEF Inv, TypeOK, RecordInv

(* A file that cannot be removed is a failure, and the request goes on.    *)
LEMMA RemoveFailsStep ==
  ASSUME Inv, NEW p \in Procs, RemoveFails(p)
  PROVE  Inv'
<1>1. PICK r : r = reg[p]
  OBVIOUS
<1>2. PICK step : step = IF pc[p] = "removeOld" THEN "writeBind" ELSE "deleteBind"
  OBVIOUS
<1>3. /\ r \in Locals /\ pc[p] \in {"removeOld", "removeFile"} /\ r.topology \in Topologies /\ r.bindFile \in BindFiles
      /\ (pc[p] = "removeOld" => r.path \in Paths) /\ r.old \in Paths
  BY <1>1, Knows DEF RemoveFails, LocalOK
<1>4. /\ pc' = [pc EXCEPT ![p] = step] /\ reg' = [reg EXCEPT ![p] = r] /\ failed' = TRUE
      /\ disk' \in {disk, Removed(r.topology, r.old)}
      /\ UNCHANGED <<collections, row, bindRow, labRow, definition, damaged, annotated, env, requests, overlapped, reread>>
  BY <1>1, <1>2 DEF Inv, RecordInv, RemoveFails
<1>5. faults' \in 0 .. MaxFaults
  BY DEF Inv, TypeOK, RemoveFails
<1>6. LocalOK(step, r)' /\ BindOK(step, r)'
  BY <1>2, <1>3, <1>4 DEF LocalOK, BindOK, Smooth
<1>7. disk' \in [Topologies -> [Paths -> {"none", "file", "dir"}]] /\ FilesInv'
  <2>1. disk \in [Topologies -> [Paths -> {"none", "file", "dir"}]]
    BY DEF Inv, TypeOK
  <2>2. CASE disk' = disk
    BY <1>4, <2>1, <2>2 DEF Inv, FilesInv, Smooth
  <2>3. CASE disk' = Removed(r.topology, r.old)
    BY <1>3, <1>4, <2>3, RemovedShape DEF FilesInv, Smooth
  <2> QED BY <1>4, <2>2, <2>3
<1> QED BY <1>2, <1>3, <1>4, <1>5, <1>6, <1>7, BindingStep DEF Inv, TypeOK, RecordInv

(* A file is written where no other file and no directory is.              *)
LEMMA WriteBindStep ==
  ASSUME Inv, NEW p \in Procs, WriteBind(p)
  PROVE  Inv'
<1>1. PICK r : r = reg[p]
  OBVIOUS
<1>2. PICK t : t = r.topology
  OBVIOUS
<1>3. PICK path : path = r.path
  OBVIOUS
<1>4. /\ r \in Locals /\ pc[p] = "writeBind" /\ t \in Topologies /\ r.bindFile \in BindFiles /\ path \in Paths
      /\ BindOK("writeBind", r) /\ Writable(t, path)
  BY <1>1, <1>2, <1>3, Knows DEF WriteBind, LocalOK
<1>5. /\ pc' = [pc EXCEPT ![p] = "saveBind"] /\ reg' = [reg EXCEPT ![p] = r] /\ disk' = Written(t, path)
      /\ UNCHANGED <<collections, row, bindRow, labRow, definition, damaged, annotated, env, requests, faults, overlapped, failed, reread>>
  BY <1>1, <1>2, <1>3 DEF Inv, RecordInv, WriteBind, Go
<1>6. pc'[p] = "saveBind" /\ reg'[p] = r
  BY <1>5 DEF Inv, RecordInv
<1>7. /\ \A u \in Topologies : u # t => disk'[u] = disk[u]
      /\ \A q \in Paths : disk'[t][q] = IF q = path THEN "file" ELSE IF q = Parent(path) THEN "dir" ELSE disk[t][q]
      /\ disk' \in [Topologies -> [Paths -> {"none", "file", "dir"}]]
  BY <1>4, <1>5, WrittenShape
<1>8. \A u \in Topologies : (disk'[u]["a/b"] = "file" => disk'[u]["a"] = "dir") /\ disk'[u]["a/b"] # "dir"
  BY <1>4, <1>5, WrittenShape
<1>9. ASSUME Smooth, NEW b \in BindFiles, bindRow[b].state = "live", b # r.bindFile
      PROVE  HasFile(b)'
  <2>1. HasFile(b) /\ bindRow[b].topology \in Topologies /\ bindRow[b].path \in Paths
    BY <1>1, <1>4, <1>9, OthersHaveFiles
  <2>2. ~(bindRow[b].topology = t /\ bindRow[b].path = path)
    BY <1>2, <1>3, <1>4, <1>9 DEF BindOK, PathTaken
  <2>3. ~(bindRow[b].topology = t /\ bindRow[b].path = Parent(path))
    BY <1>4, <2>1, NoneIsNothing DEF Writable, HasFile
  <2> QED BY <1>5, <1>7, <2>1, <2>2, <2>3 DEF HasFile
<1>10. ASSUME Smooth, NEW b \in BindFiles, bindRow[b].state = "live"
       PROVE  ~PathTaken(bindRow[b].topology, bindRow[b].path, b)'
  BY <1>5, <1>10 DEF Inv, FilesInv, PathTaken
<1>11. FilesInv'
  BY <1>5, <1>6, <1>8, <1>9, <1>10 DEF FilesInv, Smooth, PathTaken
<1>12. LocalOK("saveBind", r)' /\ BindOK("saveBind", r)'
  BY <1>2, <1>3, <1>4, <1>5, <1>7 DEF LocalOK, BindOK, Smooth, PathTaken
<1> QED BY <1>4, <1>5, <1>7, <1>11, <1>12, BindingStep DEF Inv, TypeOK, RecordInv

(* The row of the bind file is of the file that has just been written.     *)
LEMMA SaveBindStep ==
  ASSUME Inv, NEW p \in Procs, SaveBind(p)
  PROVE  Inv'
<1>1. PICK r : r = reg[p]
  OBVIOUS
<1>2. /\ r \in Locals /\ pc[p] = "saveBind" /\ r.topology \in Topologies /\ r.bindFile \in BindFiles /\ r.path \in Paths
      /\ BindOK("saveBind", r)
  BY <1>1, Knows DEF SaveBind, LocalOK
<1>3. PICK new : new = [state |-> "live", topology |-> r.topology, path |-> r.path]
  OBVIOUS
<1>4. new \in BindRows /\ new.state = "live" /\ new.topology = r.topology /\ new.path = r.path
  BY <1>2, <1>3 DEF BindRows
<1>5. /\ pc' = [pc EXCEPT ![p] = "idle"] /\ reg' = [reg EXCEPT ![p] = NoLocals]
      /\ bindRow' = [bindRow EXCEPT ![r.bindFile] = new]
      /\ UNCHANGED <<collections, row, labRow, definition, damaged, annotated, disk, env, requests, faults, overlapped, failed, reread>>
  BY <1>1, <1>3 DEF Inv, RecordInv, SaveBind, Finish
<1>6. /\ bindRow' \in [BindFiles -> BindRows] /\ bindRow'[r.bindFile] = new
      /\ \A b \in BindFiles : b # r.bindFile => bindRow'[b] = bindRow[b]
  BY <1>2, <1>4, <1>5 DEF Inv, RecordInv
<1>7. ASSUME Smooth, NEW b \in BindFiles, bindRow'[b].state = "live"
      PROVE  HasFile(b)' /\ ~PathTaken(bindRow[b].topology, bindRow[b].path, b)'
  <2>1. ~PathTaken(r.topology, r.path, r.bindFile) /\ disk[r.topology][r.path] = "file"
    BY <1>2, <1>7 DEF BindOK
  <2>2. CASE b = r.bindFile
    BY <1>4, <1>5, <1>6, <2>1, <2>2 DEF HasFile, PathTaken
  <2>3. CASE b # r.bindFile
    <3>1. HasFile(b)
      BY <1>1, <1>2, <1>6, <1>7, <2>3, OthersHaveFiles
    <3>2. ~PathTaken(bindRow[b].topology, bindRow[b].path, b)
      BY <1>6, <1>7, <2>3 DEF Inv, FilesInv
    <3> QED BY <1>4, <1>5, <1>6, <1>7, <2>1, <2>3, <3>1, <3>2 DEF HasFile, PathTaken
  <2> QED BY <2>2, <2>3
<1>8. FilesInv'
  BY <1>5, <1>7 DEF Inv, FilesInv, Smooth
<1>9. \A b \in BindFiles : bindRow'[b].state = "live" => bindRow'[b].topology \in Topologies /\ bindRow'[b].path \in Paths
  BY <1>2, <1>4, <1>6 DEF Inv, TypeOK
<1> QED BY <1>2, <1>5, <1>6, <1>8, <1>9, IdleOKPrime, LocalFields, BindingStep DEF Inv, TypeOK, RecordInv

(* A bind file that is deleted needs no file.                              *)
LEMMA DeleteBindStep ==
  ASSUME Inv, NEW p \in Procs, DeleteBind(p)
  PROVE  Inv'
<1>1. PICK r : r = reg[p]
  OBVIOUS
<1>2. pc[p] = "deleteBind" /\ r.bindFile \in BindFiles
  BY <1>1, Knows DEF DeleteBind, LocalOK
<1>3. PICK new : new = [bindRow[r.bindFile] EXCEPT !.state = "deleted"]
  OBVIOUS
<1>4. new \in BindRows /\ new.state = "deleted"
  BY <1>2, <1>3 DEF Inv, RecordInv, BindRows
<1>5. /\ pc' = [pc EXCEPT ![p] = "idle"] /\ reg' = [reg EXCEPT ![p] = NoLocals]
      /\ bindRow' = [bindRow EXCEPT ![r.bindFile] = new]
      /\ UNCHANGED <<collections, row, labRow, definition, damaged, annotated, disk, env, requests, faults, overlapped, failed, reread>>
  BY <1>1, <1>2, <1>3 DEF Inv, RecordInv, DeleteBind, Finish
<1>6. /\ bindRow' \in [BindFiles -> BindRows] /\ bindRow'[r.bindFile] = new
      /\ \A b \in BindFiles : b # r.bindFile => bindRow'[b] = bindRow[b]
  BY <1>2, <1>4, <1>5 DEF Inv, RecordInv
<1>7. ASSUME Smooth, NEW b \in BindFiles, bindRow'[b].state = "live"
      PROVE  HasFile(b)' /\ ~PathTaken(bindRow[b].topology, bindRow[b].path, b)'
  <2>1. b # r.bindFile /\ bindRow'[b] = bindRow[b]
    BY <1>4, <1>6, <1>7
  <2>2. HasFile(b)
    BY <1>1, <1>2, <1>7, <2>1, OthersHaveFiles
  <2>3. ~PathTaken(bindRow[b].topology, bindRow[b].path, b)
    BY <1>7, <2>1 DEF Inv, FilesInv
  <2> QED BY <1>4, <1>5, <1>6, <2>1, <2>2, <2>3 DEF HasFile, PathTaken
<1>8. FilesInv'
  BY <1>5, <1>7 DEF Inv, FilesInv, Smooth
<1>9. \A b \in BindFiles : bindRow'[b].state = "live" => bindRow'[b].topology \in Topologies /\ bindRow'[b].path \in Paths
  BY <1>4, <1>6 DEF Inv, TypeOK
<1> QED BY <1>2, <1>5, <1>6, <1>8, <1>9, IdleOKPrime, LocalFields, BindingStep DEF Inv, TypeOK, RecordInv

-----------------------------------------------------------------------------
(* A row that the index refuses, a file that cannot be written, a          *)
(* definition that the policy refuses or that cannot be parsed end the     *)
(* request.                                                                *)
LEMMA RefusedStep ==
  ASSUME Inv, NEW p \in Procs,
         SaveRowRefused(p) \/ WriteBindRefused(p) \/ PolicyRefuses(p) \/ TopologyUnreadable(p)
  PROVE  Inv'
<1>1. faults' \in 0 .. MaxFaults
  BY DEF Inv, TypeOK, SaveRowRefused, WriteBindRefused, PolicyRefuses, TopologyUnreadable, Reject, Finish
<1>2. failed' \in BOOLEAN /\ (failed => failed')
  BY DEF Inv, RecordInv, SaveRowRefused, WriteBindRefused, PolicyRefuses, TopologyUnreadable, Reject, Finish
<1>3. failed' \/ pc[p] \notin Binding
  BY DEF SaveRowRefused, WriteBindRefused, PolicyRefuses, TopologyUnreadable, Reject, Finish
<1>4. /\ pc' = [pc EXCEPT ![p] = "idle"] /\ reg' = [reg EXCEPT ![p] = NoLocals]
      /\ UNCHANGED <<collections, row, bindRow, labRow, definition, damaged, annotated, disk, env, requests, overlapped, reread>>
  BY DEF SaveRowRefused, WriteBindRefused, PolicyRefuses, TopologyUnreadable, Reject, Finish
<1> QED BY <1>1, <1>2, <1>3, <1>4, EndStep

(* A step that fails leaves behind some of what it does: no file of a      *)
(* topology is missing, and only the lab of the request loses its run      *)
(* environment.                                                            *)
LEMMA FaultStep ==
  ASSUME Inv, NEW p \in Procs, Fault(p)
  PROVE  Inv'
<1>1. PICK r : r = reg[p]
  OBVIOUS
<1>2. r \in Locals /\ LocalOK(pc[p], r) /\ LabOK(pc[p], r)
  BY <1>1, Knows
<1>3. /\ pc[p] \notin {"idle", "removeOld", "removeFile"} /\ failed' = TRUE
      /\ pc' = [pc EXCEPT ![p] = "idle"] /\ reg' = [reg EXCEPT ![p] = NoLocals]
      /\ UNCHANGED <<collections, row, bindRow, labRow, requests, overlapped, reread>>
  BY DEF Fault
<1>4. faults' \in 0 .. MaxFaults
  BY DEF Inv, TypeOK, Fault
<1>5. /\ definition \in [Topologies -> Contents] /\ damaged \subseteq Topologies /\ annotated \subseteq Topologies
      /\ disk \in [Topologies -> [Paths -> {"none", "file", "dir"}]] /\ env \in [Labs -> Contents]
  BY DEF Inv, TypeOK
<1>6. LeftBehind(p)
  BY DEF Fault
<1>7. /\ definition' \in [Topologies -> Contents] /\ damaged' \subseteq Topologies
      /\ \A t \in Topologies : definition[t] # None => definition'[t] # None
      /\ \A q \in Procs : pc[q] \in {"policy", "rename"} =>
           definition'[reg[q].topology] \in {definition[reg[q].topology], Empty} \/ reg[q].lab \in reread'
  <2>1. CASE definition' = definition /\ damaged' = damaged
    BY <1>5, <2>1
  <2>2. CASE /\ pc[p] = "writeDefinition" /\ damaged' = damaged \cup {r.topology}
             /\ \E content \in {definition[r.topology], Empty} :
                  definition' = [definition EXCEPT ![r.topology] = content]
    <3>1. r.topology \in Topologies
      BY <1>2, <2>2 DEF LocalOK
    <3>2. \A q \in Procs : pc[q] \in {"policy", "rename"} => reg[q].topology \in Topologies
      BY Knows DEF LocalOK, HasFiles
    <3> QED BY <1>5, <2>2, <3>1, <3>2, NoneIsNothing
  <2> QED BY <1>1, <1>6, <2>1, <2>2 DEF LeftBehind
<1>8. annotated \subseteq annotated' /\ annotated' \subseteq Topologies
  <2>1. CASE annotated' = annotated
    BY <1>5, <2>1
  <2>2. CASE pc[p] = "saveAnnotations" /\ annotated' = annotated \cup {r.topology}
    BY <1>2, <1>5, <2>2 DEF LocalOK
  <2> QED BY <1>1, <1>6, <2>1, <2>2 DEF LeftBehind
<1>9. /\ disk' \in [Topologies -> [Paths -> {"none", "file", "dir"}]]
      /\ \A u \in Topologies : (disk'[u]["a/b"] = "file" => disk'[u]["a"] = "dir") /\ disk'[u]["a/b"] # "dir"
  <2>1. CASE disk' = disk
    BY <1>5, <2>1 DEF Inv, FilesInv
  <2>2. CASE pc[p] = "writeBind" /\ Writable(r.topology, r.path) /\ disk' = Written(r.topology, r.path)
    <3>1. r.topology \in Topologies /\ r.path \in Paths
      BY <1>2, <2>2 DEF LocalOK
    <3> QED BY <2>2, <3>1, WrittenShape
  <2> QED BY <1>1, <1>6, <2>1, <2>2 DEF LeftBehind
<1>10. /\ env' \in [Labs -> Contents]
       /\ \A l \in Labs : env[l] # env'[l] => (pc[p] \in Creating /\ l = reg[p].lab) \/ labRow[l].state # "none"
       /\ \A l \in Labs : env[l] # env'[l] => labRow[l].state = "none" \/ env'[l] = None
  <2>1. CASE env' = env
    BY <1>5, <2>1
  <2>2. CASE pc[p] = "copyEnvironment" /\ \E content \in {Empty, definition[r.topology]} : env' = [env EXCEPT ![r.lab] = content]
    <3>1. r.topology \in Topologies /\ labRow[r.lab].state = "none"
      BY <1>2, <2>2 DEF LocalOK, LabOK, HasFiles
    <3> QED BY <1>1, <1>5, <2>2, <3>1
  <2>3. CASE pc[p] = "writeRun" /\ env' = [env EXCEPT ![r.lab] = Empty]
    <3>1. labRow[r.lab].state = "none"
      BY <1>2, <2>3 DEF LabOK
    <3> QED BY <1>1, <1>5, <2>3, <3>1
  <2>4. CASE pc[p] = "deleteLabs" /\ \E k \in r.labs : env' = [env EXCEPT ![k] = None]
    <3>1. \A k \in r.labs : labRow[k].state # "none"
      BY <1>2, <2>4 DEF LabOK
    <3> QED BY <1>5, <2>4, <3>1
  <2> QED BY <1>1, <1>6, <2>1, <2>2, <2>3, <2>4 DEF LeftBehind
<1>11. RequestInv' /\ OneCreator' /\ OneRequest' /\ pc' \in [Procs -> Steps] /\ reg' \in [Procs -> Locals]
  BY <1>3, <1>7, <1>8, <1>10, IdleOKPrime, LocalFields, StepKeeps
<1>12. TypeOK' /\ RecordInv'
  BY <1>3, <1>4, <1>7, <1>8, <1>9, <1>10, <1>11 DEF Inv, TypeOK, RecordInv
<1>13. TopologiesHaveFiles' /\ LabsHaveFiles'
  BY <1>3, <1>7, <1>8 DEF Inv, TopologiesHaveFiles, LabsHaveFiles, HasFiles
<1>14. NamesAreUnique' /\ DeletedCollectionsAreEmpty' /\ EnvironmentIsWhatWasChecked'
  BY <1>3, <1>10 DEF Inv, NamesAreUnique, DeletedCollectionsAreEmpty, EnvironmentIsWhatWasChecked
<1>15. FilesInv'
  BY <1>3, <1>9 DEF FilesInv, Smooth
<1> QED BY <1>11, <1>12, <1>13, <1>14, <1>15 DEF Inv

(* At first there is one topology and no request.                          *)
LEMMA InitInv == Init => Inv
<1> SUFFICES ASSUME Init PROVE Inv
  OBVIOUS
<1>1. PICK f : f = First /\ f \in Topologies
  BY DEF First
<1>2. PICK d : d = FirstDefinition
  OBVIOUS
<1>3. d \in Definitions /\ d # None /\ d.name \in Names
  <2>1. (CHOOSE n \in Names : TRUE) \in Names
    OBVIOUS
  <2>2. d \in Definitions
    BY <1>2, <2>1 DEF FirstDefinition, Definitions
  <2>3. d.name \in Names
    BY <1>2, <2>1 DEF FirstDefinition
  <2> QED BY <2>2, <2>3, NoneIsNothing
<1>4. PICK new : new = FirstRow
  OBVIOUS
<1>5. new \in SavedRows /\ new.state = "live" /\ new.collection \in Collections
  <2>1. (CHOOSE c \in Collections : TRUE) \in Collections
    OBVIOUS
  <2> QED BY <1>2, <1>3, <1>4, <2>1, NoneIsNothing DEF FirstRow, SavedRows, Rows
<1>6. /\ row = [t \in Topologies |-> IF t = f THEN new ELSE NoRow] /\ collections = Collections
      /\ definition = [t \in Topologies |-> IF t = f THEN d ELSE None] /\ damaged = {} /\ annotated = {f}
      /\ bindRow = [b \in BindFiles |-> NoBindRow] /\ labRow = [l \in Labs |-> NoLabRow]
      /\ disk = [t \in Topologies |-> [q \in Paths |-> "none"]] /\ env = [l \in Labs |-> None]
      /\ pc = [p \in Procs |-> "idle"] /\ reg = [p \in Procs |-> NoLocals]
      /\ requests = 0 /\ faults = 0 /\ overlapped = FALSE /\ failed = FALSE /\ reread = {}
  BY <1>1, <1>2, <1>4 DEF Init
<1>7. /\ row \in [Topologies -> SavedRows] /\ row[f] = new
      /\ \A t \in Topologies : row[t].state = "live" => t = f
  BY <1>1, <1>5, <1>6, RowFields DEF NoRow
<1>8. /\ bindRow \in [BindFiles -> BindRows] /\ labRow \in [Labs -> LabRows]
      /\ \A b \in BindFiles : bindRow[b].state = "none"
      /\ \A l \in Labs : labRow[l].state = "none"
  BY <1>6, RowFields DEF NoBindRow, NoLabRow, BindRows, LabRows
<1>9. RecordInv
  BY <1>6, <1>7, <1>8, LocalFields DEF RecordInv
<1>10. TypeOK
  <2>1. row \in [Topologies -> Rows]
    BY <1>7, RowFields
  <2>2. \A t \in Topologies : row[t].state # "none" => row[t].name # None /\ row[t].collection # None
    BY <1>7, RowFields
  <2>3. disk \in [Topologies -> [Paths -> {"none", "file", "dir"}]]
    BY <1>6
  <2>4. requests \in 0 .. MaxRequests /\ faults \in 0 .. MaxFaults
    BY <1>6
  <2>5. definition \in [Topologies -> Contents] /\ env \in [Labs -> Contents]
    BY <1>3, <1>6
  <2> QED BY <1>1, <1>6, <1>8, <2>1, <2>2, <2>3, <2>4, <2>5 DEF TypeOK
<1>11. RequestInv
  <2>1. ASSUME NEW p \in Procs PROVE pc[p] = "idle"
    BY <1>6
  <2> QED BY <2>1, IdleOK DEF RequestInv
<1>12. OneCreator /\ OneRequest
  BY <1>6 DEF OneCreator, OneRequest, Busy
<1>13. /\ TopologiesHaveFiles /\ NamesAreUnique /\ LabsHaveFiles /\ EnvironmentIsWhatWasChecked
       /\ DeletedCollectionsAreEmpty
  BY <1>1, <1>3, <1>5, <1>6, <1>7, <1>8 DEF TopologiesHaveFiles, NamesAreUnique, LabsHaveFiles,
     EnvironmentIsWhatWasChecked, DeletedCollectionsAreEmpty
<1>14. FilesInv
  BY <1>6, <1>8 DEF FilesInv, Paths
<1> QED BY <1>9, <1>10, <1>11, <1>12, <1>13, <1>14 DEF Inv

(* Every request and every step of one keeps the invariant.                *)
LEMMA NextStep == Inv /\ [Next]_vars => Inv'
<1> SUFFICES ASSUME Inv, [Next]_vars PROVE Inv'
  OBVIOUS
<1>1. ASSUME NEW p \in Procs, BeginRequest(p) PROVE Inv'
  BY <1>1, BeginCreateStep, BeginUpdateStep, BeginDeleteStep, BeginCreateBindStep, BeginUpdateBindStep,
     BeginDeleteBindStep, BeginCreateLabStep, BeginDeployStep, BeginDeleteCollectionStep DEF BeginRequest
<1>2. ASSUME NEW p \in Procs, Step(p) PROVE Inv'
  <2>1. CASE TruncateDefinition(p) \/ SaveDefinition(p) \/ SaveAnnotations(p) \/ SaveRow(p) \/ DeleteRow(p)
    BY <2>1, TruncateDefinitionStep, SaveDefinitionStep, SaveAnnotationsStep, SaveRowStep, DeleteRowStep
  <2>2. CASE SaveRowRefused(p) \/ WriteBindRefused(p) \/ PolicyRefuses(p) \/ TopologyUnreadable(p)
    BY <2>2, RefusedStep
  <2>3. CASE RemoveOld(p) \/ WriteBind(p) \/ SaveBind(p) \/ RemoveFile(p) \/ RemoveFails(p) \/ DeleteBind(p)
    BY <2>3, RemoveOldStep, WriteBindStep, SaveBindStep, RemoveFileStep, RemoveFailsStep, DeleteBindStep
  <2>4. CASE \/ LoadTopology(p) \/ PolicyAccepts(p) \/ RenameTopology(p)
             \/ CopyEnvironment(p) \/ WriteRun(p) \/ InsertLab(p)
    BY <2>4, LoadTopologyStep, PolicyAcceptsStep, RenameTopologyStep, CopyEnvironmentStep, WriteRunStep, InsertLabStep
  <2>5. CASE \/ (\E l \in Labs : DeleteEnvironment(p, l)) \/ DeleteLabRow(p) \/ DeleteTopologies(p)
             \/ DeleteCollectionRow(p)
    BY <2>5, DeleteEnvironmentStep, DeleteLabRowStep, DeleteTopologiesStep, DeleteCollectionRowStep
  <2>6. CASE Fault(p)
    BY <2>6, FaultStep
  <2> QED BY <1>2, <2>1, <2>2, <2>3, <2>4, <2>5, <2>6 DEF Step
<1>3. CASE UNCHANGED vars
  BY <1>3 DEF vars, Inv, TypeOK, RecordInv, RequestInv, OneCreator, OneRequest, Busy, TopologiesHaveFiles,
     NamesAreUnique, LabsHaveFiles, HasFiles, EnvironmentIsWhatWasChecked, DeletedCollectionsAreEmpty, FilesInv,
     HasFile, Smooth, PathTaken, LocalOK, LabOK, CheckedOK, CollectionOK, BindOK
<1> QED BY <1>1, <1>2, <1>3 DEF Next

(* The inductive invariant holds of every behaviour.                       *)
LEMMA InvHolds == Spec => []Inv
BY InitInv, NextStep, PTL DEF Spec

(* A definition that is truncated is being written, or was damaged.        *)
Writing(p, t) == pc[p] = "writeDefinition" /\ reg[p].topology = t

EmptyInv == \A t \in Topologies : definition[t] = Empty => t \in damaged \/ \E p \in Procs : Writing(p, t)

(* A step that is not about definitions leaves the requests that write one *)
(* alone.                                                                  *)
LEMMA EmptyKept ==
  ASSUME EmptyInv, UNCHANGED <<definition, damaged>>,
         \A q \in Procs : pc[q] = "writeDefinition" => pc'[q] = pc[q] /\ reg'[q] = reg[q]
  PROVE  EmptyInv'
BY DEF EmptyInv, Writing

(* A request that begins writes nothing yet.                               *)
LEMMA EmptyBegin ==
  ASSUME Inv, EmptyInv, NEW p \in Procs, NEW command, NEW step, NEW r, Begin(p, command, step, r)
  PROVE  EmptyInv'
<1>1. UNCHANGED <<definition, damaged>>
  BY DEF Begin
<1>2. \A q \in Procs : pc[q] = "writeDefinition" => pc'[q] = pc[q] /\ reg'[q] = reg[q]
  BY DEF Inv, RecordInv, Begin
<1> QED BY <1>1, <1>2, EmptyKept

(* Only a write that is done, and that met no other, leaves a definition   *)
(* that nobody takes for damaged.                                          *)
LEMMA EmptyStep == Inv /\ EmptyInv /\ [Next]_vars => EmptyInv'
<1> SUFFICES ASSUME Inv, EmptyInv, [Next]_vars PROVE EmptyInv'
  OBVIOUS
<1>1. ASSUME NEW p \in Procs, BeginRequest(p) PROVE EmptyInv'
  BY <1>1, EmptyBegin DEF BeginRequest, BeginCreate, BeginUpdate, BeginDelete, BeginCreateBind, BeginUpdateBind,
     BeginDeleteBind, BeginCreateLab, BeginDeploy, BeginDeleteCollection
<1>2. ASSUME NEW p \in Procs, Step(p) PROVE EmptyInv'
  <2>1. pc \in [Procs -> Steps] /\ reg \in [Procs -> Locals] /\ definition \in [Topologies -> Contents]
    BY DEF Inv, RecordInv, TypeOK
  <2>2. CASE TruncateDefinition(p)
    <3>1. /\ definition' = [definition EXCEPT ![reg[p].topology] = Empty] /\ UNCHANGED <<damaged, reg>>
          /\ pc' = [pc EXCEPT ![p] = "writeDefinition"] /\ pc[p] = "saveDefinition"
      BY <2>2 DEF TruncateDefinition, Go
    <3> QED BY <2>1, <3>1 DEF EmptyInv, Writing
  <2>3. CASE SaveDefinition(p)
    <3>1. /\ pc[p] = "writeDefinition" /\ UNCHANGED reg /\ \A q \in Procs : q # p => pc'[q] = pc[q]
      BY <2>1, <2>3 DEF SaveDefinition, Go
    <3>2. CASE /\ definition' = [definition EXCEPT ![reg[p].topology] = reg[p].definition]
               /\ damaged' = damaged \ {reg[p].topology}
      <4>1. reg[p].definition \in Definitions
        BY <3>1, Knows, LocalFields DEF LocalOK
      <4> QED BY <2>1, <3>1, <3>2, <4>1, NoneIsNothing DEF EmptyInv, Writing
    <3>3. CASE /\ definition' = [definition EXCEPT ![reg[p].topology] = Empty]
               /\ damaged' = damaged \cup {reg[p].topology}
      BY <2>1, <3>1, <3>3 DEF EmptyInv, Writing
    <3> QED BY <2>3, <3>2, <3>3 DEF SaveDefinition
  <2>4. CASE Fault(p)
    <3>1. \A q \in Procs : q # p => pc'[q] = pc[q] /\ reg'[q] = reg[q]
      BY <2>1, <2>4 DEF Fault
    <3>2. CASE pc[p] = "writeDefinition"
      <4>1. damaged' = damaged \cup {reg[p].topology}
        BY <2>4, <3>2 DEF Fault, LeftBehind
      <4>2. \E content \in {definition[reg[p].topology], Empty} :
              definition' = [definition EXCEPT ![reg[p].topology] = content]
        BY <2>4, <3>2 DEF Fault, LeftBehind
      <4> QED BY <2>1, <3>1, <3>2, <4>1, <4>2 DEF EmptyInv, Writing
    <3>3. CASE pc[p] # "writeDefinition"
      <4>1. UNCHANGED <<definition, damaged>>
        BY <2>4, <3>3 DEF Fault, LeftBehind
      <4> QED BY <3>1, <3>3, <4>1, EmptyKept
    <3> QED BY <3>2, <3>3
  <2>5. CASE \/ SaveAnnotations(p) \/ SaveRow(p) \/ SaveRowRefused(p) \/ DeleteRow(p)
             \/ RemoveOld(p) \/ WriteBind(p) \/ WriteBindRefused(p) \/ SaveBind(p)
             \/ RemoveFile(p) \/ RemoveFails(p) \/ DeleteBind(p)
    <3>1. pc[p] # "writeDefinition" /\ UNCHANGED <<definition, damaged>>
      BY <2>5 DEF SaveAnnotations, SaveRow, SaveRowRefused, DeleteRow, RemoveOld, WriteBind, WriteBindRefused, SaveBind,
         RemoveFile, RemoveFails, DeleteBind, Reject
    <3>2. \A q \in Procs : q # p => pc'[q] = pc[q] /\ reg'[q] = reg[q]
      BY <2>1, <2>5 DEF SaveAnnotations, SaveRow, SaveRowRefused, DeleteRow, RemoveOld, WriteBind, WriteBindRefused,
         SaveBind, RemoveFile, RemoveFails, DeleteBind, Reject, Go, Finish
    <3> QED BY <3>1, <3>2, EmptyKept
  <2>6. CASE \/ LoadTopology(p) \/ PolicyAccepts(p) \/ PolicyRefuses(p) \/ RenameTopology(p) \/ TopologyUnreadable(p)
             \/ CopyEnvironment(p) \/ WriteRun(p) \/ InsertLab(p)
    <3>1. pc[p] # "writeDefinition" /\ UNCHANGED <<definition, damaged>>
      BY <2>6 DEF LoadTopology, PolicyAccepts, PolicyRefuses, RenameTopology, TopologyUnreadable, CopyEnvironment,
         WriteRun, InsertLab
    <3>2. \A q \in Procs : q # p => pc'[q] = pc[q] /\ reg'[q] = reg[q]
      BY <2>1, <2>6 DEF LoadTopology, PolicyAccepts, PolicyRefuses, RenameTopology, TopologyUnreadable, CopyEnvironment,
         WriteRun, InsertLab, Go, Finish
    <3> QED BY <3>1, <3>2, EmptyKept
  <2>7. CASE \/ (\E l \in Labs : DeleteEnvironment(p, l)) \/ DeleteLabRow(p) \/ DeleteTopologies(p)
             \/ DeleteCollectionRow(p)
    <3>1. pc[p] # "writeDefinition" /\ UNCHANGED <<definition, damaged>>
      BY <2>7 DEF DeleteEnvironment, DeleteLabRow, DeleteTopologies, DeleteCollectionRow
    <3>2. \A q \in Procs : q # p => pc'[q] = pc[q] /\ reg'[q] = reg[q]
      BY <2>1, <2>7 DEF DeleteEnvironment, DeleteLabRow, DeleteTopologies, DeleteCollectionRow, Go, Finish
    <3> QED BY <3>1, <3>2, EmptyKept
  <2> QED BY <1>2, <2>2, <2>3, <2>4, <2>5, <2>6, <2>7 DEF Step
<1>3. CASE UNCHANGED vars
  BY <1>3, EmptyKept DEF vars
<1> QED BY <1>1, <1>2, <1>3 DEF Next

(* A topology that is listed has its files, which can be read unless an    *)
(* update of them went wrong or is under way, and a name of its own in its *)
(* collection, whatever fails and whatever runs side by side               *)
(* (topology/service.go:97-209, storage/manager.go:203-212).               *)
THEOREM RowInvariant == Spec => []RowInv
<1>1. Init => EmptyInv
  <2>1. FirstDefinition # Empty
    <3>1. (CHOOSE n \in Names : TRUE) \in Names
      OBVIOUS
    <3>2. FirstDefinition \in Definitions
      BY <3>1 DEF FirstDefinition, Definitions
    <3> QED BY <3>2, NoneIsNothing
  <2> QED BY <2>1, NoneIsNothing DEF Init, EmptyInv
<1>2. Inv /\ EmptyInv => RowInv
  BY DEF Inv, EmptyInv, Writing, RowInv, StoredTopologiesAreReadable
<1> QED BY <1>1, <1>2, InvHolds, EmptyStep, PTL DEF Spec

(* A collection that has been deleted leaves nothing behind, as long as    *)
(* requests do not run side by side, whichever step of a deletion fails    *)
(* (collection/service.go).                                                *)
THEOREM CollectionsAreDeletedWhole == Spec => []DeletedCollectionsAreEmpty
<1>1. Inv => DeletedCollectionsAreEmpty
  BY DEF Inv
<1> QED BY <1>1, InvHolds, PTL

(* Between requests every bind file has its file, as long as none have run *)
(* side by side and none has failed (topology/service.go, CreateBindFile,  *)
(* UpdateBindFile, DeleteBindFile).                                        *)
THEOREM BindFilesHaveFiles == Spec => []BindFilesExist
<1>1. Inv => BindFilesExist
  BY DEF Inv, FilesInv, BindFilesExist, HasFile, Smooth, Busy
<1> QED BY <1>1, InvHolds, PTL

(* What a lab deploys is what was checked, unless its topology was         *)
(* rewritten between the two readings (lab/service.go, Create).            *)
THEOREM CheckedIsDeployed == Spec => []EnvironmentIsWhatWasChecked
<1>1. Inv => EnvironmentIsWhatWasChecked
  BY DEF Inv
<1> QED BY <1>1, InvHolds, PTL
=============================================================================
