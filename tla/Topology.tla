------------------------------ MODULE Topology -------------------------------
(***************************************************************************)
(* Topologies, their bind files, the collections they are in and the labs  *)
(* created from them: rows in the database, files on disk, and the         *)
(* requests that change both (src/src/domain/topology/service.go,          *)
(* src/src/domain/topology/repository.go, src/src/storage/manager.go,      *)
(* src/src/domain/collection/service.go, src/src/domain/lab/service.go).   *)
(*                                                                         *)
(* Nothing locks: each access to the database or to a file is one step of  *)
(* a request, requests run side by side, and a step may fail (FaultAt).    *)
(* A step that fails may leave behind some of what it does, and a          *)
(* definition is truncated before it is written.                           *)
(* Permissions and parsing are left out, a definition is its name and      *)
(* whether the policy finds fault with it, a bind file is its path.        *)
(***************************************************************************)
EXTENDS Naturals, FiniteSets

CONSTANTS
  Procs,         \* goroutines that serve requests
  Collections,   \* collections, all there at first
  Topologies,    \* topology ids utils.GenerateUuid will hand out
  BindFiles,     \* bind file ids
  Labs,          \* lab ids
  Names,         \* names of topologies
  Commands,      \* the requests that are looked at
  None,
  Empty,         \* what a file holds that has been truncated, or written by two requests at once
  MaxRequests,   \* bound: requests in a run
  MaxOverlapping, \* bound: requests in a run in which two run side by side
  MaxFaults      \* bound: steps that fail in a run

(* Two paths of bind files, one in a directory that has the name of the other. *)
Paths == {"a", "a/b"}
Parent(path) == IF path = "a/b" THEN "a" ELSE None
Below(path) == {q \in Paths : Parent(q) = path}

Definitions == [name : Names, safe : BOOLEAN]

(* What can be found where a definition is kept *)
Contents == Definitions \cup {None, Empty}

(* None is no value of any kind, Empty is no definition, and there is a *)
(* topology to begin with.                                              *)
ASSUME TopologyAssumption ==
  /\ MaxRequests \in Nat /\ MaxOverlapping \in Nat
  /\ MaxFaults \in Nat
  /\ Topologies # {} /\ Names # {} /\ Collections # {}
  /\ \A S \in {Topologies, BindFiles, Labs, Names, Collections, Paths, Definitions} : None \notin S
  /\ Empty \notin Definitions \cup {None}

VARIABLES
  collections,   \* the collections that have not been deleted
  row,           \* rows of topologies
  bindRow,       \* rows of bind files
  labRow,        \* rows of labs, with the copy of the topology's row they were created with
  definition,    \* topology.clab.yaml of every topology
  damaged,       \* history: topologies the last write of whose definition failed or met another
  annotated,     \* the topologies whose annotations have been written
  disk,          \* what is at each path of a topology's directory
  env,           \* the definition in the run environment of every lab
  pc,            \* the next step of every request
  reg,           \* the local variables of every request
  requests,      \* number of requests so far
  faults,        \* number of steps that failed
  overlapped,    \* history: two requests have run side by side
  failed,        \* history: a step has failed or a file could not be written
  reread         \* history: labs whose topology was rewritten between the check and the second reading

rowVars == <<collections, row, bindRow, labRow>>
fileVars == <<definition, damaged, annotated, disk, env>>
vars == <<rowVars, fileVars, pc, reg, requests, faults, overlapped, failed, reread>>

NoRow == [state |-> "none", name |-> None, collection |-> None, lastDeployFailed |-> FALSE]
NoBindRow == [state |-> "none", topology |-> None, path |-> None]
NoLabRow == [state |-> "none", topology |-> None, copy |-> NoRow, definition |-> None]
NoLocals == [topology |-> None, bindFile |-> None, lab |-> None, collection |-> None,
             definition |-> None, run |-> None, old |-> None, path |-> None, copy |-> NoRow,
             labs |-> {}, annotations |-> FALSE]

(* A topology has been created, so that a few requests reach the rest. *)
First == CHOOSE t \in Topologies : TRUE
FirstDefinition == [name |-> CHOOSE n \in Names : TRUE, safe |-> TRUE]
FirstRow == [state |-> "live", name |-> FirstDefinition.name,
             collection |-> CHOOSE c \in Collections : TRUE, lastDeployFailed |-> FALSE]

Init ==
  /\ collections = Collections
  /\ row = [t \in Topologies |-> IF t = First THEN FirstRow ELSE NoRow]
  /\ bindRow = [b \in BindFiles |-> NoBindRow]
  /\ labRow = [l \in Labs |-> NoLabRow]
  /\ definition = [t \in Topologies |-> IF t = First THEN FirstDefinition ELSE None]
  /\ damaged = {}
  /\ annotated = {First}
  /\ disk = [t \in Topologies |-> [q \in Paths |-> "none"]]
  /\ env = [l \in Labs |-> None]
  /\ pc = [p \in Procs |-> "idle"]
  /\ reg = [p \in Procs |-> NoLocals]
  /\ requests = 0
  /\ faults = 0
  /\ overlapped = FALSE
  /\ failed = FALSE
  /\ reread = {}

-----------------------------------------------------------------------------
Busy == {p \in Procs : pc[p] # "idle"}

Begin(p, command, step, locals) ==
  /\ command \in Commands
  /\ pc[p] = "idle"
  /\ requests < MaxRequests
  /\ pc' = [pc EXCEPT ![p] = step]
  /\ reg' = [reg EXCEPT ![p] = locals]
  /\ requests' = requests + 1
  /\ overlapped' = (overlapped \/ Busy # {})
  /\ overlapped' => requests < MaxOverlapping
  /\ UNCHANGED <<rowVars, fileVars, faults, failed, reread>>

Go(p, step) ==
  /\ pc' = [pc EXCEPT ![p] = step]
  /\ UNCHANGED <<reg, requests, faults, overlapped, failed>>

Finish(p) ==
  /\ pc' = [pc EXCEPT ![p] = "idle"]
  /\ reg' = [reg EXCEPT ![p] = NoLocals]
  /\ UNCHANGED <<requests, faults, overlapped, failed>>

(* The request ends with an error that is not a fault of the machine. *)
Reject(p) ==
  /\ pc' = [pc EXCEPT ![p] = "idle"]
  /\ reg' = [reg EXCEPT ![p] = NoLocals]
  /\ failed' = TRUE
  /\ UNCHANGED <<rowVars, fileVars, requests, faults, overlapped, reread>>

Live(t) == row[t].state = "live"

(* GetByName: the topologies of a collection that have a name *)
GetByName(name, c) == {t \in Topologies : Live(t) /\ row[t].name = name /\ row[t].collection = c}

(* The unique index on collection and name lets t have this row. *)
IndexAllows(t, r) == GetByName(r.name, r.collection) \subseteq {t}

(* Ids that no row, file or request uses yet. *)
Unused(t) == row[t].state = "none" /\ definition[t] = None /\ \A p \in Procs : reg[p].topology # t

-----------------------------------------------------------------------------
(***************************************************************************)
(* Topologies                                                              *)
(***************************************************************************)
(* Mutant: the row is saved without the files. *)
BeginCreateRow(p, t, d, c) ==
  /\ Unused(t)
  /\ c \in collections
  /\ GetByName(d.name, c) = {}
  /\ Begin(p, "create", "saveRow",
           [NoLocals EXCEPT !.topology = t, !.definition = d,
            !.copy = [state |-> "live", name |-> d.name, collection |-> c, lastDeployFailed |-> FALSE]])

(* Create, as far as it only reads *)
BeginCreate(p, t, d, c) ==
  /\ Unused(t)
  /\ c \in collections
  /\ GetByName(d.name, c) = {}
  /\ Begin(p, "create", "saveDefinition",
           [NoLocals EXCEPT !.topology = t, !.definition = d, !.annotations = TRUE,
            !.copy = [state |-> "live", name |-> d.name, collection |-> c, lastDeployFailed |-> FALSE]])

(* Update, as far as it only reads: a new definition or none, a collection, *)
(* and annotations if they are given.                                       *)
BeginUpdate(p, t, d, c, given) ==
  LET name == IF d = None THEN row[t].name ELSE d.name
      changed == name # row[t].name \/ c # row[t].collection
  IN
  /\ Live(t)
  /\ c \in collections \cup {row[t].collection}
  /\ changed => GetByName(name, c) = {}
  /\ Begin(p, "update", IF d # None THEN "saveDefinition" ELSE IF given THEN "saveAnnotations" ELSE "saveRow",
           [NoLocals EXCEPT !.topology = t, !.definition = d, !.annotations = given,
            !.copy = [row[t] EXCEPT !.name = name, !.collection = c]])

(* WriteTopology opens the definition, which truncates it, ... *)
TruncateDefinition(p) ==
  /\ pc[p] = "saveDefinition"
  /\ definition' = [definition EXCEPT ![reg[p].topology] = Empty]
  /\ Go(p, "writeDefinition")
  /\ UNCHANGED <<rowVars, damaged, annotated, disk, env, reread>>

(* ... writes it, over what another request may have written meanwhile, ... *)
SaveDefinition(p) ==
  LET t == reg[p].topology
      checking == {q \in Procs : pc[q] \in {"policy", "rename"} /\ reg[q].topology = t}
  IN
  /\ pc[p] = "writeDefinition"
  /\ \/ /\ definition' = [definition EXCEPT ![t] = reg[p].definition]
        /\ damaged' = damaged \ {t}
     \/ /\ definition[t] # Empty
        /\ definition' = [definition EXCEPT ![t] = Empty]
        /\ damaged' = damaged \cup {t}
  /\ reread' = reread \cup {reg[q].lab : q \in checking}
  /\ Go(p, IF reg[p].annotations THEN "saveAnnotations" ELSE "saveRow")
  /\ UNCHANGED <<rowVars, annotated, disk, env>>

(* ... and the annotations, which need not be whole to be read. *)
SaveAnnotations(p) ==
  /\ pc[p] = "saveAnnotations"
  /\ annotated' = annotated \cup {reg[p].topology}
  /\ Go(p, "saveRow")
  /\ UNCHANGED <<rowVars, definition, damaged, disk, env, reread>>

(* Repository.Create and Repository.Update.  External: gorm's Save writes   *)
(* the whole row, and inserts it when the row has been deleted meanwhile.   *)
SaveRow(p) ==
  LET t == reg[p].topology IN
  /\ pc[p] = "saveRow"
  /\ IndexAllows(t, reg[p].copy)
  /\ row' = [row EXCEPT ![t] = reg[p].copy]
  /\ Finish(p)
  /\ UNCHANGED <<collections, bindRow, labRow, fileVars, reread>>

SaveRowRefused(p) ==
  /\ pc[p] = "saveRow"
  /\ ~IndexAllows(reg[p].topology, reg[p].copy)
  /\ Reject(p)

(* Delete *)
BeginDelete(p, t) ==
  /\ Live(t)
  /\ Begin(p, "delete", "deleteRow", [NoLocals EXCEPT !.topology = t])

DeleteRow(p) ==
  /\ pc[p] = "deleteRow"
  /\ row' = [row EXCEPT ![reg[p].topology].state = "deleted"]
  /\ Finish(p)
  /\ UNCHANGED <<collections, bindRow, labRow, fileVars, reread>>

-----------------------------------------------------------------------------
(***************************************************************************)
(* Bind files                                                              *)
(***************************************************************************)
LiveBind(b) == bindRow[b].state = "live"

(* Mutant: paths are not compared. *)
PathNeverTaken(t, path, b) == FALSE

(* DoesBindFilePathExist, b excluded *)
PathTaken(t, path, b) ==
  \E o \in BindFiles \ {b} : LiveBind(o) /\ bindRow[o].topology = t /\ bindRow[o].path = path

(* write: the parent becomes a directory, unless it is a file *)
Writable(t, path) ==
  /\ disk[t][path] # "dir"
  /\ Parent(path) # None => disk[t][Parent(path)] # "file"

Written(t, path) ==
  [disk EXCEPT ![t] = [q \in Paths |-> IF q = path THEN "file"
                                       ELSE IF q = Parent(path) THEN "dir" ELSE @[q]]]

(* delete: RemoveAll takes what is below the path as well, and leaves its parent *)
Removed(t, path) ==
  [disk EXCEPT ![t] = [q \in Paths |-> IF q \in {path} \cup Below(path) THEN "none" ELSE @[q]]]

(* CreateBindFile, as far as it only reads *)
BeginCreateBind(p, b, t, path) ==
  /\ bindRow[b].state = "none"
  /\ \A q \in Procs : reg[q].bindFile # b
  /\ Live(t)
  /\ ~PathTaken(t, path, None)
  /\ Begin(p, "createBind", "writeBind",
           [NoLocals EXCEPT !.topology = t, !.bindFile = b, !.path = path])

(* UpdateBindFile, as far as it only reads: the content is in the request *)
(* or read from the file there is.                                        *)
BeginUpdateBind(p, b, path, given) ==
  LET t == bindRow[b].topology
      old == bindRow[b].path
  IN
  /\ LiveBind(b)
  /\ Live(t)
  /\ ~PathTaken(t, path, b)
  /\ given \/ disk[t][old] = "file"
  /\ Begin(p, "updateBind", IF path = old THEN "writeBind" ELSE "removeOld",
           [NoLocals EXCEPT !.topology = t, !.bindFile = b, !.path = path, !.old = old])

(* The file at the old path goes; an error is only logged. *)
RemoveOld(p) ==
  /\ pc[p] = "removeOld"
  /\ disk' = Removed(reg[p].topology, reg[p].old)
  /\ Go(p, "writeBind")
  /\ UNCHANGED <<rowVars, definition, damaged, annotated, env, reread>>

WriteBind(p) ==
  /\ pc[p] = "writeBind"
  /\ Writable(reg[p].topology, reg[p].path)
  /\ disk' = Written(reg[p].topology, reg[p].path)
  /\ Go(p, "saveBind")
  /\ UNCHANGED <<rowVars, definition, damaged, annotated, env, reread>>

WriteBindRefused(p) ==
  /\ pc[p] = "writeBind"
  /\ ~Writable(reg[p].topology, reg[p].path)
  /\ Reject(p)

(* Repository.CreateBindFile and UpdateBindFile, which save the whole row *)
SaveBind(p) ==
  /\ pc[p] = "saveBind"
  /\ bindRow' = [bindRow EXCEPT ![reg[p].bindFile] =
       [state |-> "live", topology |-> reg[p].topology, path |-> reg[p].path]]
  /\ Finish(p)
  /\ UNCHANGED <<collections, row, labRow, fileVars, reread>>

(* DeleteBindFile *)
BeginDeleteBind(p, b) ==
  /\ LiveBind(b)
  /\ Live(bindRow[b].topology)
  /\ Begin(p, "deleteBind", "removeFile",
           [NoLocals EXCEPT !.topology = bindRow[b].topology, !.bindFile = b, !.old = bindRow[b].path])

RemoveFile(p) ==
  /\ pc[p] = "removeFile"
  /\ disk' = Removed(reg[p].topology, reg[p].old)
  /\ Go(p, "deleteBind")
  /\ UNCHANGED <<rowVars, definition, damaged, annotated, env, reread>>

(* External: a file cannot be removed, or its directory not altogether.  The *)
(* request goes on.                                                          *)
RemoveFails(p) ==
  /\ pc[p] \in {"removeOld", "removeFile"}
  /\ faults < MaxFaults
  /\ faults' = faults + 1
  /\ failed' = TRUE
  /\ pc' = [pc EXCEPT ![p] = IF @ = "removeOld" THEN "writeBind" ELSE "deleteBind"]
  /\ disk' \in {disk, Removed(reg[p].topology, reg[p].old)}
  /\ UNCHANGED <<rowVars, definition, damaged, annotated, env, reg, requests, overlapped, reread>>

DeleteBind(p) ==
  /\ pc[p] = "deleteBind"
  /\ bindRow' = [bindRow EXCEPT ![reg[p].bindFile].state = "deleted"]
  /\ Finish(p)
  /\ UNCHANGED <<collections, row, labRow, fileVars, reread>>

-----------------------------------------------------------------------------
(***************************************************************************)
(* Labs                                                                    *)
(***************************************************************************)
(* Service.Create of labs: the topology's row is read ... *)
BeginCreateLab(p, l, t) ==
  /\ labRow[l].state = "none"
  /\ env[l] = None
  /\ \A q \in Procs : reg[q].lab # l
  /\ Live(t)
  /\ Begin(p, "createLab", "load", [NoLocals EXCEPT !.topology = t, !.lab = l, !.copy = row[t]])

(* ... then its definition ... *)
LoadTopology(p) ==
  /\ pc[p] = "load"
  /\ definition[reg[p].topology] \in Definitions
  /\ pc' = [pc EXCEPT ![p] = "policy"]
  /\ reg' = [reg EXCEPT ![p].definition = definition[reg[p].topology]]
  /\ UNCHANGED <<rowVars, fileVars, requests, faults, overlapped, failed, reread>>

(* ... which the policy must accept, unless the user is an administrator. *)
PolicyAccepts(p) ==
  /\ pc[p] = "policy"
  /\ Go(p, "rename")
  /\ UNCHANGED <<rowVars, fileVars, reread>>

PolicyRefuses(p) ==
  /\ pc[p] = "policy"
  /\ ~reg[p].definition.safe
  /\ Finish(p)
  /\ UNCHANGED <<rowVars, fileVars, reread>>

(* renameTopology reads the definition a second time. *)
RenameTopology(p) ==
  /\ pc[p] = "rename"
  /\ definition[reg[p].topology] \in Definitions
  /\ pc' = [pc EXCEPT ![p] = "copyEnvironment"]
  /\ reg' = [reg EXCEPT ![p].run = definition[reg[p].topology]]
  /\ UNCHANGED <<rowVars, fileVars, requests, faults, overlapped, failed, reread>>

(* Either reading ends the request when there is nothing to parse. *)
TopologyUnreadable(p) ==
  /\ pc[p] \in {"load", "rename"}
  /\ definition[reg[p].topology] \notin Definitions
  /\ Finish(p)
  /\ UNCHANGED <<rowVars, fileVars, reread>>

(* CreateRunEnvironment copies the topology's directory ... *)
CopyEnvironment(p) ==
  /\ pc[p] = "copyEnvironment"
  /\ env' = [env EXCEPT ![reg[p].lab] = definition[reg[p].topology]]
  /\ Go(p, "writeRun")
  /\ UNCHANGED <<rowVars, definition, damaged, annotated, disk, reread>>

(* Mutant: the renamed definition is not written over the copied one. *)
KeepCopied(p) ==
  /\ pc[p] = "writeRun"
  /\ Go(p, "insertLab")
  /\ UNCHANGED <<rowVars, fileVars, reread>>

(* ... and writes the renamed definition over the copied one. *)
WriteRun(p) ==
  /\ pc[p] = "writeRun"
  /\ env' = [env EXCEPT ![reg[p].lab] = reg[p].run]
  /\ Go(p, "insertLab")
  /\ UNCHANGED <<rowVars, definition, damaged, annotated, disk, reread>>

InsertLab(p) ==
  /\ pc[p] = "insertLab"
  /\ labRow' = [labRow EXCEPT ![reg[p].lab] =
       [state |-> "live", topology |-> reg[p].topology, copy |-> reg[p].copy,
        definition |-> reg[p].definition]]
  /\ Finish(p)
  /\ UNCHANGED <<collections, row, bindRow, fileVars, reread>>

(* The copies of the topology's row a deployment may have: the one the lab  *)
(* was created with, if the scheduler deploys it, or the one the command    *)
(* has just read.                                                           *)
Copies(l) == {labRow[l].copy} \cup {row[t] : t \in {u \in Topologies : labRow[l].topology = u}}

(* A deployment ends with SetLastDeployFailed, which saves the copy. *)
BeginDeploy(p, l, copy, hasFailed) ==
  /\ labRow[l].state = "live"
  /\ copy.state = "live"
  /\ Begin(p, "deploy", "saveRow",
           [NoLocals EXCEPT !.topology = labRow[l].topology, !.lab = l,
            !.copy = [copy EXCEPT !.lastDeployFailed = hasFailed]])

-----------------------------------------------------------------------------
(***************************************************************************)
(* Deleting a collection: its labs, its topologies, its row                *)
(***************************************************************************)
(* Mutant: the labs of the topologies that are in the collection now. *)
LabsOfTopologies(c) == {l \in Labs : labRow[l].state = "live" /\ row[labRow[l].topology].collection = c}

LabsOf(c) == {l \in Labs : labRow[l].state = "live" /\ labRow[l].copy.collection = c}

BeginDeleteCollection(p, c) ==
  /\ c \in collections
  /\ Begin(p, "deleteCollection", "deleteLabs",
           [NoLocals EXCEPT !.collection = c, !.labs = LabsOf(c)])

(* deleteLab removes the run environment ... *)
DeleteEnvironment(p, l) ==
  /\ pc[p] = "deleteLabs"
  /\ l \in reg[p].labs
  /\ env' = [env EXCEPT ![l] = None]
  /\ pc' = [pc EXCEPT ![p] = "deleteLabRow"]
  /\ reg' = [reg EXCEPT ![p].lab = l, ![p].labs = @ \ {l}]
  /\ UNCHANGED <<rowVars, definition, damaged, annotated, disk, requests, faults, overlapped, failed, reread>>

(* ... and the row. *)
DeleteLabRow(p) ==
  /\ pc[p] = "deleteLabRow"
  /\ labRow' = [labRow EXCEPT ![reg[p].lab].state = "deleted"]
  /\ Go(p, "deleteLabs")
  /\ UNCHANGED <<collections, row, bindRow, fileVars, reread>>

(* DeleteTopologiesOfCollection *)
DeleteTopologies(p) ==
  /\ pc[p] = "deleteLabs"
  /\ reg[p].labs = {}
  /\ row' = [t \in Topologies |-> IF Live(t) /\ row[t].collection = reg[p].collection
                                 THEN [row[t] EXCEPT !.state = "deleted"] ELSE row[t]]
  /\ Go(p, "deleteCollection")
  /\ UNCHANGED <<collections, bindRow, labRow, fileVars, reread>>

DeleteCollectionRow(p) ==
  /\ pc[p] = "deleteCollection"
  /\ collections' = collections \ {reg[p].collection}
  /\ Finish(p)
  /\ UNCHANGED <<row, bindRow, labRow, fileVars, reread>>

-----------------------------------------------------------------------------
(***************************************************************************)
(* Steps that fail                                                         *)
(***************************************************************************)
(* External: what a step that fails has done before it does. *)
LeftBehind(p) ==
  LET t == reg[p].topology
      l == reg[p].lab
  IN
  \/ /\ pc[p] # "writeDefinition"
     /\ UNCHANGED fileVars
  \/ /\ pc[p] = "writeDefinition"
     /\ \E content \in {definition[t], Empty} : definition' = [definition EXCEPT ![t] = content]
     /\ damaged' = damaged \cup {t}
     /\ UNCHANGED <<annotated, disk, env>>
  \/ /\ pc[p] = "saveAnnotations"
     /\ annotated' = annotated \cup {t}
     /\ UNCHANGED <<definition, damaged, disk, env>>
  \/ /\ pc[p] = "writeBind"
     /\ Writable(t, reg[p].path)
     /\ disk' = Written(t, reg[p].path)
     /\ UNCHANGED <<definition, damaged, annotated, env>>
  \/ /\ \/ pc[p] = "copyEnvironment" /\ (\E content \in {Empty, definition[t]} : env' = [env EXCEPT ![l] = content])
        \/ pc[p] = "writeRun" /\ env' = [env EXCEPT ![l] = Empty]
        \/ pc[p] = "deleteLabs" /\ (\E k \in reg[p].labs : env' = [env EXCEPT ![k] = None])
     /\ UNCHANGED <<definition, damaged, annotated, disk>>

(* External: the database or the disk refuses a step, and the request ends *)
(* with its error.                                                         *)
Fault(p) ==
  /\ pc[p] \notin {"idle", "removeOld", "removeFile"}
  /\ faults < MaxFaults
  /\ LeftBehind(p)
  /\ faults' = faults + 1
  /\ failed' = TRUE
  /\ pc' = [pc EXCEPT ![p] = "idle"]
  /\ reg' = [reg EXCEPT ![p] = NoLocals]
  /\ UNCHANGED <<rowVars, requests, overlapped, reread>>

-----------------------------------------------------------------------------
BeginRequest(p) ==
  \/ \E t \in Topologies, d \in Definitions, c \in Collections : BeginCreate(p, t, d, c)
  \/ \E t \in Topologies, d \in Definitions \cup {None}, c \in Collections, given \in BOOLEAN :
       BeginUpdate(p, t, d, c, given)
  \/ \E t \in Topologies : BeginDelete(p, t)
  \/ \E b \in BindFiles, t \in Topologies, path \in Paths : BeginCreateBind(p, b, t, path)
  \/ \E b \in BindFiles, path \in Paths, given \in BOOLEAN : BeginUpdateBind(p, b, path, given)
  \/ \E b \in BindFiles : BeginDeleteBind(p, b)
  \/ \E l \in Labs, t \in Topologies : BeginCreateLab(p, l, t)
  \/ \E l \in Labs, hasFailed \in BOOLEAN :
       \E copy \in Copies(l) : BeginDeploy(p, l, copy, hasFailed)
  \/ \E c \in Collections : BeginDeleteCollection(p, c)

Step(p) ==
  \/ TruncateDefinition(p) \/ SaveDefinition(p) \/ SaveAnnotations(p)
  \/ SaveRow(p) \/ SaveRowRefused(p) \/ DeleteRow(p)
  \/ RemoveOld(p) \/ WriteBind(p) \/ WriteBindRefused(p) \/ SaveBind(p)
  \/ RemoveFile(p) \/ RemoveFails(p) \/ DeleteBind(p)
  \/ LoadTopology(p) \/ PolicyAccepts(p) \/ PolicyRefuses(p) \/ RenameTopology(p) \/ TopologyUnreadable(p)
  \/ CopyEnvironment(p) \/ WriteRun(p) \/ InsertLab(p)
  \/ (\E l \in Labs : DeleteEnvironment(p, l)) \/ DeleteLabRow(p) \/ DeleteTopologies(p)
  \/ DeleteCollectionRow(p)
  \/ Fault(p)

Next == \E p \in Procs : BeginRequest(p) \/ Step(p)

Spec == Init /\ [][Next]_vars

-----------------------------------------------------------------------------
Rows == [state : {"none", "live", "deleted"}, name : Names \cup {None},
         collection : Collections \cup {None}, lastDeployFailed : BOOLEAN]

(* Every variable has its type, and a row that was ever saved names a topology. *)
TypeOK ==
  /\ collections \subseteq Collections
  /\ row \in [Topologies -> Rows]
  /\ \A t \in Topologies : row[t].state # "none" => row[t].name # None /\ row[t].collection # None
  /\ \A b \in BindFiles : LiveBind(b) => bindRow[b].topology \in Topologies /\ bindRow[b].path \in Paths
  /\ \A l \in Labs : labRow[l].state = "live" => labRow[l].copy \in Rows
  /\ definition \in [Topologies -> Contents]
  /\ damaged \subseteq Topologies
  /\ annotated \subseteq Topologies
  /\ disk \in [Topologies -> [Paths -> {"none", "file", "dir"}]]
  /\ env \in [Labs -> Contents]
  /\ reread \subseteq Labs
  /\ requests \in 0 .. MaxRequests
  /\ faults \in 0 .. MaxFaults

(* A topology that is listed has its files, whatever fails and whatever     *)
(* runs side by side: they are written before its row is (Create) and never *)
(* removed.                                                                 *)
TopologiesHaveFiles ==
  \A t \in Topologies : Live(t) => definition[t] # None /\ t \in annotated

(* It can be read as well, but for the time a new definition is being       *)
(* written, unless that failed or two requests wrote at once.               *)
StoredTopologiesAreReadable ==
  /\ TopologiesHaveFiles
  /\ \A t \in Topologies : Live(t) /\ definition[t] = Empty =>
       t \in damaged \/ \E p \in Procs : pc[p] = "writeDefinition" /\ reg[p].topology = t

(* Two topologies of a collection have different names, also when two       *)
(* requests have both found the name free.                                  *)
NamesAreUnique ==
  \A t, u \in Topologies :
    t # u /\ Live(t) /\ Live(u) /\ row[t].collection = row[u].collection => row[t].name # row[u].name

(* A row that is there has its files, which can be read unless an update   *)
(* of them went wrong or is under way, and a name of its own, whatever     *)
(* fails and whatever runs side by side (topology/service.go:97-209,       *)
(* storage/manager.go:203-212).                                            *)
RowInv ==
  /\ TypeOK
  /\ StoredTopologiesAreReadable
  /\ NamesAreUnique

(* As long as requests do not run side by side, a collection that has been  *)
(* deleted leaves no topology and no lab behind, whichever step of a        *)
(* deletion fails.                                                          *)
DeletedCollectionsAreEmpty ==
  ~overlapped =>
    /\ \A t \in Topologies : Live(t) => row[t].collection \in collections
    /\ \A l \in Labs : labRow[l].state = "live" => labRow[l].copy.collection \in collections

(* Between requests, as long as none have run side by side and none has     *)
(* failed, every bind file of a topology has its file.  One that is missing *)
(* hides the topology from everyone (createTopologyFull).                   *)
BindFilesExist ==
  ~overlapped /\ ~failed /\ Busy = {} =>
    \A b \in BindFiles : LiveBind(b) => disk[bindRow[b].topology][bindRow[b].path] = "file"

(* What a lab deploys is the definition that was checked and is stored with *)
(* the lab, unless the topology was rewritten between the two readings.     *)
EnvironmentIsWhatWasChecked ==
  \A l \in Labs : labRow[l].state = "live" /\ env[l] # None /\ env[l] # labRow[l].definition => l \in reread
=============================================================================
