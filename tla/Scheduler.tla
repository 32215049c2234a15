------------------------------ MODULE Scheduler ------------------------------
(***************************************************************************)
(* The lab scheduler (src/src/runtime/scheduler/scheduler.go), the lab     *)
(* requests that publish on the lab event bus (domain/lab/service.go and   *)
(* the lab commands of runtime/instance/service.go), and a restart of the  *)
(* server (reviveInstances).                                               *)
(*                                                                         *)
(* A handler of the event bus runs in the goroutine of the publisher and   *)
(* takes the mutex of each queue in turn, so every request is a sequence   *)
(* of steps between which the Run loop, the goroutines it started and      *)
(* other requests take theirs.                                             *)
(*                                                                         *)
(* The instance service is seen from outside: a lab has no instance, an    *)
(* instance that is up, or one whose last operation failed.  What goes on  *)
(* inside DeployLab and DestroyLab is the subject of module Instance.      *)
(***************************************************************************)
EXTENDS Naturals, Sequences, SequencesExt, FiniteSets

CONSTANTS
  Labs,          \* UUIDs that utils.GenerateUuid will hand out
  Procs,         \* goroutines that serve requests
  Times,         \* the start and end times a client may ask for
  NoTime,        \* a nil *time.Time: an indefinite lab
  NoLab,         \* no row in the labs table
  Overlapping,   \* bound: the requests that may begin while another is served on their lab
  MaxTime,       \* bound: the clock stops here
  MaxRequests,   \* bound: requests served in a run
  MaxRestarts    \* bound: restarts in a run

ASSUME SchedulerAssumption ==
  /\ MaxTime \in Nat
  /\ Times \subseteq 0 .. MaxTime
  /\ NoTime \notin Nat
  /\ Overlapping \subseteq {"update", "rename", "delete", "deploy", "destroy"}
  /\ NoLab \notin [start : 0 .. MaxTime, end : Times \cup {NoTime}]

VARIABLES
  now,           \* the clock, in seconds
  unused,        \* UUIDs that have not been handed out
  db,            \* the labs table: start and end of every stored lab
  env,           \* the labs whose run environment is on disk
  inst,          \* the instance service's view: "none", "up" or "failed"
  creating,      \* the lab whose instance DeployLab is creating, under instancesMutex
  containers,    \* the labs of which the provider runs containers
  dep,           \* deploymentSchedule
  des,           \* destructionSchedule
  loop,          \* the Run loop: its next step, its now and the lab it popped
  tasks,         \* goroutines the Run loop started that have not run yet
  req,           \* the request each goroutine serves
  reviving,      \* the stored labs reviveInstances has not come to yet
  waiting,       \* history: labs due for a first or a new start
  overtaken,     \* history: labs withdrawn while a popped deployment was under way
  contended,     \* history: labs two requests were served on at the same time
  requests,      \* number of requests so far
  restarts       \* number of restarts so far

bounds == <<requests, restarts>>
history == <<waiting, overtaken, contended>>
vars == <<now, unused, db, env, inst, creating, containers, dep, des, loop, tasks, req, reviving, history, bounds>>

-----------------------------------------------------------------------------
(***************************************************************************)
(* The two queues hold copies of labs, ordered by start and by end time.   *)
(***************************************************************************)
Lab(uuid, row) == [uuid |-> uuid, start |-> row.start, end |-> row.end]

LabKey(lab) == lab.uuid
StartTime(lab) == lab.start
EndTime(lab) == lab.end

D == INSTANCE ScheduleOps WITH KeyGetter <- LabKey, TimeGetter <- StartTime
X == INSTANCE ScheduleOps WITH KeyGetter <- LabKey, TimeGetter <- EndTime

(* copyLab: a new allocation, different from every copy in the queue. *)
copyLab(q, lab) ==
  LET Copy(n) == [uuid |-> lab.uuid, start |-> lab.start, end |-> lab.end, copy |-> n]
      Unused == {n \in 1 .. Len(q.schedule) + 1 : Copy(n) \notin ToSet(q.schedule)}
  IN  Copy(CHOOSE n \in Unused : \A m \in Unused : n <= m)

(***************************************************************************)
(* The handlers of the lab event bus.  Each treats the deployment queue    *)
(* first and the destruction queue second.                                 *)
(***************************************************************************)
OnDeployment(event, lab) ==
  CASE event = "lab.created"           -> D!Schedule(dep, copyLab(dep, lab))
    [] event = "lab.moved"             -> D!Reschedule(dep, copyLab(dep, lab))
    [] event = "lab.deleted"           -> D!remove(dep, lab.uuid)
    [] event = "lab.manually-deployed" -> D!remove(dep, lab.uuid)
    [] event = "lab.restored"          -> dep

(* Mutant: the end of a lab that survives a restart is not queued. *)
OnDestructionForgets(event, lab) ==
  CASE event = "lab.moved"    -> X!Reschedule(des, copyLab(des, lab))
    [] event = "lab.deleted"  -> X!remove(des, lab.uuid)
    [] event = "lab.restored" -> des
    [] event \in {"lab.created", "lab.manually-deployed"} -> X!Schedule(des, copyLab(des, lab))

OnDestruction(event, lab) ==
  CASE event = "lab.moved"   -> X!Reschedule(des, copyLab(des, lab))
    [] event = "lab.deleted" -> X!remove(des, lab.uuid)
    [] event \in {"lab.created", "lab.manually-deployed", "lab.restored"}
         -> X!Schedule(des, copyLab(des, lab))

EventOf(op) ==
  CASE op \in {"create", "revive"}  -> "lab.created"
    [] op = "update"                -> "lab.moved"
    [] op \in {"delete", "destroy"} -> "lab.deleted"
    [] op = "deploy"                -> "lab.manually-deployed"
    [] op = "restore"               -> "lab.restored"

Idle == [op |-> "idle"]

IsRunning(l) == inst[l] # "none"
CanDelete(l) == inst[l] \in {"none", "failed"}

Busy(l) == \E p \in Procs : req[p].op # "idle" /\ req[p].lab.uuid = l

(* The labs the loop popped for deployment and whose goroutine has not run, *)
(* and the lab whose instance is being created.                             *)
Starting == {l \in Labs : tasks["deploy"][l] > 0 \/ (loop.pc = "schedule" /\ loop.due.uuid = l)} \cup creating

Init ==
  /\ now = 0
  /\ unused = Labs
  /\ db = [l \in Labs |-> NoLab]
  /\ env = {}
  /\ inst = [l \in Labs |-> "none"]
  /\ creating = {}
  /\ containers = {}
  /\ dep = D!EmptySchedule
  /\ des = X!EmptySchedule
  /\ loop = [pc |-> "deploy"]
  /\ tasks = [op \in {"deploy", "destroy"} |-> [l \in Labs |-> 0]]
  /\ req = [p \in Procs |-> Idle]
  /\ reviving = {}
  /\ waiting = {}
  /\ overtaken = {}
  /\ contended = {}
  /\ requests = 0
  /\ restarts = 0

-----------------------------------------------------------------------------
(***************************************************************************)
(* Calls into the instance service.                                        *)
(***************************************************************************)

(* Calls that look an instance up wait for instancesMutex. *)
instancesUnlocked == creating = {}

(* The provider deploys lab l, or fails and leaves what it has reached. *)
Deployed(l) ==
  \/ inst' = [inst EXCEPT ![l] = "up"] /\ containers' = containers \cup {l}
  \/ inst' = [inst EXCEPT ![l] = "failed"] /\ containers' \in {containers, containers \cup {l}, containers \ {l}}

(* Mutant: DeployLab does not look for the run environment. *)
DeployLabAnyway(l) ==
  /\ instancesUnlocked
  /\ \/ IsRunning(l) /\ Deployed(l) /\ UNCHANGED creating
     \/ ~IsRunning(l) /\ creating' = {l} /\ UNCHANGED <<inst, containers>>

(* DeployLab up to where it has read the run environment, without which a  *)
(* lab that has no instance is not deployed.  A lab with an instance is    *)
(* deployed again.  Failing keeps the instance.                            *)
DeployLab(l) ==
  /\ instancesUnlocked
  /\ \/ IsRunning(l) /\ Deployed(l) /\ UNCHANGED creating
     \/ ~IsRunning(l) /\ l \in env /\ creating' = {l} /\ UNCHANGED <<inst, containers>>
     \/ ~IsRunning(l) /\ l \notin env /\ UNCHANGED <<inst, creating, containers>>

(* DestroyLab: ErrLabNotRunning without an instance; the provider succeeds *)
(* or fails, and failing keeps the instance.                               *)
DestroyLab(l) ==
  /\ instancesUnlocked
  /\ UNCHANGED creating
  /\ \/ ~IsRunning(l) /\ UNCHANGED <<inst, containers>>
     \/ IsRunning(l) /\ inst' = [inst EXCEPT ![l] = "none"] /\ containers' = containers \ {l}
     \/ IsRunning(l) /\ inst' = [inst EXCEPT ![l] = "failed"] /\ containers' \in {containers, containers \ {l}}

-----------------------------------------------------------------------------
(***************************************************************************)
(* The requests.  Each begins by reading the lab and checking; Commit is   *)
(* what it does before it publishes its event; the two handler steps       *)
(* follow; Finish is what it does after the event.                         *)
(* Goroutines are alike: an idle one is chosen.                            *)
(***************************************************************************)
Begin(p, op, pc, lab) ==
  /\ req[p] = Idle
  /\ p = CHOOSE q \in Procs : req[q] = Idle
  /\ reviving = {}
  /\ requests < MaxRequests
  /\ requests' = requests + 1
  /\ req' = [req EXCEPT ![p] = [op |-> op, pc |-> pc, lab |-> lab]]
  /\ Busy(lab.uuid) => op \in Overlapping
  /\ contended' = IF Busy(lab.uuid) THEN contended \cup {lab.uuid} ELSE contended
  /\ UNCHANGED <<now, inst, creating, containers, dep, des, loop, tasks, reviving, overtaken, restarts>>

(* lab.Service.Create: the run environment and the row exist before the    *)
(* event is published.                                                     *)
BeginCreate(p, l, start, end) ==
  LET row == [start |-> start, end |-> end] IN
  /\ l \in unused
  /\ Begin(p, "create", "deployment", Lab(l, row))
  /\ unused' = unused \ {l}
  /\ env' = env \cup {l}
  /\ db' = [db EXCEPT ![l] = row]
  /\ waiting' = waiting \cup {l}

(* lab.Service.Create when the row cannot be stored: the run environment   *)
(* stays behind.                                                           *)
CreateFails(l) ==
  /\ l \in unused
  /\ reviving = {}
  /\ requests < MaxRequests
  /\ requests' = requests + 1
  /\ unused' = unused \ {l}
  /\ env' = env \cup {l}
  /\ UNCHANGED <<now, db, inst, creating, containers, dep, des, loop, tasks, req, reviving, history, restarts>>

(* lab.Service.Update, of the start time, of the end time or of both. *)
BeginUpdate(p, l, start, end) ==
  /\ db[l] # NoLab
  /\ instancesUnlocked /\ ~IsRunning(l)
  /\ Begin(p, "update", "commit", Lab(l, [start |-> start, end |-> end]))
  /\ UNCHANGED <<unused, env, db, waiting>>

(* lab.Service.Update of the name: the whole row is saved, without event. *)
BeginRename(p, l) ==
  /\ db[l] # NoLab
  /\ instancesUnlocked /\ ~IsRunning(l)
  /\ Begin(p, "rename", "commit", Lab(l, db[l]))
  /\ UNCHANGED <<unused, env, db, waiting>>

(* lab.Service.Delete. *)
BeginDelete(p, l) ==
  /\ db[l] # NoLab
  /\ instancesUnlocked /\ CanDelete(l)
  /\ Begin(p, "delete", "commit", Lab(l, db[l]))
  /\ UNCHANGED <<unused, env, db, waiting>>

(* DeployLabCommand: a lab that has ended becomes indefinite. *)
BeginDeploy(p, l) ==
  LET ended == db[l].end # NoTime /\ db[l].end <= now
      row == [db[l] EXCEPT !.end = IF ended THEN NoTime ELSE @]
  IN  /\ db[l] # NoLab
      /\ Begin(p, "deploy", IF ended THEN "commit" ELSE "deployment", Lab(l, row))
      /\ UNCHANGED <<unused, env, db, waiting>>

(* DestroyLabCommand. *)
BeginDestroy(p, l) ==
  /\ db[l] # NoLab
  /\ Begin(p, "destroy", "deployment", Lab(l, db[l]))
  /\ UNCHANGED <<unused, env, db, waiting>>

(* The step before the event: Save writes the row, inserting it if it is   *)
(* gone; Delete removes the run environment.                               *)
Commit(p) ==
  LET lab == req[p].lab IN
  /\ req[p].op # "idle" /\ req[p].pc = "commit"
  /\ req' = [req EXCEPT ![p] = IF @.op = "rename" THEN Idle ELSE [@ EXCEPT !.pc = "deployment"]]
  /\ \/ /\ req[p].op \in {"update", "rename", "deploy"}
        /\ db' = [db EXCEPT ![lab.uuid] = [start |-> lab.start, end |-> lab.end]]
        /\ waiting' = IF req[p].op = "update" THEN waiting \cup {lab.uuid} ELSE waiting
        /\ UNCHANGED env
     \/ /\ req[p].op = "delete"
        /\ env' = env \ {lab.uuid}
        /\ UNCHANGED <<db, waiting>>
  /\ UNCHANGED <<now, unused, inst, creating, containers, dep, des, loop, tasks, reviving, overtaken, contended, bounds>>

(* That step fails: a deployment goes on all the same, every other request *)
(* returns the error.                                                      *)
CommitFails(p) ==
  /\ req[p].op # "idle" /\ req[p].pc = "commit"
  /\ req' = [req EXCEPT ![p] = IF @.op = "deploy" THEN [@ EXCEPT !.pc = "deployment"] ELSE Idle]
  /\ UNCHANGED <<now, unused, db, env, inst, creating, containers, dep, des, loop, tasks, reviving, history, bounds>>

(* The first half of the handler. *)
HandleDeployment(p) ==
  LET lab == req[p].lab
      event == EventOf(req[p].op)
  IN  /\ req[p].op # "idle" /\ req[p].pc = "deployment"
      /\ dep' = OnDeployment(event, lab)
      /\ waiting' = IF event \in {"lab.deleted", "lab.manually-deployed"}
                    THEN waiting \ {lab.uuid} ELSE waiting
      /\ req' = [req EXCEPT ![p].pc = "destruction"]
      /\ UNCHANGED <<now, unused, db, env, inst, creating, containers, des, loop, tasks, reviving, overtaken, contended, bounds>>

(* The second half. *)
HandleDestruction(p) ==
  /\ req[p].op # "idle" /\ req[p].pc = "destruction"
  /\ des' = OnDestruction(EventOf(req[p].op), req[p].lab)
  /\ overtaken' = IF EventOf(req[p].op) = "lab.deleted"
                  THEN overtaken \cup ({req[p].lab.uuid} \cap Starting)
                  ELSE overtaken \ {req[p].lab.uuid}
  /\ req' = [req EXCEPT ![p] = IF @.op \in {"delete", "deploy", "destroy"}
                               THEN [@ EXCEPT !.pc = "finish"] ELSE Idle]
  /\ UNCHANGED <<now, unused, db, env, inst, creating, containers, dep, loop, tasks, reviving, waiting, contended, bounds>>

(* The step after the event; deleting the row may fail. *)
Finish(p) ==
  LET l == req[p].lab.uuid IN
  /\ req[p].op # "idle" /\ req[p].pc = "finish"
  /\ \/ /\ req[p].op = "delete"
        /\ db' = [db EXCEPT ![l] = NoLab] \/ UNCHANGED db
        /\ UNCHANGED <<inst, creating, containers>>
     \/ req[p].op = "deploy" /\ DeployLab(l) /\ UNCHANGED db
     \/ req[p].op = "destroy" /\ DestroyLab(l) /\ UNCHANGED db
  /\ req' = [req EXCEPT ![p] = IF creating' # creating THEN [@ EXCEPT !.pc = "create"] ELSE Idle]
  /\ UNCHANGED <<now, unused, env, dep, des, loop, tasks, reviving, history, bounds>>

(* The rest of a DeployLab that creates an instance, whoever called it: the *)
(* instance is in the map when instancesMutex is released.  The row and the *)
(* run environment may be gone by then.                                     *)
CreateInstance(l) ==
  /\ l \in creating
  /\ creating' = {}
  /\ Deployed(l)
  /\ req' = [p \in Procs |-> IF req[p].op # "idle" /\ req[p].pc = "create" THEN Idle ELSE req[p]]
  /\ UNCHANGED <<now, unused, db, env, dep, des, loop, tasks, reviving, history, bounds>>

-----------------------------------------------------------------------------
(***************************************************************************)
(* The Run loop: one pop of each queue per tick, with the now it read at   *)
(* the beginning of the tick.                                              *)
(***************************************************************************)
Spawn(op, l) == tasks' = [tasks EXCEPT ![op][l] = @ + 1]

LoopPopDeployment ==
  /\ loop.pc = "deploy"
  /\ \/ /\ D!Due(dep, now)
        /\ LET lab == Head(dep.schedule) IN
             /\ Spawn("deploy", lab.uuid)
             /\ loop' = [pc |-> "schedule", now |-> now, due |-> lab]
             /\ waiting' = waiting \ {lab.uuid}
        /\ dep' = D!Popped(dep)
     \/ /\ ~D!Due(dep, now)
        /\ loop' = [pc |-> "destroy", now |-> now]
        /\ UNCHANGED <<dep, tasks, waiting>>
  /\ UNCHANGED <<now, unused, db, env, inst, creating, containers, des, req, reviving, overtaken, contended, bounds>>

LoopScheduleDestruction ==
  /\ loop.pc = "schedule"
  /\ des' = X!Schedule(des, copyLab(des, loop.due))
  /\ loop' = [pc |-> "destroy", now |-> loop.now]
  /\ UNCHANGED <<now, unused, db, env, inst, creating, containers, dep, tasks, req, reviving, history, bounds>>

(* Mutant: the loop returns after its first tick. *)
LoopReturns ==
  /\ loop.pc = "destroy"
  /\ UNCHANGED vars

(* Mutant: the lab is popped but no goroutine destroys it. *)
LoopDropsDestruction ==
  /\ loop.pc = "destroy"
  /\ loop' = [pc |-> "deploy"]
  /\ des' = IF X!Due(des, loop.now) THEN X!Popped(des) ELSE des
  /\ UNCHANGED <<now, unused, db, env, inst, creating, containers, dep, tasks, req, reviving, history, bounds>>

LoopPopDestruction ==
  /\ loop.pc = "destroy"
  /\ loop' = [pc |-> "deploy"]
  /\ \/ /\ X!Due(des, loop.now)
        /\ Spawn("destroy", Head(des.schedule).uuid)
        /\ des' = X!Popped(des)
     \/ /\ ~X!Due(des, loop.now)
        /\ UNCHANGED <<des, tasks>>
  /\ UNCHANGED <<now, unused, db, env, inst, creating, containers, dep, req, reviving, history, bounds>>

(* A goroutine the loop started gets to run. *)
RunTask(op, l) ==
  /\ tasks[op][l] > 0
  /\ tasks' = [tasks EXCEPT ![op][l] = @ - 1]
  /\ IF op = "deploy" THEN DeployLab(l) ELSE DestroyLab(l)
  /\ UNCHANGED <<now, unused, db, env, dep, des, loop, req, reviving, history, bounds>>

Tick ==
  /\ now < MaxTime
  /\ now' = now + 1
  /\ UNCHANGED <<unused, db, env, inst, creating, containers, dep, des, loop, tasks, req, reviving, history, bounds>>

-----------------------------------------------------------------------------
(***************************************************************************)
(* A restart: shut down or killed, the server loses what is in memory; the *)
(* database, the run environments and the containers stay.  Requests are   *)
(* served once reviveInstances has gone through the stored labs.           *)
(***************************************************************************)
Restart ==
  /\ restarts < MaxRestarts
  /\ restarts' = restarts + 1
  /\ inst' = [l \in Labs |-> "none"]
  /\ creating' = {}
  /\ dep' = D!EmptySchedule
  /\ des' = X!EmptySchedule
  /\ loop' = [pc |-> "deploy"]
  /\ tasks' = [op \in {"deploy", "destroy"} |-> [l \in Labs |-> 0]]
  /\ req' = [p \in Procs |-> Idle]
  /\ reviving' = {l \in Labs : db[l] # NoLab}
  /\ waiting' = {}
  /\ overtaken' = {}
  /\ contended' = {}
  /\ UNCHANGED <<now, unused, db, env, containers, requests>>

(* reviveInstances, one stored lab: it is restored if its containers run,  *)
(* queued again if its start is not over, and left alone otherwise.        *)
Revive(p, l) ==
  LET revive(op) == req' = [req EXCEPT ![p] = [op |-> op, pc |-> "deployment", lab |-> Lab(l, db[l])]]
  IN  /\ req = [q \in Procs |-> Idle]
      /\ l \in reviving
      /\ reviving' = reviving \ {l}
      /\ \/ /\ l \in containers /\ l \in env
            /\ instancesUnlocked
            /\ inst' = [inst EXCEPT ![l] = "up"]
            /\ revive("restore")
            /\ UNCHANGED waiting
         \/ /\ l \in containers /\ l \notin env
            /\ UNCHANGED <<inst, waiting, req>>
         \/ /\ l \notin containers /\ db[l].start >= now
            /\ waiting' = waiting \cup {l}
            /\ revive("revive")
            /\ UNCHANGED inst
         \/ /\ l \notin containers /\ db[l].start < now
            /\ UNCHANGED <<inst, waiting, req>>
      /\ UNCHANGED <<now, unused, db, env, creating, containers, dep, des, loop, tasks, overtaken, contended, bounds>>

-----------------------------------------------------------------------------
Serve(p) == Commit(p) \/ CommitFails(p) \/ HandleDeployment(p) \/ HandleDestruction(p) \/ Finish(p)

Loop == LoopPopDeployment \/ LoopScheduleDestruction \/ LoopPopDestruction

Next ==
  \/ \E p \in Procs, l \in Labs, start \in Times, end \in Times \cup {NoTime} : BeginCreate(p, l, start, end)
  \/ \E p \in Procs, l \in Labs, start \in Times \cup {now}, end \in Times \cup {NoTime} : BeginUpdate(p, l, start, end)
  \/ \E p \in Procs, l \in Labs :
       BeginRename(p, l) \/ BeginDelete(p, l) \/ BeginDeploy(p, l) \/ BeginDestroy(p, l) \/ Revive(p, l)
  \/ \E l \in Labs : CreateFails(l) \/ CreateInstance(l)
  \/ \E p \in Procs : Serve(p)
  \/ Loop
  \/ \E op \in {"deploy", "destroy"}, l \in Labs : RunTask(op, l)
  \/ Tick
  \/ Restart

Spec == Init /\ [][Next]_vars

(* The loop, every goroutine and time go on; nothing obliges a client to   *)
(* send a request or the server to restart.                                *)
Fairness ==
  /\ WF_vars(Loop)
  /\ WF_vars(Tick)
  /\ \A p \in Procs : WF_vars(Serve(p)) /\ WF_vars(\E l \in Labs : Revive(p, l))
  /\ \A op \in {"deploy", "destroy"}, l \in Labs : WF_vars(RunTask(op, l))
  /\ \A l \in Labs : WF_vars(CreateInstance(l))

FairSpec == Spec /\ Fairness

-----------------------------------------------------------------------------
Row == [start : 0 .. MaxTime, end : Times \cup {NoTime}]
LabCopy == [uuid : Labs, start : 0 .. MaxTime, end : Times \cup {NoTime}]

(* Every variable holds a value of its type. *)
TypeOK ==
  /\ now \in 0 .. MaxTime
  /\ unused \subseteq Labs
  /\ db \in [Labs -> Row \cup {NoLab}]
  /\ env \subseteq Labs /\ containers \subseteq Labs
  /\ creating \subseteq Labs
  /\ reviving \subseteq Labs /\ waiting \subseteq Labs
  /\ overtaken \subseteq Labs /\ contended \subseteq Labs
  /\ inst \in [Labs -> {"none", "up", "failed"}]
  /\ loop.pc \in {"deploy", "schedule", "destroy"}
  /\ tasks \in [{"deploy", "destroy"} -> [Labs -> Nat]]
  /\ \A p \in Procs : req[p] # Idle => req[p].lab \in LabCopy

Entries(q, l) == {item \in ToSet(q.schedule) : item.uuid = l}

(* No request on the lab is being served and the loop holds no copy of it. *)
Quiet(l) ==
  /\ ~Busy(l)
  /\ l \notin reviving
  /\ ~(loop.pc = "schedule" /\ loop.due.uuid = l)

(* A lab whose scheduled start is still to come is in the deployment queue *)
(* with the start time of its row, through creations, moves, and restarts  *)
(* that happen before the start (scheduler.go:155-168,                     *)
(* instance/service.go:1288).  Requests that overlap on one lab may leave  *)
(* row and queue with different times until the next restart.              *)
PendingStartIsQueued ==
  \A l \in waiting \ contended : Quiet(l) =>
    db[l] # NoLab /\ \E item \in Entries(dep, l) : item.start = db[l].start

(* A stored lab that is up before its end time has its destruction queued  *)
(* for exactly that time: no sequence of deployments, destructions, moves  *)
(* and restarts loses it (scheduler.go:116, 170-177).  The exceptions are  *)
(* lab.deleted handled between a pop of the loop and the run of the        *)
(* goroutine that pop started, and requests that overlap on one lab.       *)
RunningLabHasItsEnd ==
  \A l \in Labs :
    (/\ Quiet(l) /\ l \notin overtaken \cup contended /\ inst[l] = "up"
     /\ l \in env /\ db[l] # NoLab /\ db[l].end # NoTime /\ db[l].end > now)
      => \E item \in Entries(des, l) : item.end = db[l].end

(* The two queues, which are in memory only, say what the rows say: starts *)
(* that are to come and ends of labs that are up are queued with their     *)
(* times (scheduler.go:89-178).                                            *)
QueuesFollowRows ==
  /\ TypeOK
  /\ PendingStartIsQueued
  /\ RunningLabHasItsEnd

(* A deleted lab without an instance never gets one again, however often   *)
(* it is queued and after a restart: a deployment that was popped before   *)
(* the deletion finds no run environment.  Only a deployment that had read *)
(* the run environment before it was removed still creates the instance    *)
(* (lab/service.go:340-357, instance/service.go:557-614).                  *)
DeletedLabsStayDown ==
  [][\A l \in Labs \ unused :
       (db[l] = NoLab /\ inst[l] = "none" /\ l \notin creating) => (inst'[l] = "none" /\ l \notin creating')]_vars

(* A due deployment is not left behind: the entry leaves the queue, and    *)
(* the goroutine that deploys the lab runs (scheduler.go:104-117).         *)
DueDeploymentRuns ==
  \A l \in Labs : []<>(tasks["deploy"][l] = 0 /\ \A item \in Entries(dep, l) : item.start > now)

(* A lab that is up when its end is due goes down (or is left failed by    *)
(* the provider), whatever else is queued and whatever is requested        *)
(* meanwhile, unless it is deleted or made indefinite (scheduler.go:119-   *)
(* 125): no entry is lost between the pop and the goroutine.               *)
EndedLabGoesDown ==
  \A l \in Labs :
    (inst[l] = "up" /\ l \in env /\ \E item \in Entries(des, l) : item.end <= now)
      ~> (inst[l] # "up" \/ l \notin env \/ db[l].end = NoTime)
=============================================================================
