------------------------------ MODULE Instance ------------------------------
(***************************************************************************)
(* The instance service (src/src/runtime/instance/service.go, instance.go) *)
(* for one lab: deployments, destructions, node commands, the startup      *)
(* listeners of the nodes and the provider's event callback.               *)
(*                                                                         *)
(* A request is a goroutine.  It looks the instance up in the map, may     *)
(* cancel the context of the deployment under way, takes the instance's    *)
(* OperationMutex and calls the provider; each of these is a step, because *)
(* any other goroutine may run in between.  The sections under             *)
(* instancesMutex, DeploymentMutex and DataMutex are single steps.         *)
(*                                                                         *)
(* Namespaces, log lines and time stamps are left out, and so are the      *)
(* addresses of a node, which come and go with its container id.           *)
(***************************************************************************)
EXTENDS Naturals, FiniteSets, Bags

CONSTANTS
  Procs,         \* goroutines that serve requests
  Nodes,         \* the nodes of the lab's topology
  NoInstance,    \* no entry in Service.instances
  Free,          \* an OperationMutex that is not held
  Commands,      \* the node commands clients send
  Observed,      \* bound: the nodes whose startup and whose events are followed
  MaxRequests,   \* bound: requests served in a run
  MaxCrashes     \* bound: containers that stop by themselves in a run

ASSUME InstanceAssumption ==
  /\ MaxRequests \in Nat
  /\ Observed \subseteq Nodes
  /\ Free \notin Procs
  /\ NoInstance \notin Nat
  /\ Commands \subseteq {"start", "stop", "restart"}

VARIABLES
  instances,        \* Service.instances[lab]
  missing,          \* history: the nodes an instance's last inspection did not find
  made,             \* number of Instance objects so far
  state,            \* Instance.State
  destroyed,        \* the instances with IsDestroyed
  dctx,             \* Instance.DeploymentCtx, 0 for nil
  opLock,           \* the holder of Instance.OperationMutex
  node,             \* Instance.Nodes
  contexts,         \* number of deployment contexts so far
  cancelled,        \* the contexts that have been cancelled
  pc,               \* the next step of every request
  call,             \* the local variables of every request
  seen,             \* what the provider last told every request
  listeners,        \* the bag of running startup listeners
  watcher,          \* the provider's event callback
  container,        \* external: the containers of the lab
  generation,       \* external: number of times containers have been created
  events,           \* external: the nodes with an event to deliver
  monitored,        \* Monitor.monitoredNodes
  lastDeployFailed, \* Topology.LastDeployFailed
  stray,            \* history: DestroyLab went on with a destroyed instance
  requests,         \* number of requests so far
  crashes,          \* number of crashes so far
  down              \* the server has panicked

mapVars == <<instances, made, missing>>
statusVars == <<state, destroyed, stray>>
ctxVars == <<dctx, contexts, cancelled>>
localVars == <<call, seen>>
followers == <<listeners, watcher, monitored>>
nodeVars == <<node, followers>>
providerVars == <<container, generation, events>>
bounds == <<requests, crashes>>

(* Which instances there are, and who is at work on them. *)
lifecycle == <<mapVars, statusVars, ctxVars, opLock, pc, call, requests>>

vars == <<lifecycle, seen, nodeVars, providerVars, lastDeployFailed, crashes, down>>

Ids == 1 .. MaxRequests + 1

-----------------------------------------------------------------------------
(***************************************************************************)
(* Nodes and containers.  Container ids are numbers, 0 is the empty id.    *)
(***************************************************************************)
NodeStates == {"stopped", "starting", "running", "stopping"}
InstanceNode == [state : NodeStates, id : Nat, ready : BOOLEAN]
Container == [status : {"absent", "exited", "running"}, id : Nat]

Absent == [status |-> "absent", id |-> 0]

NewNode == [state |-> "stopped", id |-> 0, ready |-> FALSE]

(* InstanceNode.Reset *)
Reset(nd) == [state |-> "stopping", id |-> 0, ready |-> FALSE]

(* parseDockerState *)
StateOf(c) == IF c.status = "running" THEN "running" ELSE "stopped"

(* updateNodeWithContainer: a stopped node keeps no container id. *)
updateNodeWithContainer(nd, c) ==
  [nd EXCEPT !.state = StateOf(c), !.id = IF StateOf(c) = "stopped" THEN 0 ELSE c.id]

(* The end of fetchNode: nothing if the node was not found or if its state *)
(* is the one reported.                                                    *)
FetchedNode(nd, c) ==
  IF c.status = "absent" \/ StateOf(c) = nd.state THEN nd ELSE updateNodeWithContainer(nd, c)

WithState(i, s) == [node EXCEPT ![i] = [n \in Nodes |-> [@[n] EXCEPT !.state = s]]]

(* External: what may be left of a lab whose nodes have been created anew: *)
(* containerlab goes on after a node that could not be created.            *)
Made(g) == {Absent} \cup {[status |-> s, id |-> g] : s \in {"exited", "running"}}
Created(g) == [Nodes -> Made(g)]

(* External: an operation that changes only the nodes ns. *)
Changed(ns, c) == [n \in Nodes |-> IF n \in ns THEN c[n] ELSE container[n]]

(* External: an inspection under context c, of one or of all nodes.  It    *)
(* fails under a nil or cancelled context and may fail under any other.    *)
Inspectable(c) == c # 0 /\ c \notin cancelled

-----------------------------------------------------------------------------
Nothing == [n \in Nodes |-> Absent]

NoCall == [inst |-> 0, ctx |-> 0, again |-> FALSE, command |-> "none", node |-> "none"]

Quiet == [inst |-> 0, node |-> "none", seen |-> Absent]

Listener(i, n, logs) == [inst |-> i, node |-> n, ctx |-> 0, id |-> 0, at |-> "begin", logs |-> logs]

InitEmpty ==
  /\ instances = NoInstance
  /\ made = 0
  /\ missing = [i \in Ids |-> {}]
  /\ state = [i \in Ids |-> "deploying"]
  /\ dctx = [i \in Ids |-> 0]
  /\ contexts = 0
  /\ node = [i \in Ids |-> [n \in Nodes |-> NewNode]]
  /\ container = Nothing
  /\ generation = 0
  /\ listeners = EmptyBag

(* reviveInstances found containers of the lab.  A node that has none is   *)
(* passed over, and the lab is running all the same.                       *)
InitRevived ==
  /\ instances = 1
  /\ made = 1
  /\ state = [i \in Ids |-> IF i = 1 THEN "running" ELSE "deploying"]
  /\ dctx = [i \in Ids |-> IF i = 1 THEN 1 ELSE 0]
  /\ contexts = 1
  /\ generation = 1
  /\ container \in Created(1) \ {Nothing}
  /\ missing = [i \in Ids |-> IF i = 1 THEN {n \in Nodes : container[n] = Absent} ELSE {}]
  /\ node = [i \in Ids |-> [n \in Nodes |->
               IF i = 1 /\ n \notin missing[1]
               THEN updateNodeWithContainer(Reset(NewNode), container[n]) ELSE NewNode]]
  /\ listeners = SetToBag({Listener(1, n, FALSE) : n \in {m \in Observed : node[1][m].state = "running"}})

Init ==
  /\ InitEmpty \/ InitRevived
  /\ destroyed = {}
  /\ opLock = [i \in Ids |-> Free]
  /\ cancelled = {}
  /\ pc = [p \in Procs |-> "idle"]
  /\ call = [p \in Procs |-> NoCall]
  /\ seen = [p \in Procs |-> Nothing]
  /\ watcher = Quiet
  /\ events = {}
  /\ monitored = {}
  /\ lastDeployFailed = FALSE
  /\ stray = FALSE
  /\ requests = 0
  /\ crashes = 0
  /\ down = FALSE

Begin(p, step, locals) ==
  /\ pc[p] = "idle"
  /\ requests < MaxRequests
  /\ requests' = requests + 1
  /\ pc' = [pc EXCEPT ![p] = step]
  /\ call' = [call EXCEPT ![p] = locals]
  /\ UNCHANGED <<seen, crashes>>

Goto(p, step) == pc' = [pc EXCEPT ![p] = step]

(* The request returns. *)
Return(p) ==
  /\ pc' = [pc EXCEPT ![p] = "idle"]
  /\ call' = [call EXCEPT ![p] = NoCall]
  /\ seen' = [seen EXCEPT ![p] = Nothing]

(* The request returns and its deferred Unlock runs. *)
UnlockAndReturn(p) ==
  /\ opLock' = [opLock EXCEPT ![call[p].inst] = Free]
  /\ Return(p)

-----------------------------------------------------------------------------
(***************************************************************************)
(* DeployLab                                                               *)
(***************************************************************************)

(* A lab with an instance is deployed again. *)
BeginRedeploy(p) ==
  /\ instances # NoInstance
  /\ Begin(p, "install", [NoCall EXCEPT !.inst = instances, !.again = TRUE])
  /\ UNCHANGED <<mapVars, statusVars, ctxVars, opLock, nodeVars, providerVars, lastDeployFailed>>

(* A lab without one gets it, all its nodes starting. *)
BeginDeploy(p) ==
  /\ instances = NoInstance
  /\ Begin(p, "install", [NoCall EXCEPT !.inst = made + 1])
  /\ made' = made + 1
  /\ instances' = made + 1
  /\ state' = [state EXCEPT ![made + 1] = "deploying"]
  /\ node' = [node EXCEPT ![made + 1] = [n \in Nodes |-> [NewNode EXCEPT !.state = "starting"]]]
  /\ UNCHANGED <<missing, destroyed, stray, ctxVars, opLock, followers, providerVars, lastDeployFailed>>

(* Its run environment cannot be read (the topology is marked) or its      *)
(* definition cannot be parsed (it is not).                                *)
DeployRefused(p) ==
  /\ instances = NoInstance
  /\ pc[p] = "idle"
  /\ requests < MaxRequests
  /\ requests' = requests + 1
  /\ lastDeployFailed' \in {TRUE, lastDeployFailed}
  /\ UNCHANGED <<mapVars, statusVars, ctxVars, opLock, pc, localVars, nodeVars, providerVars, crashes>>

(* A new context replaces the one of the deployment before, cancelling it. *)
InstallContext(p) ==
  LET i == call[p].inst IN
  /\ pc[p] = "install"
  /\ Goto(p, "lockDeploy")
  /\ contexts' = contexts + 1
  /\ cancelled' = IF dctx[i] = 0 THEN cancelled ELSE cancelled \cup {dctx[i]}
  /\ dctx' = [dctx EXCEPT ![i] = contexts + 1]
  /\ call' = [call EXCEPT ![p].ctx = contexts + 1]
  /\ UNCHANGED <<mapVars, statusVars, opLock, seen, nodeVars, providerVars, lastDeployFailed, bounds>>

(* The mutex is free, but the deployment has been superseded or the        *)
(* instance destroyed.                                                     *)
DeployIgnored(p) ==
  /\ pc[p] = "lockDeploy"
  /\ opLock[call[p].inst] = Free
  /\ call[p].ctx \in cancelled \/ call[p].inst \in destroyed
  /\ Return(p)
  /\ UNCHANGED <<mapVars, statusVars, ctxVars, opLock, nodeVars, providerVars, lastDeployFailed, bounds>>

(* Mutant: only a first deployment is announced; a lab that is redeployed  *)
(* keeps its state until the redeployment has come to an end.              *)
LockForDeployQuietly(p) ==
  LET i == call[p].inst IN
  /\ pc[p] = "lockDeploy"
  /\ opLock[i] = Free
  /\ call[p].ctx \notin cancelled /\ i \notin destroyed
  /\ opLock' = [opLock EXCEPT ![i] = p]
  /\ Goto(p, "deploy")
  /\ node' = IF call[p].again THEN [node EXCEPT ![i] = [n \in Nodes |-> Reset(@[n])]] ELSE node
  /\ UNCHANGED <<mapVars, statusVars, ctxVars, localVars, followers, providerVars,
                 lastDeployFailed, bounds>>

(* Mutant: a deployment that waited does not look whether the instance has *)
(* been destroyed.                                                         *)
LockForDeployUnchecked(p) ==
  LET i == call[p].inst IN
  /\ pc[p] = "lockDeploy"
  /\ opLock[i] = Free
  /\ call[p].ctx \notin cancelled
  /\ opLock' = [opLock EXCEPT ![i] = p]
  /\ Goto(p, "deploy")
  /\ state' = [state EXCEPT ![i] = "deploying"]
  /\ node' = IF call[p].again THEN [node EXCEPT ![i] = [n \in Nodes |-> Reset(@[n])]] ELSE node
  /\ UNCHANGED <<mapVars, destroyed, stray, ctxVars, localVars, followers, providerVars,
                 lastDeployFailed, bounds>>

LockForDeploy(p) ==
  LET i == call[p].inst IN
  /\ pc[p] = "lockDeploy"
  /\ opLock[i] = Free
  /\ call[p].ctx \notin cancelled /\ i \notin destroyed
  /\ opLock' = [opLock EXCEPT ![i] = p]
  /\ Goto(p, "deploy")
  /\ state' = [state EXCEPT ![i] = "deploying"]
  /\ node' = IF call[p].again THEN [node EXCEPT ![i] = [n \in Nodes |-> Reset(@[n])]] ELSE node
  /\ UNCHANGED <<mapVars, destroyed, stray, ctxVars, localVars, followers, providerVars,
                 lastDeployFailed, bounds>>

(* Provider.Deploy or Provider.Redeploy succeeds, under a cancelled        *)
(* context too.                                                            *)
DeploySucceeds(p) ==
  /\ pc[p] = "deploy"
  /\ Goto(p, "inspect")
  /\ container' \in Created(generation + 1)
  /\ generation' = generation + 1
  /\ events' = Nodes
  /\ UNCHANGED <<mapVars, statusVars, ctxVars, opLock, localVars, nodeVars, lastDeployFailed, bounds>>

(* Mutant: a deployment that fails does not release the mutex. *)
DeployFailsLocked(p) ==
  /\ pc[p] = "deploy"
  /\ Return(p)
  /\ state' = [state EXCEPT ![call[p].inst] = "failed"]
  /\ node' = WithState(call[p].inst, "stopped")
  /\ lastDeployFailed' = TRUE
  /\ UNCHANGED <<mapVars, destroyed, stray, ctxVars, opLock, followers, providerVars, bounds>>

(* It fails, having created, replaced or removed some of the containers.   *)
(* An abort is ignored, leaving the instance to whoever cancelled the      *)
(* context.                                                                *)
DeployFails(p) ==
  /\ pc[p] = "deploy"
  /\ UnlockAndReturn(p)
  /\ generation' = generation + 1
  /\ \E touched \in SUBSET Nodes :
       /\ \E c \in [touched -> Made(generation + 1)] : container' = Changed(touched, c)
       /\ events' = events \cup touched
  /\ IF call[p].ctx \in cancelled
     THEN UNCHANGED <<state, node, lastDeployFailed>>
     ELSE /\ state' = [state EXCEPT ![call[p].inst] = "failed"]
          /\ node' = WithState(call[p].inst, "stopped")
          /\ lastDeployFailed' = TRUE
  /\ UNCHANGED <<mapVars, destroyed, stray, ctxVars, followers, bounds>>

(* InspectLab under the current context of the instance. *)
InspectLab(p) ==
  /\ pc[p] = "inspect"
  /\ Inspectable(dctx[call[p].inst])
  /\ Goto(p, "attach")
  /\ seen' = [seen EXCEPT ![p] = container]
  /\ UNCHANGED <<mapVars, statusVars, ctxVars, opLock, call, nodeVars, providerVars,
                 lastDeployFailed, bounds>>

InspectLabFails(p) ==
  /\ pc[p] = "inspect"
  /\ UnlockAndReturn(p)
  /\ node' = WithState(call[p].inst, "stopped")
  /\ IF call[p].ctx \in cancelled
     THEN UNCHANGED <<state, lastDeployFailed>>
     ELSE /\ state' = [state EXCEPT ![call[p].inst] = "failed"]
          /\ lastDeployFailed' = TRUE
  /\ UNCHANGED <<mapVars, destroyed, stray, ctxVars, followers, providerVars, bounds>>

(* inspectLabAndUpdateNodes applies what it has seen; a node that was not  *)
(* found is marked stopped, and the deployment goes on.                    *)
AttachNodes(p) ==
  /\ pc[p] = "attach"
  /\ Goto(p, "stream")
  /\ node' = [node EXCEPT ![call[p].inst] = [n \in Nodes |->
                IF seen[p][n].status = "absent" THEN [@[n] EXCEPT !.state = "stopped"]
                ELSE updateNodeWithContainer(Reset(@[n]), seen[p][n])]]
  /\ missing' = [missing EXCEPT ![call[p].inst] = {n \in Nodes : seen[p][n].status = "absent"}]
  /\ UNCHANGED <<instances, made, statusVars, ctxVars, opLock, localVars, followers, providerVars,
                 lastDeployFailed, bounds>>

Streamed(i) == {n \in Nodes : node[i][n].state # "stopped"}

Listen(i, ns, logs) == listeners' = listeners (+) SetToBag({Listener(i, n, logs) : n \in ns \cap Observed})

(* Every node that is not stopped gets a listener, and the lab is running. *)
DeployFinishes(p) ==
  LET i == call[p].inst IN
  /\ pc[p] = "stream"
  /\ UnlockAndReturn(p)
  /\ Listen(i, Streamed(i), FALSE)
  /\ state' = [state EXCEPT ![i] = "running"]
  /\ lastDeployFailed' = FALSE
  /\ UNCHANGED <<mapVars, destroyed, stray, ctxVars, node, watcher, monitored, providerVars, bounds>>

(* The context is cancelled and StreamContainerLogs fails for a node: the  *)
(* nodes before it already have their listeners.                           *)
DeployAborts(p) ==
  LET i == call[p].inst IN
  /\ pc[p] = "stream"
  /\ call[p].ctx \in cancelled
  /\ UnlockAndReturn(p)
  /\ \E ns \in SUBSET Streamed(i) : ns # Streamed(i) /\ Listen(i, ns, FALSE)
  /\ UNCHANGED <<mapVars, statusVars, ctxVars, node, watcher, monitored, providerVars,
                 lastDeployFailed, bounds>>

-----------------------------------------------------------------------------
(***************************************************************************)
(* DestroyLab                                                              *)
(***************************************************************************)
BeginDestroy(p) ==
  /\ instances # NoInstance
  /\ Begin(p, "cancel", [NoCall EXCEPT !.inst = instances])
  /\ UNCHANGED <<mapVars, statusVars, ctxVars, opLock, nodeVars, providerVars, lastDeployFailed>>

CancelDeployment(p) ==
  LET i == call[p].inst IN
  /\ pc[p] = "cancel"
  /\ Goto(p, "lockDestroy")
  /\ cancelled' = IF dctx[i] = 0 THEN cancelled ELSE cancelled \cup {dctx[i]}
  /\ UNCHANGED <<mapVars, statusVars, dctx, contexts, opLock, localVars, nodeVars, providerVars,
                 lastDeployFailed, bounds>>

(* The nodes are marked stopped; their ids and readiness stay. *)
LockForDestroy(p) ==
  LET i == call[p].inst IN
  /\ pc[p] = "lockDestroy"
  /\ opLock[i] = Free
  /\ opLock' = [opLock EXCEPT ![i] = p]
  /\ Goto(p, "destroy")
  /\ state' = [state EXCEPT ![i] = "stopping"]
  /\ node' = WithState(i, "stopped")
  /\ stray' = (stray \/ i \in destroyed)
  /\ UNCHANGED <<mapVars, destroyed, ctxVars, localVars, followers, providerVars, lastDeployFailed, bounds>>

DestroySucceeds(p) ==
  /\ pc[p] = "destroy"
  /\ Goto(p, "unmap")
  /\ container' = Nothing
  /\ events' = Nodes
  /\ destroyed' = destroyed \cup {call[p].inst}
  /\ UNCHANGED <<mapVars, state, stray, ctxVars, opLock, localVars, nodeVars, generation,
                 lastDeployFailed, bounds>>

(* Mutant: the instance is left stopping. *)
DestroyGivesUp(p) ==
  /\ pc[p] = "destroy"
  /\ UnlockAndReturn(p)
  /\ UNCHANGED <<mapVars, statusVars, ctxVars, nodeVars, providerVars, lastDeployFailed, bounds>>

(* Some of the containers may be gone. *)
DestroyFails(p) ==
  /\ pc[p] = "destroy"
  /\ UnlockAndReturn(p)
  /\ \E gone \in SUBSET Nodes :
       /\ container' = Changed(gone, Nothing)
       /\ events' = events \cup gone
  /\ state' = [state EXCEPT ![call[p].inst] = "failed"]
  /\ UNCHANGED <<mapVars, destroyed, stray, ctxVars, nodeVars, generation, lastDeployFailed, bounds>>

(* delete(s.instances, lab.UUID), whatever instance is there. *)
Unmap(p) ==
  /\ pc[p] = "unmap"
  /\ UnlockAndReturn(p)
  /\ instances' = NoInstance
  /\ UNCHANGED <<made, missing, statusVars, ctxVars, nodeVars, providerVars, lastDeployFailed, bounds>>

-----------------------------------------------------------------------------
(***************************************************************************)
(* StartNodeCommand, StopNodeCommand, RestartNodeCommand, for nodes whose  *)
(* kind may be restarted                                                   *)
(***************************************************************************)
Refuses(command) ==
  CASE command = "start"   -> {"starting", "running", "stopping"}
    [] command = "stop"    -> {"stopping", "stopped"}
    [] command = "restart" -> {"stopping", "starting"}

(* validateNodeCommand *)
BeginNodeCommand(p, command, n) ==
  /\ instances # NoInstance
  /\ Begin(p, "tryLock", [NoCall EXCEPT !.inst = instances, !.command = command, !.node = n])
  /\ UNCHANGED <<mapVars, statusVars, ctxVars, opLock, nodeVars, providerVars, lastDeployFailed>>

(* ErrLabOperationInProgress, or ErrInvalidNodeOperation. *)
NodeCommandRefused(p) ==
  LET i == call[p].inst IN
  /\ pc[p] = "tryLock"
  /\ \/ opLock[i] # Free
     \/ node[i][call[p].node].state \in Refuses(call[p].command)
  /\ Return(p)
  /\ UNCHANGED <<mapVars, statusVars, ctxVars, opLock, nodeVars, providerVars, lastDeployFailed, bounds>>

(* Mutant: the answer of TryLock is ignored. *)
LockForNodeCommandAnyway(p) ==
  LET i == call[p].inst
      n == call[p].node
  IN  /\ pc[p] = "tryLock"
      /\ node[i][n].state \notin Refuses(call[p].command)
      /\ opLock' = [opLock EXCEPT ![i] = p]
      /\ Goto(p, "node")
      /\ call' = [call EXCEPT ![p].ctx = dctx[i]]
      /\ node' = IF call[p].command = "start" THEN node ELSE [node EXCEPT ![i][n] = Reset(@)]
      /\ UNCHANGED <<mapVars, statusVars, ctxVars, seen, followers, providerVars, lastDeployFailed, bounds>>

(* The command takes the deployment context as it is; stopping and         *)
(* restarting reset the node before the provider is called.                *)
LockForNodeCommand(p) ==
  LET i == call[p].inst
      n == call[p].node
  IN  /\ pc[p] = "tryLock"
      /\ opLock[i] = Free
      /\ node[i][n].state \notin Refuses(call[p].command)
      /\ opLock' = [opLock EXCEPT ![i] = p]
      /\ Goto(p, "node")
      /\ call' = [call EXCEPT ![p].ctx = dctx[i]]
      /\ node' = IF call[p].command = "start" THEN node ELSE [node EXCEPT ![i][n] = Reset(@)]
      /\ UNCHANGED <<mapVars, statusVars, ctxVars, seen, followers, providerVars, lastDeployFailed, bounds>>

(* External: StartNode and the others act on the container of the node,    *)
(* whichever deployment made it.                                           *)
Commanded(p) ==
  /\ container[call[p].node].status # "absent"
  /\ container' = [container EXCEPT ![call[p].node].status =
                     IF call[p].command = "stop" THEN "exited" ELSE "running"]
  /\ events' = events \cup {call[p].node}

NodeCommandSucceeds(p) ==
  /\ pc[p] = "node"
  /\ Inspectable(call[p].ctx)
  /\ Commanded(p)
  /\ Goto(p, "fetch")
  /\ UNCHANGED <<mapVars, statusVars, ctxVars, opLock, localVars, nodeVars, generation,
                 lastDeployFailed, bounds>>

(* The error is returned and the node is left as it is, whether or not the *)
(* container has been stopped or started.                                  *)
NodeCommandFails(p) ==
  /\ pc[p] = "node"
  /\ UnlockAndReturn(p)
  /\ UNCHANGED <<container, events>> \/ Commanded(p)
  /\ UNCHANGED <<mapVars, statusVars, ctxVars, nodeVars, generation, lastDeployFailed, bounds>>

(* fetchNode asks the provider under the current context of the instance. *)
FetchNode(p) ==
  LET n == call[p].node IN
  /\ pc[p] = "fetch"
  /\ Goto(p, "apply")
  /\ \/ Inspectable(dctx[call[p].inst]) /\ seen' = [seen EXCEPT ![p][n] = container[n]]
     \/ UNCHANGED seen
  /\ UNCHANGED <<mapVars, statusVars, ctxVars, opLock, call, nodeVars, providerVars,
                 lastDeployFailed, bounds>>

ApplyNode(p) ==
  LET i == call[p].inst
      n == call[p].node
  IN  /\ pc[p] = "apply"
      /\ UnlockAndReturn(p)
      /\ node' = [node EXCEPT ![i][n] = FetchedNode(@, seen[p][n])]
      /\ IF call[p].command = "stop" THEN UNCHANGED listeners ELSE Listen(i, {n}, TRUE)
      /\ UNCHANGED <<mapVars, statusVars, ctxVars, watcher, monitored, providerVars,
                     lastDeployFailed, bounds>>

-----------------------------------------------------------------------------
(***************************************************************************)
(* startNodeStartupListener and onNodeStarted                              *)
(***************************************************************************)
Becomes(l, m) == listeners' = (listeners (-) SetToBag({l})) (+) SetToBag({m})
Ends(l) == listeners' = listeners (-) SetToBag({l})

(* The goroutine runs and takes the context of the deployment. *)
ListenerBegins(l) ==
  /\ l.at = "begin"
  /\ Becomes(l, [l EXCEPT !.at = "probe", !.ctx = dctx[l.inst]])
  /\ UNCHANGED <<node, monitored>>

(* waitForNodeStarted: the node answers the probe. *)
ProbeSucceeds(l) ==
  /\ l.at = "probe"
  /\ Inspectable(l.ctx)
  /\ container[l.node].status = "running"
  /\ Becomes(l, [l EXCEPT !.at = "started"])
  /\ UNCHANGED <<node, monitored>>

(* It fails or times out: the node is stopped, unless the deployment is    *)
(* over.                                                                   *)
ProbeFails(l) ==
  /\ l.at = "probe"
  /\ Ends(l)
  /\ node' = IF l.ctx \in cancelled THEN node
             ELSE [node EXCEPT ![l.inst][l.node].state = "stopped"]
  /\ UNCHANGED monitored

(* A listener that also streams logs ends if it cannot any more. *)
StreamingEnds(l) ==
  /\ l.at = "started"
  /\ l.logs /\ l.ctx \in cancelled
  /\ Ends(l)
  /\ UNCHANGED <<node, monitored>>

(* onNodeStarted takes the context of the instance anew and asks for the   *)
(* interfaces of the node.                                                 *)
NodeStarted(l) ==
  /\ l.at = "started"
  /\ Becomes(l, [l EXCEPT !.at = "interfaces", !.ctx = dctx[l.inst]])
  /\ UNCHANGED <<node, monitored>>

(* SetReady under DataMutex. *)
NodeReady(l) ==
  /\ l.at = "interfaces"
  /\ IF l.ctx \in cancelled
     THEN Ends(l) /\ UNCHANGED node
     ELSE /\ Becomes(l, [l EXCEPT !.at = "monitor", !.id = node[l.inst][l.node].id])
          /\ node' = [node EXCEPT ![l.inst][l.node].ready = TRUE]
  /\ UNCHANGED monitored

(* monitor.AddNode keeps an entry of the same container id: nodes share    *)
(* the empty one.                                                          *)
NodeMonitored(l) ==
  /\ l.at = "monitor"
  /\ Ends(l)
  /\ monitored' = IF \E m \in monitored : m.id = l.id /\ (l.id = 0 \/ m.node = l.node) THEN monitored
                  ELSE monitored \cup {[id |-> l.id, node |-> l.node, ctx |-> l.ctx]}
  /\ UNCHANGED node

ListenerStep(l) ==
  /\ \/ ListenerBegins(l) \/ ProbeSucceeds(l) \/ ProbeFails(l)
     \/ StreamingEnds(l) \/ NodeStarted(l) \/ NodeReady(l) \/ NodeMonitored(l)
  /\ UNCHANGED <<lifecycle, seen, watcher, providerVars, lastDeployFailed, crashes>>

(* Mutant: the monitor only looks at the context it was given. *)
MonitorDropsCancelled(m) ==
  /\ m.ctx \in cancelled
  /\ monitored' = monitored \ {m}
  /\ UNCHANGED <<lifecycle, seen, node, listeners, watcher, providerVars, lastDeployFailed, crashes>>

(* External: reading the stats of a node is bound to fail. *)
StatsUnreadable(m) == container[m.node].status # "running" \/ m.ctx \in cancelled

(* Monitor.Run drops a node whose stats cannot be read, for this or for    *)
(* any other reason.                                                       *)
MonitorDrops(m) ==
  /\ monitored' = monitored \ {m}
  /\ UNCHANGED <<lifecycle, seen, node, listeners, watcher, providerVars, lastDeployFailed, crashes>>

-----------------------------------------------------------------------------
(***************************************************************************)
(* registerProviderEventListener                                           *)
(***************************************************************************)

(* External: a container stops by itself. *)
ContainerStops(n) ==
  /\ crashes < MaxCrashes
  /\ container[n].status = "running"
  /\ crashes' = crashes + 1
  /\ container' = [container EXCEPT ![n].status = "exited"]
  /\ events' = events \cup {n}
  /\ UNCHANGED <<lifecycle, seen, nodeVars, generation, lastDeployFailed>>

(* The callback looks the node up and fetches it, without OperationMutex.  *)
(* Clabernetes answers an inspection under a nil context with an error.    *)
EventArrives(n) ==
  /\ watcher = Quiet
  /\ n \in events
  /\ events' = events \ {n}
  /\ \/ /\ instances # NoInstance /\ Inspectable(dctx[instances])
        /\ watcher' = [inst |-> instances, node |-> n, seen |-> container[n]]
     \/ UNCHANGED watcher
  /\ UNCHANGED <<lifecycle, seen, node, listeners, monitored, container, generation,
                 lastDeployFailed, crashes>>

(* An instance is in the map before it has a context.  Containerlab's      *)
(* inspection panics under a nil one, in the goroutine of the provider's   *)
(* events, where nothing recovers.                                         *)
EventPanics(n) ==
  /\ ~down
  /\ watcher = Quiet
  /\ n \in events
  /\ instances # NoInstance /\ dctx[instances] = 0
  /\ down' = TRUE
  /\ UNCHANGED <<lifecycle, seen, nodeVars, providerVars, lastDeployFailed, crashes>>

EventApplied ==
  /\ watcher # Quiet
  /\ watcher' = Quiet
  /\ node' = [node EXCEPT ![watcher.inst][watcher.node] = FetchedNode(@, watcher.seen)]
  /\ UNCHANGED <<lifecycle, seen, listeners, monitored, providerVars, lastDeployFailed, crashes>>

-----------------------------------------------------------------------------
Request(p) ==
  \/ BeginRedeploy(p) \/ BeginDeploy(p) \/ DeployRefused(p) \/ BeginDestroy(p)
  \/ \E command \in Commands, n \in Nodes : BeginNodeCommand(p, command, n)

DeployStep(p) ==
  \/ InstallContext(p) \/ DeployIgnored(p) \/ LockForDeploy(p) \/ DeploySucceeds(p) \/ DeployFails(p)
  \/ InspectLab(p) \/ InspectLabFails(p) \/ AttachNodes(p) \/ DeployFinishes(p) \/ DeployAborts(p)

DestroyStep(p) ==
  \/ CancelDeployment(p) \/ LockForDestroy(p) \/ DestroySucceeds(p) \/ DestroyFails(p) \/ Unmap(p)

NodeCommandStep(p) ==
  \/ NodeCommandRefused(p) \/ LockForNodeCommand(p) \/ NodeCommandSucceeds(p) \/ NodeCommandFails(p)
  \/ FetchNode(p) \/ ApplyNode(p)

Serve(p) == DeployStep(p) \/ DestroyStep(p) \/ NodeCommandStep(p)

Background ==
  \/ \E l \in BagToSet(listeners) : ListenerStep(l)
  \/ \E m \in monitored : MonitorDrops(m)
  \/ \E n \in Observed : ContainerStops(n) \/ EventArrives(n)
  \/ EventApplied

Working == ~down /\ UNCHANGED down

Next ==
  \/ Working /\ ((\E p \in Procs : Request(p) \/ Serve(p)) \/ Background)
  \/ \E n \in Observed : EventPanics(n)

Spec == Init /\ [][Next]_vars

(* The provider's calls return, a mutex that is released goes to one of    *)
(* its waiters, a probe ends after ten minutes at the latest and the       *)
(* monitor polls every second.                                             *)
Fairness ==
  /\ \A p \in Procs : WF_vars(Working /\ Serve(p))
  /\ WF_vars(Working /\ \E l \in BagToSet(listeners) : ListenerStep(l))
  /\ WF_vars(Working /\ \E m \in monitored : StatsUnreadable(m) /\ MonitorDrops(m))

FairSpec == Spec /\ Fairness

-----------------------------------------------------------------------------
Holding == {"deploy", "inspect", "attach", "stream", "destroy", "unmap", "node", "fetch", "apply"}
Steps == Holding \cup {"idle", "install", "lockDeploy", "cancel", "lockDestroy", "tryLock"}

Call == [inst : Nat, ctx : Nat, again : BOOLEAN,
         command : {"none", "start", "stop", "restart"}, node : Nodes \cup {"none"}]

(* The part of the state that says which instances there are and who is at *)
(* work on them.                                                           *)
LifecycleTypeOK ==
  /\ instances \in Ids \cup {NoInstance}
  /\ made \in Nat /\ requests \in Nat
  /\ missing \in [Ids -> SUBSET Nodes]
  /\ state \in [Ids -> {"deploying", "running", "stopping", "failed"}]
  /\ destroyed \subseteq Ids
  /\ dctx \in [Ids -> Nat]
  /\ opLock \in [Ids -> Procs \cup {Free}]
  /\ contexts \in Nat
  /\ cancelled \subseteq Nat
  /\ pc \in [Procs -> Steps]
  /\ call \in [Procs -> Call]
  /\ stray \in BOOLEAN

(* Every variable holds a value of its type. *)
TypeOK ==
  /\ LifecycleTypeOK
  /\ node \in [Ids -> [Nodes -> InstanceNode]]
  /\ seen \in [Procs -> [Nodes -> Container]]
  /\ container \in [Nodes -> Container]
  /\ events \subseteq Nodes
  /\ IsABag(listeners)
  /\ \A l \in BagToSet(listeners) : l.inst \in Ids /\ l.node \in Nodes
  /\ lastDeployFailed \in BOOLEAN
  /\ down \in BOOLEAN

(* OperationMutex serialises the operations on an instance, however they   *)
(* take it: Lock for deployments and destructions, TryLock for node        *)
(* commands, with a release on every way out (instance.go:23-24).          *)
OperationsAreSerialised ==
  \A p, q \in Procs : (p # q /\ pc[p] \in Holding /\ pc[q] \in Holding) => call[p].inst # call[q].inst

(* The data of instances and requests is well formed while operations are  *)
(* serialised by OperationMutex (instance.go:16-90).                       *)
OperationsInv ==
  /\ TypeOK
  /\ OperationsAreSerialised

(* The map never keeps a destroyed instance once the destruction is over:  *)
(* every later deployment of the lab would be ignored (service.go:520-530, *)
(* 633).                                                                   *)
DestroyedInstanceIsUnmapped ==
  instances \in destroyed => \E p \in Procs : pc[p] = "unmap" /\ call[p].inst = instances

(* A destroyed instance is never deployed again, whichever deployments     *)
(* were waiting for it when it was destroyed (service.go:633).             *)
DestroyedStaysDown ==
  \A i \in destroyed : state[i] \in {"stopping", "failed"}

(* When no request is under way the lab is running or has failed: a        *)
(* deployment that gives up because its context is cancelled leaves a      *)
(* canceller that settles the instance (service.go:683-685, 460-468).      *)
SettledWhenIdle ==
  (instances # NoInstance /\ \A p \in Procs : pc[p] = "idle") => state[instances] \in {"running", "failed"}

(* A lab without an instance has no containers, as long as no DestroyLab   *)
(* went on with an instance another one had destroyed (service.go:451-     *)
(* 531).                                                                   *)
NoOrphans ==
  (instances = NoInstance /\ ~stray) => container = Nothing

(* What is destroyed is gone: a destroyed instance is out of the map, is   *)
(* not deployed again, and has left no containers (service.go:451-531,     *)
(* 633).                                                                   *)
DestroyedIsGone ==
  /\ DestroyedInstanceIsUnmapped
  /\ DestroyedStaysDown
  /\ NoOrphans

(* A lab that is running and on which nobody works has the containers of   *)
(* its deployment, except those of the nodes its last inspection did not   *)
(* find, under the same proviso: no deployment or destruction that was     *)
(* aborted or failed half-way, and left some of the containers, is shown   *)
(* as running (service.go:681-744, 498-517, 1189-1196, 1343-1349).         *)
RunningLabKeepsContainers ==
  \A i \in Ids : (instances = i /\ state[i] = "running" /\ opLock[i] = Free /\ ~stray)
                   => \A n \in Nodes : container[n].status = "absent" => n \in missing[i]

(* Every request comes to its end, as long as the server does: no mutex is *)
(* left locked on any of the ways out, and no two requests wait for each   *)
(* other.                                                                  *)
RequestsEnd ==
  \A p \in Procs : []<>(down \/ pc[p] = "idle")

(* The statistics of a lab that has been destroyed stop being collected,   *)
(* though its startup listeners may still add nodes afterwards             *)
(* (service.go:1015, monitor.go:75-79).                                    *)
StatsStop ==
  []<>(down \/ instances # NoInstance \/ monitored = {})
=============================================================================
