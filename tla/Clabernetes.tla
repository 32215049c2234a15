----------------------------- MODULE Clabernetes -----------------------------
(***************************************************************************)
(* The clabernetes provider (src/src/deployment/clabernetes.go) for one    *)
(* lab, with the cluster it drives and the part of the instance service    *)
(* that follows it (fetchNode and the event callback of                    *)
(* src/src/runtime/instance/service.go).                                   *)
(*                                                                         *)
(* A call of the provider is a series of requests to the cluster, each a   *)
(* step; between two of them the controllers of the cluster, which are     *)
(* external, take steps of their own.  Operations on a lab are serialised  *)
(* by its OperationMutex (Instance), so there is one at a time; the two    *)
(* informers of the listener and the operation inspect the lab side by     *)
(* side.  Definitions, addresses and log lines are left out.               *)
(***************************************************************************)
EXTENDS Naturals, FiniteSets

CONSTANTS
  Nodes,         \* the nodes of the lab
  None,
  MaxPods,       \* bound: pods created in a run
  MaxRequests,   \* bound: operations in a run
  MaxFaults      \* bound: requests and probes that fail, pods that are lost, restarts of the server

(* A lab has finitely many nodes, and None is no value of any kind. *)
ASSUME ClabernetesAssumption ==
  /\ MaxPods \in Nat
  /\ MaxRequests \in Nat
  /\ MaxFaults \in Nat
  /\ IsFiniteSet(Nodes)
  /\ None \notin Nodes \cup Nat
  /\ None \notin [state : {"new", "deploying", "running", "failed"}, ready : BOOLEAN, count : Nat]

(* "none": destroyed or never deployed; "lost": not revived after a restart; *)
(* "cancelled": its context has been cancelled for a destruction.            *)
InstanceStates == {"none", "lost", "deploying", "deployed", "failed", "cancelled"}

Fetchers == {"pods", "deployments", "operation"}   \* the informers and the operation

VARIABLES
  namespace,     \* "absent", "active" or "terminating"
  status,        \* the status of the lab's Topology, None if there is no Topology
  replicas,      \* the replicas of every node's Deployment, None if there is none
  ignored,       \* the nodes with the label that tells the manager to leave them alone
  pods,          \* the pods of the lab
  uids,          \* number of pods so far
  events,        \* what the informers have not handed out yet
  fetch,         \* the inspections under way
  view,          \* Instance.Nodes: state and container id
  instance,      \* the Instance of the lab: see InstanceStates
  op,            \* the operation under way
  requests,      \* number of operations so far
  faults,        \* number of faults so far
  listening,     \* the nodes with a startup listener
  givenUp,       \* history: the nodes a startup listener gave up on since their last inspection
  before,        \* history: the pods there were when the operation began
  adopted,       \* history: the deployment found a Topology
  wasReady,      \* history: all nodes were ready at some time since the operation began
  stopped,       \* history: the nodes whose last command was a StopNode that succeeded
  misled         \* history: the nodes whose last inspection overlapped another or whose last command failed

clusterVars == <<namespace, status, replicas, ignored, pods, uids, events>>
startup == <<listening, givenUp>>
historyVars == <<before, adopted, wasReady, stopped, misled>>
vars == <<clusterVars, fetch, view, instance, op, requests, faults, startup, historyVars>>

-----------------------------------------------------------------------------
(***************************************************************************)
(* What a pod says of its node, and what an inspection says                *)
(***************************************************************************)
PodOf(n) == {p \in pods : p.node = n}

podStateToNodeState(p) ==
  CASE p.phase = "failed" -> "stopped"
    [] p.phase = "ready" -> "running"
    [] OTHER -> "starting"

(* inspect: the entries of a node, given its pods and the replicas of its   *)
(* Deployment.  A Deployment without replicas has one entry, and else every *)
(* pod has one that is not being replaced.                                  *)
inspect(snap, count) ==
  IF count = 0
  THEN {[state |-> IF snap = {} THEN "stopped" ELSE "stopping", id |-> None]}
  ELSE {[state |-> podStateToNodeState(p), id |-> p.uid] : p \in {q \in snap : ~q.terminating}}

(* updateNodeWithContainer *)
updateNode(c) == [state |-> c.state, id |-> IF c.state = "stopped" THEN None ELSE c.id]

Ready(n) == \E p \in pods : p.node = n /\ p.phase = "ready" /\ ~p.terminating

-----------------------------------------------------------------------------
(***************************************************************************)
(* RegisterListener: which changes the informers report                    *)
(***************************************************************************)
(* Mutant: only the termination of a pod is reported. *)
ReportedTermination(o, p) == o.terminating # p.terminating

Reported(o, p) == o.terminating # p.terminating \/ podStateToNodeState(o) # podStateToNodeState(p)

PodEvents(new) ==
  {<<"pods", p.node>> : p \in {q \in new : \A o \in pods : o.uid # q.uid}}
    \cup {<<"pods", o.node>> : o \in {q \in pods : \A p \in new : p.uid # q.uid}}
    \cup {<<"pods", p.node>> : p \in {q \in new : \E o \in pods : o.uid = q.uid /\ Reported(o, q)}}

(* The pods become new. *)
SetPods(new) == pods' = new /\ events' = events \cup PodEvents(new)

(* The replicas become new; creating and deleting a Deployment is not reported. *)
SetReplicas(new) ==
  /\ replicas' = new
  /\ events' = events \cup
       {<<"deployments", n>> : n \in {m \in Nodes : None \notin {replicas[m], new[m]} /\ replicas[m] # new[m]}}

-----------------------------------------------------------------------------
Unseen == [n \in Nodes |-> {}]
NoFetch == [at |-> "idle", nodes |-> {}, snap |-> {}, seen |-> Unseen, alone |-> TRUE]
NoOp == [cmd |-> "none", node |-> None, at |-> "idle"]

Init ==
  /\ namespace = "absent"
  /\ status = None
  /\ replicas = [n \in Nodes |-> None]
  /\ ignored = {}
  /\ pods = {}
  /\ uids = 0
  /\ events = {}
  /\ fetch = [f \in Fetchers |-> NoFetch]
  /\ view = [n \in Nodes |-> [state |-> "stopped", id |-> None]]
  /\ instance = "none"
  /\ op = NoOp
  /\ requests = 0
  /\ faults = 0
  /\ listening = {}
  /\ givenUp = {}
  /\ before = {}
  /\ adopted = FALSE
  /\ wasReady = FALSE
  /\ stopped = {}
  /\ misled = {}

-----------------------------------------------------------------------------
(***************************************************************************)
(* External: the controllers of the cluster                                *)
(***************************************************************************)
observers == <<fetch, view, instance, op, requests, startup>>

(* The manager gives every node of the Topology it is not to ignore a pod. *)
Reconcile(n) ==
  /\ namespace = "active"
  /\ status # None
  /\ n \notin ignored
  /\ replicas[n] # 1
  /\ SetReplicas([replicas EXCEPT ![n] = 1])
  /\ UNCHANGED <<namespace, status, ignored, pods, uids, observers, faults, historyVars>>

(* It writes the status; before it has compiled the Topology it counts no   *)
(* nodes, and none of them is unready.                                      *)
PublishStatus ==
  LET allReady == \A n \in Nodes : Ready(n)
      counted == \A n \in Nodes : replicas[n] # None
  IN
  /\ namespace = "active"
  /\ status # None
  /\ \E state \in {"deploying"} \cup (IF allReady THEN {"running"} ELSE {}) :
       status' = [state |-> state, ready |-> ~counted \/ allReady,
                  count |-> IF counted THEN Cardinality(Nodes) ELSE 0]
  /\ status' # status
  /\ wasReady' = (wasReady \/ allReady)
  /\ UNCHANGED <<namespace, replicas, ignored, pods, uids, events, observers, faults,
                 before, adopted, stopped, misled>>

(* It gives up. *)
DeploymentFails ==
  /\ namespace = "active"
  /\ status # None
  /\ status.state # "failed"
  /\ faults < MaxFaults
  /\ faults' = faults + 1
  /\ status' = [status EXCEPT !.state = "failed"]
  /\ UNCHANGED <<namespace, replicas, ignored, pods, uids, events, observers, historyVars>>

CreatePod(n) ==
  /\ namespace = "active"
  /\ replicas[n] = 1
  /\ \A p \in PodOf(n) : p.terminating \/ p.phase = "failed"
  /\ uids < MaxPods
  /\ uids' = uids + 1
  /\ SetPods(pods \cup {[node |-> n, uid |-> uids + 1, phase |-> "pending", terminating |-> FALSE]})
  /\ UNCHANGED <<namespace, status, replicas, ignored, observers, faults, historyVars>>

(* A pod goes on: it runs, becomes ready, or ends once it is terminating. *)
PodRuns(p) ==
  /\ p \in pods
  /\ ~p.terminating
  /\ p.phase \in {"pending", "running"}
  /\ SetPods((pods \ {p}) \cup {[p EXCEPT !.phase = IF @ = "pending" THEN "running" ELSE "ready"]})
  /\ UNCHANGED <<namespace, status, replicas, ignored, uids, observers, faults, historyVars>>

PodGoes(p) ==
  /\ p \in pods
  /\ p.terminating \/ namespace = "terminating"
  /\ SetPods(pods \ {p})
  /\ UNCHANGED <<namespace, status, replicas, ignored, uids, observers, faults, historyVars>>

ScaleDown(p) ==
  /\ p \in pods
  /\ ~p.terminating
  /\ replicas[p.node] = 0
  /\ SetPods((pods \ {p}) \cup {[p EXCEPT !.terminating = TRUE]})
  /\ UNCHANGED <<namespace, status, replicas, ignored, uids, observers, faults, historyVars>>

(* A device restarts, or its pod is evicted. *)
PodLost(p) ==
  /\ p \in pods
  /\ ~p.terminating
  /\ p.phase = "ready"
  /\ faults < MaxFaults
  /\ faults' = faults + 1
  /\ \E phase \in {"running", "failed"} : SetPods((pods \ {p}) \cup {[p EXCEPT !.phase = phase]})
  /\ UNCHANGED <<namespace, status, replicas, ignored, uids, observers, historyVars>>

(* A terminating namespace loses what is in it, and is gone when it is empty. *)
NamespaceEmpties ==
  /\ namespace = "terminating"
  /\ status # None \/ \E n \in Nodes : replicas[n] # None
  /\ status' = None
  /\ ignored' = {}
  /\ replicas' = [n \in Nodes |-> None]
  /\ UNCHANGED <<namespace, pods, uids, events, observers, faults, historyVars>>

NamespaceGoes ==
  /\ namespace = "terminating"
  /\ status = None
  /\ pods = {}
  /\ \A n \in Nodes : replicas[n] = None
  /\ namespace' = "absent"
  /\ UNCHANGED <<status, replicas, ignored, pods, uids, events, observers, faults, historyVars>>

Cluster ==
  \/ \E n \in Nodes : Reconcile(n) \/ CreatePod(n)
  \/ \E p \in pods : PodRuns(p) \/ PodGoes(p) \/ ScaleDown(p) \/ PodLost(p)
  \/ PublishStatus \/ DeploymentFails \/ NamespaceEmpties \/ NamespaceGoes

-----------------------------------------------------------------------------
(***************************************************************************)
(* Inspections: the pods are listed first, the Deployments second, and     *)
(* the result is applied under DataMutex.                                  *)
(***************************************************************************)
HasInstance == instance \notin {"none", "lost"}
Inspectable == instance \in {"deploying", "deployed", "failed"}

Overlaps(g, N) == fetch[g].at # "idle" /\ fetch[g].nodes \cap N # {}

(* The list of the pods. *)
ListPods(f, N) ==
  fetch' = [g \in Fetchers |->
    CASE g = f -> [NoFetch EXCEPT !.at = "pods", !.nodes = N, !.snap = {p \in pods : p.node \in N},
                                  !.alone = \A h \in Fetchers \ {f} : ~Overlaps(h, N)]
      [] g # f /\ Overlaps(g, N) -> [fetch[g] EXCEPT !.alone = FALSE]
      [] OTHER -> fetch[g]]

Done(f) == fetch' = [fetch EXCEPT ![f] = NoFetch]

(* The list of the Deployments, which completes the inspection. *)
ListDeployments(f) ==
  /\ fetch[f].at = "pods"
  /\ fetch' = [fetch EXCEPT ![f].at = "inspected", ![f].snap = {},
       ![f].seen = [n \in Nodes |->
         IF n \in fetch[f].nodes THEN inspect({p \in fetch[f].snap : p.node = n}, replicas[n]) ELSE {}]]
  /\ UNCHANGED <<clusterVars, view, instance, op, requests, faults, startup, historyVars>>

(* fetchNode: what becomes of a node.  InspectNode takes the first entry. *)
fetchNode(old, entries) ==
  IF entries = {} THEN {old}
  ELSE {IF e.state = old.state THEN old ELSE updateNode(e) : e \in entries}

(* inspectLabAndUpdateNodes: a node that is not found is stopped. *)
inspectLabAndUpdateNodes(old, entries) ==
  IF entries = {} THEN {[old EXCEPT !.state = "stopped"]} ELSE {updateNode(e) : e \in entries}

(* reviveInstances starts from the nodes of the topology. *)
reviveNode(entries) ==
  inspectLabAndUpdateNodes([state |-> "stopped", id |-> None], entries)

(* Another inspection in between may have been the newer one. *)
Applied(f) ==
  LET found == {n \in Nodes : fetch[f].seen[n] # {}} IN
  /\ misled' = IF fetch[f].alone THEN misled \ found ELSE misled \cup fetch[f].nodes
  /\ givenUp' = IF fetch[f].alone THEN givenUp \ found ELSE givenUp

-----------------------------------------------------------------------------
(***************************************************************************)
(* The event callback                                                      *)
(***************************************************************************)
(* An event of a node of the instance starts an inspection; without an      *)
(* instance, or under a cancelled context, it is lost.                      *)
HandleEvent(f, n) ==
  /\ <<f, n>> \in events
  /\ fetch[f].at = "idle"
  /\ events' = events \ {<<f, n>>}
  /\ \/ /\ Inspectable
        /\ ListPods(f, {n})
        /\ UNCHANGED misled
     \/ /\ ~Inspectable
        /\ misled' = misled \cup {n}
        /\ fetch' = [g \in Fetchers |-> IF Overlaps(g, {n}) THEN [fetch[g] EXCEPT !.alone = FALSE] ELSE fetch[g]]
  /\ UNCHANGED <<namespace, status, replicas, ignored, pods, uids, view, instance, op, requests, faults,
                 startup, before, adopted, wasReady, stopped>>

(* The end of fetchNode. *)
ApplyEvent(f) ==
  /\ f # "operation"
  /\ fetch[f].at = "inspected"
  /\ \E n \in fetch[f].nodes : \E nd \in fetchNode(view[n], fetch[f].seen[n]) : view' = [view EXCEPT ![n] = nd]
  /\ Applied(f)
  /\ Done(f)
  /\ UNCHANGED <<clusterVars, instance, op, requests, faults, listening, before, adopted, wasReady, stopped>>

(* A list fails. *)
FetchFails(f) ==
  /\ f # "operation"
  /\ fetch[f].at = "pods"
  /\ \/ Inspectable /\ faults < MaxFaults /\ faults' = faults + 1
     \/ ~Inspectable /\ UNCHANGED faults
  /\ misled' = misled \cup fetch[f].nodes
  /\ Done(f)
  /\ UNCHANGED <<clusterVars, view, instance, op, requests, startup, before, adopted, wasReady, stopped>>

-----------------------------------------------------------------------------
(***************************************************************************)
(* The startup listeners: a goroutine for every node that is started, which *)
(* probes the node until it answers.  A node may have several.  One whose  *)
(* node answers ends without a trace: it is one that says nothing any more. *)
(***************************************************************************)
(* A probe fails, or ten minutes pass without an answer: the node is marked *)
(* stopped, whatever its pod does, and no event comes of it.  Another      *)
(* listener of the node may go on, so the node keeps its place.            *)
ProbeFails(n) ==
  /\ n \in listening
  /\ Inspectable
  /\ faults < MaxFaults
  /\ faults' = faults + 1
  /\ view' = [view EXCEPT ![n].state = "stopped"]
  /\ givenUp' = givenUp \cup {n}
  /\ UNCHANGED <<clusterVars, fetch, instance, op, requests, listening, historyVars>>

(* An operation that has succeeded listens to the nodes it has started. *)
ListensTo ==
  CASE op.cmd \in {"deploy", "redeploy"} -> {n \in Nodes : view'[n].state # "stopped"}
    [] op.cmd = "revive" -> {n \in Nodes : view'[n].state \in {"running", "starting"}}
    [] op.cmd \in {"start", "restart"} -> {op.node}
    [] OTHER -> {}

-----------------------------------------------------------------------------
(***************************************************************************)
(* The operations of the instance service begin                            *)
(***************************************************************************)
Reset(nd) == [state |-> "stopping", id |-> None]

Request ==
  /\ op = NoOp
  /\ requests < MaxRequests
  /\ requests' = requests + 1

(* A deployment or a destruction begins. *)
BeginLab(cmd, at) ==
  /\ Request
  /\ op' = [cmd |-> cmd, node |-> None, at |-> at]
  /\ before' = {p.uid : p \in pods}
  /\ adopted' = FALSE
  /\ wasReady' = FALSE
  /\ stopped' = {}
  /\ UNCHANGED <<clusterVars, fetch, faults, givenUp, misled>>

BeginDeploy ==
  /\ ~HasInstance
  /\ BeginLab("deploy", "namespace")
  /\ instance' = "deploying"
  /\ view' = [n \in Nodes |-> [state |-> "starting", id |-> None]]
  /\ UNCHANGED listening

(* The deployment gets a new context: the listeners of the old one end, but *)
(* those that have not read theirs yet take the new one.                   *)
BeginRedeploy ==
  /\ HasInstance
  /\ BeginLab("redeploy", "kill")
  /\ instance' = "deploying"
  /\ view' = [n \in Nodes |-> Reset(view[n])]
  /\ UNCHANGED listening

(* Its context is cancelled, and the listeners end without a word. *)
BeginDestroy ==
  /\ HasInstance
  /\ BeginLab("destroy", "kill")
  /\ instance' = "cancelled"
  /\ view' = [n \in Nodes |-> [view[n] EXCEPT !.state = "stopped"]]
  /\ listening' = {}

(* The states in which a command is refused. *)
Refused(cmd) ==
  CASE cmd = "start" -> {"starting", "running", "stopping"}
    [] cmd = "stop" -> {"stopping", "stopped"}
    [] cmd = "restart" -> {"stopping", "starting"}

BeginNode(cmd, n) ==
  /\ HasInstance
  /\ Request
  /\ view[n].state \notin Refused(cmd)
  /\ op' = [cmd |-> cmd, node |-> n, at |-> IF cmd = "restart" THEN "delete" ELSE "first"]
  /\ view' = IF cmd = "start" THEN view ELSE [view EXCEPT ![n] = Reset(@)]
  /\ stopped' = IF cmd = "start" THEN stopped \ {n} ELSE stopped
  /\ UNCHANGED <<clusterVars, fetch, instance, faults, startup, before, adopted, wasReady, misled>>

-----------------------------------------------------------------------------
(***************************************************************************)
(* ... and end                                                             *)
(***************************************************************************)
(* The provider returns an error: DeployLab marks all nodes stopped, the   *)
(* other operations leave them as they are.                                *)
EndsWithError ==
  /\ op' = NoOp
  /\ fetch' = [fetch EXCEPT !["operation"] = NoFetch]
  /\ LET deploying == op.cmd \in {"deploy", "redeploy"} IN
     /\ view' = IF deploying THEN [n \in Nodes |-> [view[n] EXCEPT !.state = "stopped"]] ELSE view
     /\ instance' = IF deploying THEN "failed" ELSE instance
     /\ misled' = CASE op.node = None -> Nodes
                    [] op.cmd = "start" -> misled
                    [] OTHER -> misled \cup {op.node}
  /\ UNCHANGED startup

Goto(at) == op' = [op EXCEPT !.at = at] /\ UNCHANGED <<fetch, view, instance, startup, misled>>

(* A request fails, a wait times out or the deployment is cancelled. *)
RequestFails ==
  /\ op # NoOp
  /\ op.cmd # "revive"
  /\ faults < MaxFaults
  /\ faults' = faults + 1
  /\ EndsWithError
  /\ UNCHANGED <<clusterVars, requests, before, adopted, wasReady, stopped>>

-----------------------------------------------------------------------------
(***************************************************************************)
(* Destroy, which is also the first half of Redeploy                       *)
(***************************************************************************)
Kill ==
  /\ op.at = "kill"
  /\ SetPods({})
  /\ Goto("delete namespace")
  /\ UNCHANGED <<namespace, status, replicas, ignored, uids, requests, faults, before, adopted, wasReady, stopped>>

(* The lab is gone: Redeploy goes on with Deploy, DestroyLab removes the    *)
(* instance, and the callbacks that still know it change nothing any more. *)
Destroyed ==
  \/ /\ op.cmd = "redeploy"
     /\ Goto("namespace")
  \/ /\ op.cmd = "destroy"
     /\ op' = NoOp
     /\ instance' = "none"
     /\ fetch' = [f \in Fetchers |-> NoFetch]
     /\ givenUp' = {}
     /\ misled' = {}
     /\ UNCHANGED <<view, listening>>

DeleteNamespace ==
  /\ op.at = "delete namespace"
  /\ \/ namespace = "absent" /\ Destroyed /\ UNCHANGED namespace
     \/ namespace # "absent" /\ namespace' = "terminating" /\ Goto("gone")
  /\ UNCHANGED <<status, replicas, ignored, pods, uids, events, requests, faults, before, adopted, wasReady, stopped>>

(* Mutant: Destroy does not wait for the end of the namespace. *)
waitForNothing ==
  /\ op.at = "gone"
  /\ Destroyed
  /\ UNCHANGED <<clusterVars, requests, faults, before, adopted, wasReady, stopped>>

waitForNamespaceGone ==
  /\ op.at = "gone"
  /\ namespace = "absent"
  /\ Destroyed
  /\ UNCHANGED <<clusterVars, requests, faults, before, adopted, wasReady, stopped>>

-----------------------------------------------------------------------------
(***************************************************************************)
(* Deploy: applyTopology and waitForTopologyReady                          *)
(***************************************************************************)
(* A namespace that is terminating exists already. *)
CreateNamespace ==
  /\ op.at = "namespace"
  /\ namespace' = IF namespace = "absent" THEN "active" ELSE namespace
  /\ Goto("topology")
  /\ UNCHANGED <<status, replicas, ignored, pods, uids, events, requests, faults, before, adopted, wasReady, stopped>>

(* Nothing is created in a namespace that is terminating or gone. *)
CreateTopology ==
  /\ op.at = "topology"
  /\ \/ namespace # "active" /\ EndsWithError /\ UNCHANGED <<status, adopted>>
     \/ /\ namespace = "active"
        /\ status = None
        /\ status' = [state |-> "new", ready |-> FALSE, count |-> 0]
        /\ Goto("ready")
        /\ UNCHANGED adopted
     \/ /\ namespace = "active"
        /\ status # None
        /\ adopted' = TRUE
        /\ Goto("update")
        /\ UNCHANGED status
  /\ UNCHANGED <<namespace, replicas, ignored, pods, uids, events, requests, faults, before, wasReady, stopped>>

UpdateTopology ==
  /\ op.at = "update"
  /\ \/ status = None /\ EndsWithError
     \/ status # None /\ Goto("ready")
  /\ UNCHANGED <<clusterVars, requests, faults, before, adopted, wasReady, stopped>>

(* Mutant: a Topology without nodes is ready. *)
TopologyReadyUncounted == status.state = "running" \/ status.ready

TopologyReady == status.state = "running" \/ (status.ready /\ status.count > 0)

waitForTopologyReady ==
  /\ op.at = "ready"
  /\ \/ status = None /\ EndsWithError
     \/ /\ status # None
        /\ \/ status.state = "failed" /\ EndsWithError
           \/ status.state # "failed" /\ TopologyReady /\ Goto("attach")
  /\ UNCHANGED <<clusterVars, requests, faults, before, adopted, wasReady, stopped>>

-----------------------------------------------------------------------------
(***************************************************************************)
(* StartNode and StopNode patch the Node, then its Deployment; RestartNode *)
(* deletes the pods of the node.                                           *)
(***************************************************************************)
setIgnoreReconcile == ignored' = IF op.cmd = "stop" THEN ignored \cup {op.node} ELSE ignored \ {op.node}

scaleNode == SetReplicas([replicas EXCEPT ![op.node] = IF op.cmd = "stop" THEN 0 ELSE 1])

NodeStopped == stopped' = IF op.cmd = "stop" THEN stopped \cup {op.node} ELSE stopped

(* The Node and its Deployment are there, and the context is live. *)
Patchable == replicas[op.node] # None /\ instance # "cancelled"

(* Mutant: the Deployment is scaled before the Node is labelled. *)
PatchesSwapped ==
  /\ op.at \in {"first", "second"}
  /\ CASE ~Patchable -> EndsWithError /\ UNCHANGED <<ignored, replicas, events, stopped>>
       [] Patchable /\ op.at = "first" -> scaleNode /\ Goto("second") /\ UNCHANGED <<ignored, stopped>>
       [] OTHER -> setIgnoreReconcile /\ NodeStopped /\ Goto("attach") /\ UNCHANGED <<replicas, events>>
  /\ UNCHANGED <<namespace, status, pods, uids, requests, faults, before, adopted, wasReady>>

Patches ==
  /\ op.at \in {"first", "second"}
  /\ CASE ~Patchable -> EndsWithError /\ UNCHANGED <<ignored, replicas, events, stopped>>
       [] Patchable /\ op.at = "first" -> setIgnoreReconcile /\ Goto("second") /\ UNCHANGED <<replicas, events, stopped>>
       [] OTHER -> scaleNode /\ NodeStopped /\ Goto("attach") /\ UNCHANGED ignored
  /\ UNCHANGED <<namespace, status, pods, uids, requests, faults, before, adopted, wasReady>>

DeletePods ==
  /\ op.at = "delete"
  /\ \/ /\ instance # "cancelled"
        /\ SetPods({IF p.node = op.node THEN [p EXCEPT !.terminating = TRUE] ELSE p : p \in pods})
        /\ Goto("attach")
     \/ instance = "cancelled" /\ EndsWithError /\ UNCHANGED <<pods, events>>
  /\ UNCHANGED <<namespace, status, replicas, ignored, uids, requests, faults, before, adopted, wasReady, stopped>>

-----------------------------------------------------------------------------
(***************************************************************************)
(* The inspection at the end of an operation, and at the start of the      *)
(* server                                                                  *)
(***************************************************************************)
BeginAttach ==
  /\ op.at = "attach"
  /\ fetch["operation"].at = "idle"
  /\ ListPods("operation", IF op.node = None THEN Nodes ELSE {op.node})
  /\ UNCHANGED <<clusterVars, view, instance, op, requests, faults, startup, historyVars>>

(* What an entry makes of a node depends on the operation. *)
Attached(n, entries) ==
  CASE op.cmd = "revive" -> reviveNode(entries)
    [] op.cmd \in {"deploy", "redeploy"} -> inspectLabAndUpdateNodes(view[n], entries)
    [] OTHER -> fetchNode(view[n], entries)

(* A lab without an entry is not running: DeployLab fails, and a restarted *)
(* server does not revive it.                                              *)
Attach ==
  /\ fetch["operation"].at = "inspected"
  /\ LET seen == fetch["operation"].seen
         nothing == \A n \in Nodes : seen[n] = {}
     IN
     /\ \E v \in [Nodes -> (UNION {Attached(n, seen[n]) : n \in Nodes}) \cup {view[n] : n \in Nodes}] :
          /\ \A n \in Nodes :
               IF n \in fetch["operation"].nodes THEN v[n] \in Attached(n, seen[n]) ELSE v[n] = view[n]
          /\ view' = v
     /\ instance' = CASE op.cmd = "revive" -> IF nothing THEN "lost" ELSE "deployed"
                      [] op.cmd \in {"deploy", "redeploy"} -> IF nothing THEN "failed" ELSE "deployed"
                      [] OTHER -> instance
     /\ listening' = IF instance' \in {"failed", "lost"} /\ op.node = None THEN listening
                     ELSE listening \cup ListensTo
  /\ Applied("operation")
  /\ Done("operation")
  /\ op' = NoOp
  /\ UNCHANGED <<clusterVars, requests, faults, before, adopted, wasReady, stopped>>

(* The server restarts.  The informers report every pod again, and may do  *)
(* so before the instance has been revived.                                *)
ServerRestart ==
  /\ faults < MaxFaults
  /\ faults' = faults + 1
  /\ op' = [cmd |-> "revive", node |-> None, at |-> "attach"]
  /\ instance' = "lost"
  /\ fetch' = [f \in Fetchers |-> NoFetch]
  /\ events' = {<<"pods", p.node>> : p \in pods}
  /\ view' = [n \in Nodes |-> [state |-> "stopped", id |-> None]]
  /\ listening' = {}
  /\ givenUp' = {}
  /\ misled' = {}
  /\ UNCHANGED <<namespace, status, replicas, ignored, pods, uids, requests, before, adopted, wasReady, stopped>>

-----------------------------------------------------------------------------
Begin ==
  \/ BeginDeploy \/ BeginRedeploy \/ BeginDestroy
  \/ \E cmd \in {"start", "stop", "restart"}, n \in Nodes : BeginNode(cmd, n)

Operation ==
  \/ Kill \/ DeleteNamespace \/ waitForNamespaceGone
  \/ CreateNamespace \/ CreateTopology \/ UpdateTopology \/ waitForTopologyReady
  \/ Patches \/ DeletePods \/ RequestFails
  \/ BeginAttach \/ Attach

Startup == \E n \in Nodes : ProbeFails(n)

Listener ==
  \E f \in Fetchers : ApplyEvent(f) \/ FetchFails(f) \/ ListDeployments(f) \/ \E n \in Nodes : HandleEvent(f, n)

Next == Cluster \/ Begin \/ Operation \/ Listener \/ Startup \/ ServerRestart

Spec == Init /\ [][Next]_vars

-----------------------------------------------------------------------------
(***************************************************************************)
(* Properties                                                              *)
(***************************************************************************)
TypeOK ==
  /\ namespace \in {"absent", "active", "terminating"}
  /\ status = None \/ status.state \in {"new", "deploying", "running", "failed"}
  /\ replicas \in [Nodes -> {None, 0, 1}]
  /\ ignored \subseteq Nodes
  /\ \A p \in pods : p.node \in Nodes /\ p.uid \in 1 .. uids /\ p.phase \in {"pending", "running", "ready", "failed"}
  /\ uids \in 0 .. MaxPods
  /\ events \subseteq (Fetchers \X Nodes)
  /\ \A f \in Fetchers : fetch[f].at \in {"idle", "pods", "inspected"}
  /\ \A n \in Nodes : view[n].state \in {"stopped", "starting", "running", "stopping"}
  /\ instance \in InstanceStates
  /\ requests \in 0 .. MaxRequests
  /\ faults \in 0 .. MaxFaults
  /\ listening \subseteq Nodes
  /\ givenUp \subseteq Nodes

(* A node is shown stopped because its startup listener gave up on it. *)
GivenUp(n) == n \in givenUp /\ view[n].state = "stopped"

(* When nothing is under way, the state the instance service has of a node *)
(* is what an inspection would say now: no change of a pod or of a         *)
(* Deployment goes unnoticed.  This holds for the nodes of a lab whose     *)
(* context is live, unless their last command failed, their last           *)
(* inspection ran beside another one, or failed.  A node a startup         *)
(* listener has given up on is shown stopped instead, until it is          *)
(* inspected again.                                                        *)
ViewFollowsCluster ==
  \A n \in Nodes \ misled :
    LET entries == inspect(PodOf(n), replicas[n]) IN
    /\ op = NoOp
    /\ instance \in {"deployed", "failed"}
    /\ namespace = "active"
    /\ entries # {}
    /\ events = {}
    /\ \A f \in Fetchers : fetch[f].at = "idle"
    => GivenUp(n) \/ \E e \in entries : view[n].state = e.state

(* A node that StopNode has stopped stays stopped until it is started or   *)
(* the lab is redeployed: the manager, which gives every node of the       *)
(* Topology a pod, leaves it alone.                                        *)
StoppedStaysStopped == \A n \in stopped : replicas[n] \in {0, None}

(* When Redeploy has succeeded, no pod of the lab is one it had before.    *)
RedeployIsFresh ==
  op.cmd = "redeploy" /\ op.at = "attach" => before \cap {p.uid : p \in pods} = {}

(* When Deploy has succeeded, all nodes have been ready since it was       *)
(* called, unless the lab's Topology was there before.                     *)
DeployedIsReady ==
  op.cmd \in {"deploy", "redeploy"} /\ op.at = "attach" /\ ~adopted => wasReady

(* What a deployment that has succeeded says of the cluster: its nodes     *)
(* have been ready, and after a redeployment none is left of before        *)
(* (clabernetes.go:144-202, 905-942).                                      *)
DeploymentInv ==
  /\ TypeOK
  /\ RedeployIsFresh
  /\ DeployedIsReady

(* When Destroy has succeeded nothing of the lab is left, and nothing of it *)
(* comes back until it is deployed again.                                  *)
DestroyedStaysDown ==
  instance = "none" => namespace = "absent" /\ status = None /\ pods = {}
=============================================================================
