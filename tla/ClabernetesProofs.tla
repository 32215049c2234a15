-------------------------- MODULE ClabernetesProofs --------------------------
(***************************************************************************)
(* Proofs about module Clabernetes, for any number of nodes, pods,         *)
(* operations and faults.                                                  *)
(***************************************************************************)
EXTENDS Clabernetes, FiniteSetTheorems, TLAPS

NodeStates == {"stopped", "starting", "running", "stopping"}
Phases == {"pending", "running", "ready", "failed"}
Steps == {"idle", "kill", "delete namespace", "gone", "namespace", "topology", "update", "ready", "first",
          "second", "delete", "attach"}

Statuses == [state : {"new", "deploying", "running", "failed"}, ready : BOOLEAN, count : Nat]
Pods == [node : Nodes, uid : Nat, phase : Phases, terminating : BOOLEAN]
Containers == [state : NodeStates, id : Nat \cup {None}]
Fetches == [at : {"idle", "pods", "inspected"}, nodes : SUBSET Nodes, snap : SUBSET Pods,
            seen : [Nodes -> SUBSET Containers], alone : BOOLEAN]
Ops == [cmd : {"none", "deploy", "redeploy", "destroy", "start", "stop", "restart", "revive"},
        node : Nodes \cup {None}, at : Steps]

RecordInv ==
  /\ namespace \in {"absent", "active", "terminating"} /\ status \in Statuses \cup {None}
  /\ replicas \in [Nodes -> {None, 0, 1}] /\ ignored \subseteq Nodes
  /\ pods \subseteq Pods /\ uids \in 0 .. MaxPods /\ \A p \in pods : p.uid \in 1 .. uids
  /\ \A p, q \in pods : p.uid = q.uid => p = q
  /\ events \subseteq {"pods", "deployments"} \X Nodes
  /\ fetch \in [Fetchers -> Fetches] /\ view \in [Nodes -> Containers]
  /\ instance \in InstanceStates /\ op \in Ops
  /\ requests \in 0 .. MaxRequests /\ faults \in 0 .. MaxFaults
  /\ adopted \in BOOLEAN /\ wasReady \in BOOLEAN /\ stopped \subseteq Nodes /\ misled \subseteq Nodes
  /\ listening \subseteq Nodes /\ givenUp \subseteq Nodes

(* What an operation does next and what it has made of the instance.       *)
OpInv ==
  \/ op = NoOp /\ instance # "deploying"
  \/ /\ op.cmd = "deploy" /\ op.node = None /\ instance = "deploying"
     /\ op.at \in {"namespace", "topology", "update", "ready", "attach"}
  \/ /\ op.cmd = "redeploy" /\ op.node = None /\ instance = "deploying"
     /\ op.at \in {"kill", "delete namespace", "gone", "namespace", "topology", "update", "ready", "attach"}
  \/ /\ op.cmd = "destroy" /\ op.node = None /\ instance = "cancelled"
     /\ op.at \in {"kill", "delete namespace", "gone"}
  \/ /\ op.cmd \in {"start", "stop"} /\ op.node \in Nodes /\ instance \in {"deployed", "failed", "cancelled"}
     /\ op.at \in {"first", "second", "attach"}
  \/ /\ op.cmd = "restart" /\ op.node \in Nodes /\ instance \in {"deployed", "failed", "cancelled"}
     /\ op.at \in {"delete", "attach"}
  \/ op.cmd = "revive" /\ op.node = None /\ instance = "lost" /\ op.at = "attach"

(* The operation inspects the nodes it is about and does so last; the      *)
(* informers inspect one node at a time.                                   *)
FetchInv ==
  /\ fetch["operation"].at # "idle" =>
       op.at = "attach" /\ fetch["operation"].nodes = IF op.node = None THEN Nodes ELSE {op.node}
  /\ \A f \in Fetchers : f # "operation" /\ fetch[f].at # "idle" => \E n \in Nodes : fetch[f].nodes = {n}
  /\ \A f \in Fetchers : \A n \in Nodes : n \notin fetch[f].nodes => fetch[f].seen[n] = {}
  /\ \A f, g \in Fetchers : f # g /\ fetch[f].at # "idle" /\ fetch[g].at # "idle"
       /\ fetch[f].nodes \cap fetch[g].nodes # {} => ~fetch[f].alone

(* A namespace that is gone is empty, and a destroyed lab has none.        *)
GoneInv ==
  /\ namespace = "absent" => status = None /\ pods = {} /\ \A n \in Nodes : replicas[n] = None
  /\ instance = "none" => namespace = "absent"

(* The manager leaves a stopped node alone because of its label, or        *)
(* because there is no Topology any more.                                  *)
LeftAlone(n) == n \in ignored \/ status = None

StopInv ==
  /\ \A n \in stopped : replicas[n] \in {0, None} /\ LeftAlone(n)
  /\ op.cmd \in {"deploy", "redeploy", "destroy"} => stopped = {}
  /\ op.cmd = "start" => op.node \notin stopped
  /\ op.cmd = "stop" /\ op.at = "second" => LeftAlone(op.node)

(* Pods are numbered, and a redeployment has killed those of before.       *)
FreshInv ==
  /\ before \subseteq 1 .. uids
  /\ op.cmd = "redeploy" /\ op.at # "kill" => \A p \in pods : p.uid \notin before

(* A status that ends the wait for a Topology of this deployment was       *)
(* written when all nodes were ready.                                      *)
ReadyInv ==
  op.cmd \in {"deploy", "redeploy"} =>
    /\ op.at = "update" => adopted
    /\ op.at = "ready" /\ ~adopted /\ status # None /\ TopologyReady => wasReady
    /\ op.at = "attach" /\ ~adopted => wasReady

(* Pods in the states an inspection tells apart.                           *)
SameShape(S, T) ==
  /\ S = {} <=> T = {}
  /\ {podStateToNodeState(p) : p \in {q \in S : ~q.terminating}} = {podStateToNodeState(p) : p \in {q \in T : ~q.terminating}}

StatesOf(entries) == {e.state : e \in entries}
StatesNow(n) == StatesOf(inspect(PodOf(n), replicas[n]))

Pending(n) == \E f \in Fetchers : <<f, n>> \in events

(* What an inspection has found still holds, or there is an event that     *)
(* will start another one.                                                 *)
Current(f, n) ==
  /\ fetch[f].at = "pods" => Pending(n) \/ SameShape({p \in fetch[f].snap : p.node = n}, PodOf(n))
  /\ fetch[f].at = "inspected" /\ namespace = "active" =>
       Pending(n) \/ StatesNow(n) = {} \/ StatesOf(fetch[f].seen[n]) = StatesNow(n)

CurrentInv ==
  \A f \in Fetchers : \A n \in Nodes : fetch[f].alone /\ n \in fetch[f].nodes => Current(f, n)

(* The operation will say what becomes of the node.                        *)
Owned(n) == op # NoOp /\ (op.node = None \/ (op.node = n /\ op.cmd \in {"stop", "restart"}))

Inspected(n) == \E f \in Fetchers : f # "operation" /\ fetch[f].at # "idle" /\ n \in fetch[f].nodes

Shown(n) == GivenUp(n) \/ view[n].state \in StatesNow(n)

(* A node whose state differs from that of the cluster is about to be      *)
(* looked at, or a startup listener has given up on it.                    *)
FollowInv ==
  namespace = "active" => \A n \in Nodes \ misled :
    Pending(n) \/ Inspected(n) \/ Owned(n) \/ StatesNow(n) = {} \/ Shown(n)

Inv ==
  /\ RecordInv /\ OpInv /\ FetchInv /\ GoneInv /\ StopInv /\ FreshInv /\ ReadyInv /\ CurrentInv /\ FollowInv

-----------------------------------------------------------------------------
USE DEF NodeStates, Phases, Steps, InstanceStates, Fetchers, startup

(* None is no node, no number and no status.                               *)
LEMMA NoneIsNothing == None \notin Nodes /\ None \notin Nat /\ None # 0 /\ None # 1 /\ None \notin Statuses
BY ClabernetesAssumption DEF Statuses

(* The entries of an inspection, and what becomes of a node.               *)
LEMMA InspectType ==
  ASSUME NEW S \in SUBSET Pods, NEW count
  PROVE  inspect(S, count) \subseteq Containers
<1>1. CASE count = 0
  BY <1>1 DEF inspect, Containers
<1>2. CASE count # 0
  <2>1. \A p \in Pods : podStateToNodeState(p) \in NodeStates /\ p.uid \in Nat
    BY DEF podStateToNodeState, Pods
  <2> QED BY <1>2, <2>1 DEF inspect, Containers
<1> QED BY <1>1, <1>2

(* An entry gives the node its state.                                      *)
LEMMA UpdateType ==
  ASSUME NEW e \in Containers
  PROVE  updateNode(e) \in Containers /\ updateNode(e).state = e.state
BY DEF Containers, updateNode

(* fetchNode: the state of an entry, or the old one if there is no entry.  *)
LEMMA FetchNodeState ==
  ASSUME NEW old \in Containers, NEW S \in SUBSET Containers, NEW nd \in fetchNode(old, S)
  PROVE  nd \in Containers /\ (S # {} => nd.state \in StatesOf(S)) /\ (S = {} => nd = old)
<1>1. CASE S = {}
  BY <1>1 DEF fetchNode
<1>2. CASE S # {}
  <2>1. PICK e \in S : nd = IF e.state = old.state THEN old ELSE updateNode(e)
    BY <1>2 DEF fetchNode
  <2>2. updateNode(e) \in Containers /\ updateNode(e).state = e.state
    BY UpdateType
  <2> QED BY <1>2, <2>1, <2>2 DEF StatesOf
<1> QED BY <1>1, <1>2

(* inspectLabAndUpdateNodes: the state of an entry, if there is one.       *)
LEMMA LabNodeState ==
  ASSUME NEW old \in Containers, NEW S \in SUBSET Containers, NEW nd \in inspectLabAndUpdateNodes(old, S)
  PROVE  nd \in Containers /\ (S # {} => nd.state \in StatesOf(S))
<1>1. CASE S = {}
  BY <1>1 DEF inspectLabAndUpdateNodes, Containers
<1>2. CASE S # {}
  <2>1. PICK e \in S : nd = updateNode(e)
    BY <1>2 DEF inspectLabAndUpdateNodes
  <2>2. updateNode(e) \in Containers /\ updateNode(e).state = e.state
    BY UpdateType
  <2> QED BY <1>2, <2>1, <2>2 DEF StatesOf
<1> QED BY <1>1, <1>2

(* Pods of the same shape look the same to an inspection.                  *)
LEMMA ShapeStates ==
  ASSUME NEW S, NEW T, SameShape(S, T), NEW count
  PROVE  StatesOf(inspect(S, count)) = StatesOf(inspect(T, count))
<1>1. CASE count = 0
  BY <1>1 DEF SameShape, StatesOf, inspect
<1>2. CASE count # 0
  <2>1. ASSUME NEW U
        PROVE  StatesOf(inspect(U, count)) = {podStateToNodeState(p) : p \in {q \in U : ~q.terminating}}
    <3>1. PICK L : L = {q \in U : ~q.terminating}
      OBVIOUS
    <3>2. inspect(U, count) = {[state |-> podStateToNodeState(p), id |-> p.uid] : p \in L}
      BY <1>2, <3>1 DEF inspect
    <3>3. ASSUME NEW p \in L PROVE podStateToNodeState(p) \in StatesOf(inspect(U, count))
      <4>1. PICK e : e = [state |-> podStateToNodeState(p), id |-> p.uid]
        OBVIOUS
      <4> QED BY <3>2, <4>1 DEF StatesOf
    <3>4. ASSUME NEW s \in StatesOf(inspect(U, count)) PROVE \E p \in L : s = podStateToNodeState(p)
      <4>1. PICK e \in inspect(U, count) : s = e.state
        BY DEF StatesOf
      <4> QED BY <3>2, <4>1
    <3> QED BY <3>1, <3>3, <3>4
  <2> QED BY <2>1 DEF SameShape
<1> QED BY <1>1, <1>2

(* A change of the pods of a node is reported, unless they keep their      *)
(* shape.                                                                  *)
LEMMA PodsChange ==
  ASSUME pods \subseteq Pods, NEW new \in SUBSET Pods, SetPods(new),
         \A o \in pods : \A q \in new : o.uid = q.uid => o.node = q.node
  PROVE  /\ events \subseteq events' /\ events' \subseteq events \cup ({"pods", "deployments"} \X Nodes)
         /\ \A n \in Nodes : Pending(n)' \/ SameShape(PodOf(n), PodOf(n)')
<1>1. pods' = new /\ events' = events \cup PodEvents(new)
  BY DEF SetPods
<1>2. \A p \in Pods : p.node \in Nodes
  BY DEF Pods
<1>3. PodEvents(new) \subseteq {"pods", "deployments"} \X Nodes
  BY <1>2 DEF PodEvents
<1>4. ASSUME NEW n \in Nodes, <<"pods", n>> \notin PodEvents(new)
      PROVE  SameShape(PodOf(n), PodOf(n)')
  <2>1. \A q \in new : q.node = n => \E o \in pods : o.uid = q.uid
    BY <1>4 DEF PodEvents
  <2>2. \A o \in pods : o.node = n => \E p \in new : p.uid = o.uid
    BY <1>4 DEF PodEvents
  <2>3. \A o \in pods : \A q \in new : q.node = n /\ o.uid = q.uid => ~Reported(o, q)
    BY <1>4 DEF PodEvents
  <2>4. \A q \in new : q.node = n => \E o \in pods : o.node = n /\ ~Reported(o, q)
    BY <2>1, <2>3
  <2>5. \A o \in pods : o.node = n => \E q \in new : q.node = n /\ ~Reported(o, q)
    BY <2>2, <2>3
  <2>6. \A o \in pods : \A q \in new : ~Reported(o, q) =>
          o.terminating = q.terminating /\ podStateToNodeState(o) = podStateToNodeState(q)
    BY DEF Reported
  <2>7. PodOf(n) = {p \in pods : p.node = n} /\ PodOf(n)' = {p \in new : p.node = n}
    BY <1>1 DEF PodOf
  <2>8. PICK S : S = {p \in pods : p.node = n}
    OBVIOUS
  <2>9. PICK T : T = {p \in new : p.node = n}
    OBVIOUS
  <2>10. (\A q \in T : \E o \in S : o.terminating = q.terminating /\ podStateToNodeState(o) = podStateToNodeState(q))
    BY <2>4, <2>6, <2>8, <2>9
  <2>11. (\A o \in S : \E q \in T : o.terminating = q.terminating /\ podStateToNodeState(o) = podStateToNodeState(q))
    BY <2>5, <2>6, <2>8, <2>9
  <2>12. S = {} <=> T = {}
    BY <2>10, <2>11
  <2>13. SameShape(S, T)
    <3> HIDE DEF podStateToNodeState
    <3> QED BY <2>10, <2>11, <2>12 DEF SameShape
  <2> QED BY <2>7, <2>8, <2>9, <2>13
<1>5. ASSUME NEW n \in Nodes
      PROVE  Pending(n)' \/ SameShape(PodOf(n), PodOf(n)')
  BY <1>1, <1>4 DEF Pending
<1> QED BY <1>1, <1>3, <1>5

-----------------------------------------------------------------------------
(* A step of the cluster changes what an inspection of a node says only    *)
(* with an event, or empties it.                                           *)
Noticed ==
  /\ events \subseteq events'
  /\ \A n \in Nodes : Pending(n)' \/ SameShape(PodOf(n), PodOf(n)')
  /\ namespace' = "active" => \A n \in Nodes :
       Pending(n)' \/ StatesNow(n)' = {} \/ (namespace = "active" /\ StatesNow(n)' = StatesNow(n))

(* An inspection that was current still is, or there is an event.          *)
LEMMA StaysCurrent ==
  ASSUME Noticed, NEW f \in Fetchers, NEW n \in Nodes, Current(f, n),
         fetch'[f].at = fetch[f].at, fetch'[f].snap = fetch[f].snap, fetch'[f].seen = fetch[f].seen
  PROVE  Current(f, n)'
<1>1. Pending(n) => Pending(n)'
  BY DEF Noticed, Pending
<1>2. fetch'[f].at = "pods" => Pending(n)' \/ SameShape({p \in fetch'[f].snap : p.node = n}, PodOf(n)')
  BY <1>1 DEF Noticed, Current, SameShape
<1>3. fetch'[f].at = "inspected" /\ namespace' = "active" =>
        Pending(n)' \/ StatesNow(n)' = {} \/ StatesOf(fetch'[f].seen[n]) = StatesNow(n)'
  BY <1>1 DEF Noticed, Current
<1> QED BY <1>2, <1>3 DEF Current, Pending

(* So what the instance service shows still follows the cluster.           *)
LEMMA FollowKept ==
  ASSUME Inv, Noticed, fetch' = fetch, view' = view, misled' = misled, givenUp' = givenUp, \A n \in Nodes : Owned(n) => Owned(n)'
  PROVE  CurrentInv' /\ FollowInv'
<1>1. CurrentInv'
  <2>1. ASSUME NEW f \in Fetchers, NEW n \in Nodes, fetch[f].alone, n \in fetch[f].nodes
        PROVE  Current(f, n)'
    BY <2>1, StaysCurrent DEF Inv, CurrentInv
  <2> QED BY <2>1 DEF CurrentInv
<1>2. ASSUME namespace' = "active", NEW n \in Nodes \ misled
      PROVE  Pending(n)' \/ Inspected(n)' \/ Owned(n)' \/ StatesNow(n)' = {} \/ Shown(n)'
  <2>1. Pending(n) => Pending(n)'
    BY DEF Noticed, Pending
  <2>2. Inspected(n) => Inspected(n)'
    BY DEF Inspected
  <2>3. CASE namespace = "active" /\ StatesNow(n)' = StatesNow(n)
    BY <1>2, <2>1, <2>2, <2>3 DEF Inv, FollowInv, Shown, GivenUp
  <2>4. CASE Pending(n)' \/ StatesNow(n)' = {}
    BY <2>4
  <2> QED BY <1>2, <2>3, <2>4 DEF Noticed
<1>3. FollowInv'
  BY <1>2 DEF FollowInv
<1> QED BY <1>1, <1>3

(* Nothing happens in the cluster.                                         *)
LEMMA NothingNoticed ==
  ASSUME UNCHANGED <<namespace, replicas, pods, events>>
  PROVE  Noticed
BY DEF Noticed, SameShape, StatesNow, PodOf, Pending

(* The pods change and nothing else does.                                  *)
LEMMA PodsNoticed ==
  ASSUME RecordInv, NEW new \in SUBSET Pods, SetPods(new), UNCHANGED <<namespace, replicas>>,
         uids' \in 0 .. MaxPods, uids <= uids', \A q \in new : q.uid \in 1 .. uids',
         \A p, q \in new : p.uid = q.uid => p = q,
         \A o \in pods : \A q \in new : o.uid = q.uid => o.node = q.node
  PROVE  /\ Noticed /\ pods' = new
         /\ events' \subseteq {"pods", "deployments"} \X Nodes
<1>1. pods \subseteq Pods /\ events \subseteq {"pods", "deployments"} \X Nodes
  BY DEF RecordInv
<1>2. /\ events \subseteq events' /\ events' \subseteq events \cup ({"pods", "deployments"} \X Nodes)
      /\ \A n \in Nodes : Pending(n)' \/ SameShape(PodOf(n), PodOf(n)')
  BY <1>1, PodsChange
<1>3. ASSUME NEW n \in Nodes, SameShape(PodOf(n), PodOf(n)')
      PROVE  StatesNow(n)' = StatesNow(n)
  <2>1. StatesOf(inspect(PodOf(n)', replicas[n])) = StatesOf(inspect(PodOf(n), replicas[n]))
    BY <1>3, ShapeStates
  <2>2. StatesNow(n)' = StatesOf(inspect(PodOf(n)', replicas[n]))
    BY DEF StatesNow, StatesOf, inspect, podStateToNodeState
  <2> QED BY <2>1, <2>2 DEF StatesNow
<1>4. Noticed
  BY <1>2, <1>3 DEF Noticed
<1>5. pods' = new
  BY DEF SetPods
<1> QED BY <1>1, <1>2, <1>4, <1>5

-----------------------------------------------------------------------------
(* A step of the cluster leaves the instance service alone.                *)
LEMMA ClusterStep ==
  ASSUME Inv, RecordInv', Noticed, UNCHANGED <<fetch, view, instance, op, startup, misled>>,
         GoneInv', StopInv', FreshInv', ReadyInv'
  PROVE  Inv'
<1>1. OpInv' /\ FetchInv'
  BY DEF Inv, OpInv, FetchInv
<1>2. CurrentInv' /\ FollowInv'
  BY FollowKept DEF Owned
<1> QED BY <1>1, <1>2 DEF Inv

(* The pods change, a new one has a number of its own.                     *)
LEMMA PodsStep ==
  ASSUME Inv, NEW new \in SUBSET Pods, SetPods(new),
         UNCHANGED <<namespace, status, replicas, ignored, observers, historyVars>>,
         uids' \in 0 .. MaxPods, uids <= uids', faults' \in 0 .. MaxFaults,
         namespace = "absent" => new = {},
         \A q \in new : q.uid \in 1 .. uids',
         \A p, q \in new : p.uid = q.uid => p = q,
         \A q \in new : q.uid > uids \/ \E o \in pods : o.uid = q.uid,
         \A o \in pods : \A q \in new : o.uid = q.uid => o.node = q.node
  PROVE  Inv'
<1>1. RecordInv
  BY DEF Inv
<1>2. Noticed /\ pods' = new /\ events' \subseteq {"pods", "deployments"} \X Nodes
  BY <1>1, PodsNoticed
<1>3. RecordInv'
  BY <1>1, <1>2 DEF RecordInv, observers, historyVars
<1>4. GoneInv' /\ StopInv' /\ ReadyInv'
  BY <1>2 DEF Inv, GoneInv, StopInv, LeftAlone, ReadyInv, TopologyReady, observers, historyVars
<1>5. FreshInv'
  BY <1>1, <1>2 DEF Inv, RecordInv, FreshInv, observers, historyVars
<1> QED BY <1>2, <1>3, <1>4, <1>5, ClusterStep DEF observers, historyVars

(* A Deployment gets a new pod.                                            *)
LEMMA CreatePodStep ==
  ASSUME Inv, NEW n \in Nodes, CreatePod(n)
  PROVE  Inv'
<1>1. PICK p : p = [node |-> n, uid |-> uids + 1, phase |-> "pending", terminating |-> FALSE]
  OBVIOUS
<1>2. uids \in 0 .. MaxPods /\ uids' = uids + 1 /\ uids < MaxPods /\ MaxPods \in Nat
  BY ClabernetesAssumption DEF Inv, RecordInv, CreatePod
<1>3. p \in Pods /\ p.uid = uids + 1
  BY <1>1, <1>2 DEF Pods
<1>4. pods \subseteq Pods /\ (\A o \in pods : o.uid \in 1 .. uids) /\ (\A o, q \in pods : o.uid = q.uid => o = q)
  BY DEF Inv, RecordInv
<1>5. PICK new : new = pods \cup {p}
  OBVIOUS
<1>6. SetPods(new) /\ namespace = "active" /\ faults' = faults
      /\ UNCHANGED <<namespace, status, replicas, ignored, observers, historyVars>>
  BY <1>1, <1>5 DEF CreatePod
<1>7. /\ new \in SUBSET Pods /\ uids' \in 0 .. MaxPods /\ uids <= uids'
      /\ \A q \in new : q.uid \in 1 .. uids'
      /\ \A r, q \in new : r.uid = q.uid => r = q
      /\ \A q \in new : q.uid > uids \/ \E o \in pods : o.uid = q.uid
      /\ \A o \in pods : \A q \in new : o.uid = q.uid => o.node = q.node
  BY <1>2, <1>3, <1>4, <1>5
<1>8. faults' \in 0 .. MaxFaults
  BY <1>6 DEF Inv, RecordInv
<1> QED BY <1>6, <1>7, <1>8, PodsStep

(* A pod changes its phase or is terminated.                               *)
LEMMA PodChangesStep ==
  ASSUME Inv, NEW p \in pods, NEW q \in Pods, q.uid = p.uid, q.node = p.node, SetPods((pods \ {p}) \cup {q}),
         UNCHANGED <<namespace, status, replicas, ignored, uids, observers, historyVars>>, faults' \in 0 .. MaxFaults
  PROVE  Inv'
<1>1. /\ pods \subseteq Pods /\ (\A o \in pods : o.uid \in 1 .. uids) /\ (\A o, r \in pods : o.uid = r.uid => o = r)
      /\ uids \in 0 .. MaxPods /\ (namespace = "absent" => pods = {})
  BY DEF Inv, RecordInv, GoneInv
<1>2. PICK new : new = (pods \ {p}) \cup {q}
  OBVIOUS
<1>3. /\ new \in SUBSET Pods /\ uids' \in 0 .. MaxPods /\ uids <= uids'
      /\ \A r \in new : r.uid \in 1 .. uids'
      /\ \A r, s \in new : r.uid = s.uid => r = s
      /\ \A r \in new : r.uid > uids \/ \E o \in pods : o.uid = r.uid
      /\ \A o \in pods : \A r \in new : o.uid = r.uid => o.node = r.node
      /\ namespace = "absent" => new = {}
  BY <1>1, <1>2
<1> QED BY <1>2, <1>3, PodsStep

(* A pod goes on, is terminated or lost.                                   *)
LEMMA PodRunsStep ==
  ASSUME Inv, NEW p \in pods, PodRuns(p) \/ ScaleDown(p) \/ PodLost(p)
  PROVE  Inv'
<1>1. p \in Pods
  BY DEF Inv, RecordInv
<1>2. faults' \in 0 .. MaxFaults
  BY ClabernetesAssumption DEF Inv, RecordInv, PodRuns, ScaleDown, PodLost
<1>3. CASE PodRuns(p)
  <2>1. PICK q : q = [p EXCEPT !.phase = IF p.phase = "pending" THEN "running" ELSE "ready"]
    OBVIOUS
  <2>2. q \in Pods /\ q.uid = p.uid /\ q.node = p.node
    BY <1>1, <2>1 DEF Pods
  <2> QED BY <1>2, <1>3, <2>1, <2>2, PodChangesStep DEF PodRuns
<1>4. CASE ScaleDown(p)
  <2>1. PICK q : q = [p EXCEPT !.terminating = TRUE]
    OBVIOUS
  <2>2. q \in Pods /\ q.uid = p.uid /\ q.node = p.node
    BY <1>1, <2>1 DEF Pods
  <2> QED BY <1>2, <1>4, <2>1, <2>2, PodChangesStep DEF ScaleDown
<1>5. CASE PodLost(p)
  <2>1. PICK phase \in {"running", "failed"} : SetPods((pods \ {p}) \cup {[p EXCEPT !.phase = phase]})
    BY <1>5 DEF PodLost
  <2>2. PICK q : q = [p EXCEPT !.phase = phase]
    OBVIOUS
  <2>3. q \in Pods /\ q.uid = p.uid /\ q.node = p.node
    BY <1>1, <2>2 DEF Pods
  <2> QED BY <1>2, <1>5, <2>1, <2>2, <2>3, PodChangesStep DEF PodLost
<1> QED BY <1>3, <1>4, <1>5

(* A pod is gone.                                                          *)
LEMMA PodGoesStep ==
  ASSUME Inv, NEW p \in pods, PodGoes(p)
  PROVE  Inv'
<1>1. /\ pods \subseteq Pods /\ (\A o \in pods : o.uid \in 1 .. uids) /\ (\A o, r \in pods : o.uid = r.uid => o = r)
      /\ uids \in 0 .. MaxPods /\ (namespace = "absent" => pods = {}) /\ faults \in 0 .. MaxFaults
  BY DEF Inv, RecordInv, GoneInv
<1>2. PICK new : new = pods \ {p}
  OBVIOUS
<1>3. /\ SetPods(new) /\ uids' = uids /\ faults' = faults
      /\ UNCHANGED <<namespace, status, replicas, ignored, observers, historyVars>>
  BY <1>2 DEF PodGoes
<1>4. /\ new \in SUBSET Pods /\ uids' \in 0 .. MaxPods /\ uids <= uids'
      /\ \A r \in new : r.uid \in 1 .. uids'
      /\ \A r, s \in new : r.uid = s.uid => r = s
      /\ \A r \in new : r.uid > uids \/ \E o \in pods : o.uid = r.uid
      /\ \A o \in pods : \A r \in new : o.uid = r.uid => o.node = r.node
      /\ namespace = "absent" => new = {}
  BY <1>1, <1>2, <1>3
<1> QED BY <1>1, <1>3, <1>4, PodsStep

(* The replicas of a node that has a Deployment change with an event, and  *)
(* a new Deployment says nothing that was not said before.                 *)
LEMMA ReplicasNoticed ==
  ASSUME RecordInv, NEW n \in Nodes, NEW r \in {0, 1}, SetReplicas([replicas EXCEPT ![n] = r]),
         UNCHANGED <<namespace, pods>>, r = 0 => replicas[n] # None
  PROVE  /\ Noticed /\ replicas' \in [Nodes -> {None, 0, 1}]
         /\ replicas'[n] = r /\ (\A m \in Nodes \ {n} : replicas'[m] = replicas[m])
         /\ events' \subseteq {"pods", "deployments"} \X Nodes
<1>1. /\ replicas' = [replicas EXCEPT ![n] = r] /\ replicas' \in [Nodes -> {None, 0, 1}]
      /\ replicas'[n] = r /\ (\A m \in Nodes \ {n} : replicas'[m] = replicas[m])
  BY DEF RecordInv, SetReplicas
<1>2. events' = events \cup {<<"deployments", m>> : m \in {k \in Nodes : None \notin {replicas[k], replicas'[k]} /\ replicas[k] # replicas'[k]}}
  BY <1>1 DEF SetReplicas
<1>3. \A m \in Nodes : PodOf(m)' = PodOf(m)
  BY DEF PodOf
<1>4. ASSUME NEW m \in Nodes
      PROVE  Pending(m)' \/ StatesNow(m)' = StatesNow(m)
  <2>1. CASE replicas'[m] = replicas[m]
    BY <1>3, <2>1 DEF StatesNow, StatesOf, inspect, podStateToNodeState
  <2>2. CASE replicas'[m] # replicas[m] /\ replicas[m] # None
    <3>1. replicas'[m] # None
      BY <1>1, <2>2, NoneIsNothing DEF RecordInv
    <3> QED BY <1>2, <2>2, <3>1 DEF Pending
  <2>3. CASE replicas'[m] = 1 /\ replicas[m] = None
    <3>1. \A S : inspect(S, 1) = inspect(S, None)
      BY NoneIsNothing DEF inspect
    <3>2. StatesNow(m)' = StatesOf(inspect(PodOf(m), 1))
      BY <1>3, <2>3 DEF StatesNow, StatesOf, inspect, podStateToNodeState
    <3> QED BY <2>3, <3>1, <3>2 DEF StatesNow
  <2> QED BY <1>1, <2>1, <2>2, <2>3
<1>5. Noticed
  BY <1>2, <1>3, <1>4 DEF Noticed, SameShape
<1>6. events' \subseteq {"pods", "deployments"} \X Nodes
  BY <1>2 DEF RecordInv
<1> QED BY <1>1, <1>5, <1>6

(* The manager gives a node a Deployment it is not to leave alone.         *)
LEMMA ReconcileStep ==
  ASSUME Inv, NEW n \in Nodes, Reconcile(n)
  PROVE  Inv'
<1>1. RecordInv /\ SetReplicas([replicas EXCEPT ![n] = 1]) /\ namespace = "active" /\ status # None /\ n \notin ignored
      /\ UNCHANGED <<namespace, status, ignored, pods, uids, fetch, view, instance, op, requests, faults, startup,
                     before, adopted, wasReady, stopped, misled>>
  BY DEF Inv, Reconcile, observers, historyVars
<1>2. /\ Noticed /\ replicas' \in [Nodes -> {None, 0, 1}]
      /\ replicas'[n] = 1 /\ (\A m \in Nodes \ {n} : replicas'[m] = replicas[m])
      /\ events' \subseteq {"pods", "deployments"} \X Nodes
  <2>1. PICK r \in {0, 1} : r = 1
    OBVIOUS
  <2>2. /\ SetReplicas([replicas EXCEPT ![n] = r]) /\ UNCHANGED <<namespace, pods>> /\ (r = 0 => replicas[n] # None)
    BY <1>1, <2>1
  <2>3. /\ Noticed /\ replicas' \in [Nodes -> {None, 0, 1}]
        /\ replicas'[n] = r /\ (\A m \in Nodes \ {n} : replicas'[m] = replicas[m])
        /\ events' \subseteq {"pods", "deployments"} \X Nodes
    BY <1>1, <2>2, ReplicasNoticed
  <2> QED BY <2>1, <2>3
<1>3. RecordInv'
  BY <1>1, <1>2 DEF RecordInv
<1>4. GoneInv' /\ FreshInv' /\ ReadyInv'
  BY <1>1 DEF Inv, GoneInv, FreshInv, ReadyInv, TopologyReady
<1>5. StopInv'
  BY <1>1, <1>2 DEF Inv, RecordInv, StopInv, LeftAlone
<1> QED BY <1>1, <1>2, <1>3, <1>4, <1>5, ClusterStep

(* The manager writes the status, "running" only if all nodes are ready.   *)
LEMMA PublishStatusStep ==
  ASSUME Inv, PublishStatus
  PROVE  Inv'
<1>1. PICK allReady : allReady = \A n \in Nodes : Ready(n)
  OBVIOUS
<1>2. PICK counted : counted = \A n \in Nodes : replicas[n] # None
  OBVIOUS
<1>3. allReady \in BOOLEAN /\ counted \in BOOLEAN
  BY <1>1, <1>2
<1>4. PICK s \in {"deploying", "running"} :
        /\ s = "running" => allReady
        /\ status' = [state |-> s, ready |-> ~counted \/ allReady, count |-> IF counted THEN Cardinality(Nodes) ELSE 0]
  <2>1. \E s \in {"deploying"} \cup (IF allReady THEN {"running"} ELSE {}) :
          status' = [state |-> s, ready |-> ~counted \/ allReady, count |-> IF counted THEN Cardinality(Nodes) ELSE 0]
    BY <1>1, <1>2 DEF PublishStatus
  <2> QED BY <1>3, <2>1
<1>5. Cardinality(Nodes) \in Nat
  BY ClabernetesAssumption, FS_CardinalityType
<1>6. status' \in Statuses /\ (TopologyReady' => allReady)
  <2>1. status'.state = s /\ status'.ready = (~counted \/ allReady) /\ status'.count = IF counted THEN Cardinality(Nodes) ELSE 0
    BY <1>4
  <2>2. status' \in Statuses
    BY <1>3, <1>4, <1>5 DEF Statuses
  <2>3. TopologyReady' => allReady
    BY <1>3, <1>4, <1>5, <2>1 DEF TopologyReady
  <2> QED BY <2>2, <2>3
<1>7. /\ namespace = "active" /\ status # None /\ wasReady' = (wasReady \/ allReady)
      /\ UNCHANGED <<namespace, replicas, ignored, pods, uids, events, fetch, view, instance, op, requests, faults, startup,
                     before, adopted, stopped, misled>>
  BY <1>1 DEF PublishStatus, observers
<1>8. RecordInv'
  BY <1>3, <1>6, <1>7 DEF Inv, RecordInv
<1>9. GoneInv' /\ FreshInv' /\ StopInv'
  BY <1>7 DEF Inv, GoneInv, FreshInv, StopInv, LeftAlone
<1>10. ReadyInv'
  <2>1. wasReady => wasReady'
    BY <1>7
  <2>2. TopologyReady' => wasReady'
    BY <1>6, <1>7
  <2> QED BY <1>7, <2>1, <2>2 DEF Inv, ReadyInv
<1> QED BY <1>7, <1>8, <1>9, <1>10, NothingNoticed, ClusterStep

(* The manager gives up.                                                   *)
LEMMA DeploymentFailsStep ==
  ASSUME Inv, DeploymentFails
  PROVE  Inv'
<1>1. PICK s : s = status
  OBVIOUS
<1>2. s \in Statuses
  BY <1>1 DEF Inv, RecordInv, DeploymentFails
<1>3. /\ status' = [s EXCEPT !.state = "failed"] /\ namespace = "active" /\ status # None
      /\ UNCHANGED <<namespace, replicas, ignored, pods, uids, events, fetch, view, instance, op, requests, startup,
                     before, adopted, wasReady, stopped, misled>>
  BY <1>1 DEF DeploymentFails, observers, historyVars
<1>4. status' \in Statuses /\ (TopologyReady' => TopologyReady)
  BY <1>1, <1>2, <1>3 DEF Statuses, TopologyReady
<1>5. faults' \in 0 .. MaxFaults
  BY ClabernetesAssumption DEF Inv, RecordInv, DeploymentFails
<1>6. RecordInv'
  BY <1>3, <1>4, <1>5 DEF Inv, RecordInv
<1>7. GoneInv' /\ FreshInv' /\ StopInv'
  BY <1>3 DEF Inv, GoneInv, FreshInv, StopInv, LeftAlone
<1>8. ReadyInv'
  BY <1>3, <1>4 DEF Inv, ReadyInv
<1> QED BY <1>3, <1>6, <1>7, <1>8, NothingNoticed, ClusterStep

(* A namespace that terminates loses what is in it, and goes.              *)
LEMMA NamespaceStep ==
  ASSUME Inv, NamespaceEmpties \/ NamespaceGoes
  PROVE  Inv'
<1>1. /\ namespace = "terminating" /\ namespace' # "active"
      /\ UNCHANGED <<pods, uids, events, fetch, view, instance, op, requests, faults, startup,
                     before, adopted, wasReady, stopped, misled>>
  BY DEF NamespaceEmpties, NamespaceGoes, observers, historyVars
<1>2. RecordInv'
  BY <1>1 DEF Inv, RecordInv, NamespaceEmpties, NamespaceGoes
<1>3. Noticed
  BY <1>1 DEF Noticed, SameShape, PodOf
<1>4. GoneInv' /\ StopInv' /\ FreshInv'
  BY <1>1 DEF Inv, RecordInv, GoneInv, StopInv, FreshInv, LeftAlone, NamespaceEmpties, NamespaceGoes
<1>5. ReadyInv'
  BY <1>1 DEF Inv, ReadyInv, TopologyReady, NamespaceEmpties, NamespaceGoes
<1> QED BY <1>1, <1>2, <1>3, <1>4, <1>5, ClusterStep

(* The controllers of the cluster.                                         *)
LEMMA ClusterSteps == Inv /\ Cluster => Inv'
BY CreatePodStep, PodRunsStep, PodGoesStep, ReconcileStep, PublishStatusStep, DeploymentFailsStep, NamespaceStep
   DEF Cluster

-----------------------------------------------------------------------------
(* A step of the instance service leaves the cluster as it is.             *)
LEMMA StatesStay ==
  ASSUME UNCHANGED <<replicas, pods>>
  PROVE  \A n \in Nodes : PodOf(n)' = PodOf(n) /\ StatesNow(n)' = StatesNow(n)
<1>1. \A n \in Nodes : PodOf(n)' = PodOf(n)
  BY DEF PodOf
<1> QED BY <1>1 DEF StatesNow, StatesOf, inspect, podStateToNodeState

(* Events of other nodes do not matter to an inspection.                   *)
LEMMA CurrentStays ==
  ASSUME UNCHANGED <<namespace, replicas, pods>>, NEW f \in Fetchers, NEW n \in Nodes, Current(f, n),
         Pending(n) => Pending(n)',
         fetch'[f].at = fetch[f].at, fetch'[f].snap = fetch[f].snap, fetch'[f].seen = fetch[f].seen
  PROVE  Current(f, n)'
<1>1. PodOf(n)' = PodOf(n) /\ StatesNow(n)' = StatesNow(n)
  BY StatesStay
<1>2. fetch'[f].at = "pods" => Pending(n)' \/ SameShape({p \in fetch'[f].snap : p.node = n}, PodOf(n)')
  BY <1>1 DEF Current
<1>3. fetch'[f].at = "inspected" /\ namespace' = "active" =>
        Pending(n)' \/ StatesNow(n)' = {} \/ StatesOf(fetch'[f].seen[n]) = StatesNow(n)'
  BY <1>1 DEF Current
<1> QED BY <1>2, <1>3 DEF Current, Pending

(* No inspection.                                                          *)
LEMMA NoFetchFacts ==
  /\ NoFetch \in Fetches /\ NoFetch.at = "idle" /\ NoFetch.nodes = {} /\ \A n \in Nodes : NoFetch.seen[n] = {}
BY DEF NoFetch, Fetches, Unseen

(* Inspections end and none begins.                                        *)
LEMMA FewerFetches ==
  ASSUME Inv, Noticed, fetch' \in [Fetchers -> Fetches], \A g \in Fetchers : fetch'[g] \in {fetch[g], NoFetch},
         fetch'["operation"].at # "idle" => op' = op
  PROVE  FetchInv' /\ CurrentInv'
<1>1. FetchInv /\ CurrentInv
  BY DEF Inv
<1>2. FetchInv'
  BY <1>1, NoFetchFacts DEF FetchInv
<1>3. ASSUME NEW f \in Fetchers, NEW n \in Nodes, fetch'[f].alone, n \in fetch'[f].nodes
      PROVE  Current(f, n)'
  <2>1. fetch'[f] = fetch[f]
    BY <1>3, NoFetchFacts
  <2>2. Current(f, n)
    BY <1>1, <1>3, <2>1 DEF CurrentInv
  <2> QED BY <2>1, <2>2, StaysCurrent
<1>4. CurrentInv'
  BY <1>3 DEF CurrentInv
<1> QED BY <1>2, <1>4

(* What is shown of a node still follows the cluster: it has been kept,    *)
(* or the operation will see to it.                                        *)
LEMMA FollowStep ==
  ASSUME Inv, Noticed,
         \A n \in Nodes \ misled' :
           \/ Owned(n)'
           \/ /\ n \notin misled /\ view'[n].state = view[n].state
              /\ (Inspected(n) => Inspected(n)') /\ (Owned(n) => Owned(n)') /\ (n \in givenUp => n \in givenUp')
  PROVE  FollowInv'
<1>1. ASSUME namespace' = "active", NEW n \in Nodes \ misled'
      PROVE  Pending(n)' \/ Inspected(n)' \/ Owned(n)' \/ StatesNow(n)' = {} \/ Shown(n)'
  <2>1. Pending(n) => Pending(n)'
    BY DEF Noticed, Pending
  <2>2. CASE namespace = "active" /\ StatesNow(n)' = StatesNow(n)
    BY <1>1, <2>1, <2>2 DEF Inv, FollowInv, Shown, GivenUp
  <2>3. CASE Pending(n)' \/ StatesNow(n)' = {}
    BY <2>3
  <2> QED BY <1>1, <2>2, <2>3 DEF Noticed
<1> QED BY <1>1 DEF FollowInv

(* A step of the listener leaves the operation alone.                      *)
LEMMA ListenerStep ==
  ASSUME Inv, UNCHANGED <<namespace, status, replicas, ignored, pods, uids, instance, op, requests, before, adopted,
                          wasReady, stopped>>,
         events' \subseteq events, fetch' \in [Fetchers -> Fetches], view' \in [Nodes -> Containers],
         faults' \in 0 .. MaxFaults, misled' \subseteq Nodes,
         listening' \subseteq Nodes, givenUp' \subseteq Nodes, FetchInv', CurrentInv', FollowInv'
  PROVE  Inv'
<1>1. RecordInv'
  BY DEF Inv, RecordInv
<1>2. OpInv' /\ GoneInv' /\ StopInv' /\ FreshInv' /\ ReadyInv'
  BY DEF Inv, OpInv, GoneInv, StopInv, LeftAlone, FreshInv, ReadyInv, TopologyReady
<1> QED BY <1>1, <1>2 DEF Inv

(* An inspection begins: the pods are listed, and inspections of the same  *)
(* node are not alone any more.                                            *)
LEMMA ListPodsFacts ==
  ASSUME RecordInv, NEW f \in Fetchers, NEW N \in SUBSET Nodes, ListPods(f, N)
  PROVE  /\ fetch' \in [Fetchers -> Fetches]
         /\ fetch'[f].at = "pods" /\ fetch'[f].nodes = N /\ fetch'[f].snap = {p \in pods : p.node \in N}
         /\ \A n \in Nodes : fetch'[f].seen[n] = {}
         /\ fetch'[f].alone => \A g \in Fetchers \ {f} : ~Overlaps(g, N)
         /\ \A g \in Fetchers \ {f} :
              /\ fetch'[g].at = fetch[g].at /\ fetch'[g].nodes = fetch[g].nodes
              /\ fetch'[g].snap = fetch[g].snap /\ fetch'[g].seen = fetch[g].seen
              /\ fetch'[g].alone => fetch[g].alone /\ ~Overlaps(g, N)
<1>1. fetch \in [Fetchers -> Fetches] /\ pods \subseteq Pods
  BY DEF RecordInv
<1>2. PICK snap : snap = {p \in pods : p.node \in N}
  OBVIOUS
<1>3. PICK alone : alone = \A h \in Fetchers \ {f} : ~Overlaps(h, N)
  OBVIOUS
<1>4. PICK c : c = [NoFetch EXCEPT !.at = "pods", !.nodes = N, !.snap = snap, !.alone = alone]
  OBVIOUS
<1>5. c \in Fetches /\ c.at = "pods" /\ c.nodes = N /\ c.snap = snap /\ c.seen = NoFetch.seen /\ c.alone = alone
  BY <1>1, <1>2, <1>3, <1>4, NoFetchFacts DEF Fetches
<1>6. fetch' = [g \in Fetchers |-> CASE g = f -> c
                                     [] g # f /\ Overlaps(g, N) -> [fetch[g] EXCEPT !.alone = FALSE]
                                     [] OTHER -> fetch[g]]
  BY <1>2, <1>3, <1>4 DEF ListPods
<1>7. fetch'[f] = c
  BY <1>6
<1>8. ASSUME NEW g \in Fetchers \ {f}
      PROVE  /\ fetch'[g] \in Fetches
             /\ fetch'[g].at = fetch[g].at /\ fetch'[g].nodes = fetch[g].nodes
             /\ fetch'[g].snap = fetch[g].snap /\ fetch'[g].seen = fetch[g].seen
             /\ fetch'[g].alone => fetch[g].alone /\ ~Overlaps(g, N)
  <2>1. PICK d : d = fetch[g]
    OBVIOUS
  <2>2. d \in Fetches
    BY <1>1, <2>1
  <2>3. fetch'[g] = IF Overlaps(g, N) THEN [d EXCEPT !.alone = FALSE] ELSE d
    BY <1>6, <2>1
  <2> QED BY <2>1, <2>2, <2>3 DEF Fetches
<1>9. fetch' \in [Fetchers -> Fetches]
  BY <1>5, <1>6, <1>7, <1>8
<1> QED BY <1>2, <1>3, <1>5, <1>7, <1>8, <1>9, NoFetchFacts

(* The event callback starts an inspection, or the event is lost.          *)
LEMMA HandleEventStep ==
  ASSUME Inv, NEW f \in Fetchers, NEW n \in Nodes, HandleEvent(f, n)
  PROVE  Inv'
<1>1. RecordInv /\ FetchInv /\ CurrentInv /\ FollowInv
  BY DEF Inv
<1>2. /\ <<f, n>> \in events /\ fetch[f].at = "idle" /\ events' = events \ {<<f, n>>}
      /\ UNCHANGED <<namespace, status, replicas, ignored, pods, uids, view, instance, op, requests, faults,
                     startup, before, adopted, wasReady, stopped>>
  BY DEF HandleEvent
<1>3. f # "operation"
  BY <1>1, <1>2 DEF RecordInv
<1>4. \A m \in Nodes \ {n} : Pending(m) => Pending(m)'
  BY <1>2 DEF Pending
<1>5. fetch \in [Fetchers -> Fetches] /\ view' \in [Nodes -> Containers] /\ misled \subseteq Nodes /\ faults' \in 0 .. MaxFaults
      /\ listening' \subseteq Nodes /\ givenUp' \subseteq Nodes
  BY <1>1, <1>2 DEF RecordInv
<1>6. ASSUME NEW g \in Fetchers, NEW m \in Nodes, fetch'[g].alone, m \in fetch'[g].nodes,
             fetch'[g].at = fetch[g].at, fetch'[g].nodes = fetch[g].nodes, fetch'[g].snap = fetch[g].snap,
             fetch'[g].seen = fetch[g].seen, fetch'[g].alone => fetch[g].alone /\ ~Overlaps(g, {n})
      PROVE  Current(g, m)'
  <2>1. CASE fetch[g].at = "idle"
    BY <1>6, <2>1 DEF Current
  <2>2. CASE fetch[g].at # "idle"
    <3>1. m # n
      BY <1>6, <2>2 DEF Overlaps
    <3>2. Current(g, m)
      BY <1>1, <1>6 DEF CurrentInv
    <3> QED BY <1>2, <1>4, <1>6, <3>1, <3>2, CurrentStays
  <2> QED BY <2>1, <2>2
<1>7. ASSUME NEW m \in Nodes \ {n}, m \notin misled, Inspected(m) => Inspected(m)', namespace' = "active"
      PROVE  Pending(m)' \/ Inspected(m)' \/ Owned(m)' \/ StatesNow(m)' = {} \/ Shown(m)'
  <2>1. StatesNow(m)' = StatesNow(m)
    BY <1>2, StatesStay
  <2>2. Owned(m)' = Owned(m)
    BY <1>2 DEF Owned
  <2> QED BY <1>1, <1>2, <1>4, <1>7, <2>1, <2>2 DEF FollowInv, Shown, GivenUp
<1>8. CASE Inspectable /\ ListPods(f, {n}) /\ UNCHANGED misled
  <2>1. /\ fetch' \in [Fetchers -> Fetches]
        /\ fetch'[f].at = "pods" /\ fetch'[f].nodes = {n} /\ fetch'[f].snap = {p \in pods : p.node \in {n}}
        /\ \A m \in Nodes : fetch'[f].seen[m] = {}
        /\ fetch'[f].alone => \A g \in Fetchers \ {f} : ~Overlaps(g, {n})
        /\ \A g \in Fetchers \ {f} :
             /\ fetch'[g].at = fetch[g].at /\ fetch'[g].nodes = fetch[g].nodes
             /\ fetch'[g].snap = fetch[g].snap /\ fetch'[g].seen = fetch[g].seen
             /\ fetch'[g].alone => fetch[g].alone /\ ~Overlaps(g, {n})
    <3>1. PICK N \in SUBSET Nodes : N = {n}
      OBVIOUS
    <3>2. ListPods(f, N)
      BY <1>8, <3>1
    <3> QED BY <1>1, <3>1, <3>2, ListPodsFacts
  <2>2. FetchInv'
    BY <1>1, <1>2, <1>3, <2>1 DEF FetchInv, Overlaps
  <2>3. Current(f, n)'
    <3>1. {p \in fetch'[f].snap : p.node = n} = PodOf(n)'
      BY <1>2, <2>1 DEF PodOf
    <3> QED BY <2>1, <3>1 DEF Current, SameShape
  <2>4. CurrentInv'
    BY <1>6, <2>1, <2>3 DEF CurrentInv
  <2>5. \A m \in Nodes : Inspected(m) => Inspected(m)'
    BY <1>2, <2>1 DEF Inspected
  <2>6. Inspected(n)'
    BY <1>3, <2>1 DEF Inspected
  <2>7. FollowInv'
    BY <1>7, <1>8, <2>5, <2>6 DEF FollowInv
  <2> QED BY <1>2, <1>5, <1>8, <2>1, <2>2, <2>4, <2>7, ListenerStep
<1>9. CASE /\ misled' = misled \cup {n}
           /\ fetch' = [g \in Fetchers |-> IF Overlaps(g, {n}) THEN [fetch[g] EXCEPT !.alone = FALSE] ELSE fetch[g]]
  <2>1. ASSUME NEW g \in Fetchers
        PROVE  /\ fetch'[g] \in Fetches
               /\ fetch'[g].at = fetch[g].at /\ fetch'[g].nodes = fetch[g].nodes
               /\ fetch'[g].snap = fetch[g].snap /\ fetch'[g].seen = fetch[g].seen
               /\ fetch'[g].alone => fetch[g].alone /\ ~Overlaps(g, {n})
    <3>1. PICK d : d = fetch[g]
      OBVIOUS
    <3>2. d \in Fetches
      BY <1>5, <3>1
    <3>3. fetch'[g] = IF Overlaps(g, {n}) THEN [d EXCEPT !.alone = FALSE] ELSE d
      BY <1>9, <3>1
    <3> QED BY <3>1, <3>2, <3>3 DEF Fetches
  <2>2. fetch' \in [Fetchers -> Fetches]
    BY <1>9, <2>1
  <2>3. FetchInv'
    BY <1>1, <1>2, <2>1 DEF FetchInv
  <2>4. CurrentInv'
    BY <1>6, <2>1 DEF CurrentInv
  <2>5. \A m \in Nodes : Inspected(m) => Inspected(m)'
    BY <2>1 DEF Inspected
  <2>6. FollowInv'
    BY <1>7, <1>9, <2>5 DEF FollowInv
  <2> QED BY <1>2, <1>5, <1>9, <2>2, <2>3, <2>4, <2>6, ListenerStep
<1> QED BY <1>8, <1>9 DEF HandleEvent

(* The Deployments are listed: what the inspection says holds of the       *)
(* cluster now if the pods have kept their shape.                          *)
LEMMA ListDeploymentsStep ==
  ASSUME Inv, NEW f \in Fetchers, ListDeployments(f)
  PROVE  Inv'
<1>1. RecordInv /\ FetchInv /\ CurrentInv /\ FollowInv
  BY DEF Inv
<1>2. /\ fetch[f].at = "pods"
      /\ UNCHANGED <<namespace, status, replicas, ignored, pods, uids, events, view, instance, op, requests, faults,
                     startup, before, adopted, wasReady, stopped, misled>>
  BY DEF ListDeployments, clusterVars, historyVars
<1>3. fetch \in [Fetchers -> Fetches] /\ view' \in [Nodes -> Containers] /\ misled' \subseteq Nodes /\ faults' \in 0 .. MaxFaults
      /\ listening' \subseteq Nodes /\ givenUp' \subseteq Nodes
  BY <1>1, <1>2 DEF RecordInv
<1>4. PICK d : d = fetch[f]
  OBVIOUS
<1>5. d \in Fetches /\ d.nodes \subseteq Nodes /\ d.snap \subseteq Pods
  BY <1>3, <1>4 DEF Fetches
<1>6. PICK seen : seen = [n \in Nodes |-> IF n \in d.nodes THEN inspect({p \in d.snap : p.node = n}, replicas[n]) ELSE {}]
  OBVIOUS
<1>7. seen \in [Nodes -> SUBSET Containers]
  <2>1. \A n \in Nodes : inspect({p \in d.snap : p.node = n}, replicas[n]) \subseteq Containers
    BY <1>5, InspectType
  <2> QED BY <1>6, <2>1
<1>8. PICK c : c = [d EXCEPT !.at = "inspected", !.snap = {}, !.seen = seen]
  OBVIOUS
<1>9. c \in Fetches /\ c.at = "inspected" /\ c.nodes = d.nodes /\ c.seen = seen /\ c.alone = d.alone
  BY <1>5, <1>7, <1>8 DEF Fetches
<1>10. fetch' = [fetch EXCEPT ![f] = c]
  BY <1>3, <1>4, <1>6, <1>8 DEF ListDeployments, Fetches
<1>11. fetch' \in [Fetchers -> Fetches] /\ fetch'[f] = c /\ \A g \in Fetchers \ {f} : fetch'[g] = fetch[g]
  BY <1>3, <1>9, <1>10
<1>12. FetchInv'
  <2>1. \A g \in Fetchers : /\ fetch'[g].nodes = fetch[g].nodes /\ fetch'[g].alone = fetch[g].alone
                            /\ fetch'[g].at # "idle" <=> fetch[g].at # "idle"
    BY <1>2, <1>4, <1>9, <1>11
  <2>2. \A n \in Nodes : n \notin d.nodes => seen[n] = {}
    BY <1>6
  <2>3. \A g \in Fetchers : \A n \in Nodes : n \notin fetch'[g].nodes => fetch'[g].seen[n] = {}
    BY <1>1, <1>9, <1>11, <2>2 DEF FetchInv
  <2> QED BY <1>1, <1>2, <2>1, <2>3 DEF FetchInv
<1>13. Noticed
  BY <1>2, NothingNoticed
<1>14. ASSUME NEW n \in Nodes, d.alone, n \in d.nodes
       PROVE  Current(f, n)'
  <2>1. PICK S : S = {p \in d.snap : p.node = n}
    OBVIOUS
  <2>2. Pending(n) \/ SameShape(S, PodOf(n))
    BY <1>1, <1>2, <1>4, <1>14, <2>1 DEF CurrentInv, Current
  <2>3. Pending(n)' = Pending(n)
    BY <1>2 DEF Pending
  <2>4. CASE SameShape(S, PodOf(n))
    <3>1. StatesOf(inspect(S, replicas[n])) = StatesNow(n)
      BY <2>4, ShapeStates DEF StatesNow
    <3>2. seen[n] = inspect(S, replicas[n])
      BY <1>6, <1>14, <2>1
    <3>3. StatesOf(fetch'[f].seen[n]) = StatesNow(n)
      BY <1>9, <1>11, <3>1, <3>2
    <3>4. StatesNow(n)' = StatesNow(n)
      BY <1>2, StatesStay
    <3>5. StatesOf(fetch'[f].seen[n]) = StatesNow(n)'
      BY <3>3, <3>4
    <3> QED BY <1>9, <1>11, <3>5 DEF Current, StatesOf
  <2> QED BY <1>9, <1>11, <2>2, <2>3, <2>4 DEF Current
<1>15. ASSUME NEW g \in Fetchers \ {f}, NEW n \in Nodes, fetch'[g].alone, n \in fetch'[g].nodes
       PROVE  Current(g, n)'
  BY <1>1, <1>11, <1>13, <1>15, StaysCurrent DEF CurrentInv
<1>16. CurrentInv'
  BY <1>9, <1>11, <1>14, <1>15 DEF CurrentInv
<1>17. FollowInv'
  <2>1. \A n \in Nodes : (Inspected(n) => Inspected(n)') /\ (Owned(n) => Owned(n)')
    BY <1>2, <1>4, <1>9, <1>11 DEF Inspected, Owned
  <2> QED BY <1>2, <1>13, <2>1, FollowStep
<1> QED BY <1>2, <1>3, <1>11, <1>12, <1>16, <1>17, ListenerStep

(* An inspection ends.                                                     *)
LEMMA DoneFacts ==
  ASSUME RecordInv, NEW f \in Fetchers, Done(f)
  PROVE  /\ fetch' \in [Fetchers -> Fetches] /\ fetch'[f] = NoFetch
         /\ \A g \in Fetchers \ {f} : fetch'[g] = fetch[g]
         /\ \A g \in Fetchers : fetch'[g] \in {fetch[g], NoFetch}
BY NoFetchFacts DEF RecordInv, Done

(* An informer looks at one node.                                          *)
LEMMA OneNode ==
  ASSUME Inv, NEW f \in Fetchers, f # "operation", fetch[f].at # "idle", Done(f)
  PROVE  \E n \in Nodes : /\ fetch[f].nodes = {n}
                          /\ \A m \in Nodes \ {n} : fetch[f].seen[m] = {} /\ (Inspected(m) => Inspected(m)')
<1>1. RecordInv /\ FetchInv
  BY DEF Inv
<1>2. PICK n \in Nodes : fetch[f].nodes = {n}
  BY <1>1 DEF FetchInv
<1>3. \A g \in Fetchers \ {f} : fetch'[g] = fetch[g]
  BY <1>1, DoneFacts
<1>4. ASSUME NEW m \in Nodes \ {n}
      PROVE  fetch[f].seen[m] = {} /\ (Inspected(m) => Inspected(m)')
  <2>1. m \notin fetch[f].nodes
    BY <1>2
  <2> QED BY <1>1, <1>3, <2>1 DEF FetchInv, Inspected
<1> QED BY <1>2, <1>4

(* fetchNode ends: the node has the state that was found.                  *)
LEMMA ApplyEventStep ==
  ASSUME Inv, NEW f \in Fetchers, ApplyEvent(f)
  PROVE  Inv'
<1>1. RecordInv /\ FetchInv /\ CurrentInv /\ FollowInv
  BY DEF Inv
<1>2. /\ f # "operation" /\ fetch[f].at = "inspected" /\ Applied(f) /\ Done(f)
      /\ UNCHANGED <<namespace, status, replicas, ignored, pods, uids, events, instance, op, requests, faults,
                     listening, before, adopted, wasReady, stopped>>
  BY DEF ApplyEvent, clusterVars
<1>3. PICK n \in Nodes : /\ fetch[f].nodes = {n}
                         /\ \A m \in Nodes \ {n} : fetch[f].seen[m] = {} /\ (Inspected(m) => Inspected(m)')
  BY <1>2, OneNode
<1>4. PICK nd \in fetchNode(view[n], fetch[f].seen[n]) : view' = [view EXCEPT ![n] = nd]
  BY <1>3 DEF ApplyEvent
<1>5. view \in [Nodes -> Containers] /\ fetch \in [Fetchers -> Fetches] /\ misled \subseteq Nodes /\ faults \in 0 .. MaxFaults
      /\ listening \subseteq Nodes /\ givenUp \subseteq Nodes
  BY <1>1 DEF RecordInv
<1>6. view[n] \in Containers /\ fetch[f].seen[n] \in SUBSET Containers
  BY <1>5 DEF Fetches
<1>7. /\ nd \in Containers /\ (fetch[f].seen[n] # {} => nd.state \in StatesOf(fetch[f].seen[n]))
      /\ (fetch[f].seen[n] = {} => nd = view[n])
  BY <1>4, <1>6, FetchNodeState
<1>8. view' \in [Nodes -> Containers] /\ view'[n] = nd /\ \A m \in Nodes \ {n} : view'[m] = view[m]
  BY <1>4, <1>5, <1>7
<1>9. /\ fetch' \in [Fetchers -> Fetches] /\ fetch'[f] = NoFetch
      /\ \A g \in Fetchers \ {f} : fetch'[g] = fetch[g]
      /\ \A g \in Fetchers : fetch'[g] \in {fetch[g], NoFetch}
  BY <1>1, <1>2, DoneFacts
<1>10. Noticed
  BY <1>2, NothingNoticed
<1>11. FetchInv' /\ CurrentInv'
  BY <1>2, <1>9, <1>10, FewerFetches
<1>12. /\ misled' \subseteq Nodes /\ givenUp' \subseteq Nodes
       /\ \A m \in Nodes \ {n} : (m \notin misled' => m \notin misled) /\ (m \in givenUp => m \in givenUp')
       /\ n \notin misled' => fetch[f].alone /\ (fetch[f].seen[n] = {} => n \notin misled)
  BY <1>2, <1>3, <1>5 DEF Applied
<1>13. ASSUME namespace' = "active", NEW m \in Nodes \ misled'
       PROVE  Pending(m)' \/ Inspected(m)' \/ Owned(m)' \/ StatesNow(m)' = {} \/ Shown(m)'
  <2>1. /\ StatesNow(m)' = StatesNow(m) /\ Pending(m)' = Pending(m) /\ Owned(m)' = Owned(m) /\ namespace = "active"
    BY <1>2, <1>13, StatesStay DEF Pending, Owned
  <2>2. CASE m # n
    BY <1>1, <1>3, <1>8, <1>12, <1>13, <2>1, <2>2 DEF FollowInv, Shown, GivenUp
  <2>3. CASE m = n
    <3>1. Pending(n) \/ StatesNow(n) = {} \/ StatesOf(fetch[f].seen[n]) = StatesNow(n)
      BY <1>1, <1>2, <1>3, <1>12, <1>13, <2>1, <2>3 DEF CurrentInv, Current
    <3>2. StatesOf({}) = {}
      BY DEF StatesOf
    <3> QED BY <1>7, <1>8, <2>1, <2>3, <3>1, <3>2 DEF Shown
  <2> QED BY <2>2, <2>3
<1>14. FollowInv'
  BY <1>13 DEF FollowInv
<1> QED BY <1>2, <1>5, <1>8, <1>9, <1>11, <1>12, <1>14, ListenerStep

(* A list fails: what is shown of the node may be wrong.                   *)
LEMMA FetchFailsStep ==
  ASSUME Inv, NEW f \in Fetchers, FetchFails(f)
  PROVE  Inv'
<1>1. RecordInv
  BY DEF Inv
<1>2. /\ f # "operation" /\ fetch[f].at = "pods" /\ Done(f) /\ misled' = misled \cup fetch[f].nodes
      /\ UNCHANGED <<namespace, status, replicas, ignored, pods, uids, events, view, instance, op, requests,
                     startup, before, adopted, wasReady, stopped>>
  BY DEF FetchFails, clusterVars
<1>3. PICK n \in Nodes : /\ fetch[f].nodes = {n}
                         /\ \A m \in Nodes \ {n} : fetch[f].seen[m] = {} /\ (Inspected(m) => Inspected(m)')
  BY <1>2, OneNode
<1>4. /\ fetch' \in [Fetchers -> Fetches] /\ fetch'[f] = NoFetch
      /\ \A g \in Fetchers \ {f} : fetch'[g] = fetch[g]
      /\ \A g \in Fetchers : fetch'[g] \in {fetch[g], NoFetch}
  BY <1>1, <1>2, DoneFacts
<1>5. Noticed
  BY <1>2, NothingNoticed
<1>6. FetchInv' /\ CurrentInv'
  BY <1>2, <1>4, <1>5, FewerFetches
<1>7. FollowInv'
  BY <1>2, <1>3, <1>5, FollowStep DEF Owned
<1>8. view' \in [Nodes -> Containers] /\ misled' \subseteq Nodes /\ listening' \subseteq Nodes /\ givenUp' \subseteq Nodes
  BY <1>1, <1>2, <1>3 DEF RecordInv
<1>9. faults' \in 0 .. MaxFaults
  BY <1>1, ClabernetesAssumption DEF RecordInv, FetchFails
<1> QED BY <1>2, <1>4, <1>6, <1>7, <1>8, <1>9, ListenerStep

(* A startup listener gives up on its node.                                *)
LEMMA ProbeFailsStep ==
  ASSUME Inv, NEW n \in Nodes, ProbeFails(n)
  PROVE  Inv'
<1>1. RecordInv
  BY DEF Inv
<1>2. /\ view' = [view EXCEPT ![n].state = "stopped"] /\ givenUp' = givenUp \cup {n}
      /\ UNCHANGED <<namespace, status, replicas, ignored, pods, uids, events, fetch, instance, op, requests,
                     listening, before, adopted, wasReady, stopped, misled>>
  BY DEF ProbeFails, clusterVars, historyVars
<1>3. view' \in [Nodes -> Containers] /\ view'[n].state = "stopped" /\ \A m \in Nodes \ {n} : view'[m] = view[m]
  <2>1. view \in [Nodes -> Containers]
    BY <1>1 DEF RecordInv
  <2>2. PICK c : c = [view[n] EXCEPT !.state = "stopped"]
    OBVIOUS
  <2>3. c \in Containers /\ c.state = "stopped"
    BY <2>1, <2>2 DEF Containers
  <2>4. view' = [view EXCEPT ![n] = c]
    BY <1>2, <2>2
  <2> QED BY <2>1, <2>3, <2>4
<1>4. Noticed
  BY <1>2, NothingNoticed
<1>5. FetchInv' /\ CurrentInv'
  <2>1. fetch' \in [Fetchers -> Fetches] /\ \A g \in Fetchers : fetch'[g] \in {fetch[g], NoFetch}
    BY <1>1, <1>2 DEF RecordInv
  <2> QED BY <1>2, <1>4, <2>1, FewerFetches
<1>6. ASSUME namespace' = "active", NEW m \in Nodes \ misled'
      PROVE  Pending(m)' \/ Inspected(m)' \/ Owned(m)' \/ StatesNow(m)' = {} \/ Shown(m)'
  <2>1. CASE m = n
    BY <1>2, <1>3, <2>1 DEF Shown, GivenUp
  <2>2. CASE m # n
    <3>1. StatesNow(m)' = StatesNow(m)
      BY <1>2, StatesStay
    <3> QED BY <1>2, <1>3, <1>6, <2>2, <3>1 DEF Inv, FollowInv, Shown, GivenUp, Pending, Inspected, Owned
  <2> QED BY <2>1, <2>2
<1>7. FollowInv'
  BY <1>6 DEF FollowInv
<1>8. faults' \in 0 .. MaxFaults
  BY <1>1, ClabernetesAssumption DEF RecordInv, ProbeFails
<1>9. /\ fetch' \in [Fetchers -> Fetches] /\ misled' \subseteq Nodes
      /\ listening' \subseteq Nodes /\ givenUp' \subseteq Nodes
  BY <1>1, <1>2 DEF RecordInv
<1> QED BY <1>2, <1>3, <1>5, <1>7, <1>8, <1>9, ListenerStep

(* The listener.                                                           *)
LEMMA ListenerSteps == Inv /\ Listener => Inv'
BY HandleEventStep, ListDeploymentsStep, ApplyEventStep, FetchFailsStep DEF Listener

-----------------------------------------------------------------------------
(* No operation.                                                           *)
LEMMA NoOpFacts == NoOp \in Ops /\ NoOp.cmd = "none" /\ NoOp.node = None /\ NoOp.at = "idle"
BY DEF NoOp, Ops

(* A step of an operation: it begins no inspection, and what is shown of a *)
(* node is kept or still to be seen to.                                    *)
LEMMA OperationStep ==
  ASSUME Inv, RecordInv', Noticed, OpInv', GoneInv', StopInv', FreshInv', ReadyInv',
         \A g \in Fetchers : fetch'[g] \in {fetch[g], NoFetch},
         fetch'["operation"].at # "idle" => op' = op,
         \A n \in Nodes \ misled' :
           \/ Owned(n)'
           \/ /\ n \notin misled /\ view'[n].state = view[n].state
              /\ (Inspected(n) => Inspected(n)') /\ (Owned(n) => Owned(n)') /\ (n \in givenUp => n \in givenUp')
  PROVE  Inv'
<1>1. fetch' \in [Fetchers -> Fetches]
  BY DEF RecordInv
<1>2. FetchInv' /\ CurrentInv'
  BY <1>1, FewerFetches
<1>3. FollowInv'
  BY FollowStep
<1> QED BY <1>2, <1>3 DEF Inv

(* The provider returns an error.                                          *)
LEMMA ErrorStep ==
  ASSUME Inv, op # NoOp, EndsWithError, faults' \in 0 .. MaxFaults,
         UNCHANGED <<namespace, status, replicas, ignored, pods, uids, events, requests, before, adopted, wasReady, stopped>>
  PROVE  Inv'
<1>1. RecordInv /\ OpInv
  BY DEF Inv
<1>2. op' = NoOp /\ Done("operation") /\ UNCHANGED <<listening, givenUp>>
  BY DEF EndsWithError, Done
<1>3. /\ fetch' \in [Fetchers -> Fetches] /\ fetch'["operation"] = NoFetch
      /\ \A g \in Fetchers \ {"operation"} : fetch'[g] = fetch[g]
      /\ \A g \in Fetchers : fetch'[g] \in {fetch[g], NoFetch}
  BY <1>1, <1>2, DoneFacts
<1>4. instance' \in {instance, "failed"} /\ instance' # "deploying"
  BY <1>1, <1>2, NoOpFacts DEF EndsWithError, OpInv
<1>5. view' \in [Nodes -> Containers]
  <2>1. view \in [Nodes -> Containers]
    BY <1>1 DEF RecordInv
  <2>2. \A c \in Containers : [c EXCEPT !.state = "stopped"] \in Containers
    BY DEF Containers
  <2>3. CASE op.cmd \in {"deploy", "redeploy"}
    <3>1. view' = [n \in Nodes |-> [view[n] EXCEPT !.state = "stopped"]]
      BY <2>3 DEF EndsWithError
    <3> QED BY <2>1, <2>2, <3>1
  <2>4. CASE op.cmd \notin {"deploy", "redeploy"}
    BY <2>1, <2>4 DEF EndsWithError
  <2> QED BY <2>3, <2>4
<1>6. op.node # None => op.node \in Nodes /\ op.cmd \in {"start", "stop", "restart"} /\ view' = view
  BY <1>1, NoOpFacts DEF OpInv, EndsWithError
<1>7. misled' \subseteq Nodes
  BY <1>1, <1>6 DEF RecordInv, EndsWithError
<1>8. RecordInv'
  BY <1>1, <1>2, <1>3, <1>4, <1>5, <1>7, NoOpFacts DEF RecordInv
<1>9. OpInv' /\ GoneInv' /\ StopInv' /\ FreshInv' /\ ReadyInv'
  BY <1>2, <1>4, NoOpFacts DEF Inv, OpInv, GoneInv, StopInv, LeftAlone, FreshInv, ReadyInv
<1>10. ASSUME NEW n \in Nodes \ misled'
       PROVE  n \notin misled /\ view'[n].state = view[n].state /\ (Inspected(n) => Inspected(n)') /\ ~Owned(n)
  <2>0. misled' = CASE op.node = None -> Nodes [] op.cmd = "start" -> misled [] OTHER -> misled \cup {op.node}
    BY DEF EndsWithError
  <2>1. op.node # None
    <3>1. op.node = None => op.cmd # "start"
      BY <1>1, NoOpFacts, NoneIsNothing DEF OpInv
    <3> QED BY <1>10, <2>0, <3>1
  <2>2. n \notin misled /\ (op.cmd # "start" => op.node # n)
    BY <1>6, <1>10, <2>0, <2>1
  <2>3. ~Owned(n)
    BY <2>1, <2>2 DEF Owned
  <2>4. Inspected(n) => Inspected(n)'
    BY <1>3 DEF Inspected
  <2> QED BY <1>6, <2>1, <2>2, <2>3, <2>4
<1>11. Noticed
  BY NothingNoticed
<1> QED BY <1>2, <1>3, <1>8, <1>9, <1>10, <1>11, NoFetchFacts, OperationStep

(* The operation goes on.                                                  *)
LEMMA GotoFacts ==
  ASSUME Inv, op.at # "idle", NEW at \in Steps, Goto(at)
  PROVE  /\ op' \in Ops /\ op'.cmd = op.cmd /\ op'.node = op.node /\ op'.at = at /\ op # NoOp /\ op' # NoOp
         /\ UNCHANGED <<fetch, view, instance, startup, misled>>
<1>1. op \in Ops /\ OpInv
  BY DEF Inv, RecordInv
<1>2. op # NoOp /\ op.cmd # "none"
  BY <1>1, NoOpFacts DEF OpInv
<1>3. op' \in Ops /\ op'.cmd = op.cmd /\ op'.node = op.node /\ op'.at = at
  BY <1>1 DEF Goto, Ops
<1> QED BY <1>2, <1>3, NoOpFacts DEF Goto

(* So it still sees to its nodes.                                          *)
LEMMA GotoStep ==
  ASSUME Inv, op.at \notin {"idle", "attach"}, NEW at \in Steps, Goto(at), Noticed,
         RecordInv', OpInv', GoneInv', StopInv', FreshInv', ReadyInv'
  PROVE  Inv'
<1>1. /\ op' \in Ops /\ op'.cmd = op.cmd /\ op'.node = op.node /\ op'.at = at /\ op # NoOp /\ op' # NoOp
      /\ UNCHANGED <<fetch, view, instance, startup, misled>>
  BY GotoFacts
<1>2. fetch["operation"].at = "idle"
  BY DEF Inv, FetchInv
<1>3. \A n \in Nodes : (Owned(n) => Owned(n)') /\ (Inspected(n) => Inspected(n)')
  BY <1>1 DEF Owned, Inspected
<1> QED BY <1>1, <1>2, <1>3, OperationStep

(* Destroy and Redeploy delete the pods.                                   *)
LEMMA KillStep ==
  ASSUME Inv, Kill
  PROVE  Inv'
<1>1. /\ op.at = "kill" /\ Goto("delete namespace")
      /\ UNCHANGED <<namespace, status, replicas, ignored, uids, requests, faults, before, adopted, wasReady, stopped>>
  BY DEF Kill
<1>2. RecordInv /\ OpInv /\ uids \in 0 .. MaxPods
  BY DEF Inv, RecordInv
<1>3. Noticed /\ pods' = {} /\ events' \subseteq {"pods", "deployments"} \X Nodes
  <2>1. PICK new \in SUBSET Pods : new = {}
    OBVIOUS
  <2>2. /\ SetPods(new) /\ UNCHANGED <<namespace, replicas>> /\ uids' \in 0 .. MaxPods /\ uids <= uids'
        /\ \A q \in new : q.uid \in 1 .. uids'
        /\ \A p, q \in new : p.uid = q.uid => p = q
        /\ \A o \in pods : \A q \in new : o.uid = q.uid => o.node = q.node
    <3>1. SetPods(new)
      BY <2>1 DEF Kill
    <3>2. uids' \in 0 .. MaxPods /\ uids <= uids'
      <4>1. uids' = uids
        BY DEF Kill
      <4>2. uids \in 0 .. MaxPods /\ MaxPods \in Nat
        BY <1>2, ClabernetesAssumption
      <4> QED BY <4>1, <4>2
    <3> QED BY <1>1, <2>1, <3>1, <3>2
  <2>3. Noticed /\ pods' = new /\ events' \subseteq {"pods", "deployments"} \X Nodes
    BY <1>2, <2>2, PodsNoticed
  <2> QED BY <2>1, <2>3
<1>4. /\ op' \in Ops /\ op'.cmd = op.cmd /\ op'.node = op.node /\ op'.at = "delete namespace"
      /\ UNCHANGED <<fetch, view, instance, startup, misled>>
  BY <1>1, GotoFacts
<1>5. RecordInv'
  BY <1>1, <1>2, <1>3, <1>4 DEF RecordInv
<1>6. OpInv'
  BY <1>1, <1>2, <1>4, NoOpFacts DEF OpInv
<1>7. GoneInv' /\ StopInv' /\ FreshInv' /\ ReadyInv'
  BY <1>1, <1>3, <1>4 DEF Inv, GoneInv, StopInv, LeftAlone, FreshInv, ReadyInv
<1> QED BY <1>1, <1>3, <1>5, <1>6, <1>7, GotoStep

(* The lab is gone.                                                        *)
LEMMA DestroyedStep ==
  ASSUME Inv, Destroyed, op.at \in {"delete namespace", "gone"}, namespace = "absent",
         UNCHANGED <<namespace, status, replicas, ignored, pods, uids, events, requests, faults, before, adopted,
                     wasReady, stopped>>
  PROVE  Inv'
<1>1. RecordInv /\ OpInv
  BY DEF Inv
<1>2. Noticed
  BY NothingNoticed
<1>3. CASE op.cmd = "redeploy" /\ Goto("namespace")
  <2>1. /\ op' \in Ops /\ op'.cmd = op.cmd /\ op'.node = op.node /\ op'.at = "namespace"
        /\ UNCHANGED <<fetch, view, instance, startup, misled>>
    BY <1>3, GotoFacts
  <2>2. RecordInv'
    BY <1>1, <2>1 DEF RecordInv
  <2>3. OpInv'
    BY <1>1, <1>3, <2>1, NoOpFacts DEF OpInv
  <2>4. GoneInv' /\ StopInv' /\ FreshInv' /\ ReadyInv'
    BY <1>3, <2>1 DEF Inv, GoneInv, StopInv, LeftAlone, FreshInv, ReadyInv
  <2> QED BY <1>2, <1>3, <2>2, <2>3, <2>4, GotoStep
<1>4. CASE /\ op' = NoOp /\ instance' = "none" /\ fetch' = [f \in Fetchers |-> NoFetch]
           /\ misled' = {} /\ givenUp' = {} /\ UNCHANGED <<view, listening>>
  <2>1. fetch' \in [Fetchers -> Fetches] /\ \A g \in Fetchers : fetch'[g] = NoFetch
    BY <1>4, NoFetchFacts
  <2>2. RecordInv'
    BY <1>1, <1>4, <2>1, NoOpFacts DEF RecordInv
  <2>3. OpInv' /\ GoneInv' /\ StopInv' /\ FreshInv' /\ ReadyInv'
    BY <1>4, NoOpFacts DEF Inv, OpInv, GoneInv, StopInv, LeftAlone, FreshInv, ReadyInv
  <2>4. FetchInv' /\ CurrentInv'
    BY <1>2, <2>1, NoFetchFacts, FewerFetches
  <2>5. FollowInv'
    BY DEF FollowInv
  <2> QED BY <2>2, <2>3, <2>4, <2>5 DEF Inv
<1> QED BY <1>3, <1>4 DEF Destroyed

(* The namespace is deleted.                                               *)
LEMMA DeleteNamespaceStep ==
  ASSUME Inv, DeleteNamespace
  PROVE  Inv'
<1>1. CASE namespace = "absent" /\ Destroyed /\ UNCHANGED namespace
  BY <1>1, DestroyedStep DEF DeleteNamespace
<1>2. CASE namespace # "absent" /\ namespace' = "terminating" /\ Goto("gone")
  <2>1. /\ op.at = "delete namespace"
        /\ UNCHANGED <<status, replicas, ignored, pods, uids, events, requests, faults, before, adopted, wasReady, stopped>>
    BY DEF DeleteNamespace
  <2>2. RecordInv /\ OpInv
    BY DEF Inv
  <2>3. /\ op' \in Ops /\ op'.cmd = op.cmd /\ op'.node = op.node /\ op'.at = "gone"
        /\ UNCHANGED <<fetch, view, instance, startup, misled>>
    BY <1>2, <2>1, GotoFacts
  <2>4. RecordInv'
    BY <1>2, <2>1, <2>2, <2>3 DEF RecordInv
  <2>5. OpInv' /\ instance' # "none"
    BY <2>1, <2>2, <2>3, NoOpFacts DEF OpInv
  <2>6. GoneInv' /\ StopInv' /\ FreshInv' /\ ReadyInv'
    BY <1>2, <2>1, <2>3, <2>5 DEF Inv, GoneInv, StopInv, LeftAlone, FreshInv, ReadyInv
  <2>7. Noticed
    BY <1>2, <2>1 DEF Noticed, SameShape, PodOf
  <2> QED BY <1>2, <2>1, <2>4, <2>5, <2>6, <2>7, GotoStep
<1> QED BY <1>1, <1>2 DEF DeleteNamespace

(* The namespace is created: there is nothing in it yet.                   *)
LEMMA CreateNamespaceStep ==
  ASSUME Inv, CreateNamespace
  PROVE  Inv'
<1>1. /\ op.at = "namespace" /\ Goto("topology") /\ namespace' = IF namespace = "absent" THEN "active" ELSE namespace
      /\ UNCHANGED <<status, replicas, ignored, pods, uids, events, requests, faults, before, adopted, wasReady, stopped>>
  BY DEF CreateNamespace
<1>2. RecordInv /\ OpInv /\ GoneInv
  BY DEF Inv
<1>3. /\ op' \in Ops /\ op'.cmd = op.cmd /\ op'.node = op.node /\ op'.at = "topology"
      /\ UNCHANGED <<fetch, view, instance, startup, misled>>
  BY <1>1, GotoFacts
<1>4. RecordInv'
  BY <1>1, <1>2, <1>3 DEF RecordInv
<1>5. OpInv' /\ instance' # "none"
  BY <1>1, <1>2, <1>3, NoOpFacts DEF OpInv
<1>6. GoneInv' /\ StopInv' /\ FreshInv' /\ ReadyInv'
  BY <1>1, <1>2, <1>3, <1>5 DEF Inv, RecordInv, GoneInv, StopInv, LeftAlone, FreshInv, ReadyInv
<1>7. Noticed
  <2>1. \A n \in Nodes : PodOf(n)' = PodOf(n) /\ StatesNow(n)' = StatesNow(n)
    BY <1>1, StatesStay
  <2>2. CASE namespace # "absent"
    BY <1>1, <2>2, NothingNoticed
  <2>3. CASE namespace = "absent"
    <3>1. ASSUME NEW n \in Nodes
          PROVE  StatesNow(n) = {}
      <4>1. PodOf(n) = {} /\ replicas[n] # 0
        BY <1>2, <2>3, NoneIsNothing DEF GoneInv, PodOf
      <4>2. inspect(PodOf(n), replicas[n]) = {}
        BY <4>1 DEF inspect
      <4> QED BY <4>2 DEF StatesNow, StatesOf
    <3> QED BY <1>1, <2>1, <3>1 DEF Noticed, SameShape
  <2> QED BY <2>2, <2>3
<1> QED BY <1>1, <1>4, <1>5, <1>6, <1>7, GotoStep

(* The Topology is created, or there is one already.                       *)
LEMMA CreateTopologyStep ==
  ASSUME Inv, CreateTopology
  PROVE  Inv'
<1>1. /\ op.at = "topology"
      /\ UNCHANGED <<namespace, replicas, ignored, pods, uids, events, requests, faults, before, wasReady, stopped>>
  BY DEF CreateTopology
<1>2. RecordInv /\ OpInv /\ op.cmd \in {"deploy", "redeploy"} /\ op # NoOp /\ stopped = {} /\ faults \in 0 .. MaxFaults
  BY <1>1, NoOpFacts DEF Inv, OpInv, StopInv, RecordInv
<1>3. CASE EndsWithError /\ UNCHANGED <<status, adopted>>
  BY <1>1, <1>2, <1>3, ErrorStep
<1>4. ASSUME NEW at \in {"ready", "update"}, Goto(at), namespace = "active", status' \in Statuses, adopted' \in BOOLEAN,
             at = "update" => adopted', at = "ready" => ~TopologyReady'
      PROVE  Inv'
  <2>1. /\ op' \in Ops /\ op'.cmd = op.cmd /\ op'.node = op.node /\ op'.at = at
        /\ UNCHANGED <<fetch, view, instance, startup, misled>>
    BY <1>1, <1>4, GotoFacts
  <2>2. RecordInv'
    BY <1>1, <1>2, <1>4, <2>1 DEF RecordInv
  <2>3. OpInv'
    BY <1>1, <1>2, <1>4, <2>1, NoOpFacts DEF OpInv
  <2>4. GoneInv' /\ StopInv' /\ FreshInv' /\ ReadyInv'
    BY <1>1, <1>2, <1>4, <2>1 DEF Inv, GoneInv, StopInv, FreshInv, ReadyInv
  <2> QED BY <1>1, <1>4, <2>2, <2>3, <2>4, NothingNoticed, GotoStep
<1>5. CASE /\ namespace = "active" /\ status' = [state |-> "new", ready |-> FALSE, count |-> 0] /\ Goto("ready")
           /\ UNCHANGED adopted
  <2>1. status' \in Statuses /\ ~TopologyReady'
    BY <1>5 DEF Statuses, TopologyReady
  <2>2. adopted' \in BOOLEAN
    BY <1>2, <1>5 DEF RecordInv
  <2> QED BY <1>4, <1>5, <2>1, <2>2
<1>6. CASE namespace = "active" /\ status # None /\ adopted' = TRUE /\ Goto("update") /\ UNCHANGED status
  <2>1. status' \in Statuses
    BY <1>2, <1>6 DEF RecordInv
  <2> QED BY <1>4, <1>6, <2>1
<1> QED BY <1>3, <1>5, <1>6 DEF CreateTopology

(* The Topology that was found is updated, and the deployment waits for    *)
(* it.                                                                     *)
LEMMA WaitSteps ==
  ASSUME Inv, UpdateTopology \/ waitForTopologyReady
  PROVE  Inv'
<1>1. /\ op.at \in {"update", "ready"}
      /\ UNCHANGED <<namespace, status, replicas, ignored, pods, uids, events, requests, faults, before, adopted,
                     wasReady, stopped>>
  BY DEF UpdateTopology, waitForTopologyReady, clusterVars
<1>2. RecordInv /\ OpInv /\ op.cmd \in {"deploy", "redeploy"} /\ op # NoOp /\ faults' \in 0 .. MaxFaults
  BY <1>1, NoOpFacts DEF Inv, OpInv, RecordInv
<1>3. CASE EndsWithError
  BY <1>1, <1>2, <1>3, ErrorStep
<1>4. ASSUME NEW at \in {"ready", "attach"}, Goto(at), adopted \/ wasReady
      PROVE  Inv'
  <2>1. /\ op' \in Ops /\ op'.cmd = op.cmd /\ op'.node = op.node /\ op'.at = at
        /\ UNCHANGED <<fetch, view, instance, startup, misled>>
    BY <1>1, <1>4, GotoFacts
  <2>2. RecordInv'
    BY <1>1, <1>2, <2>1 DEF RecordInv
  <2>3. OpInv'
    BY <1>1, <1>2, <1>4, <2>1, NoOpFacts DEF OpInv
  <2>4. GoneInv' /\ StopInv' /\ FreshInv' /\ ReadyInv'
    BY <1>1, <1>2, <1>4, <2>1 DEF Inv, GoneInv, StopInv, LeftAlone, FreshInv, ReadyInv
  <2> QED BY <1>1, <1>4, <2>2, <2>3, <2>4, NothingNoticed, GotoStep
<1>5. CASE op.at = "update" /\ Goto("ready")
  BY <1>2, <1>4, <1>5 DEF Inv, ReadyInv
<1>6. CASE op.at = "ready" /\ status # None /\ TopologyReady /\ Goto("attach")
  BY <1>2, <1>4, <1>6 DEF Inv, ReadyInv
<1> QED BY <1>3, <1>5, <1>6 DEF UpdateTopology, waitForTopologyReady

(* StartNode and StopNode: the label first, so that the manager does not   *)
(* undo what the second patch does.                                        *)
LEMMA PatchesStep ==
  ASSUME Inv, Patches
  PROVE  Inv'
<1>1. /\ op.at \in {"first", "second"}
      /\ UNCHANGED <<namespace, status, pods, uids, requests, faults, before, adopted, wasReady>>
  BY DEF Patches
<1>2. /\ RecordInv /\ OpInv /\ op.cmd \in {"start", "stop"} /\ op.node \in Nodes /\ op # NoOp
      /\ instance \in {"deployed", "failed", "cancelled"}
  BY <1>1, NoOpFacts DEF Inv, OpInv
<1>3. CASE ~Patchable
  <2>1. EndsWithError /\ UNCHANGED <<ignored, replicas, events, stopped>>
    BY <1>3 DEF Patches
  <2>2. faults' \in 0 .. MaxFaults
    BY <1>1, <1>2 DEF RecordInv
  <2> QED BY <1>1, <1>2, <2>1, <2>2, ErrorStep
<1>4. CASE Patchable /\ op.at = "first"
  <2>1. setIgnoreReconcile /\ Goto("second") /\ UNCHANGED <<replicas, events, stopped>>
    BY <1>4 DEF Patches
  <2>2. /\ op' \in Ops /\ op'.cmd = op.cmd /\ op'.node = op.node /\ op'.at = "second"
        /\ UNCHANGED <<fetch, view, instance, startup, misled>>
    BY <1>1, <2>1, GotoFacts
  <2>3. /\ ignored' \subseteq Nodes /\ ignored \ {op.node} \subseteq ignored'
        /\ (op.cmd = "stop" => op.node \in ignored' /\ ignored \subseteq ignored')
    BY <1>2, <2>1 DEF RecordInv, setIgnoreReconcile
  <2>4. RecordInv'
    BY <1>1, <1>2, <2>1, <2>2, <2>3 DEF RecordInv
  <2>5. OpInv'
    BY <1>2, <2>2 DEF OpInv
  <2>6. StopInv'
    BY <1>1, <1>2, <2>1, <2>2, <2>3 DEF Inv, StopInv, LeftAlone
  <2>7. GoneInv' /\ FreshInv' /\ ReadyInv'
    BY <1>1, <1>2, <2>1, <2>2 DEF Inv, GoneInv, FreshInv, ReadyInv
  <2> QED BY <1>1, <2>1, <2>4, <2>5, <2>6, <2>7, NothingNoticed, GotoStep
<1>5. CASE Patchable /\ op.at = "second"
  <2>1. scaleNode /\ NodeStopped /\ Goto("attach") /\ UNCHANGED ignored
    BY <1>5 DEF Patches
  <2>2. /\ op' \in Ops /\ op'.cmd = op.cmd /\ op'.node = op.node /\ op'.at = "attach"
        /\ UNCHANGED <<fetch, view, instance, startup, misled>>
    BY <1>1, <2>1, GotoFacts
  <2>3. PICK m \in Nodes : m = op.node
    BY <1>2
  <2>4. PICK r \in {0, 1} : r = IF op.cmd = "stop" THEN 0 ELSE 1
    OBVIOUS
  <2>5. SetReplicas([replicas EXCEPT ![m] = r]) /\ UNCHANGED <<namespace, pods>> /\ replicas[m] # None
    BY <1>1, <1>5, <2>1, <2>3, <2>4 DEF scaleNode, Patchable
  <2>6. /\ Noticed /\ replicas' \in [Nodes -> {None, 0, 1}]
        /\ replicas'[m] = r /\ (\A k \in Nodes \ {m} : replicas'[k] = replicas[k])
        /\ events' \subseteq {"pods", "deployments"} \X Nodes
    BY <1>2, <2>5, ReplicasNoticed
  <2>7. stopped' = (IF op.cmd = "stop" THEN stopped \cup {m} ELSE stopped) /\ stopped \subseteq Nodes
    BY <1>2, <2>1, <2>3 DEF NodeStopped, RecordInv
  <2>8. RecordInv'
    BY <1>1, <1>2, <2>1, <2>2, <2>6, <2>7 DEF RecordInv
  <2>9. OpInv'
    BY <1>2, <2>2 DEF OpInv
  <2>10. StopInv'
    <3>1. \A k \in stopped : replicas[k] \in {0, None} /\ LeftAlone(k)
      BY DEF Inv, StopInv
    <3>2. (op.cmd = "start" => m \notin stopped) /\ (op.cmd = "stop" => LeftAlone(m))
      BY <1>5, <2>3 DEF Inv, StopInv
    <3>3. \A k \in Nodes : LeftAlone(k)' = LeftAlone(k)
      BY <1>1, <2>1 DEF LeftAlone
    <3>4. ASSUME NEW k \in stopped'
          PROVE  replicas'[k] \in {0, None} /\ LeftAlone(k)'
      BY <1>2, <2>4, <2>6, <2>7, <3>1, <3>2, <3>3
    <3> QED BY <1>2, <2>2, <2>3, <2>7, <3>2, <3>4 DEF StopInv
  <2>11. namespace # "absent"
    BY <2>5 DEF Inv, GoneInv
  <2>12. GoneInv' /\ FreshInv' /\ ReadyInv'
    BY <1>1, <1>2, <2>2, <2>11 DEF Inv, GoneInv, FreshInv, ReadyInv
  <2> QED BY <1>1, <2>1, <2>6, <2>8, <2>9, <2>10, <2>12, GotoStep
<1> QED BY <1>1, <1>3, <1>4, <1>5

(* RestartNode deletes the pods of the node.                               *)
LEMMA DeletePodsStep ==
  ASSUME Inv, DeletePods
  PROVE  Inv'
<1>1. /\ op.at = "delete"
      /\ UNCHANGED <<namespace, status, replicas, ignored, uids, requests, faults, before, adopted, wasReady, stopped>>
  BY DEF DeletePods
<1>2. /\ RecordInv /\ OpInv /\ op.cmd = "restart" /\ op.node \in Nodes /\ op # NoOp
      /\ instance \in {"deployed", "failed", "cancelled"} /\ faults' \in 0 .. MaxFaults
  BY <1>1, NoOpFacts DEF Inv, OpInv, RecordInv
<1>3. CASE EndsWithError /\ UNCHANGED <<pods, events>>
  BY <1>1, <1>2, <1>3, ErrorStep
<1>4. CASE SetPods({IF p.node = op.node THEN [p EXCEPT !.terminating = TRUE] ELSE p : p \in pods}) /\ Goto("attach")
  <2>1. /\ op' \in Ops /\ op'.cmd = op.cmd /\ op'.node = op.node /\ op'.at = "attach"
        /\ UNCHANGED <<fetch, view, instance, startup, misled>>
    BY <1>1, <1>4, GotoFacts
  <2>2. PICK new : new = {IF p.node = op.node THEN [p EXCEPT !.terminating = TRUE] ELSE p : p \in pods}
    OBVIOUS
  <2>3. /\ pods \subseteq Pods /\ (\A p \in pods : p.uid \in 1 .. uids) /\ (\A p, q \in pods : p.uid = q.uid => p = q)
        /\ uids \in 0 .. MaxPods /\ MaxPods \in Nat
    BY <1>2, ClabernetesAssumption DEF RecordInv
  <2>4. ASSUME NEW q \in new
        PROVE  \E p \in pods : /\ q = IF p.node = op.node THEN [p EXCEPT !.terminating = TRUE] ELSE p
                               /\ q \in Pods /\ q.uid = p.uid /\ q.node = p.node
    <3>1. PICK p \in pods : q = IF p.node = op.node THEN [p EXCEPT !.terminating = TRUE] ELSE p
      BY <2>2
    <3>2. p \in Pods
      BY <2>3
    <3>3. q \in Pods /\ q.uid = p.uid /\ q.node = p.node
      BY <3>1, <3>2 DEF Pods
    <3> QED BY <3>1, <3>3
  <2>5. \A q \in new : q \in Pods /\ \E p \in pods : q.uid = p.uid /\ q.node = p.node
    BY <2>4
  <2>6. /\ new \in SUBSET Pods /\ uids' \in 0 .. MaxPods /\ uids <= uids'
        /\ \A q \in new : q.uid \in 1 .. uids'
        /\ \A o \in pods : \A q \in new : o.uid = q.uid => o.node = q.node
    BY <1>1, <2>3, <2>5
  <2>7. ASSUME NEW p \in new, NEW q \in new, p.uid = q.uid
        PROVE  p = q
    <3>1. PICK o \in pods : p = (IF o.node = op.node THEN [o EXCEPT !.terminating = TRUE] ELSE o) /\ p.uid = o.uid
      BY <2>4
    <3>2. PICK r \in pods : q = (IF r.node = op.node THEN [r EXCEPT !.terminating = TRUE] ELSE r) /\ q.uid = r.uid
      BY <2>4
    <3>3. o = r
      BY <2>3, <2>7, <3>1, <3>2
    <3> QED BY <3>1, <3>2, <3>3
  <2>8. SetPods(new) /\ UNCHANGED <<namespace, replicas>>
    BY <1>1, <1>4, <2>2
  <2>9. Noticed /\ pods' = new /\ events' \subseteq {"pods", "deployments"} \X Nodes
    BY <1>2, <2>6, <2>7, <2>8, PodsNoticed
  <2>10. RecordInv'
    BY <1>1, <1>2, <2>1, <2>6, <2>7, <2>9 DEF RecordInv
  <2>11. OpInv'
    BY <1>2, <2>1 DEF OpInv
  <2>12. GoneInv' /\ StopInv' /\ FreshInv' /\ ReadyInv'
    BY <1>1, <1>2, <2>1, <2>5, <2>9 DEF Inv, GoneInv, StopInv, LeftAlone, FreshInv, ReadyInv
  <2> QED BY <1>1, <1>4, <2>9, <2>10, <2>11, <2>12, GotoStep
<1> QED BY <1>3, <1>4 DEF DeletePods

(* A request fails or a wait times out.                                    *)
LEMMA RequestFailsStep ==
  ASSUME Inv, RequestFails
  PROVE  Inv'
<1>1. faults' \in 0 .. MaxFaults
  BY ClabernetesAssumption DEF Inv, RecordInv, RequestFails
<1> QED BY <1>1, ErrorStep DEF RequestFails, clusterVars

-----------------------------------------------------------------------------
(* The inspection at the end of an operation begins.                       *)
LEMMA BeginAttachStep ==
  ASSUME Inv, BeginAttach
  PROVE  Inv'
<1>1. RecordInv /\ OpInv /\ FetchInv /\ CurrentInv
  BY DEF Inv
<1>2. PICK N : N = IF op.node = None THEN Nodes ELSE {op.node}
  OBVIOUS
<1>3. /\ op.at = "attach" /\ ListPods("operation", N)
      /\ UNCHANGED <<namespace, status, replicas, ignored, pods, uids, events, view, instance, op, requests, faults,
                     startup, before, adopted, wasReady, stopped, misled>>
  BY <1>2 DEF BeginAttach, clusterVars, historyVars
<1>4. N \in SUBSET Nodes
  BY <1>1, <1>2 DEF RecordInv, Ops
<1>5. PICK f \in Fetchers : f = "operation"
  OBVIOUS
<1>6. /\ fetch' \in [Fetchers -> Fetches]
      /\ fetch'[f].at = "pods" /\ fetch'[f].nodes = N /\ fetch'[f].snap = {p \in pods : p.node \in N}
      /\ \A n \in Nodes : fetch'[f].seen[n] = {}
      /\ fetch'[f].alone => \A g \in Fetchers \ {f} : ~Overlaps(g, N)
      /\ \A g \in Fetchers \ {f} :
           /\ fetch'[g].at = fetch[g].at /\ fetch'[g].nodes = fetch[g].nodes
           /\ fetch'[g].snap = fetch[g].snap /\ fetch'[g].seen = fetch[g].seen
           /\ fetch'[g].alone => fetch[g].alone /\ ~Overlaps(g, N)
  BY <1>1, <1>3, <1>4, <1>5, ListPodsFacts
<1>7. FetchInv'
  BY <1>1, <1>2, <1>3, <1>5, <1>6 DEF FetchInv, Overlaps
<1>8. Noticed
  BY <1>3, NothingNoticed
<1>9. ASSUME NEW n \in N
      PROVE  Current(f, n)'
  <2>1. {p \in fetch'[f].snap : p.node = n} = PodOf(n)'
    BY <1>3, <1>6 DEF PodOf
  <2> QED BY <1>6, <2>1 DEF Current, SameShape
<1>10. ASSUME NEW g \in Fetchers \ {f}, NEW n \in Nodes, fetch'[g].alone, n \in fetch'[g].nodes
       PROVE  Current(g, n)'
  <2>1. Current(g, n)
    BY <1>1, <1>6, <1>10 DEF CurrentInv
  <2> QED BY <1>6, <1>8, <2>1, StaysCurrent
<1>11. CurrentInv'
  BY <1>6, <1>9, <1>10 DEF CurrentInv
<1>12. FollowInv'
  <2>1. \A n \in Nodes : (Inspected(n) => Inspected(n)') /\ (Owned(n) => Owned(n)')
    BY <1>3, <1>5, <1>6 DEF Inspected, Owned
  <2> QED BY <1>3, <1>8, <2>1, FollowStep
<1>13. /\ view' \in [Nodes -> Containers] /\ faults' \in 0 .. MaxFaults /\ misled' \subseteq Nodes
       /\ listening' \subseteq Nodes /\ givenUp' \subseteq Nodes
  BY <1>1, <1>3 DEF RecordInv
<1> QED BY <1>3, <1>6, <1>7, <1>11, <1>12, <1>13, ListenerStep

(* What an entry makes of a node: it has the state of the entry.           *)
LEMMA AttachedState ==
  ASSUME RecordInv, NEW n \in Nodes, NEW S \in SUBSET Containers, NEW nd \in Attached(n, S)
  PROVE  nd \in Containers /\ (S # {} => nd.state \in StatesOf(S))
<1>1. PICK old \in Containers : old = view[n]
  BY DEF RecordInv
<1>2. PICK fresh \in Containers : fresh = [state |-> "stopped", id |-> None]
  BY DEF Containers
<1>3. CASE op.cmd = "revive"
  <2>1. nd \in inspectLabAndUpdateNodes(fresh, S)
    BY <1>2, <1>3 DEF Attached, reviveNode
  <2> QED BY <2>1, LabNodeState
<1>4. CASE op.cmd \in {"deploy", "redeploy"}
  <2>1. nd \in inspectLabAndUpdateNodes(old, S)
    BY <1>1, <1>4 DEF Attached
  <2> QED BY <2>1, LabNodeState
<1>5. CASE op.cmd \notin {"revive", "deploy", "redeploy"}
  <2>1. nd \in fetchNode(old, S)
    BY <1>1, <1>5 DEF Attached
  <2> QED BY <2>1, FetchNodeState
<1> QED BY <1>3, <1>4, <1>5

(* The operation ends: its nodes have the states that were found.          *)
LEMMA AttachStep ==
  ASSUME Inv, Attach
  PROVE  Inv'
<1>1. RecordInv /\ OpInv /\ FetchInv /\ CurrentInv /\ FollowInv
  BY DEF Inv
<1>2. /\ fetch["operation"].at = "inspected" /\ Applied("operation") /\ Done("operation") /\ op' = NoOp
      /\ UNCHANGED <<namespace, status, replicas, ignored, pods, uids, events, requests, faults, before, adopted,
                     wasReady, stopped>>
  BY DEF Attach, clusterVars
<1>3. op.at = "attach" /\ fetch["operation"].nodes = IF op.node = None THEN Nodes ELSE {op.node}
  BY <1>1, <1>2 DEF FetchInv
<1>4. fetch \in [Fetchers -> Fetches] /\ view \in [Nodes -> Containers] /\ misled \subseteq Nodes /\ op.node \in Nodes \cup {None}
  BY <1>1 DEF RecordInv, Ops
<1>5. PICK seen : seen = fetch["operation"].seen
  OBVIOUS
<1>6. PICK N : N = fetch["operation"].nodes
  OBVIOUS
<1>7. seen \in [Nodes -> SUBSET Containers] /\ N \subseteq Nodes /\ \A n \in Nodes \ N : seen[n] = {}
  BY <1>1, <1>4, <1>5, <1>6 DEF Fetches, FetchInv
<1>8. \A n \in Nodes : IF n \in N THEN view'[n] \in Attached(n, seen[n]) ELSE view'[n] = view[n]
  BY <1>5, <1>6 DEF Attach
<1>9. \E X : view' \in [Nodes -> X]
  BY DEF Attach
<1>10. \A n \in N : view'[n] \in Containers /\ (seen[n] # {} => view'[n].state \in StatesOf(seen[n]))
  BY <1>1, <1>7, <1>8, AttachedState
<1>11. view' \in [Nodes -> Containers]
  BY <1>4, <1>8, <1>9, <1>10
<1>12. /\ instance' \in {"lost", "deployed", "failed", instance} /\ instance' # "deploying"
       /\ instance' = "none" => instance = "none"
  BY <1>1, <1>3, NoOpFacts DEF Attach, OpInv
<1>13. /\ fetch' \in [Fetchers -> Fetches] /\ fetch'["operation"] = NoFetch
       /\ \A g \in Fetchers \ {"operation"} : fetch'[g] = fetch[g]
       /\ \A g \in Fetchers : fetch'[g] \in {fetch[g], NoFetch}
  BY <1>1, <1>2, DoneFacts
<1>14. /\ misled' \subseteq Nodes
       /\ \A n \in Nodes \ N : (n \notin misled' => n \notin misled) /\ (n \in givenUp => n \in givenUp')
       /\ \A n \in N : n \notin misled' => fetch["operation"].alone
  BY <1>2, <1>4, <1>5, <1>6, <1>7 DEF Applied
<1>15. RecordInv'
  <2>1. listening' \subseteq Nodes
    <3>1. ListensTo \subseteq Nodes
      BY <1>1, NoOpFacts DEF ListensTo, OpInv
    <3> QED BY <1>1, <3>1 DEF RecordInv, Attach
  <2>2. givenUp' \subseteq Nodes
    BY <1>1, <1>2 DEF RecordInv, Applied
  <2> QED BY <1>1, <1>2, <1>11, <1>12, <1>13, <1>14, <2>1, <2>2, NoOpFacts DEF RecordInv
<1>16. OpInv' /\ GoneInv' /\ StopInv' /\ FreshInv' /\ ReadyInv'
  BY <1>2, <1>12, NoOpFacts DEF Inv, OpInv, GoneInv, StopInv, LeftAlone, FreshInv, ReadyInv
<1>17. Noticed
  BY <1>2, NothingNoticed
<1>18. FetchInv' /\ CurrentInv'
  BY <1>13, <1>17, NoFetchFacts, FewerFetches
<1>19. ASSUME namespace' = "active", NEW n \in Nodes \ misled'
       PROVE  Pending(n)' \/ Inspected(n)' \/ Owned(n)' \/ StatesNow(n)' = {} \/ Shown(n)'
  <2>1. /\ StatesNow(n)' = StatesNow(n) /\ Pending(n)' = Pending(n) /\ namespace = "active"
        /\ (Inspected(n) => Inspected(n)')
    BY <1>2, <1>13, <1>19, StatesStay DEF Pending, Inspected
  <2>2. CASE n \in N
    <3>1. Current("operation", n)
      BY <1>1, <1>6, <1>14, <1>19, <2>2 DEF CurrentInv
    <3>2. Pending(n) \/ StatesNow(n) = {} \/ StatesOf(seen[n]) = StatesNow(n)
      BY <1>2, <1>5, <2>1, <3>1 DEF Current
    <3>3. StatesOf({}) = {}
      BY DEF StatesOf
    <3> QED BY <1>10, <2>1, <2>2, <3>2, <3>3 DEF Shown
  <2>3. CASE n \notin N
    <3>1. ~Owned(n)
      BY <1>3, <1>6, <2>3 DEF Owned
    <3>2. n \notin misled /\ view'[n] = view[n]
      BY <1>8, <1>14, <1>19, <2>3
    <3>3. n \in givenUp => n \in givenUp'
      BY <1>14, <2>3
    <3> QED BY <1>1, <2>1, <3>1, <3>2, <3>3 DEF FollowInv, Shown, GivenUp
  <2> QED BY <2>2, <2>3
<1>20. FollowInv'
  BY <1>19 DEF FollowInv
<1> QED BY <1>15, <1>16, <1>18, <1>20 DEF Inv

(* The steps of an operation.                                              *)
LEMMA OperationSteps == Inv /\ Operation => Inv'
<1>1. Inv /\ waitForNamespaceGone => Inv'
  BY DestroyedStep DEF waitForNamespaceGone, clusterVars
<1> QED
  BY <1>1, KillStep, DeleteNamespaceStep, CreateNamespaceStep, CreateTopologyStep, WaitSteps, PatchesStep,
     DeletePodsStep, RequestFailsStep, BeginAttachStep, AttachStep
  DEF Operation

-----------------------------------------------------------------------------
(* An operation on the lab begins: it will see to all nodes.               *)
LEMMA BeginLabStep ==
  ASSUME Inv, NEW cmd \in {"deploy", "redeploy", "destroy"}, NEW at \in {"namespace", "kill"}, BeginLab(cmd, at),
         at = "namespace" <=> cmd = "deploy",
         instance' = (IF cmd = "destroy" THEN "cancelled" ELSE "deploying"), view' \in [Nodes -> Containers],
         listening' \in {listening, {}}
  PROVE  Inv'
<1>1. RecordInv /\ OpInv /\ FetchInv
  BY DEF Inv
<1>2. /\ op = NoOp /\ op' = [cmd |-> cmd, node |-> None, at |-> at] /\ requests < MaxRequests /\ requests' = requests + 1
      /\ before' = {p.uid : p \in pods} /\ adopted' = FALSE /\ wasReady' = FALSE /\ stopped' = {}
      /\ UNCHANGED <<namespace, status, replicas, ignored, pods, uids, events, fetch, faults, givenUp, misled>>
  BY DEF BeginLab, Request, clusterVars
<1>3. op' \in Ops /\ op'.cmd = cmd /\ op'.node = None /\ op'.at = at /\ op' # NoOp
  <2>1. op' \in Ops /\ op'.cmd = cmd /\ op'.node = None /\ op'.at = at
    BY <1>2 DEF Ops
  <2> QED BY <2>1, NoOpFacts
<1>4. requests' \in 0 .. MaxRequests
  BY <1>1, <1>2, ClabernetesAssumption DEF RecordInv
<1>5. RecordInv'
  BY <1>1, <1>2, <1>3, <1>4 DEF RecordInv
<1>6. OpInv'
  BY <1>3 DEF OpInv
<1>7. before' \subseteq 1 .. uids'
  BY <1>1, <1>2 DEF RecordInv
<1>8. GoneInv' /\ StopInv' /\ FreshInv' /\ ReadyInv'
  BY <1>2, <1>3, <1>7 DEF Inv, GoneInv, StopInv, FreshInv, ReadyInv
<1>9. fetch["operation"].at = "idle"
  BY <1>1, <1>2, NoOpFacts DEF FetchInv
<1>10. \A n \in Nodes : Owned(n)'
  BY <1>3 DEF Owned
<1>11. Noticed
  BY <1>2, NothingNoticed
<1> QED BY <1>2, <1>5, <1>6, <1>8, <1>9, <1>10, <1>11, OperationStep

(* A command for a node begins.                                            *)
LEMMA BeginNodeStep ==
  ASSUME Inv, NEW cmd \in {"start", "stop", "restart"}, NEW n \in Nodes, BeginNode(cmd, n)
  PROVE  Inv'
<1>1. RecordInv /\ OpInv /\ FetchInv
  BY DEF Inv
<1>2. /\ op = NoOp /\ op' = [cmd |-> cmd, node |-> n, at |-> IF cmd = "restart" THEN "delete" ELSE "first"]
      /\ requests < MaxRequests /\ requests' = requests + 1
      /\ view' = (IF cmd = "start" THEN view ELSE [view EXCEPT ![n] = Reset(view[n])])
      /\ stopped' = (IF cmd = "start" THEN stopped \ {n} ELSE stopped)
      /\ UNCHANGED <<namespace, status, replicas, ignored, pods, uids, events, fetch, instance, faults, startup, before,
                     adopted, wasReady, misled>>
  BY DEF BeginNode, Request, clusterVars
<1>3. /\ op' \in Ops /\ op'.cmd = cmd /\ op'.node = n /\ op' # NoOp
      /\ op'.at = IF cmd = "restart" THEN "delete" ELSE "first"
  <2>1. PICK at \in Steps : at = IF cmd = "restart" THEN "delete" ELSE "first"
    OBVIOUS
  <2>2. op' \in Ops /\ op'.cmd = cmd /\ op'.node = n /\ op'.at = at
    BY <1>2, <2>1 DEF Ops
  <2> QED BY <2>1, <2>2, NoOpFacts
<1>4. requests' \in 0 .. MaxRequests
  BY <1>1, <1>2, ClabernetesAssumption DEF RecordInv
<1>5. view' \in [Nodes -> Containers] /\ \A m \in Nodes : cmd = "start" \/ m # n => view'[m] = view[m]
  <2>1. Reset(view[n]) \in Containers
    BY DEF Reset, Containers
  <2> QED BY <1>1, <1>2, <2>1 DEF RecordInv
<1>6. RecordInv'
  BY <1>1, <1>2, <1>3, <1>4, <1>5 DEF RecordInv
<1>7. instance \in {"deployed", "failed", "cancelled"}
  BY <1>1, <1>2, NoOpFacts DEF RecordInv, OpInv, BeginNode, HasInstance
<1>8. OpInv'
  BY <1>2, <1>3, <1>7 DEF OpInv
<1>9. GoneInv' /\ FreshInv' /\ ReadyInv'
  BY <1>2, <1>3 DEF Inv, GoneInv, FreshInv, ReadyInv
<1>10. StopInv'
  BY <1>2, <1>3 DEF Inv, StopInv, LeftAlone
<1>11. fetch["operation"].at = "idle"
  BY <1>1, <1>2, NoOpFacts DEF FetchInv
<1>12. \A m \in Nodes : Owned(m)' \/ (view'[m] = view[m] /\ ~Owned(m) /\ (Inspected(m) => Inspected(m)'))
  BY <1>2, <1>3, <1>5 DEF Owned, Inspected
<1>13. Noticed
  BY <1>2, NothingNoticed
<1> QED BY <1>2, <1>6, <1>8, <1>9, <1>10, <1>11, <1>12, <1>13, OperationStep

(* The operations begin.                                                   *)
LEMMA BeginSteps == Inv /\ Begin => Inv'
<1>1. ASSUME Inv PROVE view \in [Nodes -> Containers]
  BY <1>1 DEF Inv, RecordInv
<1>2. ASSUME Inv, BeginDeploy PROVE Inv'
  <2>1. view' \in [Nodes -> Containers]
    BY <1>2 DEF BeginDeploy, Containers
  <2> QED BY <1>2, <2>1, BeginLabStep DEF BeginDeploy
<1>3. ASSUME Inv, BeginRedeploy PROVE Inv'
  <2>1. view' \in [Nodes -> Containers]
    BY <1>3 DEF BeginRedeploy, Reset, Containers
  <2> QED BY <1>3, <2>1, BeginLabStep DEF BeginRedeploy
<1>4. ASSUME Inv, BeginDestroy PROVE Inv'
  <2>1. \A c \in Containers : [c EXCEPT !.state = "stopped"] \in Containers
    BY DEF Containers
  <2>2. view' \in [Nodes -> Containers]
    BY <1>1, <1>4, <2>1 DEF BeginDestroy
  <2> QED BY <1>4, <2>2, BeginLabStep DEF BeginDestroy
<1> QED BY <1>2, <1>3, <1>4, BeginNodeStep DEF Begin

(* The server restarts and inspects the lab.                               *)
LEMMA RestartStep ==
  ASSUME Inv, ServerRestart
  PROVE  Inv'
<1>1. RecordInv
  BY DEF Inv
<1>2. /\ op' = [cmd |-> "revive", node |-> None, at |-> "attach"] /\ instance' = "lost" /\ misled' = {}
      /\ listening' = {} /\ givenUp' = {}
      /\ fetch' = [f \in Fetchers |-> NoFetch] /\ events' = {<<"pods", p.node>> : p \in pods}
      /\ view' = [n \in Nodes |-> [state |-> "stopped", id |-> None]]
      /\ UNCHANGED <<namespace, status, replicas, ignored, pods, uids, requests, before, adopted, wasReady, stopped>>
  BY DEF ServerRestart
<1>3. op' \in Ops /\ op'.cmd = "revive" /\ op'.node = None /\ op'.at = "attach" /\ op' # NoOp
  <2>1. op' \in Ops /\ op'.cmd = "revive" /\ op'.node = None /\ op'.at = "attach"
    BY <1>2 DEF Ops
  <2> QED BY <2>1, NoOpFacts
<1>4. fetch' \in [Fetchers -> Fetches] /\ \A g \in Fetchers : fetch'[g] = NoFetch
  BY <1>2, NoFetchFacts
<1>5. view' \in [Nodes -> Containers]
  BY <1>2 DEF Containers
<1>6. events' \subseteq {"pods", "deployments"} \X Nodes
  <2>1. \A p \in pods : p.node \in Nodes
    BY <1>1 DEF RecordInv, Pods
  <2> QED BY <1>2, <2>1
<1>7. faults' \in 0 .. MaxFaults
  BY <1>1, ClabernetesAssumption DEF RecordInv, ServerRestart
<1>8. RecordInv'
  BY <1>1, <1>2, <1>3, <1>4, <1>5, <1>6, <1>7 DEF RecordInv
<1>9. OpInv' /\ GoneInv' /\ StopInv' /\ FreshInv' /\ ReadyInv'
  BY <1>2, <1>3 DEF Inv, OpInv, GoneInv, StopInv, LeftAlone, FreshInv, ReadyInv
<1>10. FetchInv' /\ CurrentInv'
  BY <1>4, NoFetchFacts DEF FetchInv, CurrentInv
<1>11. FollowInv'
  BY <1>3 DEF FollowInv, Owned
<1> QED BY <1>8, <1>9, <1>10, <1>11 DEF Inv

(* A lab that was never deployed.                                          *)
LEMMA InitInv == Init => Inv
<1> SUFFICES ASSUME Init PROVE Inv
  OBVIOUS
<1>1. fetch \in [Fetchers -> Fetches] /\ \A g \in Fetchers : fetch[g] = NoFetch
  BY NoFetchFacts DEF Init
<1>2. view \in [Nodes -> Containers]
  BY DEF Init, Containers
<1>3. RecordInv
  <2>1. op \in Ops /\ replicas \in [Nodes -> {None, 0, 1}]
    BY NoOpFacts DEF Init
  <2>2. uids \in 0 .. MaxPods /\ requests \in 0 .. MaxRequests /\ faults \in 0 .. MaxFaults
    BY ClabernetesAssumption DEF Init
  <2>3. /\ pods = {} /\ status = None /\ events = {} /\ ignored = {} /\ stopped = {} /\ misled = {} /\ listening = {} /\ givenUp = {}
        /\ adopted = FALSE /\ wasReady = FALSE /\ instance = "none" /\ namespace = "absent"
    BY DEF Init
  <2> QED BY <1>1, <1>2, <2>1, <2>2, <2>3 DEF RecordInv
<1>4. OpInv /\ GoneInv /\ StopInv /\ FreshInv /\ ReadyInv
  BY NoOpFacts DEF Init, OpInv, GoneInv, StopInv, FreshInv, ReadyInv
<1>5. FetchInv /\ CurrentInv
  BY <1>1, NoFetchFacts DEF FetchInv, CurrentInv
<1>6. FollowInv
  BY DEF Init, FollowInv
<1> QED BY <1>3, <1>4, <1>5, <1>6 DEF Inv

(* No step happens.                                                        *)
LEMMA StutterInv == Inv /\ UNCHANGED vars => Inv'
<1> SUFFICES ASSUME Inv, UNCHANGED vars PROVE Inv'
  OBVIOUS
<1>1. UNCHANGED <<namespace, status, replicas, ignored, pods, uids, events, fetch, view, instance, op, requests, faults,
                  startup, before, adopted, wasReady, stopped, misled>>
  BY DEF vars, clusterVars, historyVars
<1>2. RecordInv' /\ GoneInv' /\ StopInv' /\ FreshInv' /\ ReadyInv'
  BY <1>1 DEF Inv, RecordInv, GoneInv, StopInv, LeftAlone, FreshInv, ReadyInv, TopologyReady
<1> QED BY <1>1, <1>2, NothingNoticed, ClusterStep

(* The inductive invariant holds in every reachable state.                 *)
LEMMA InvHolds == Spec => []Inv
<1>1. Inv /\ [Next]_vars => Inv'
  BY ClusterSteps, BeginSteps, OperationSteps, ListenerSteps, ProbeFailsStep, RestartStep, StutterInv DEF Next, Startup
<1> QED BY <1>1, InitInv, PTL DEF Spec

-----------------------------------------------------------------------------
(* Destroy returns when nothing of the lab is left, and nothing of it      *)
(* comes back before the next Deploy (clabernetes.go: Destroy,             *)
(* waitForNamespaceGone).                                                  *)
THEOREM NothingComesBack == Spec => []DestroyedStaysDown
<1>1. Inv => DestroyedStaysDown
  BY DEF Inv, GoneInv, DestroyedStaysDown
<1> QED BY <1>1, InvHolds, PTL

(* A node that StopNode has stopped is not started by the manager          *)
(* (clabernetes.go: StopNode labels the Node before it scales its          *)
(* Deployment).                                                            *)
THEOREM StoppedNodesStayStopped == Spec => []StoppedStaysStopped
<1>1. Inv => StoppedStaysStopped
  BY DEF Inv, StopInv, StoppedStaysStopped
<1> QED BY <1>1, InvHolds, PTL

(* A deployment that has succeeded saw all its nodes ready unless it found *)
(* a Topology, and a redeployment leaves no pod of before                  *)
(* (clabernetes.go: waitForTopologyReady, Redeploy).                       *)
THEOREM DeploymentInvariant == Spec => []DeploymentInv
<1>1. ASSUME Inv PROVE DeploymentInv
  <2>1. RecordInv /\ FreshInv /\ ReadyInv
    BY <1>1 DEF Inv
  <2>2. TypeOK
    <3>1. status = None \/ status.state \in {"new", "deploying", "running", "failed"}
      BY <2>1 DEF RecordInv, Statuses
    <3>2. \A p \in pods : p.node \in Nodes /\ p.uid \in 1 .. uids /\ p.phase \in {"pending", "running", "ready", "failed"}
      BY <2>1 DEF RecordInv, Pods
    <3>3. \A f \in Fetchers : fetch[f].at \in {"idle", "pods", "inspected"}
      BY <2>1 DEF RecordInv, Fetches
    <3>4. \A n \in Nodes : view[n].state \in {"stopped", "starting", "running", "stopping"}
      BY <2>1 DEF RecordInv, Containers
    <3>5. events \subseteq Fetchers \X Nodes
      BY <2>1 DEF RecordInv
    <3> QED BY <2>1, <3>1, <3>2, <3>3, <3>4, <3>5 DEF RecordInv, TypeOK
  <2>3. RedeployIsFresh
    BY <2>1 DEF FreshInv, RedeployIsFresh
  <2>4. DeployedIsReady
    BY <2>1 DEF ReadyInv, DeployedIsReady
  <2> QED BY <2>2, <2>3, <2>4 DEF DeploymentInv
<1> QED BY <1>1, InvHolds, PTL

(* Once the events are handled, what the instance service shows of a node  *)
(* is what an inspection says, or stopped if a startup listener has given  *)
(* up on it (clabernetes.go: RegisterListener, and fetchNode and           *)
(* startNodeStartupListener of the instance service).                      *)
THEOREM EveryChangeIsNoticed == Spec => []ViewFollowsCluster
<1>1. ASSUME Inv PROVE ViewFollowsCluster
  <2>1. ASSUME NEW n \in Nodes \ misled, op = NoOp, namespace = "active", inspect(PodOf(n), replicas[n]) # {},
               events = {}, \A f \in Fetchers : fetch[f].at = "idle"
        PROVE  GivenUp(n) \/ \E e \in inspect(PodOf(n), replicas[n]) : view[n].state = e.state
    <3>1. ~Pending(n) /\ ~Inspected(n) /\ ~Owned(n)
      BY <2>1 DEF Pending, Inspected, Owned
    <3>2. PICK E : E = inspect(PodOf(n), replicas[n])
      OBVIOUS
    <3>3. StatesNow(n) = {e.state : e \in E} /\ E # {}
      BY <2>1, <3>2 DEF StatesNow, StatesOf
    <3>4. GivenUp(n) \/ view[n].state \in StatesNow(n)
      BY <1>1, <2>1, <3>1, <3>3 DEF Inv, FollowInv, Shown
    <3> QED BY <3>2, <3>3, <3>4
  <2> QED BY <2>1 DEF ViewFollowsCluster
<1> QED BY <1>1, InvHolds, PTL
=============================================================================
