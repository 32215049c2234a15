---------------------------- MODULE InstanceProofs ----------------------------
(***************************************************************************)
(* Proofs about module Instance, for any number of requests, goroutines    *)
(* and nodes.                                                              *)
(***************************************************************************)
EXTENDS Instance, TLAPS

Deploying == {"deploy", "inspect", "attach", "stream"}

(* Goroutine q will leave the instance running, failed or destroyed. *)
Settles(q, i) ==
  /\ call[q].inst = i
  /\ \/ pc[q] \in {"install", "lockDestroy", "destroy"}
     \/ pc[q] \in Deploying \cup {"lockDeploy"} /\ call[q].ctx \notin cancelled

(* A goroutine works on an instance that has been made, and holds its      *)
(* OperationMutex between its Lock and its return.                         *)
LockInv ==
  /\ made <= requests + 1
  /\ instances \in (1 .. made) \cup {NoInstance}
  /\ \A p \in Procs : pc[p] # "idle" => call[p].inst \in 1 .. made /\ call[p].inst \in Ids
  /\ \A p \in Procs : pc[p] \in {"tryLock", "node", "fetch", "apply"} => call[p].node \in Nodes
  /\ \A p \in Procs : pc[p] \in Holding => opLock[call[p].inst] = p

(* Deployments work on instances that have not been destroyed, and a       *)
(* destruction marks its instance before it removes it from the map.       *)
DestroyedInv ==
  /\ destroyed \subseteq 1 .. made
  /\ \A p \in Procs : pc[p] \in Deploying => call[p].inst \notin destroyed
  /\ \A p \in Procs : pc[p] = "destroy" => state[call[p].inst] = "stopping"
  /\ \A p \in Procs : pc[p] = "unmap" => call[p].inst \in destroyed

(* Every instance has a context of its own, and the only context of a      *)
(* deployment that is not cancelled is the current one of its instance.    *)
ContextInv ==
  /\ \A i \in Ids : dctx[i] <= contexts
  /\ \A c \in cancelled : c <= contexts
  /\ \A i, j \in Ids : (i # j /\ dctx[i] # 0) => dctx[i] # dctx[j]
  /\ \A p \in Procs : pc[p] \in Deploying \cup {"lockDeploy"} =>
       /\ call[p].ctx # 0
       /\ call[p].ctx \notin cancelled => call[p].ctx = dctx[call[p].inst]

(* An instance that is neither running nor failed has a goroutine that     *)
(* settles it.                                                             *)
SettleInv ==
  \A i \in Ids : (i \in 1 .. made /\ i \notin destroyed /\ state[i] \in {"deploying", "stopping"})
                   => \E q \in Procs : Settles(q, i)

(* Without a stray destruction, the instance that is not destroyed is the  *)
(* one in the map, and a destruction removes the instance it works on.     *)
MapInv ==
  ~stray =>
    /\ \A i \in Ids : (i \in 1 .. made /\ i \notin destroyed) => instances = i
    /\ \A p \in Procs : pc[p] = "destroy" => call[p].inst \notin destroyed
    /\ \A p \in Procs : pc[p] = "unmap" => instances = call[p].inst

(* Then containers belong to an instance that is not destroyed. *)
ContainerInv ==
  ~stray => container = Nothing \/ \E i \in Ids : i \in 1 .. made /\ i \notin destroyed

Inv ==
  /\ LifecycleTypeOK /\ LockInv /\ DestroyedInv /\ DestroyedInstanceIsUnmapped /\ DestroyedStaysDown
  /\ ContextInv /\ SettleInv /\ MapInv /\ ContainerInv

(* No container is missing that the last inspection of i found. *)
Covered(i) == \A n \in Nodes : container[n].status = "absent" => n \in missing[i]

(* A step takes no container away. *)
KeepsContainers == \A n \in Nodes : container'[n].status = "absent" => container[n].status = "absent"

(* Without a stray destruction, no container goes between an inspection    *)
(* and its application, so that a lab that is running, or about to be,     *)
(* has the containers it found.                                            *)
UpInv ==
  /\ \A p \in Procs : pc[p] = "deploy" => state[call[p].inst] = "deploying"
  /\ ~stray =>
       /\ \A p \in Procs : pc[p] = "attach" =>
            \A n \in Nodes : container[n].status = "absent" => seen[p][n].status = "absent"
       /\ \A p \in Procs : pc[p] = "stream" => Covered(call[p].inst)
       /\ \A i \in Ids : (i \in 1 .. made /\ i \notin destroyed /\ state[i] = "running") => Covered(i)

(* What a startup listener and the event callback carry with them is of an *)
(* instance and of a node of it, for as long as they live.                 *)
StartupListener == [inst : Ids, node : Nodes, ctx : Nat, id : Nat,
                    at : {"begin", "probe", "started", "interfaces", "monitor"}, logs : BOOLEAN]
FetchedEvent == [inst : Ids, node : Nodes, seen : Container]

NodeType == node \in [Ids -> [Nodes -> InstanceNode]]
SeenType == seen \in [Procs -> [Nodes -> Container]]
ProviderType == container \in [Nodes -> Container] /\ generation \in Nat /\ events \subseteq Nodes
ListenerType == IsABag(listeners) /\ BagToSet(listeners) \subseteq StartupListener
WatcherType == watcher # Quiet => watcher \in FetchedEvent

DataInv ==
  /\ NodeType /\ SeenType /\ ProviderType /\ ListenerType /\ WatcherType
  /\ lastDeployFailed \in BOOLEAN

-----------------------------------------------------------------------------
USE InstanceAssumption DEF mapVars, statusVars, ctxVars, localVars, followers, nodeVars, providerVars, bounds,
        Goto, Return, UnlockAndReturn, Ids, Steps, Holding, Deploying

(* The local variables of a request that begins, and of one that takes a   *)
(* context, are of their type.                                             *)
LEMMA CallTypes ==
  ASSUME NEW i \in Nat
  PROVE  /\ NoCall \in Call
         /\ [NoCall EXCEPT !.inst = i] \in Call
         /\ [NoCall EXCEPT !.inst = i, !.again = TRUE] \in Call
         /\ \A command \in {"start", "stop", "restart"}, n \in Nodes :
              [NoCall EXCEPT !.inst = i, !.command = command, !.node = n] \in Call
         /\ \A c \in Call : [c EXCEPT !.ctx = i] \in Call
BY DEF NoCall, Call

(* A step of p that cancels no context keeps every instance settled if p   *)
(* still settles it or never did.                                          *)
LEMMA SettleKept ==
  ASSUME SettleInv, NEW p \in Procs,
         made' = made, cancelled' = cancelled,
         \A q \in Procs : q # p => pc'[q] = pc[q] /\ call'[q] = call[q],
         \A i \in Ids : (i \in 1 .. made /\ i \notin destroyed' /\ state'[i] \in {"deploying", "stopping"})
           => \/ Settles(p, i)'
              \/ /\ i \notin destroyed /\ state[i] \in {"deploying", "stopping"}
                 /\ ~Settles(p, i)
  PROVE  SettleInv'
<1> SUFFICES ASSUME NEW i \in Ids, i \in 1 .. made, i \notin destroyed',
                    state'[i] \in {"deploying", "stopping"}, ~Settles(p, i)'
             PROVE  \E q \in Procs : Settles(q, i)'
  BY DEF SettleInv
<1>1. PICK q \in Procs : Settles(q, i)
  BY DEF SettleInv
<1>2. q # p
  BY <1>1
<1>3. Settles(q, i)'
  BY <1>1, <1>2 DEF Settles
<1> QED BY <1>3


(* Two goroutines that hold an OperationMutex hold different ones. *)
LEMMA Exclusive ==
  ASSUME LockInv
  PROVE  OperationsAreSerialised
BY DEF LockInv, OperationsAreSerialised

(* A deployment of a lab with an instance begins: nothing but the request  *)
(* itself changes.                                                         *)
LEMMA BeginRedeployStep ==
  ASSUME Inv, NEW p \in Procs, BeginRedeploy(p)
  PROVE  Inv'
<1>1. LifecycleTypeOK'
  <2>1. instances \in Nat
    BY DEF Inv, LifecycleTypeOK, BeginRedeploy
  <2>2. call' \in [Procs -> Call]
    BY <2>1, CallTypes DEF Inv, LifecycleTypeOK, BeginRedeploy, Begin
  <2>3. pc' \in [Procs -> Steps] /\ requests' \in Nat /\ opLock' \in [Ids -> Procs \cup {Free}]
    BY DEF Inv, LifecycleTypeOK, BeginRedeploy, Begin
  <2> QED
    BY <2>1, <2>2, <2>3 DEF Inv, LifecycleTypeOK, LockInv, BeginRedeploy, Begin
<1>2. LockInv'
  BY DEF Inv, LockInv, LifecycleTypeOK, Call, BeginRedeploy, Begin, NoCall
<1>3. DestroyedInv'
  BY DEF Inv, DestroyedInv, LifecycleTypeOK, LockInv, Call, BeginRedeploy, Begin, NoCall
<1>4. DestroyedInstanceIsUnmapped' /\ DestroyedStaysDown'
  BY DEF Inv, DestroyedInstanceIsUnmapped, DestroyedStaysDown, LifecycleTypeOK, LockInv,
     DestroyedInv, Call, BeginRedeploy, Begin, NoCall
<1>5. ContextInv'
  BY DEF Inv, ContextInv, LifecycleTypeOK, LockInv, Call, BeginRedeploy, Begin, NoCall
<1>6. SettleInv'
  BY SettleKept DEF Inv, LifecycleTypeOK, LockInv, DestroyedInv, Settles, BeginRedeploy, Begin,
     NoCall
<1>7. MapInv' /\ ContainerInv'
  BY DEF Inv, MapInv, ContainerInv, Nothing, Absent, LifecycleTypeOK, LockInv, DestroyedInv, Call,
     BeginRedeploy, Begin, NoCall
<1> QED BY <1>1, <1>2, <1>3, <1>4, <1>5, <1>6, <1>7 DEF Inv

(* A deployment of a lab without one makes the instance, and is itself the *)
(* goroutine that settles it.                                              *)
LEMMA BeginDeployStep ==
  ASSUME Inv, NEW p \in Procs, BeginDeploy(p)
  PROVE  Inv'
<1>1. LifecycleTypeOK'
  <2>1. made + 1 \in Nat
    BY DEF Inv, LifecycleTypeOK
  <2>2. call' \in [Procs -> Call]
    BY <2>1, CallTypes DEF Inv, LifecycleTypeOK, BeginDeploy, Begin
  <2>3. pc' \in [Procs -> Steps] /\ requests' \in Nat /\ opLock' \in [Ids -> Procs \cup {Free}]
    BY DEF Inv, LifecycleTypeOK, BeginDeploy, Begin
  <2> QED
    BY <2>1, <2>2, <2>3 DEF Inv, LifecycleTypeOK, LockInv, BeginDeploy, Begin
<1>2. LockInv'
  BY DEF Inv, LockInv, LifecycleTypeOK, Call, BeginDeploy, Begin, NoCall
<1>3. DestroyedInv'
  <2>1. \A q \in Procs : q # p => pc'[q] = pc[q] /\ call'[q] = call[q]
    BY DEF BeginDeploy, Begin, Inv, LifecycleTypeOK
  <2>2. pc'[p] = "install" /\ made \in Nat /\ made' = made + 1 /\ destroyed' = destroyed
    BY DEF BeginDeploy, Begin, Inv, LifecycleTypeOK
  <2>3. \A i \in Ids : i \in 1 .. made => state'[i] = state[i]
    BY <2>2 DEF BeginDeploy, Inv, LifecycleTypeOK
  <2>4. destroyed' \subseteq 1 .. made'
    BY <2>2 DEF Inv, DestroyedInv
  <2>5. ASSUME NEW q \in Procs, pc'[q] \in Deploying \cup {"destroy", "unmap"}
        PROVE  /\ q # p /\ pc'[q] = pc[q] /\ call'[q] = call[q]
               /\ state'[call[q].inst] = state[call[q].inst]
    <3>1. q # p /\ pc'[q] = pc[q] /\ call'[q] = call[q]
      BY <2>1, <2>2, <2>5
    <3> QED BY <2>3, <2>5, <3>1 DEF Inv, LockInv
  <2> QED BY <2>2, <2>4, <2>5 DEF Inv, DestroyedInv
<1>4. DestroyedInstanceIsUnmapped' /\ DestroyedStaysDown'
  BY DEF Inv, DestroyedInstanceIsUnmapped, DestroyedStaysDown, LifecycleTypeOK, LockInv,
     DestroyedInv, Call, BeginDeploy, Begin, NoCall
<1>5. ContextInv'
  BY DEF Inv, ContextInv, LifecycleTypeOK, LockInv, Call, BeginDeploy, Begin, NoCall
<1>6. SettleInv'
  <2> SUFFICES ASSUME NEW i \in Ids, i \in 1 .. made', i \notin destroyed',
                      state'[i] \in {"deploying", "stopping"}
               PROVE  \E q \in Procs : Settles(q, i)'
    BY DEF SettleInv
  <2>1. CASE i = made + 1
    <3>1. call'[p].inst = i /\ pc'[p] = "install"
      BY <2>1 DEF Inv, LifecycleTypeOK, BeginDeploy, Begin, NoCall, Call
    <3> QED BY <3>1 DEF Settles
  <2>2. CASE i # made + 1
    <3>1. i \in 1 .. made /\ i \notin destroyed /\ state[i] = state'[i]
      BY <2>2 DEF Inv, LifecycleTypeOK, BeginDeploy
    <3>2. PICK q \in Procs : Settles(q, i)
      BY <3>1 DEF Inv, SettleInv
    <3>3. q # p
      BY <3>2 DEF Settles, BeginDeploy, Begin
    <3>4. Settles(q, i)'
      BY <3>2, <3>3 DEF Inv, LifecycleTypeOK, Settles, BeginDeploy, Begin
    <3> QED BY <3>4
  <2> QED BY <2>1, <2>2
<1>7. MapInv' /\ ContainerInv'
  <2>1. \A q \in Procs : pc'[q] \in {"destroy", "unmap"} => q # p /\ pc'[q] = pc[q] /\ call'[q] = call[q]
    BY DEF BeginDeploy, Begin, Inv, LifecycleTypeOK
  <2>2. /\ instances = NoInstance /\ instances' = made + 1
        /\ made \in Nat /\ made' = made + 1 /\ destroyed' = destroyed /\ stray' = stray
        /\ container' = container
    BY DEF BeginDeploy, Inv, LifecycleTypeOK
  <2>3. ~stray => \A i \in Ids : i \in 1 .. made => i \in destroyed
    BY <2>2 DEF Inv, MapInv
  <2>4. ~stray => \A q \in Procs : pc[q] \notin {"destroy", "unmap"}
    <3> SUFFICES ASSUME ~stray, NEW q \in Procs, pc[q] \in {"destroy", "unmap"}
                 PROVE  FALSE
      OBVIOUS
    <3>1. call[q].inst \in Ids /\ call[q].inst \in 1 .. made
      BY DEF Inv, LockInv
    <3>2. pc[q] # "destroy"
      BY <2>3, <3>1 DEF Inv, MapInv
    <3>3. pc[q] = "unmap" => instances = call[q].inst
      BY DEF Inv, MapInv
    <3> QED BY <2>2, <3>1, <3>2, <3>3
  <2>5. MapInv'
    BY <2>1, <2>2, <2>3, <2>4 DEF MapInv
  <2>6. ContainerInv'
    BY <2>2, <2>3 DEF Inv, ContainerInv
  <2> QED BY <2>5, <2>6
<1> QED BY <1>1, <1>2, <1>3, <1>4, <1>5, <1>6, <1>7 DEF Inv

(* A deployment that is refused leaves no instance behind. *)
LEMMA DeployRefusedStep ==
  ASSUME Inv, NEW p \in Procs, DeployRefused(p)
  PROVE  Inv'
<1>1. LifecycleTypeOK'
  BY DEF Inv, LifecycleTypeOK, LockInv, Call, DeployRefused
<1>2. LockInv'
  BY DEF Inv, LockInv, LifecycleTypeOK, Call, DeployRefused
<1>3. DestroyedInv'
  BY DEF Inv, DestroyedInv, LifecycleTypeOK, LockInv, Call, DeployRefused
<1>4. DestroyedInstanceIsUnmapped' /\ DestroyedStaysDown'
  BY DEF Inv, DestroyedInstanceIsUnmapped, DestroyedStaysDown, LifecycleTypeOK, LockInv,
     DestroyedInv, Call, DeployRefused
<1>5. ContextInv'
  BY DEF Inv, ContextInv, LifecycleTypeOK, LockInv, Call, DeployRefused
<1>6. SettleInv'
  BY SettleKept DEF Inv, LifecycleTypeOK, LockInv, DestroyedInv, Settles, DeployRefused
<1>7. MapInv' /\ ContainerInv'
  BY DEF Inv, MapInv, ContainerInv, Nothing, Absent, LifecycleTypeOK, LockInv, DestroyedInv, Call,
     DeployRefused
<1> QED BY <1>1, <1>2, <1>3, <1>4, <1>5, <1>6, <1>7 DEF Inv

(* A destruction begins: nothing but the request itself changes. *)
LEMMA BeginDestroyStep ==
  ASSUME Inv, NEW p \in Procs, BeginDestroy(p)
  PROVE  Inv'
<1>1. LifecycleTypeOK'
  <2>1. instances \in Nat
    BY DEF Inv, LifecycleTypeOK, BeginDestroy
  <2>2. call' \in [Procs -> Call]
    BY <2>1, CallTypes DEF Inv, LifecycleTypeOK, BeginDestroy, Begin
  <2>3. pc' \in [Procs -> Steps] /\ requests' \in Nat /\ opLock' \in [Ids -> Procs \cup {Free}]
    BY DEF Inv, LifecycleTypeOK, BeginDestroy, Begin
  <2> QED
    BY <2>1, <2>2, <2>3 DEF Inv, LifecycleTypeOK, LockInv, BeginDestroy, Begin
<1>2. LockInv'
  BY DEF Inv, LockInv, LifecycleTypeOK, Call, BeginDestroy, Begin, NoCall
<1>3. DestroyedInv'
  BY DEF Inv, DestroyedInv, LifecycleTypeOK, LockInv, Call, BeginDestroy, Begin, NoCall
<1>4. DestroyedInstanceIsUnmapped' /\ DestroyedStaysDown'
  BY DEF Inv, DestroyedInstanceIsUnmapped, DestroyedStaysDown, LifecycleTypeOK, LockInv,
     DestroyedInv, Call, BeginDestroy, Begin, NoCall
<1>5. ContextInv'
  BY DEF Inv, ContextInv, LifecycleTypeOK, LockInv, Call, BeginDestroy, Begin, NoCall
<1>6. SettleInv'
  BY SettleKept DEF Inv, LifecycleTypeOK, LockInv, DestroyedInv, Settles, BeginDestroy, Begin,
     NoCall
<1>7. MapInv' /\ ContainerInv'
  BY DEF Inv, MapInv, ContainerInv, Nothing, Absent, LifecycleTypeOK, LockInv, DestroyedInv, Call,
     BeginDestroy, Begin, NoCall
<1> QED BY <1>1, <1>2, <1>3, <1>4, <1>5, <1>6, <1>7 DEF Inv

(* A node command begins: nothing but the request itself changes. *)
LEMMA BeginNodeCommandStep ==
  ASSUME Inv, NEW p \in Procs, NEW command \in Commands, NEW n \in Nodes, BeginNodeCommand(p, command, n)
  PROVE  Inv'
<1>1. LifecycleTypeOK'
  <2>1. instances \in Nat
    BY DEF Inv, LifecycleTypeOK, BeginNodeCommand
  <2>2. call' \in [Procs -> Call]
    BY <2>1, CallTypes DEF Inv, LifecycleTypeOK, BeginNodeCommand, Begin
  <2>3. pc' \in [Procs -> Steps] /\ requests' \in Nat /\ opLock' \in [Ids -> Procs \cup {Free}]
    BY DEF Inv, LifecycleTypeOK, BeginNodeCommand, Begin
  <2> QED
    BY <2>1, <2>2, <2>3 DEF Inv, LifecycleTypeOK, LockInv, BeginNodeCommand, Begin
<1>2. LockInv'
  BY DEF Inv, LockInv, LifecycleTypeOK, Call, BeginNodeCommand, Begin, NoCall
<1>3. DestroyedInv'
  BY DEF Inv, DestroyedInv, LifecycleTypeOK, LockInv, Call, BeginNodeCommand, Begin, NoCall
<1>4. DestroyedInstanceIsUnmapped' /\ DestroyedStaysDown'
  BY DEF Inv, DestroyedInstanceIsUnmapped, DestroyedStaysDown, LifecycleTypeOK, LockInv,
     DestroyedInv, Call, BeginNodeCommand, Begin, NoCall
<1>5. ContextInv'
  BY DEF Inv, ContextInv, LifecycleTypeOK, LockInv, Call, BeginNodeCommand, Begin, NoCall
<1>6. SettleInv'
  BY SettleKept DEF Inv, LifecycleTypeOK, LockInv, DestroyedInv, Settles, BeginNodeCommand, Begin,
     NoCall
<1>7. MapInv' /\ ContainerInv'
  BY DEF Inv, MapInv, ContainerInv, Nothing, Absent, LifecycleTypeOK, LockInv, DestroyedInv, Call,
     BeginNodeCommand, Begin, NoCall
<1> QED BY <1>1, <1>2, <1>3, <1>4, <1>5, <1>6, <1>7 DEF Inv

(* A new context supersedes the deployment before; the new deployment      *)
(* settles the instance in its place, and contexts of other instances      *)
(* stay.                                                                   *)
LEMMA InstallContextStep ==
  ASSUME Inv, NEW p \in Procs, InstallContext(p)
  PROVE  Inv'
<1>1. LifecycleTypeOK'
  <2>1. contexts + 1 \in Nat
    BY DEF Inv, LifecycleTypeOK
  <2>2. call' \in [Procs -> Call]
    BY <2>1, CallTypes DEF Inv, LifecycleTypeOK, InstallContext
  <2>3. pc' \in [Procs -> Steps] /\ requests' \in Nat /\ opLock' \in [Ids -> Procs \cup {Free}]
    BY DEF Inv, LifecycleTypeOK, InstallContext
  <2> QED
    BY <2>1, <2>2, <2>3 DEF Inv, LifecycleTypeOK, LockInv, InstallContext
<1>2. LockInv'
  BY DEF Inv, LockInv, LifecycleTypeOK, Call, InstallContext
<1>3. DestroyedInv'
  BY DEF Inv, DestroyedInv, LifecycleTypeOK, LockInv, Call, InstallContext
<1>4. DestroyedInstanceIsUnmapped' /\ DestroyedStaysDown'
  BY DEF Inv, DestroyedInstanceIsUnmapped, DestroyedStaysDown, LifecycleTypeOK, LockInv,
     DestroyedInv, Call, InstallContext
<1>5. ContextInv'
  BY DEF Inv, ContextInv, LifecycleTypeOK, LockInv, Call, InstallContext
<1>6. SettleInv'
  <2> SUFFICES ASSUME NEW i \in Ids, i \in 1 .. made, i \notin destroyed,
                      state[i] \in {"deploying", "stopping"}
               PROVE  \E q \in Procs : Settles(q, i)'
    BY DEF SettleInv, InstallContext
  <2>1. CASE i = call[p].inst
    <3>1. call'[p].inst = i /\ pc'[p] = "lockDeploy" /\ call'[p].ctx = contexts + 1
      BY <2>1 DEF Inv, LifecycleTypeOK, InstallContext, Call
    <3>2. contexts + 1 \notin cancelled'
      BY DEF Inv, LifecycleTypeOK, LockInv, ContextInv, InstallContext
    <3> QED BY <3>1, <3>2 DEF Settles
  <2>2. CASE i # call[p].inst
    <3>1. PICK q \in Procs : Settles(q, i)
      BY DEF Inv, SettleInv
    <3>2. q # p /\ call[q].inst = i
      BY <2>2, <3>1 DEF Settles
    <3>3. pc'[q] = pc[q] /\ call'[q] = call[q]
      BY <3>2 DEF Inv, LifecycleTypeOK, InstallContext
    <3>4. CASE pc[q] \in {"install", "lockDestroy", "destroy"}
      BY <3>2, <3>3, <3>4 DEF Settles
    <3>5. CASE pc[q] \in Deploying \cup {"lockDeploy"} /\ call[q].ctx \notin cancelled
      <4>1. call[q].ctx = dctx[i] /\ dctx[i] # 0
        BY <3>2, <3>5 DEF Inv, ContextInv
      <4>2. call[p].inst \in Ids
        BY DEF Inv, LockInv, InstallContext
      <4>3. dctx[i] # dctx[call[p].inst]
        BY <2>2, <4>1, <4>2 DEF Inv, ContextInv
      <4>4. call[q].ctx \notin cancelled'
        BY <3>5, <4>1, <4>3 DEF InstallContext
      <4> QED BY <3>2, <3>3, <3>5, <4>4 DEF Settles
    <3> QED BY <3>1, <3>4, <3>5 DEF Settles
  <2> QED BY <2>1, <2>2
<1>7. MapInv' /\ ContainerInv'
  BY DEF Inv, MapInv, ContainerInv, Nothing, Absent, LifecycleTypeOK, LockInv, DestroyedInv, Call,
     InstallContext
<1> QED BY <1>1, <1>2, <1>3, <1>4, <1>5, <1>6, <1>7 DEF Inv

(* A deployment that gives up did not settle the instance: its context is  *)
(* cancelled or the instance destroyed.                                    *)
LEMMA DeployIgnoredStep ==
  ASSUME Inv, NEW p \in Procs, DeployIgnored(p)
  PROVE  Inv'
<1>1. LifecycleTypeOK'
  BY DEF Inv, LifecycleTypeOK, LockInv, Call, DeployIgnored, NoCall
<1>2. LockInv'
  BY DEF Inv, LockInv, LifecycleTypeOK, Call, DeployIgnored, NoCall
<1>3. DestroyedInv'
  BY DEF Inv, DestroyedInv, LifecycleTypeOK, LockInv, Call, DeployIgnored, NoCall
<1>4. DestroyedInstanceIsUnmapped' /\ DestroyedStaysDown'
  BY DEF Inv, DestroyedInstanceIsUnmapped, DestroyedStaysDown, LifecycleTypeOK, LockInv,
     DestroyedInv, Call, DeployIgnored, NoCall
<1>5. ContextInv'
  BY DEF Inv, ContextInv, LifecycleTypeOK, LockInv, Call, DeployIgnored, NoCall
<1>6. SettleInv'
  <2>1. \A i \in Ids : i \notin destroyed => ~Settles(p, i)
    BY DEF Settles, DeployIgnored
  <2> QED BY <2>1, SettleKept DEF Inv, LifecycleTypeOK, DeployIgnored
<1>7. MapInv' /\ ContainerInv'
  BY DEF Inv, MapInv, ContainerInv, Nothing, Absent, LifecycleTypeOK, LockInv, DestroyedInv, Call,
     DeployIgnored, NoCall
<1> QED BY <1>1, <1>2, <1>3, <1>4, <1>5, <1>6, <1>7 DEF Inv

(* A deployment that takes the mutex finds an instance that is not         *)
(* destroyed.                                                              *)
LEMMA LockForDeployStep ==
  ASSUME Inv, NEW p \in Procs, LockForDeploy(p)
  PROVE  Inv'
<1>1. LifecycleTypeOK'
  BY DEF Inv, LifecycleTypeOK, LockInv, Call, LockForDeploy
<1>2. LockInv'
  BY DEF Inv, LockInv, LifecycleTypeOK, Call, LockForDeploy
<1>3. DestroyedInv'
  BY DEF Inv, DestroyedInv, LifecycleTypeOK, LockInv, Call, LockForDeploy
<1>4. DestroyedInstanceIsUnmapped' /\ DestroyedStaysDown'
  BY DEF Inv, DestroyedInstanceIsUnmapped, DestroyedStaysDown, LifecycleTypeOK, LockInv,
     DestroyedInv, Call, LockForDeploy
<1>5. ContextInv'
  BY DEF Inv, ContextInv, LifecycleTypeOK, LockInv, Call, LockForDeploy
<1>6. SettleInv'
  BY SettleKept DEF Inv, LifecycleTypeOK, LockInv, DestroyedInv, Settles, LockForDeploy
<1>7. MapInv' /\ ContainerInv'
  BY DEF Inv, MapInv, ContainerInv, Nothing, Absent, LifecycleTypeOK, LockInv, DestroyedInv, Call,
     LockForDeploy
<1> QED BY <1>1, <1>2, <1>3, <1>4, <1>5, <1>6, <1>7 DEF Inv

(* The containers it creates belong to an instance that is not destroyed. *)
LEMMA DeploySucceedsStep ==
  ASSUME Inv, NEW p \in Procs, DeploySucceeds(p)
  PROVE  Inv'
<1>1. LifecycleTypeOK'
  BY DEF Inv, LifecycleTypeOK, LockInv, Call, DeploySucceeds
<1>2. LockInv'
  BY DEF Inv, LockInv, LifecycleTypeOK, Call, DeploySucceeds
<1>3. DestroyedInv'
  BY DEF Inv, DestroyedInv, LifecycleTypeOK, LockInv, Call, DeploySucceeds
<1>4. DestroyedInstanceIsUnmapped' /\ DestroyedStaysDown'
  BY DEF Inv, DestroyedInstanceIsUnmapped, DestroyedStaysDown, LifecycleTypeOK, LockInv,
     DestroyedInv, Call, DeploySucceeds
<1>5. ContextInv'
  BY DEF Inv, ContextInv, LifecycleTypeOK, LockInv, Call, DeploySucceeds
<1>6. SettleInv'
  BY SettleKept DEF Inv, LifecycleTypeOK, LockInv, DestroyedInv, Settles, DeploySucceeds
<1>7. MapInv' /\ ContainerInv'
  BY DEF Inv, MapInv, ContainerInv, Nothing, Absent, LifecycleTypeOK, LockInv, DestroyedInv, Call,
     DeploySucceeds
<1> QED BY <1>1, <1>2, <1>3, <1>4, <1>5, <1>6, <1>7 DEF Inv

(* A deployment that fails settles the instance, unless its context is     *)
(* cancelled.                                                              *)
LEMMA DeployFailsStep ==
  ASSUME Inv, NEW p \in Procs, DeployFails(p)
  PROVE  Inv'
<1>1. LifecycleTypeOK'
  BY DEF Inv, LifecycleTypeOK, LockInv, Call, DeployFails, NoCall
<1>2. LockInv'
  BY DEF Inv, LockInv, LifecycleTypeOK, Call, DeployFails, NoCall
<1>3. DestroyedInv'
  BY Exclusive DEF OperationsAreSerialised, Inv, DestroyedInv, LifecycleTypeOK, LockInv, Call,
     DeployFails, NoCall
<1>4. DestroyedInstanceIsUnmapped' /\ DestroyedStaysDown'
  BY DEF Inv, DestroyedInstanceIsUnmapped, DestroyedStaysDown, LifecycleTypeOK, LockInv,
     DestroyedInv, Call, DeployFails, NoCall
<1>5. ContextInv'
  BY DEF Inv, ContextInv, LifecycleTypeOK, LockInv, Call, DeployFails, NoCall
<1>6. SettleInv'
  BY SettleKept DEF Inv, LifecycleTypeOK, LockInv, DestroyedInv, Settles, DeployFails, NoCall
<1>7. MapInv' /\ ContainerInv'
  BY DEF Inv, MapInv, ContainerInv, Nothing, Absent, LifecycleTypeOK, LockInv, DestroyedInv, Call,
     DeployFails, NoCall
<1> QED BY <1>1, <1>2, <1>3, <1>4, <1>5, <1>6, <1>7 DEF Inv

(* An inspection changes none of the lifecycle. *)
LEMMA InspectLabStep ==
  ASSUME Inv, NEW p \in Procs, InspectLab(p)
  PROVE  Inv'
<1>1. LifecycleTypeOK'
  BY DEF Inv, LifecycleTypeOK, LockInv, Call, InspectLab
<1>2. LockInv'
  BY DEF Inv, LockInv, LifecycleTypeOK, Call, InspectLab
<1>3. DestroyedInv'
  BY DEF Inv, DestroyedInv, LifecycleTypeOK, LockInv, Call, InspectLab
<1>4. DestroyedInstanceIsUnmapped' /\ DestroyedStaysDown'
  BY DEF Inv, DestroyedInstanceIsUnmapped, DestroyedStaysDown, LifecycleTypeOK, LockInv,
     DestroyedInv, Call, InspectLab
<1>5. ContextInv'
  BY DEF Inv, ContextInv, LifecycleTypeOK, LockInv, Call, InspectLab
<1>6. SettleInv'
  BY SettleKept DEF Inv, LifecycleTypeOK, LockInv, DestroyedInv, Settles, InspectLab
<1>7. MapInv' /\ ContainerInv'
  BY DEF Inv, MapInv, ContainerInv, Nothing, Absent, LifecycleTypeOK, LockInv, DestroyedInv, Call,
     InspectLab
<1> QED BY <1>1, <1>2, <1>3, <1>4, <1>5, <1>6, <1>7 DEF Inv

(* A failed inspection settles the instance, unless the context is         *)
(* cancelled.                                                              *)
LEMMA InspectLabFailsStep ==
  ASSUME Inv, NEW p \in Procs, InspectLabFails(p)
  PROVE  Inv'
<1>1. LifecycleTypeOK'
  BY DEF Inv, LifecycleTypeOK, LockInv, Call, InspectLabFails, NoCall
<1>2. LockInv'
  BY DEF Inv, LockInv, LifecycleTypeOK, Call, InspectLabFails, NoCall
<1>3. DestroyedInv'
  BY Exclusive DEF OperationsAreSerialised, Inv, DestroyedInv, LifecycleTypeOK, LockInv, Call,
     InspectLabFails, NoCall
<1>4. DestroyedInstanceIsUnmapped' /\ DestroyedStaysDown'
  BY DEF Inv, DestroyedInstanceIsUnmapped, DestroyedStaysDown, LifecycleTypeOK, LockInv,
     DestroyedInv, Call, InspectLabFails, NoCall
<1>5. ContextInv'
  BY DEF Inv, ContextInv, LifecycleTypeOK, LockInv, Call, InspectLabFails, NoCall
<1>6. SettleInv'
  BY SettleKept DEF Inv, LifecycleTypeOK, LockInv, DestroyedInv, Settles, InspectLabFails, NoCall
<1>7. MapInv' /\ ContainerInv'
  BY DEF Inv, MapInv, ContainerInv, Nothing, Absent, LifecycleTypeOK, LockInv, DestroyedInv, Call,
     InspectLabFails, NoCall
<1> QED BY <1>1, <1>2, <1>3, <1>4, <1>5, <1>6, <1>7 DEF Inv

(* Updating the nodes changes none of the lifecycle. *)
LEMMA AttachNodesStep ==
  ASSUME Inv, NEW p \in Procs, AttachNodes(p)
  PROVE  Inv'
<1>1. LifecycleTypeOK'
  BY DEF Inv, LifecycleTypeOK, LockInv, Call, AttachNodes
<1>2. LockInv'
  BY DEF Inv, LockInv, LifecycleTypeOK, Call, AttachNodes
<1>3. DestroyedInv'
  BY DEF Inv, DestroyedInv, LifecycleTypeOK, LockInv, Call, AttachNodes
<1>4. DestroyedInstanceIsUnmapped' /\ DestroyedStaysDown'
  BY DEF Inv, DestroyedInstanceIsUnmapped, DestroyedStaysDown, LifecycleTypeOK, LockInv,
     DestroyedInv, Call, AttachNodes
<1>5. ContextInv'
  BY DEF Inv, ContextInv, LifecycleTypeOK, LockInv, Call, AttachNodes
<1>6. SettleInv'
  BY SettleKept DEF Inv, LifecycleTypeOK, LockInv, DestroyedInv, Settles, AttachNodes
<1>7. MapInv' /\ ContainerInv'
  BY DEF Inv, MapInv, ContainerInv, Nothing, Absent, LifecycleTypeOK, LockInv, DestroyedInv, Call,
     AttachNodes
<1> QED BY <1>1, <1>2, <1>3, <1>4, <1>5, <1>6, <1>7 DEF Inv

(* A deployment that finishes leaves the instance running. *)
LEMMA DeployFinishesStep ==
  ASSUME Inv, NEW p \in Procs, DeployFinishes(p)
  PROVE  Inv'
<1>1. LifecycleTypeOK'
  BY DEF Inv, LifecycleTypeOK, LockInv, Call, DeployFinishes, NoCall
<1>2. LockInv'
  BY DEF Inv, LockInv, LifecycleTypeOK, Call, DeployFinishes, NoCall
<1>3. DestroyedInv'
  BY DEF Inv, DestroyedInv, LifecycleTypeOK, LockInv, Call, DeployFinishes, NoCall
<1>4. DestroyedInstanceIsUnmapped' /\ DestroyedStaysDown'
  BY DEF Inv, DestroyedInstanceIsUnmapped, DestroyedStaysDown, LifecycleTypeOK, LockInv,
     DestroyedInv, Call, DeployFinishes, NoCall
<1>5. ContextInv'
  BY DEF Inv, ContextInv, LifecycleTypeOK, LockInv, Call, DeployFinishes, NoCall
<1>6. SettleInv'
  BY SettleKept DEF Inv, LifecycleTypeOK, LockInv, DestroyedInv, Settles, DeployFinishes, NoCall
<1>7. MapInv' /\ ContainerInv'
  BY DEF Inv, MapInv, ContainerInv, Nothing, Absent, LifecycleTypeOK, LockInv, DestroyedInv, Call,
     DeployFinishes, NoCall
<1> QED BY <1>1, <1>2, <1>3, <1>4, <1>5, <1>6, <1>7 DEF Inv

(* A deployment that aborts does so under a cancelled context, and did not *)
(* settle the instance.                                                    *)
LEMMA DeployAbortsStep ==
  ASSUME Inv, NEW p \in Procs, DeployAborts(p)
  PROVE  Inv'
<1>1. LifecycleTypeOK'
  BY DEF Inv, LifecycleTypeOK, LockInv, Call, DeployAborts, NoCall
<1>2. LockInv'
  BY DEF Inv, LockInv, LifecycleTypeOK, Call, DeployAborts, NoCall
<1>3. DestroyedInv'
  BY DEF Inv, DestroyedInv, LifecycleTypeOK, LockInv, Call, DeployAborts, NoCall
<1>4. DestroyedInstanceIsUnmapped' /\ DestroyedStaysDown'
  BY DEF Inv, DestroyedInstanceIsUnmapped, DestroyedStaysDown, LifecycleTypeOK, LockInv,
     DestroyedInv, Call, DeployAborts, NoCall
<1>5. ContextInv'
  BY DEF Inv, ContextInv, LifecycleTypeOK, LockInv, Call, DeployAborts, NoCall
<1>6. SettleInv'
  BY SettleKept DEF Inv, LifecycleTypeOK, LockInv, DestroyedInv, Settles, DeployAborts, NoCall
<1>7. MapInv' /\ ContainerInv'
  BY DEF Inv, MapInv, ContainerInv, Nothing, Absent, LifecycleTypeOK, LockInv, DestroyedInv, Call,
     DeployAborts, NoCall
<1> QED BY <1>1, <1>2, <1>3, <1>4, <1>5, <1>6, <1>7 DEF Inv

(* A destruction that cancels a deployment settles the instance in its     *)
(* place.                                                                  *)
LEMMA CancelDeploymentStep ==
  ASSUME Inv, NEW p \in Procs, CancelDeployment(p)
  PROVE  Inv'
<1>1. LifecycleTypeOK'
  <2>1. dctx[call[p].inst] \in Nat
    BY DEF Inv, LifecycleTypeOK, LockInv, CancelDeployment
  <2>2. call' \in [Procs -> Call]
    BY <2>1, CallTypes DEF Inv, LifecycleTypeOK, CancelDeployment
  <2>3. pc' \in [Procs -> Steps] /\ requests' \in Nat /\ opLock' \in [Ids -> Procs \cup {Free}]
    BY DEF Inv, LifecycleTypeOK, CancelDeployment
  <2> QED
    BY <2>1, <2>2, <2>3 DEF Inv, LifecycleTypeOK, LockInv, CancelDeployment
<1>2. LockInv'
  BY DEF Inv, LockInv, LifecycleTypeOK, Call, CancelDeployment
<1>3. DestroyedInv'
  BY DEF Inv, DestroyedInv, LifecycleTypeOK, LockInv, Call, CancelDeployment
<1>4. DestroyedInstanceIsUnmapped' /\ DestroyedStaysDown'
  BY DEF Inv, DestroyedInstanceIsUnmapped, DestroyedStaysDown, LifecycleTypeOK, LockInv,
     DestroyedInv, Call, CancelDeployment
<1>5. ContextInv'
  BY DEF Inv, ContextInv, LifecycleTypeOK, LockInv, Call, CancelDeployment
<1>6. SettleInv'
  <2> SUFFICES ASSUME NEW i \in Ids, i \in 1 .. made, i \notin destroyed,
                      state[i] \in {"deploying", "stopping"}
               PROVE  \E q \in Procs : Settles(q, i)'
    BY DEF SettleInv, CancelDeployment
  <2>1. CASE i = call[p].inst
    <3>1. call'[p].inst = i /\ pc'[p] = "lockDestroy"
      BY <2>1 DEF Inv, LifecycleTypeOK, CancelDeployment
    <3> QED BY <3>1 DEF Settles
  <2>2. CASE i # call[p].inst
    <3>1. PICK q \in Procs : Settles(q, i)
      BY DEF Inv, SettleInv
    <3>2. q # p /\ call[q].inst = i
      BY <2>2, <3>1 DEF Settles
    <3>3. pc'[q] = pc[q] /\ call'[q] = call[q]
      BY <3>2 DEF Inv, LifecycleTypeOK, CancelDeployment
    <3>4. CASE pc[q] \in {"install", "lockDestroy", "destroy"}
      BY <3>2, <3>3, <3>4 DEF Settles
    <3>5. CASE pc[q] \in Deploying \cup {"lockDeploy"} /\ call[q].ctx \notin cancelled
      <4>1. call[q].ctx = dctx[i] /\ dctx[i] # 0
        BY <3>2, <3>5 DEF Inv, ContextInv
      <4>2. call[p].inst \in Ids
        BY DEF Inv, LockInv, CancelDeployment
      <4>3. dctx[i] # dctx[call[p].inst]
        BY <2>2, <4>1, <4>2 DEF Inv, ContextInv
      <4>4. call[q].ctx \notin cancelled'
        BY <3>5, <4>1, <4>3 DEF CancelDeployment
      <4> QED BY <3>2, <3>3, <3>5, <4>4 DEF Settles
    <3> QED BY <3>1, <3>4, <3>5 DEF Settles
  <2> QED BY <2>1, <2>2
<1>7. MapInv' /\ ContainerInv'
  BY DEF Inv, MapInv, ContainerInv, Nothing, Absent, LifecycleTypeOK, LockInv, DestroyedInv, Call,
     CancelDeployment
<1> QED BY <1>1, <1>2, <1>3, <1>4, <1>5, <1>6, <1>7 DEF Inv

(* A destruction takes the mutex; if the instance is destroyed already the *)
(* history says so.                                                        *)
LEMMA LockForDestroyStep ==
  ASSUME Inv, NEW p \in Procs, LockForDestroy(p)
  PROVE  Inv'
<1>1. LifecycleTypeOK'
  BY DEF Inv, LifecycleTypeOK, LockInv, Call, LockForDestroy
<1>2. LockInv'
  BY DEF Inv, LockInv, LifecycleTypeOK, Call, LockForDestroy
<1>3. DestroyedInv'
  BY DEF Inv, DestroyedInv, LifecycleTypeOK, LockInv, Call, LockForDestroy
<1>4. DestroyedInstanceIsUnmapped' /\ DestroyedStaysDown'
  BY DEF Inv, DestroyedInstanceIsUnmapped, DestroyedStaysDown, LifecycleTypeOK, LockInv,
     DestroyedInv, Call, LockForDestroy
<1>5. ContextInv'
  BY DEF Inv, ContextInv, LifecycleTypeOK, LockInv, Call, LockForDestroy
<1>6. SettleInv'
  BY SettleKept DEF Inv, LifecycleTypeOK, LockInv, DestroyedInv, Settles, LockForDestroy
<1>7. MapInv' /\ ContainerInv'
  BY DEF Inv, MapInv, ContainerInv, Nothing, Absent, LifecycleTypeOK, LockInv, DestroyedInv, Call,
     LockForDestroy
<1> QED BY <1>1, <1>2, <1>3, <1>4, <1>5, <1>6, <1>7 DEF Inv

(* The instance is marked destroyed under its mutex, so no deployment      *)
(* works on it.                                                            *)
LEMMA DestroySucceedsStep ==
  ASSUME Inv, NEW p \in Procs, DestroySucceeds(p)
  PROVE  Inv'
<1>1. LifecycleTypeOK'
  BY DEF Inv, LifecycleTypeOK, LockInv, Call, DestroySucceeds
<1>2. LockInv'
  BY DEF Inv, LockInv, LifecycleTypeOK, Call, DestroySucceeds
<1>3. DestroyedInv'
  BY Exclusive DEF OperationsAreSerialised, Inv, DestroyedInv, LifecycleTypeOK, LockInv, Call,
     DestroySucceeds
<1>4. DestroyedInstanceIsUnmapped' /\ DestroyedStaysDown'
  BY DEF Inv, DestroyedInstanceIsUnmapped, DestroyedStaysDown, LifecycleTypeOK, LockInv,
     DestroyedInv, Call, DestroySucceeds
<1>5. ContextInv'
  BY DEF Inv, ContextInv, LifecycleTypeOK, LockInv, Call, DestroySucceeds
<1>6. SettleInv'
  BY SettleKept DEF Inv, LifecycleTypeOK, LockInv, DestroyedInv, Settles, DestroySucceeds
<1>7. MapInv' /\ ContainerInv'
  BY Exclusive DEF OperationsAreSerialised, Inv, MapInv, ContainerInv, Nothing, Absent,
     LifecycleTypeOK, LockInv, DestroyedInv, Call, DestroySucceeds
<1> QED BY <1>1, <1>2, <1>3, <1>4, <1>5, <1>6, <1>7 DEF Inv

(* A destruction that fails leaves the instance failed. *)
LEMMA DestroyFailsStep ==
  ASSUME Inv, NEW p \in Procs, DestroyFails(p)
  PROVE  Inv'
<1>1. LifecycleTypeOK'
  BY DEF Inv, LifecycleTypeOK, LockInv, Call, DestroyFails, NoCall
<1>2. LockInv'
  BY DEF Inv, LockInv, LifecycleTypeOK, Call, DestroyFails, NoCall
<1>3. DestroyedInv'
  BY DEF Inv, DestroyedInv, LifecycleTypeOK, LockInv, Call, DestroyFails, NoCall
<1>4. DestroyedInstanceIsUnmapped' /\ DestroyedStaysDown'
  BY DEF Inv, DestroyedInstanceIsUnmapped, DestroyedStaysDown, LifecycleTypeOK, LockInv,
     DestroyedInv, Call, DestroyFails, NoCall
<1>5. ContextInv'
  BY DEF Inv, ContextInv, LifecycleTypeOK, LockInv, Call, DestroyFails, NoCall
<1>6. SettleInv'
  BY SettleKept DEF Inv, LifecycleTypeOK, LockInv, DestroyedInv, Settles, DestroyFails, NoCall
<1>7. MapInv' /\ ContainerInv'
  BY DEF Inv, MapInv, ContainerInv, Nothing, Absent, LifecycleTypeOK, LockInv, DestroyedInv, Call,
     DestroyFails, NoCall
<1> QED BY <1>1, <1>2, <1>3, <1>4, <1>5, <1>6, <1>7 DEF Inv

(* The map loses an instance that is destroyed. *)
LEMMA UnmapStep ==
  ASSUME Inv, NEW p \in Procs, Unmap(p)
  PROVE  Inv'
<1>1. LifecycleTypeOK'
  BY DEF Inv, LifecycleTypeOK, LockInv, Call, Unmap, NoCall
<1>2. LockInv'
  BY DEF Inv, LockInv, LifecycleTypeOK, Call, Unmap, NoCall
<1>3. DestroyedInv'
  BY DEF Inv, DestroyedInv, LifecycleTypeOK, LockInv, Call, Unmap, NoCall
<1>4. DestroyedInstanceIsUnmapped' /\ DestroyedStaysDown'
  <2>1. instances' \notin destroyed'
    <3>1. instances' = NoInstance /\ destroyed' = destroyed
      BY DEF Unmap
    <3>2. destroyed \subseteq Nat
      BY DEF Inv, LifecycleTypeOK
    <3> QED BY <3>1, <3>2
  <2>2. DestroyedStaysDown'
    BY DEF Inv, DestroyedStaysDown, Unmap
  <2> QED BY <2>1, <2>2 DEF DestroyedInstanceIsUnmapped
<1>5. ContextInv'
  BY DEF Inv, ContextInv, LifecycleTypeOK, LockInv, Call, Unmap, NoCall
<1>6. SettleInv'
  BY SettleKept DEF Inv, LifecycleTypeOK, LockInv, DestroyedInv, Settles, Unmap, NoCall
<1>7. MapInv' /\ ContainerInv'
  BY DEF Inv, MapInv, ContainerInv, Nothing, Absent, LifecycleTypeOK, LockInv, DestroyedInv, Call,
     Unmap, NoCall
<1> QED BY <1>1, <1>2, <1>3, <1>4, <1>5, <1>6, <1>7 DEF Inv

(* A node command that is refused changes nothing. *)
LEMMA NodeCommandRefusedStep ==
  ASSUME Inv, NEW p \in Procs, NodeCommandRefused(p)
  PROVE  Inv'
<1>1. LifecycleTypeOK'
  BY DEF Inv, LifecycleTypeOK, LockInv, Call, NodeCommandRefused, NoCall
<1>2. LockInv'
  BY DEF Inv, LockInv, LifecycleTypeOK, Call, NodeCommandRefused, NoCall
<1>3. DestroyedInv'
  BY DEF Inv, DestroyedInv, LifecycleTypeOK, LockInv, Call, NodeCommandRefused, NoCall
<1>4. DestroyedInstanceIsUnmapped' /\ DestroyedStaysDown'
  BY DEF Inv, DestroyedInstanceIsUnmapped, DestroyedStaysDown, LifecycleTypeOK, LockInv,
     DestroyedInv, Call, NodeCommandRefused, NoCall
<1>5. ContextInv'
  BY DEF Inv, ContextInv, LifecycleTypeOK, LockInv, Call, NodeCommandRefused, NoCall
<1>6. SettleInv'
  BY SettleKept DEF Inv, LifecycleTypeOK, LockInv, DestroyedInv, Settles, NodeCommandRefused, NoCall
<1>7. MapInv' /\ ContainerInv'
  BY DEF Inv, MapInv, ContainerInv, Nothing, Absent, LifecycleTypeOK, LockInv, DestroyedInv, Call,
     NodeCommandRefused, NoCall
<1> QED BY <1>1, <1>2, <1>3, <1>4, <1>5, <1>6, <1>7 DEF Inv

(* A node command takes the mutex and the context of the instance. *)
LEMMA LockForNodeCommandStep ==
  ASSUME Inv, NEW p \in Procs, LockForNodeCommand(p)
  PROVE  Inv'
<1>1. LifecycleTypeOK'
  <2>1. dctx[call[p].inst] \in Nat
    BY DEF Inv, LifecycleTypeOK, LockInv, LockForNodeCommand
  <2>2. call' \in [Procs -> Call]
    BY <2>1, CallTypes DEF Inv, LifecycleTypeOK, LockForNodeCommand
  <2>3. pc' \in [Procs -> Steps] /\ requests' \in Nat /\ opLock' \in [Ids -> Procs \cup {Free}]
    BY DEF Inv, LifecycleTypeOK, LockForNodeCommand
  <2> QED
    BY <2>1, <2>2, <2>3 DEF Inv, LifecycleTypeOK, LockInv, LockForNodeCommand
<1>2. LockInv'
  BY DEF Inv, LockInv, LifecycleTypeOK, Call, LockForNodeCommand
<1>3. DestroyedInv'
  BY DEF Inv, DestroyedInv, LifecycleTypeOK, LockInv, Call, LockForNodeCommand
<1>4. DestroyedInstanceIsUnmapped' /\ DestroyedStaysDown'
  BY DEF Inv, DestroyedInstanceIsUnmapped, DestroyedStaysDown, LifecycleTypeOK, LockInv,
     DestroyedInv, Call, LockForNodeCommand
<1>5. ContextInv'
  BY DEF Inv, ContextInv, LifecycleTypeOK, LockInv, Call, LockForNodeCommand
<1>6. SettleInv'
  BY SettleKept DEF Inv, LifecycleTypeOK, LockInv, DestroyedInv, Settles, LockForNodeCommand
<1>7. MapInv' /\ ContainerInv'
  BY DEF Inv, MapInv, ContainerInv, Nothing, Absent, LifecycleTypeOK, LockInv, DestroyedInv, Call,
     LockForNodeCommand
<1> QED BY <1>1, <1>2, <1>3, <1>4, <1>5, <1>6, <1>7 DEF Inv

(* A node command acts on a container that exists. *)
LEMMA NodeCommandSucceedsStep ==
  ASSUME Inv, NEW p \in Procs, NodeCommandSucceeds(p)
  PROVE  Inv'
<1>1. LifecycleTypeOK'
  BY DEF Inv, LifecycleTypeOK, LockInv, Call, NodeCommandSucceeds, Commanded
<1>2. LockInv'
  BY DEF Inv, LockInv, LifecycleTypeOK, Call, NodeCommandSucceeds, Commanded
<1>3. DestroyedInv'
  BY DEF Inv, DestroyedInv, LifecycleTypeOK, LockInv, Call, NodeCommandSucceeds, Commanded
<1>4. DestroyedInstanceIsUnmapped' /\ DestroyedStaysDown'
  BY DEF Inv, DestroyedInstanceIsUnmapped, DestroyedStaysDown, LifecycleTypeOK, LockInv,
     DestroyedInv, Call, NodeCommandSucceeds, Commanded
<1>5. ContextInv'
  BY DEF Inv, ContextInv, LifecycleTypeOK, LockInv, Call, NodeCommandSucceeds, Commanded
<1>6. SettleInv'
  BY SettleKept DEF Inv, LifecycleTypeOK, LockInv, DestroyedInv, Settles, NodeCommandSucceeds
<1>7. MapInv' /\ ContainerInv'
  BY DEF Inv, MapInv, ContainerInv, Nothing, Absent, LifecycleTypeOK, LockInv, DestroyedInv, Call,
     NodeCommandSucceeds, Commanded
<1> QED BY <1>1, <1>2, <1>3, <1>4, <1>5, <1>6, <1>7 DEF Inv

(* So does one that fails half way. *)
LEMMA NodeCommandFailsStep ==
  ASSUME Inv, NEW p \in Procs, NodeCommandFails(p)
  PROVE  Inv'
<1>1. LifecycleTypeOK'
  BY DEF Inv, LifecycleTypeOK, LockInv, Call, NodeCommandFails, NoCall, Commanded
<1>2. LockInv'
  BY DEF Inv, LockInv, LifecycleTypeOK, Call, NodeCommandFails, NoCall, Commanded
<1>3. DestroyedInv'
  BY DEF Inv, DestroyedInv, LifecycleTypeOK, LockInv, Call, NodeCommandFails, NoCall, Commanded
<1>4. DestroyedInstanceIsUnmapped' /\ DestroyedStaysDown'
  BY DEF Inv, DestroyedInstanceIsUnmapped, DestroyedStaysDown, LifecycleTypeOK, LockInv,
     DestroyedInv, Call, NodeCommandFails, NoCall, Commanded
<1>5. ContextInv'
  BY DEF Inv, ContextInv, LifecycleTypeOK, LockInv, Call, NodeCommandFails, NoCall, Commanded
<1>6. SettleInv'
  BY SettleKept DEF Inv, LifecycleTypeOK, LockInv, DestroyedInv, Settles, NodeCommandFails, NoCall
<1>7. MapInv' /\ ContainerInv'
  BY DEF Inv, MapInv, ContainerInv, Nothing, Absent, LifecycleTypeOK, LockInv, DestroyedInv, Call,
     NodeCommandFails, NoCall, Commanded
<1> QED BY <1>1, <1>2, <1>3, <1>4, <1>5, <1>6, <1>7 DEF Inv

(* Fetching a node changes none of the lifecycle. *)
LEMMA FetchNodeStep ==
  ASSUME Inv, NEW p \in Procs, FetchNode(p)
  PROVE  Inv'
<1>1. LifecycleTypeOK'
  BY DEF Inv, LifecycleTypeOK, LockInv, Call, FetchNode
<1>2. LockInv'
  BY DEF Inv, LockInv, LifecycleTypeOK, Call, FetchNode
<1>3. DestroyedInv'
  BY DEF Inv, DestroyedInv, LifecycleTypeOK, LockInv, Call, FetchNode
<1>4. DestroyedInstanceIsUnmapped' /\ DestroyedStaysDown'
  BY DEF Inv, DestroyedInstanceIsUnmapped, DestroyedStaysDown, LifecycleTypeOK, LockInv,
     DestroyedInv, Call, FetchNode
<1>5. ContextInv'
  BY DEF Inv, ContextInv, LifecycleTypeOK, LockInv, Call, FetchNode
<1>6. SettleInv'
  BY SettleKept DEF Inv, LifecycleTypeOK, LockInv, DestroyedInv, Settles, FetchNode
<1>7. MapInv' /\ ContainerInv'
  BY DEF Inv, MapInv, ContainerInv, Nothing, Absent, LifecycleTypeOK, LockInv, DestroyedInv, Call,
     FetchNode
<1> QED BY <1>1, <1>2, <1>3, <1>4, <1>5, <1>6, <1>7 DEF Inv

(* A node command that ends releases the mutex and nothing more. *)
LEMMA ApplyNodeStep ==
  ASSUME Inv, NEW p \in Procs, ApplyNode(p)
  PROVE  Inv'
<1>1. LifecycleTypeOK'
  BY DEF Inv, LifecycleTypeOK, LockInv, Call, ApplyNode, NoCall
<1>2. LockInv'
  BY DEF Inv, LockInv, LifecycleTypeOK, Call, ApplyNode, NoCall
<1>3. DestroyedInv'
  BY DEF Inv, DestroyedInv, LifecycleTypeOK, LockInv, Call, ApplyNode, NoCall
<1>4. DestroyedInstanceIsUnmapped' /\ DestroyedStaysDown'
  BY DEF Inv, DestroyedInstanceIsUnmapped, DestroyedStaysDown, LifecycleTypeOK, LockInv,
     DestroyedInv, Call, ApplyNode, NoCall
<1>5. ContextInv'
  BY DEF Inv, ContextInv, LifecycleTypeOK, LockInv, Call, ApplyNode, NoCall
<1>6. SettleInv'
  BY SettleKept DEF Inv, LifecycleTypeOK, LockInv, DestroyedInv, Settles, ApplyNode, NoCall
<1>7. MapInv' /\ ContainerInv'
  BY DEF Inv, MapInv, ContainerInv, Nothing, Absent, LifecycleTypeOK, LockInv, DestroyedInv, Call,
     ApplyNode, NoCall
<1> QED BY <1>1, <1>2, <1>3, <1>4, <1>5, <1>6, <1>7 DEF Inv

-----------------------------------------------------------------------------
(* What the listeners, the monitor, the event callback and the containers  *)
(* do by themselves changes none of the lifecycle, and creates no          *)
(* container.                                                              *)
LEMMA BackgroundKeeps ==
  ASSUME Background \/ (\E n \in Observed : EventPanics(n)) \/ UNCHANGED vars
  PROVE  UNCHANGED lifecycle /\ (container' = container \/ container # Nothing)
<1>1. CASE \E l \in BagToSet(listeners) : ListenerStep(l)
  BY <1>1 DEF ListenerStep
<1>2. CASE \E m \in monitored : MonitorDrops(m)
  BY <1>2 DEF MonitorDrops
<1>3. CASE \E n \in Nodes : ContainerStops(n)
  <2>1. PICK n \in Nodes : ContainerStops(n)
    BY <1>3
  <2>2. container[n].status = "running"
    BY <2>1 DEF ContainerStops
  <2>3. container # Nothing
    BY <2>2 DEF Nothing, Absent
  <2> QED BY <2>1, <2>3 DEF ContainerStops
<1>4. CASE \E n \in Nodes : EventArrives(n)
  BY <1>4 DEF EventArrives
<1>5. CASE EventApplied
  BY <1>5 DEF EventApplied
<1>6. CASE UNCHANGED vars
  BY <1>6 DEF vars
<1>7. CASE \E n \in Nodes : EventPanics(n)
  BY <1>7 DEF EventPanics
<1> QED BY <1>1, <1>2, <1>3, <1>4, <1>5, <1>6, <1>7 DEF Background

(* So those steps keep the invariant. *)
LEMMA BackgroundStep ==
  ASSUME Inv, Background \/ (\E n \in Observed : EventPanics(n)) \/ UNCHANGED vars
  PROVE  Inv'
<1>1. UNCHANGED lifecycle
  BY BackgroundKeeps
<1>2. LifecycleTypeOK' /\ LockInv' /\ DestroyedInv' /\ ContextInv' /\ MapInv'
  BY <1>1 DEF Inv, lifecycle, LifecycleTypeOK, LockInv, DestroyedInv, ContextInv, MapInv
<1>3. DestroyedInstanceIsUnmapped' /\ DestroyedStaysDown'
  BY <1>1 DEF Inv, lifecycle, DestroyedInstanceIsUnmapped, DestroyedStaysDown
<1>4. SettleInv'
  BY <1>1 DEF Inv, lifecycle, SettleInv, Settles
<1>5. ContainerInv'
  BY <1>1, BackgroundKeeps DEF Inv, lifecycle, ContainerInv
<1> QED BY <1>2, <1>3, <1>4, <1>5 DEF Inv

(* The invariant holds before the first request, with and without an       *)
(* instance that was revived.                                              *)
LEMMA InitInv ==
  ASSUME Init
  PROVE  Inv
<1>1. CASE InitEmpty
  <2>1. LifecycleTypeOK
    BY <1>1, CallTypes DEF Init, InitEmpty, LifecycleTypeOK
  <2>2. LockInv /\ DestroyedInv /\ DestroyedInstanceIsUnmapped /\ DestroyedStaysDown
    BY <1>1 DEF Init, InitEmpty, LockInv, DestroyedInv, 
       DestroyedInstanceIsUnmapped, DestroyedStaysDown
  <2>3. ContextInv /\ SettleInv /\ MapInv /\ ContainerInv
    BY <1>1 DEF Init, InitEmpty, ContextInv, SettleInv, MapInv, ContainerInv
  <2> QED BY <2>1, <2>2, <2>3 DEF Inv
<1>2. CASE InitRevived
  <2>0. 1 \in Ids
    OBVIOUS
  <2>1. LifecycleTypeOK
    BY <1>2, <2>0, CallTypes DEF Init, InitRevived, LifecycleTypeOK
  <2>2. LockInv /\ DestroyedInv /\ DestroyedInstanceIsUnmapped /\ DestroyedStaysDown
    BY <1>2, <2>0 DEF Init, InitRevived, LockInv, DestroyedInv, 
       DestroyedInstanceIsUnmapped, DestroyedStaysDown
  <2>3. ContextInv
    BY <1>2, <2>0 DEF Init, InitRevived, ContextInv
  <2>4. SettleInv /\ MapInv /\ ContainerInv
    BY <1>2, <2>0 DEF Init, InitRevived, SettleInv, MapInv, ContainerInv
  <2> QED BY <2>1, <2>2, <2>3, <2>4 DEF Inv
<1> QED BY <1>1, <1>2 DEF Init

(* Every step keeps the invariant. *)
LEMMA NextStep ==
  ASSUME Inv, [Next]_vars
  PROVE  Inv'
<1>1. ASSUME NEW p \in Procs, Request(p)
      PROVE  Inv'
  BY <1>1, BeginRedeployStep, BeginDeployStep, DeployRefusedStep, BeginDestroyStep,
     BeginNodeCommandStep DEF Request
<1>2. ASSUME NEW p \in Procs, DeployStep(p)
      PROVE  Inv'
  BY <1>2, InstallContextStep, DeployIgnoredStep, LockForDeployStep, DeploySucceedsStep,
     DeployFailsStep, InspectLabStep, InspectLabFailsStep, AttachNodesStep, DeployFinishesStep,
     DeployAbortsStep DEF DeployStep
<1>3. ASSUME NEW p \in Procs, DestroyStep(p)
      PROVE  Inv'
  BY <1>3, CancelDeploymentStep, LockForDestroyStep, DestroySucceedsStep, DestroyFailsStep,
     UnmapStep DEF DestroyStep
<1>4. ASSUME NEW p \in Procs, NodeCommandStep(p)
      PROVE  Inv'
  BY <1>4, NodeCommandRefusedStep, LockForNodeCommandStep, NodeCommandSucceedsStep,
     NodeCommandFailsStep, FetchNodeStep, ApplyNodeStep DEF NodeCommandStep
<1>5. CASE Background \/ (\E n \in Observed : EventPanics(n)) \/ UNCHANGED vars
  BY <1>5, BackgroundStep
<1> QED BY <1>1, <1>2, <1>3, <1>4, <1>5 DEF Next, Working, Serve

(* The invariant implies what the runs check.                              *)
LEMMA InvImplies ==
  ASSUME Inv
  PROVE  OperationsAreSerialised /\ SettledWhenIdle /\ NoOrphans
<1>1. OperationsAreSerialised
  BY Exclusive DEF Inv
<1>2. SettledWhenIdle
  <2> SUFFICES ASSUME instances # NoInstance, \A p \in Procs : pc[p] = "idle"
               PROVE  state[instances] \in {"running", "failed"}
    BY DEF SettledWhenIdle
  <2>1. instances \in Ids /\ instances \in 1 .. made /\ instances \notin destroyed
    BY DEF Inv, LifecycleTypeOK, LockInv, DestroyedInstanceIsUnmapped
  <2>2. \A q \in Procs : ~Settles(q, instances)
    BY DEF Settles
  <2>3. state[instances] \notin {"deploying", "stopping"}
    BY <2>1, <2>2 DEF Inv, SettleInv
  <2> QED BY <2>1, <2>3 DEF Inv, LifecycleTypeOK
<1>3. NoOrphans
  BY DEF Inv, MapInv, ContainerInv, NoOrphans
<1> QED BY <1>1, <1>2, <1>3

(* For any number of requests, goroutines, nodes and crashes, operations   *)
(* on an instance are serialised, a destroyed instance leaves the map and  *)
(* is never deployed again, the lab is running or failed whenever no       *)
(* request is under way, and a lab without an instance has no containers   *)
(* unless a destruction went on with an instance that was gone             *)
(* (service.go:451-798).                                                   *)
THEOREM InstanceInvariant ==
  Spec => [](OperationsAreSerialised /\ DestroyedIsGone /\ SettledWhenIdle)
<1>1. Init => Inv
  BY InitInv
<1>2. Inv /\ [Next]_vars => Inv'
  BY NextStep
<1>3. Inv => OperationsAreSerialised /\ DestroyedIsGone /\ SettledWhenIdle
  BY InvImplies DEF Inv, DestroyedIsGone
<1> QED BY <1>1, <1>2, <1>3, PTL DEF Spec

(* What is destroyed is gone, for any number of goroutines, requests and   *)
(* nodes (service.go:451-531, 633).                                        *)
COROLLARY DestroyedInstancesAreGone == Spec => []DestroyedIsGone
  BY InstanceInvariant, PTL

-----------------------------------------------------------------------------
(***************************************************************************)
(* The data of nodes, containers and listeners.                            *)
(***************************************************************************)

(* Adding a set of listeners to a bag of them, or taking some of them out, *)
(* leaves a bag of listeners.                                              *)
LEMMA BagOfListeners ==
  ASSUME NEW B, NEW S, IsABag(B), BagToSet(B) \subseteq StartupListener
  PROVE  /\ S \subseteq StartupListener =>
              IsABag(B (+) SetToBag(S)) /\ BagToSet(B (+) SetToBag(S)) \subseteq StartupListener
         /\ IsABag(B (-) SetToBag(S)) /\ BagToSet(B (-) SetToBag(S)) \subseteq StartupListener
<1>1. \A e \in DOMAIN B : B[e] \in Nat /\ B[e] > 0
  BY DEF IsABag
<1>2. ASSUME S \subseteq StartupListener
      PROVE  IsABag(B (+) SetToBag(S)) /\ BagToSet(B (+) SetToBag(S)) \subseteq StartupListener
  <2>1. DOMAIN (B (+) SetToBag(S)) = DOMAIN B \cup S
    BY DEF (+), SetToBag
  <2>2. ASSUME NEW e \in DOMAIN B \cup S
        PROVE  (B (+) SetToBag(S))[e] \in {n \in Nat : n > 0}
    BY <1>1 DEF (+), SetToBag
  <2>3. B (+) SetToBag(S) = [e \in DOMAIN B \cup S |-> (B (+) SetToBag(S))[e]]
    BY DEF (+), SetToBag
  <2> QED BY <1>2, <2>1, <2>2, <2>3 DEF IsABag, BagToSet
<1>3. IsABag(B (-) SetToBag(S)) /\ BagToSet(B (-) SetToBag(S)) \subseteq StartupListener
  <2>1. DOMAIN (B (-) SetToBag(S)) \subseteq DOMAIN B
    BY DEF (-), SetToBag
  <2>2. ASSUME NEW e \in DOMAIN (B (-) SetToBag(S))
        PROVE  (B (-) SetToBag(S))[e] \in {n \in Nat : n > 0}
    BY <1>1 DEF (-), SetToBag
  <2>3. B (-) SetToBag(S) = [e \in DOMAIN (B (-) SetToBag(S)) |-> (B (-) SetToBag(S))[e]]
    BY DEF (-), SetToBag
  <2> QED BY <2>1, <2>2, <2>3 DEF IsABag, BagToSet
<1> QED BY <1>2, <1>3

(* So do the three ways in which the bag of listeners changes. *)
LEMMA ListenersChange ==
  ASSUME ListenerType
  PROVE  /\ \A i \in Ids, ns \in SUBSET Nodes, logs \in BOOLEAN : Listen(i, ns, logs) => ListenerType'
         /\ \A l : Ends(l) => ListenerType'
         /\ \A l : \A m \in StartupListener : Becomes(l, m) => ListenerType'
<1>1. ASSUME NEW i \in Ids, NEW ns \in SUBSET Nodes, NEW logs \in BOOLEAN, Listen(i, ns, logs)
      PROVE  ListenerType'
  <2>1. PICK S : S = {Listener(i, n, logs) : n \in ns \cap Observed}
    OBVIOUS
  <2>2. S \subseteq StartupListener
    BY <2>1 DEF Listener, StartupListener
  <2>3. listeners' = listeners (+) SetToBag(S)
    BY <1>1, <2>1 DEF Listen
  <2> QED BY <2>2, <2>3, BagOfListeners DEF ListenerType
<1>2. ASSUME NEW l, Ends(l)
      PROVE  ListenerType'
  BY <1>2, BagOfListeners DEF Ends, ListenerType
<1>3. ASSUME NEW l, NEW m \in StartupListener, Becomes(l, m)
      PROVE  ListenerType'
  <2>1. PICK B : B = listeners (-) SetToBag({l})
    OBVIOUS
  <2>2. IsABag(B) /\ BagToSet(B) \subseteq StartupListener
    BY <2>1, BagOfListeners DEF ListenerType
  <2>3. listeners' = B (+) SetToBag({m})
    BY <1>3, <2>1 DEF Becomes
  <2> QED BY <2>2, <2>3, BagOfListeners DEF ListenerType
<1> QED BY <1>1, <1>2, <1>3

(* What the service makes of a node is a node again. *)
LEMMA NodeValues ==
  ASSUME NEW nd \in InstanceNode, NEW c \in Container, NEW s \in NodeStates
  PROVE  /\ NewNode \in InstanceNode
         /\ Reset(nd) \in InstanceNode
         /\ updateNodeWithContainer(nd, c) \in InstanceNode
         /\ FetchedNode(nd, c) \in InstanceNode
         /\ [nd EXCEPT !.state = s] \in InstanceNode
         /\ [nd EXCEPT !.ready = TRUE] \in InstanceNode
BY DEF InstanceNode, NodeStates, Container, NewNode, Reset, updateNodeWithContainer, FetchedNode, StateOf

(* What the provider leaves behind is containers. *)
LEMMA ContainerValues ==
  ASSUME NEW g \in Nat
  PROVE  /\ Nothing \in [Nodes -> Container]
         /\ Made(g) \subseteq Container
         /\ Created(g) \subseteq [Nodes -> Container]
BY DEF Nothing, Created, Made, Absent, Container

(* So is what an operation leaves that changes some of them. *)
LEMMA ChangedValues ==
  ASSUME DataInv, NEW ns \in SUBSET Nodes, NEW c, \A n \in ns : c[n] \in Container,
         container' = Changed(ns, c)
  PROVE  container' \in [Nodes -> Container]
BY DEF DataInv, ProviderType, Changed

(* A change of one node, or of all nodes of an instance, to nodes. *)
LEMMA NodesChange ==
  ASSUME NodeType
  PROVE  /\ \A i, f : f \in [Nodes -> InstanceNode] /\ node' = [node EXCEPT ![i] = f] => NodeType'
         /\ \A i \in Ids, n \in Nodes, nd \in InstanceNode :
              node' = [node EXCEPT ![i] = [@ EXCEPT ![n] = nd]] => NodeType'
         /\ \A i \in Ids, s \in NodeStates : node' = WithState(i, s) => NodeType'
<1>1. ASSUME NEW i, NEW f \in [Nodes -> InstanceNode], node' = [node EXCEPT ![i] = f]
      PROVE  NodeType'
  BY <1>1 DEF NodeType
<1>2. ASSUME NEW i \in Ids, NEW n \in Nodes, NEW nd \in InstanceNode,
             node' = [node EXCEPT ![i] = [@ EXCEPT ![n] = nd]]
      PROVE  NodeType'
  <2>1. PICK f : f = [node[i] EXCEPT ![n] = nd]
    OBVIOUS
  <2>2. f \in [Nodes -> InstanceNode] /\ node' = [node EXCEPT ![i] = f]
    BY <1>2, <2>1 DEF NodeType
  <2> QED BY <1>1, <2>2
<1>3. ASSUME NEW i \in Ids, NEW s \in NodeStates, node' = WithState(i, s)
      PROVE  NodeType'
  <2>1. PICK f : f = [n \in Nodes |-> [node[i][n] EXCEPT !.state = s]]
    OBVIOUS
  <2>2. \A n \in Nodes : node[i][n] \in InstanceNode
    BY DEF NodeType
  <2>3. \A n \in Nodes : [node[i][n] EXCEPT !.state = s] \in InstanceNode
    BY <2>2 DEF InstanceNode
  <2>4. f \in [Nodes -> InstanceNode]
    BY <2>1, <2>3
  <2>5. node' = [node EXCEPT ![i] = f]
    BY <1>3, <2>1 DEF WithState
  <2> QED BY <1>1, <2>4, <2>5
<1> QED BY <1>1, <1>2, <1>3

(* Requests that begin: only a new instance has data, nodes that start. *)
LEMMA RequestData ==
  ASSUME Inv, DataInv, NEW p \in Procs, Request(p)
  PROVE  DataInv'
<1>1. CASE BeginDeploy(p)
  <2>1. PICK f : f = [n \in Nodes |-> [NewNode EXCEPT !.state = "starting"]]
    OBVIOUS
  <2>2. f \in [Nodes -> InstanceNode] /\ node' = [node EXCEPT ![made + 1] = f]
    BY <1>1, <2>1 DEF BeginDeploy, NewNode, InstanceNode, NodeStates
  <2>3. NodeType'
    BY <2>2, NodesChange DEF DataInv
  <2> QED
    BY <1>1, <2>3 DEF DataInv, BeginDeploy, Begin, SeenType, ProviderType, ListenerType, WatcherType
<1>2. CASE BeginRedeploy(p) \/ BeginDestroy(p)
  BY <1>2 DEF DataInv, BeginRedeploy, BeginDestroy, Begin, NodeType, SeenType, ProviderType,
     ListenerType, WatcherType
<1>3. CASE DeployRefused(p)
  BY <1>3 DEF DataInv, DeployRefused, NodeType, SeenType, ProviderType, ListenerType, WatcherType
<1>4. CASE \E command \in Commands, n \in Nodes : BeginNodeCommand(p, command, n)
  BY <1>4 DEF DataInv, BeginNodeCommand, Begin, NodeType, SeenType, ProviderType, ListenerType,
     WatcherType
<1> QED BY <1>1, <1>2, <1>3, <1>4 DEF Request

(* A request that returns forgets what it has seen. *)
LEMMA ReturnSeen ==
  ASSUME DataInv, NEW p \in Procs, Return(p)
  PROVE  SeenType'
BY DEF DataInv, SeenType, Nothing, Absent, Container

(* The steps of a deployment. *)
LEMMA DeployData ==
  ASSUME Inv, DataInv, NEW p \in Procs, DeployStep(p)
  PROVE  DataInv'
<1> DEFINE i == call[p].inst
<1>0. i \in Ids
  BY DEF Inv, LockInv, DeployStep, InstallContext, DeployIgnored, LockForDeploy, DeploySucceeds,
     DeployFails, InspectLab, InspectLabFails, AttachNodes, DeployFinishes, DeployAborts
<1>1. CASE InstallContext(p)
  BY <1>1 DEF DataInv, InstallContext, NodeType, SeenType, ProviderType, ListenerType, WatcherType
<1>2. CASE DeployIgnored(p)
  <2>1. SeenType'
    BY <1>2, ReturnSeen DEF DeployIgnored
  <2> QED
    BY <1>2, <2>1 DEF DataInv, DeployIgnored, NodeType, ProviderType, ListenerType, WatcherType
<1>3. CASE LockForDeploy(p)
  <2>1. CASE call[p].again
    <3>1. PICK f : f = [n \in Nodes |-> Reset(node[i][n])]
      OBVIOUS
    <3>2. f \in [Nodes -> InstanceNode]
      BY <3>1 DEF Reset, InstanceNode, NodeStates
    <3>3. node' = [node EXCEPT ![i] = f]
      BY <1>3, <2>1, <3>1 DEF LockForDeploy
    <3> QED BY <1>3, <3>2, <3>3, NodesChange
            DEF DataInv, LockForDeploy, SeenType, ProviderType, ListenerType, WatcherType
  <2>2. CASE ~call[p].again
    BY <1>3, <2>2 DEF DataInv, LockForDeploy, NodeType, SeenType, ProviderType, ListenerType,
       WatcherType
  <2> QED BY <2>1, <2>2
<1>4. CASE DeploySucceeds(p)
  <2>1. generation + 1 \in Nat /\ container' \in Created(generation + 1)
    BY <1>4 DEF DataInv, DeploySucceeds, ProviderType
  <2>2. ProviderType'
    BY <1>4, <2>1, ContainerValues DEF DataInv, DeploySucceeds, ProviderType
  <2> QED
    BY <1>4, <2>2 DEF DataInv, DeploySucceeds, NodeType, SeenType, ListenerType, WatcherType
<1>5. CASE DeployFails(p)
  <2>1. ProviderType'
    <3>0. PICK touched \in SUBSET Nodes :
            /\ \E c \in [touched -> Made(generation + 1)] : container' = Changed(touched, c)
            /\ events' = events \cup touched
      BY <1>5 DEF DeployFails
    <3>1. PICK c \in [touched -> Made(generation + 1)] : container' = Changed(touched, c)
      BY <3>0
    <3>2. generation + 1 \in Nat /\ generation' = generation + 1
      BY <1>5 DEF DataInv, DeployFails, ProviderType
    <3>3. \A n \in touched : c[n] \in Container
      BY <3>2, ContainerValues
    <3>4. container' \in [Nodes -> Container]
      BY <3>1, <3>3, ChangedValues
    <3> QED BY <3>0, <3>2, <3>4 DEF DataInv, ProviderType
  <2>2. SeenType'
    BY <1>5, ReturnSeen DEF DeployFails
  <2>3. node' = node \/ node' = WithState(i, "stopped")
    BY <1>5 DEF DeployFails
  <2>4. NodeType'
    BY <1>0, <2>3, NodesChange DEF DataInv, NodeType, NodeStates
  <2> QED
    BY <1>5, <2>1, <2>2, <2>4 DEF DataInv, DeployFails, ListenerType, WatcherType
<1>6. CASE InspectLab(p)
  <2>1. SeenType'
    BY <1>6 DEF DataInv, InspectLab, SeenType, ProviderType
  <2> QED
    BY <1>6, <2>1 DEF DataInv, InspectLab, NodeType, ProviderType, ListenerType, WatcherType
<1>7. CASE InspectLabFails(p)
  <2>1. SeenType'
    BY <1>7, ReturnSeen DEF InspectLabFails
  <2>2. node' = WithState(i, "stopped")
    BY <1>7 DEF InspectLabFails
  <2>3. NodeType'
    BY <1>0, <2>2, NodesChange DEF DataInv, NodeStates
  <2> QED
    BY <1>7, <2>1, <2>3 DEF DataInv, InspectLabFails, ProviderType, ListenerType, WatcherType
<1>8. CASE AttachNodes(p)
  <2>1. PICK f : f = [n \in Nodes |-> IF seen[p][n].status = "absent"
                                      THEN [node[i][n] EXCEPT !.state = "stopped"]
                                      ELSE updateNodeWithContainer(Reset(node[i][n]), seen[p][n])]
    OBVIOUS
  <2>2. ASSUME NEW n \in Nodes
        PROVE  /\ [node[i][n] EXCEPT !.state = "stopped"] \in InstanceNode
               /\ updateNodeWithContainer(Reset(node[i][n]), seen[p][n]) \in InstanceNode
    <3>1. node[i][n] \in InstanceNode /\ seen[p][n] \in Container /\ "stopped" \in NodeStates
      BY <1>0 DEF DataInv, NodeType, SeenType, NodeStates
    <3>2. Reset(node[i][n]) \in InstanceNode /\ [node[i][n] EXCEPT !.state = "stopped"] \in InstanceNode
      BY <3>1, NodeValues
    <3>3. PICK nd \in InstanceNode : nd = Reset(node[i][n])
      BY <3>2
    <3>4. updateNodeWithContainer(nd, seen[p][n]) \in InstanceNode
      BY <3>1, NodeValues
    <3> QED BY <3>2, <3>3, <3>4
  <2>3. f \in [Nodes -> InstanceNode]
    BY <2>1, <2>2
  <2>4. node' = [node EXCEPT ![i] = f]
    BY <1>8, <2>1 DEF AttachNodes
  <2>5. NodeType'
    BY <2>3, <2>4, NodesChange DEF DataInv
  <2> QED
    BY <1>8, <2>5 DEF DataInv, AttachNodes, SeenType, ProviderType, ListenerType, WatcherType
<1>9. CASE DeployFinishes(p) \/ DeployAborts(p)
  <2>1. SeenType'
    BY <1>9, ReturnSeen DEF DeployFinishes, DeployAborts
  <2>2. \E ns \in SUBSET Nodes : Listen(i, ns, FALSE)
    BY <1>9 DEF DeployFinishes, DeployAborts, Streamed
  <2>3. ListenerType'
    BY <1>0, <2>2, ListenersChange DEF DataInv
  <2> QED
    BY <1>9, <2>1, <2>3 DEF DataInv, DeployFinishes, DeployAborts, NodeType, ProviderType, WatcherType
<1> QED BY <1>1, <1>2, <1>3, <1>4, <1>5, <1>6, <1>7, <1>8, <1>9 DEF DeployStep

(* The steps of a destruction. *)
LEMMA DestroyData ==
  ASSUME Inv, DataInv, NEW p \in Procs, DestroyStep(p)
  PROVE  DataInv'
<1>0. call[p].inst \in Ids
  BY DEF Inv, LockInv, DestroyStep, CancelDeployment, LockForDestroy, DestroySucceeds, DestroyFails, Unmap
<1>1. CASE CancelDeployment(p)
  BY <1>1 DEF DataInv, CancelDeployment, NodeType, SeenType, ProviderType, ListenerType, WatcherType
<1>2. CASE LockForDestroy(p)
  <2>1. NodeType'
    BY <1>0, <1>2, NodesChange DEF DataInv, LockForDestroy, NodeStates
  <2> QED
    BY <1>2, <2>1 DEF DataInv, LockForDestroy, SeenType, ProviderType, ListenerType, WatcherType
<1>3. CASE DestroySucceeds(p)
  <2>1. ProviderType'
    BY <1>3 DEF DataInv, DestroySucceeds, ProviderType, Nothing, Absent, Container
  <2> QED
    BY <1>3, <2>1 DEF DataInv, DestroySucceeds, NodeType, SeenType, ListenerType, WatcherType
<1>4. CASE DestroyFails(p)
  <2>1. ProviderType'
    <3>1. PICK gone \in SUBSET Nodes : container' = Changed(gone, Nothing) /\ events' = events \cup gone
      BY <1>4 DEF DestroyFails
    <3>2. \A n \in gone : Nothing[n] \in Container
      BY DEF Nothing, Absent, Container
    <3>3. container' \in [Nodes -> Container]
      BY <3>1, <3>2, ChangedValues
    <3> QED BY <1>4, <3>1, <3>3 DEF DestroyFails, DataInv, ProviderType
  <2>2. SeenType'
    BY <1>4, ReturnSeen DEF DestroyFails
  <2> QED
    BY <1>4, <2>1, <2>2 DEF DataInv, DestroyFails, NodeType, ListenerType, WatcherType
<1>5. CASE Unmap(p)
  <2>1. SeenType'
    BY <1>5, ReturnSeen DEF Unmap
  <2> QED
    BY <1>5, <2>1 DEF DataInv, Unmap, NodeType, ProviderType, ListenerType, WatcherType
<1> QED BY <1>1, <1>2, <1>3, <1>4, <1>5 DEF DestroyStep

(* A node command that the provider carries out starts or stops a          *)
(* container there is.                                                     *)
LEMMA CommandedData ==
  ASSUME DataInv, NEW p \in Procs, call[p].node \in Nodes, Commanded(p), UNCHANGED generation
  PROVE  ProviderType' /\ KeepsContainers
<1>1. PICK n \in Nodes : n = call[p].node
  OBVIOUS
<1>2. PICK s \in {"exited", "running"} : s = IF call[p].command = "stop" THEN "exited" ELSE "running"
  OBVIOUS
<1>3. container' = [container EXCEPT ![n].status = s] /\ events' = events \cup {n}
  BY <1>1, <1>2 DEF Commanded
<1>4. ProviderType'
  BY <1>3 DEF DataInv, ProviderType, Container
<1>5. KeepsContainers
  BY <1>3 DEF DataInv, ProviderType, Container, KeepsContainers
<1> QED BY <1>4, <1>5

(* The steps of a node command. *)
LEMMA NodeCommandData ==
  ASSUME Inv, DataInv, NEW p \in Procs, NodeCommandStep(p)
  PROVE  DataInv'
<1>0. call[p].inst \in Ids /\ call[p].node \in Nodes
  BY DEF Inv, LockInv, NodeCommandStep, NodeCommandRefused, LockForNodeCommand, NodeCommandSucceeds,
     NodeCommandFails, FetchNode, ApplyNode
<1>00. PICK i \in Ids, n \in Nodes : i = call[p].inst /\ n = call[p].node
  BY <1>0
<1>1. node[i][n] \in InstanceNode
  BY DEF DataInv, NodeType
<1>2. CASE NodeCommandRefused(p)
  <2>1. SeenType'
    BY <1>2, ReturnSeen DEF NodeCommandRefused
  <2> QED
    BY <1>2, <2>1 DEF DataInv, NodeCommandRefused, NodeType, ProviderType, ListenerType, WatcherType
<1>3. CASE LockForNodeCommand(p)
  <2>1. PICK nd \in InstanceNode : nd = Reset(node[i][n])
    BY DEF Reset, InstanceNode, NodeStates
  <2>2. node' = node \/ node' = [node EXCEPT ![i] = [@ EXCEPT ![n] = nd]]
    BY <1>3, <1>00, <2>1 DEF LockForNodeCommand
  <2>3. NodeType'
    BY <2>2, NodesChange DEF DataInv, NodeType
  <2> QED
    BY <1>3, <2>3 DEF DataInv, LockForNodeCommand, SeenType, ProviderType, ListenerType, WatcherType
<1>4. CASE NodeCommandSucceeds(p)
  <2>1. ProviderType'
    BY <1>0, <1>4, CommandedData DEF NodeCommandSucceeds
  <2> QED
    BY <1>4, <2>1 DEF DataInv, NodeCommandSucceeds, NodeType, SeenType, ListenerType, WatcherType
<1>5. CASE NodeCommandFails(p)
  <2>1. SeenType'
    BY <1>5, ReturnSeen DEF NodeCommandFails
  <2>2. ProviderType'
    BY <1>0, <1>5, CommandedData DEF NodeCommandFails, DataInv, ProviderType
  <2> QED
    BY <1>5, <2>1, <2>2 DEF DataInv, NodeCommandFails, NodeType, ListenerType, WatcherType
<1>6. CASE FetchNode(p)
  <2>1. seen' = [seen EXCEPT ![p][n] = container[n]] \/ seen' = seen
    BY <1>6, <1>00 DEF FetchNode
  <2>2. container[n] \in Container
    BY DEF DataInv, ProviderType
  <2>3. SeenType'
    BY <2>1, <2>2 DEF DataInv, SeenType
  <2> QED
    BY <1>6, <2>3 DEF DataInv, FetchNode, NodeType, ProviderType, ListenerType, WatcherType
<1>7. CASE ApplyNode(p)
  <2>1. SeenType'
    BY <1>7, ReturnSeen DEF ApplyNode
  <2>2. seen[p][n] \in Container
    BY DEF DataInv, SeenType
  <2>3. FetchedNode(node[i][n], seen[p][n]) \in InstanceNode
    BY <1>1, <2>2, NodeValues DEF NodeStates
  <2>4. PICK nd \in InstanceNode : nd = FetchedNode(node[i][n], seen[p][n])
    BY <2>3
  <2>5. node' = [node EXCEPT ![i] = [@ EXCEPT ![n] = nd]]
    BY <1>7, <1>00, <2>4 DEF ApplyNode
  <2>6. NodeType'
    BY <2>5, NodesChange DEF DataInv
  <2>7. PICK ns \in SUBSET Nodes : ns = {n}
    OBVIOUS
  <2>8. UNCHANGED listeners \/ Listen(i, ns, TRUE)
    BY <1>7, <1>00, <2>7 DEF ApplyNode
  <2>9. ListenerType'
    BY <2>8, ListenersChange DEF DataInv, ListenerType
  <2> QED
    BY <1>7, <2>1, <2>6, <2>9 DEF DataInv, ApplyNode, ProviderType, WatcherType
<1> QED BY <1>2, <1>3, <1>4, <1>5, <1>6, <1>7 DEF NodeCommandStep

(* A startup listener goes from one step to the next with the same         *)
(* instance and node.                                                      *)
LEMMA ListenerData ==
  ASSUME Inv, DataInv, NEW l \in BagToSet(listeners), ListenerStep(l)
  PROVE  DataInv'
<1>1. l \in StartupListener
  BY DEF DataInv, ListenerType
<1>2. PICK i \in Ids, n \in Nodes : i = l.inst /\ n = l.node
  BY <1>1 DEF StartupListener
<1>3. node[i][n] \in InstanceNode /\ dctx[i] \in Nat
  BY DEF DataInv, NodeType, Inv, LifecycleTypeOK
<1>4. SeenType' /\ ProviderType' /\ WatcherType' /\ lastDeployFailed' \in BOOLEAN
  BY DEF DataInv, ListenerStep, SeenType, ProviderType, WatcherType
<1>5. ASSUME NEW m \in StartupListener, Becomes(l, m)
      PROVE  ListenerType'
  BY <1>5, ListenersChange DEF DataInv
<1>6. Ends(l) => ListenerType'
  BY ListenersChange DEF DataInv
<1>7. UNCHANGED node => NodeType'
  BY DEF DataInv, NodeType
<1>8. CASE ListenerBegins(l)
  <2>1. PICK m \in StartupListener : m = [l EXCEPT !.at = "probe", !.ctx = dctx[l.inst]]
    BY <1>1, <1>2, <1>3 DEF StartupListener
  <2> QED BY <1>4, <1>5, <1>7, <1>8, <2>1 DEF DataInv, ListenerBegins
<1>9. CASE ProbeSucceeds(l)
  <2>1. PICK m \in StartupListener : m = [l EXCEPT !.at = "started"]
    BY <1>1 DEF StartupListener
  <2> QED BY <1>4, <1>5, <1>7, <1>9, <2>1 DEF DataInv, ProbeSucceeds
<1>10. CASE ProbeFails(l)
  <2>1. PICK nd \in InstanceNode : nd = [node[i][n] EXCEPT !.state = "stopped"]
    BY <1>3 DEF InstanceNode, NodeStates
  <2>2. node' = node \/ node' = [node EXCEPT ![i] = [@ EXCEPT ![n] = nd]]
    BY <1>2, <1>10, <2>1 DEF ProbeFails
  <2>3. NodeType'
    BY <1>7, <2>2, NodesChange DEF DataInv
  <2> QED BY <1>4, <1>6, <1>10, <2>3 DEF DataInv, ProbeFails
<1>11. CASE StreamingEnds(l)
  BY <1>4, <1>6, <1>7, <1>11 DEF DataInv, StreamingEnds
<1>12. CASE NodeStarted(l)
  <2>1. PICK m \in StartupListener : m = [l EXCEPT !.at = "interfaces", !.ctx = dctx[l.inst]]
    BY <1>1, <1>2, <1>3 DEF StartupListener
  <2> QED BY <1>4, <1>5, <1>7, <1>12, <2>1 DEF DataInv, NodeStarted
<1>13. CASE NodeReady(l)
  <2>1. node[i][n].id \in Nat
    BY <1>3 DEF InstanceNode
  <2>2. PICK m \in StartupListener : m = [l EXCEPT !.at = "monitor", !.id = node[l.inst][l.node].id]
    BY <1>1, <1>2, <2>1 DEF StartupListener
  <2>3. PICK nd \in InstanceNode : nd = [node[i][n] EXCEPT !.ready = TRUE]
    BY <1>3 DEF InstanceNode
  <2>4. node' = node \/ node' = [node EXCEPT ![i] = [@ EXCEPT ![n] = nd]]
    BY <1>2, <1>13, <2>3 DEF NodeReady
  <2>5. NodeType'
    BY <1>7, <2>4, NodesChange DEF DataInv
  <2>6. ListenerType'
    BY <1>5, <1>6, <1>13, <2>2 DEF NodeReady
  <2> QED BY <1>4, <2>5, <2>6 DEF DataInv
<1>14. CASE NodeMonitored(l)
  BY <1>4, <1>6, <1>7, <1>14 DEF DataInv, NodeMonitored
<1> QED BY <1>8, <1>9, <1>10, <1>11, <1>12, <1>13, <1>14 DEF ListenerStep

(* The other background steps. *)
LEMMA BackgroundData ==
  ASSUME Inv, DataInv, Background \/ (\E n \in Observed : EventPanics(n)) \/ UNCHANGED vars
  PROVE  DataInv'
<1>1. CASE \E l \in BagToSet(listeners) : ListenerStep(l)
  BY <1>1, ListenerData
<1>2. CASE \E m \in monitored : MonitorDrops(m)
  BY <1>2 DEF DataInv, MonitorDrops, NodeType, SeenType, ProviderType, ListenerType, WatcherType
<1>3. ASSUME NEW n \in Nodes, ContainerStops(n)
      PROVE  DataInv'
  <2>1. ProviderType'
    BY <1>3 DEF DataInv, ContainerStops, ProviderType, Container
  <2> QED BY <1>3, <2>1 DEF DataInv, ContainerStops, NodeType, SeenType, ListenerType, WatcherType
<1>4. ASSUME NEW n \in Nodes, EventArrives(n)
      PROVE  DataInv'
  <2>1. container[n] \in Container
    BY DEF DataInv, ProviderType
  <2>2. watcher' # watcher => watcher' \in FetchedEvent
    BY <1>4, <2>1 DEF EventArrives, FetchedEvent, Inv, LifecycleTypeOK
  <2>3. WatcherType'
    BY <1>4, <2>2 DEF EventArrives, WatcherType
  <2> QED BY <1>4, <2>3 DEF DataInv, EventArrives, NodeType, SeenType, ProviderType, ListenerType
<1>5. CASE EventApplied
  <2>1. watcher \in FetchedEvent
    BY <1>5 DEF DataInv, EventApplied, WatcherType
  <2>2. PICK i \in Ids, n \in Nodes, c \in Container :
          i = watcher.inst /\ n = watcher.node /\ c = watcher.seen
    BY <2>1 DEF FetchedEvent
  <2>3. node[i][n] \in InstanceNode
    BY DEF DataInv, NodeType
  <2>4. FetchedNode(node[i][n], c) \in InstanceNode
    BY <2>3, NodeValues DEF NodeStates
  <2>5. PICK nd \in InstanceNode : nd = FetchedNode(node[i][n], c)
    BY <2>4
  <2>6. node' = [node EXCEPT ![i] = [@ EXCEPT ![n] = nd]]
    BY <1>5, <2>2, <2>5 DEF EventApplied
  <2>7. NodeType'
    BY <2>6, NodesChange DEF DataInv
  <2> QED BY <1>5, <2>7 DEF DataInv, EventApplied, SeenType, ProviderType, ListenerType, WatcherType
<1>6. CASE UNCHANGED vars
  BY <1>6 DEF vars, DataInv, NodeType, SeenType, ProviderType, ListenerType, WatcherType
<1>7. CASE \E n \in Observed : EventPanics(n)
  BY <1>7 DEF EventPanics, DataInv, NodeType, SeenType, ProviderType, ListenerType, WatcherType
<1> QED BY <1>1, <1>2, <1>3, <1>4, <1>5, <1>6, <1>7 DEF Background

(* Every step keeps the data well formed. *)
LEMMA DataStep ==
  ASSUME Inv, DataInv, [Next]_vars
  PROVE  DataInv'
BY RequestData, DeployData, DestroyData, NodeCommandData, BackgroundData DEF Next, Working, Serve

(* So is the data the service starts with, revived or not. *)
LEMMA InitData ==
  ASSUME Init
  PROVE  DataInv
<1>1. SeenType /\ WatcherType /\ lastDeployFailed \in BOOLEAN
  BY DEF Init, InitEmpty, InitRevived, SeenType, WatcherType, Nothing, Absent, Container
<1>2. CASE InitEmpty
  <2>1. NodeType
    BY <1>2 DEF InitEmpty, NodeType, NewNode, InstanceNode, NodeStates
  <2>2. ProviderType
    BY <1>2 DEF Init, InitEmpty, ProviderType, Nothing, Absent, Container
  <2>3. ListenerType
    BY <1>2 DEF InitEmpty, ListenerType, EmptyBag, SetToBag, IsABag, BagToSet
  <2> QED BY <1>1, <2>1, <2>2, <2>3 DEF DataInv
<1>3. CASE InitRevived
  <2>1. container \in [Nodes -> Container]
    <3>1. container \in Created(1) /\ 1 \in Nat
      BY <1>3 DEF InitRevived
    <3> QED BY <3>1, ContainerValues
  <2>2. ProviderType
    BY <1>3, <2>1 DEF Init, InitRevived, ProviderType
  <2>3. ASSUME NEW n \in Nodes
        PROVE  NewNode \in InstanceNode
               /\ updateNodeWithContainer(Reset(NewNode), container[n]) \in InstanceNode
    BY <2>1 DEF InstanceNode, NodeStates, Container, NewNode, Reset, updateNodeWithContainer, StateOf
  <2>4. NodeType
    BY <1>3, <2>3 DEF InitRevived, NodeType
  <2>5. PICK S : S = {Listener(1, n, FALSE) : n \in {m \in Observed : node[1][m].state = "running"}}
    OBVIOUS
  <2>6. S \subseteq StartupListener
    <3>1. 1 \in Ids
      OBVIOUS
    <3>2. ASSUME NEW n \in Nodes
          PROVE  Listener(1, n, FALSE) \in StartupListener
      BY <3>1 DEF Listener, StartupListener
    <3> QED BY <2>5, <3>2
  <2>7. listeners = SetToBag(S)
    BY <1>3, <2>5 DEF InitRevived
  <2>8. ListenerType
    BY <2>6, <2>7 DEF ListenerType, SetToBag, IsABag, BagToSet
  <2> QED BY <1>1, <2>2, <2>4, <2>8 DEF DataInv
<1> QED BY <1>2, <1>3 DEF Init

-----------------------------------------------------------------------------
(***************************************************************************)
(* The containers of a lab that is running.                                *)
(***************************************************************************)

(* Without a stray destruction there is one instance that is not           *)
(* destroyed, so that a goroutine at work with the provider has the lab to *)
(* itself.                                                                 *)
LEMMA OneInstance ==
  ASSUME Inv, ~stray, NEW p \in Procs, pc[p] \in Deploying \cup {"destroy"}
  PROVE  /\ call[p].inst \in Ids /\ call[p].inst \in 1 .. made /\ call[p].inst \notin destroyed
         /\ \A i \in Ids : (i \in 1 .. made /\ i \notin destroyed) => i = call[p].inst
         /\ \A q \in Procs : (q # p /\ pc[q] \in Deploying \cup {"destroy"}) => FALSE
<1>1. \A q \in Procs : pc[q] \in Deploying \cup {"destroy"} =>
        call[q].inst \in Ids /\ call[q].inst \in 1 .. made /\ call[q].inst \notin destroyed
  BY DEF Inv, LockInv, DestroyedInv, MapInv
<1>2. \A i, j \in Ids : (/\ i \in 1 .. made /\ i \notin destroyed
                         /\ j \in 1 .. made /\ j \notin destroyed) => i = j
  BY DEF Inv, MapInv
<1>3. OperationsAreSerialised
  BY Exclusive DEF Inv
<1> QED BY <1>1, <1>2, <1>3 DEF OperationsAreSerialised

(* A step that takes no container away, applies no inspection and makes no *)
(* instance running keeps the property, if it is not an inspection and     *)
(* does not go on after one.                                               *)
LEMMA UpKept ==
  ASSUME Inv, UpInv, NEW p \in Procs,
         stray' = stray, made' = made, destroyed' = destroyed, missing' = missing, KeepsContainers,
         \A i \in Ids : state'[i] = "running" => state[i] = "running",
         \A q \in Procs : q # p => pc'[q] = pc[q] /\ call'[q] = call[q] /\ seen'[q] = seen[q],
         \A q \in Procs : (q # p /\ pc[q] = "deploy") => state'[call[q].inst] = state[call[q].inst],
         pc'[p] = "deploy" => state'[call'[p].inst] = "deploying",
         pc'[p] \notin {"attach", "stream"}
  PROVE  UpInv'
<1>1. ASSUME NEW q \in Procs, pc'[q] = "deploy"
      PROVE  state'[call'[q].inst] = "deploying"
  BY <1>1 DEF UpInv
<1>2. ASSUME ~stray', NEW q \in Procs, pc'[q] = "attach", NEW n \in Nodes,
             container'[n].status = "absent"
      PROVE  seen'[q][n].status = "absent"
  BY <1>2 DEF UpInv, KeepsContainers
<1>3. ASSUME ~stray', NEW q \in Procs, pc'[q] = "stream"
      PROVE  Covered(call[q].inst)' /\ call'[q] = call[q]
  BY <1>3 DEF UpInv, KeepsContainers, Covered
<1>4. ASSUME ~stray', NEW i \in Ids, i \in 1 .. made', i \notin destroyed', state'[i] = "running"
      PROVE  Covered(i)'
  BY <1>4 DEF UpInv, KeepsContainers, Covered
<1> QED BY <1>1, <1>2, <1>3, <1>4 DEF UpInv, Covered

(* A step of p with the state of instances as it was. *)
LEMMA UpIdle ==
  ASSUME Inv, UpInv, NEW p \in Procs,
         stray' = stray, made' = made, destroyed' = destroyed, state' = state, missing' = missing,
         KeepsContainers,
         \A q \in Procs : q # p => pc'[q] = pc[q] /\ call'[q] = call[q] /\ seen'[q] = seen[q],
         pc'[p] \notin {"deploy", "attach", "stream"}
  PROVE  UpInv'
BY UpKept

(* A step of the only goroutine at work with the provider, whatever it     *)
(* does to the containers, if it leaves its instance not running.          *)
LEMMA UpAlone ==
  ASSUME Inv, UpInv, NEW p \in Procs, pc[p] \in Deploying \cup {"destroy"},
         stray' = stray, made' = made, destroyed \subseteq destroyed', missing' = missing,
         state'[call[p].inst] # "running",
         \A i \in Ids : i # call[p].inst => state'[i] = state[i],
         \A q \in Procs : q # p => pc'[q] = pc[q] /\ call'[q] = call[q],
         pc'[p] \notin {"deploy", "attach", "stream"}
  PROVE  UpInv'
<1>1. ASSUME NEW q \in Procs, pc'[q] = "deploy"
      PROVE  state'[call'[q].inst] = "deploying"
  <2>1. q # p /\ pc[q] = "deploy" /\ call'[q] = call[q]
    BY <1>1
  <2>2. call[q].inst # call[p].inst /\ call[q].inst \in Ids
    BY <2>1, Exclusive DEF Inv, LockInv, OperationsAreSerialised
  <2> QED BY <2>1, <2>2 DEF UpInv
<1>2. ASSUME ~stray', NEW q \in Procs, pc'[q] \in {"attach", "stream"}
      PROVE  FALSE
  <2>1. q # p /\ pc[q] \in Deploying /\ ~stray
    BY <1>2
  <2> QED BY <2>1, OneInstance
<1>3. ASSUME ~stray', NEW i \in Ids, i \in 1 .. made', i \notin destroyed', state'[i] = "running"
      PROVE  FALSE
  <2>1. ~stray /\ i \in 1 .. made /\ i \notin destroyed
    BY <1>3
  <2>2. i = call[p].inst
    BY <2>1, OneInstance
  <2> QED BY <1>3, <2>2
<1> QED BY <1>1, <1>2, <1>3 DEF UpInv

(* Requests that begin. *)
LEMMA RequestUp ==
  ASSUME Inv, UpInv, NEW p \in Procs, Request(p)
  PROVE  UpInv'
<1>0. KeepsContainers /\ UNCHANGED <<stray, destroyed, missing, seen>>
  BY DEF Request, BeginDeploy, BeginRedeploy, BeginDestroy, DeployRefused, BeginNodeCommand, Begin,
     KeepsContainers
<1>1. CASE BeginDeploy(p)
  <2>1. made \in Nat /\ \A q \in Procs : pc[q] # "idle" => call[q].inst \in 1 .. made
    BY DEF Inv, LockInv, LifecycleTypeOK
  <2>2. \A q \in Procs : q # p => pc'[q] = pc[q] /\ call'[q] = call[q]
    BY <1>1 DEF BeginDeploy, Begin, Inv, LifecycleTypeOK
  <2>3. pc'[p] = "install"
    BY <1>1 DEF BeginDeploy, Begin, Inv, LifecycleTypeOK
  <2>4. \A i \in Ids : state'[i] = IF i = made + 1 THEN "deploying" ELSE state[i]
    BY <1>1 DEF BeginDeploy, Inv, LifecycleTypeOK
  <2>5. made' = made + 1 /\ container' = container
    BY <1>1 DEF BeginDeploy
  <2>6. ASSUME NEW q \in Procs, pc'[q] = "deploy"
        PROVE  state'[call'[q].inst] = "deploying"
    <3>1. q # p /\ pc[q] = "deploy" /\ call'[q] = call[q]
      BY <2>2, <2>3, <2>6
    <3>2. call[q].inst \in Ids /\ call[q].inst # made + 1
      BY <2>1, <3>1 DEF Inv, LockInv
    <3> QED BY <2>4, <3>1, <3>2 DEF UpInv
  <2>7. ASSUME ~stray', NEW q \in Procs, pc'[q] \in {"attach", "stream"}
        PROVE  pc'[q] = pc[q] /\ call'[q] = call[q]
    BY <2>2, <2>3, <2>7
  <2>8. ASSUME ~stray', NEW i \in Ids, i \in 1 .. made', i \notin destroyed', state'[i] = "running"
        PROVE  Covered(i)'
    BY <1>0, <2>1, <2>4, <2>5, <2>8 DEF UpInv, Covered
  <2> QED BY <1>0, <2>5, <2>6, <2>7, <2>8 DEF UpInv, Covered
<1>2. CASE BeginRedeploy(p) \/ BeginDestroy(p)
  BY <1>0, <1>2, UpIdle DEF BeginRedeploy, BeginDestroy, Begin, Inv, LifecycleTypeOK
<1>3. CASE DeployRefused(p)
  BY <1>3 DEF DeployRefused, UpInv, Covered
<1>4. CASE \E command \in Commands, n \in Nodes : BeginNodeCommand(p, command, n)
  BY <1>0, <1>4, UpIdle DEF BeginNodeCommand, Begin, Inv, LifecycleTypeOK
<1> QED BY <1>1, <1>2, <1>3, <1>4 DEF Request

(* The steps of a deployment: the provider creates containers or fails,    *)
(* and only an inspection after it makes the lab running.                  *)
LEMMA DeployUp ==
  ASSUME Inv, DataInv, UpInv, NEW p \in Procs, DeployStep(p)
  PROVE  UpInv'
<1>0. PICK i \in Ids : i = call[p].inst
  BY DEF Inv, LockInv, DeployStep, InstallContext, DeployIgnored, LockForDeploy, DeploySucceeds,
     DeployFails, InspectLab, InspectLabFails, AttachNodes, DeployFinishes, DeployAborts
<1>00. \A q \in Procs : (q # p /\ pc[q] \in Holding /\ opLock[i] \in {Free, p}) => call[q].inst # i
  BY DEF Inv, LockInv
<1>1. \A q \in Procs : q # p => pc'[q] = pc[q] /\ call'[q] = call[q] /\ seen'[q] = seen[q]
  BY DEF DeployStep, InstallContext, DeployIgnored, LockForDeploy, DeploySucceeds,
     DeployFails, InspectLab, InspectLabFails, AttachNodes, DeployFinishes, DeployAborts,
     Inv, LifecycleTypeOK, DataInv, SeenType
<1>2. CASE InstallContext(p) \/ DeployIgnored(p) \/ DeployAborts(p)
  BY <1>1, <1>2, UpIdle DEF InstallContext, DeployIgnored, DeployAborts, KeepsContainers,
     Inv, LifecycleTypeOK
<1>3. CASE LockForDeploy(p)
  <2>1. state' = [state EXCEPT ![i] = "deploying"] /\ opLock[i] = Free
    BY <1>0, <1>3 DEF LockForDeploy
  <2>2. \A q \in Procs : (q # p /\ pc[q] = "deploy") => state'[call[q].inst] = state[call[q].inst]
    BY <1>00, <2>1 DEF Inv, LifecycleTypeOK, LockInv
  <2>3. pc'[p] = "deploy" /\ state'[call'[p].inst] = "deploying"
    BY <1>0, <1>3, <2>1 DEF LockForDeploy, Inv, LifecycleTypeOK
  <2> QED
    BY <1>1, <1>3, <2>1, <2>2, <2>3, UpKept DEF LockForDeploy, KeepsContainers, Inv, LifecycleTypeOK
<1>4. CASE DeploySucceeds(p) \/ DeployFails(p)
  <2>1. pc[p] = "deploy" /\ pc'[p] \in {"idle", "inspect"} /\ UNCHANGED <<made, destroyed, stray, missing>>
    BY <1>4 DEF DeploySucceeds, DeployFails, Inv, LifecycleTypeOK
  <2>2. state[i] = "deploying"
    BY <1>0, <2>1 DEF UpInv
  <2>3. state' = state \/ state' = [state EXCEPT ![i] = "failed"]
    BY <1>0, <1>4 DEF DeploySucceeds, DeployFails
  <2>4. state'[i] # "running" /\ \A j \in Ids : j # i => state'[j] = state[j]
    BY <1>0, <2>2, <2>3 DEF Inv, LifecycleTypeOK
  <2> QED BY <1>0, <1>1, <2>1, <2>4, UpAlone
<1>5. CASE InspectLab(p)
  <2>1. pc[p] = "inspect" /\ pc'[p] = "attach" /\ UNCHANGED <<made, destroyed, stray, missing, state, container>>
    BY <1>5 DEF InspectLab, Inv, LifecycleTypeOK
  <2>2. seen'[p] = container
    BY <1>5 DEF InspectLab, DataInv, SeenType
  <2> QED BY <1>1, <2>1, <2>2 DEF UpInv, Covered
<1>6. CASE InspectLabFails(p)
  <2>1. pc[p] = "inspect" /\ pc'[p] = "idle" /\ opLock[i] = p
    BY <1>0, <1>6 DEF InspectLabFails, Inv, LifecycleTypeOK, LockInv
  <2>2. state' = state \/ state' = [state EXCEPT ![i] = "failed"]
    BY <1>0, <1>6 DEF InspectLabFails
  <2>3. \A q \in Procs : (q # p /\ pc[q] = "deploy") => state'[call[q].inst] = state[call[q].inst]
    BY <1>00, <2>1, <2>2 DEF Inv, LifecycleTypeOK, LockInv
  <2>4. \A j \in Ids : state'[j] = "running" => state[j] = "running"
    BY <2>2 DEF Inv, LifecycleTypeOK
  <2>5. UNCHANGED <<stray, made, destroyed, missing, container>>
    BY <1>6 DEF InspectLabFails
  <2> QED BY <1>1, <2>1, <2>3, <2>4, <2>5, UpKept DEF KeepsContainers
<1>7. CASE AttachNodes(p)
  <2>1. pc[p] = "attach" /\ pc'[p] = "stream" /\ call' = call
        /\ UNCHANGED <<made, destroyed, stray, state, container>>
    BY <1>7 DEF AttachNodes, Inv, LifecycleTypeOK
  <2>2. missing'[i] = {n \in Nodes : seen[p][n].status = "absent"}
    BY <1>0, <1>7 DEF AttachNodes, Inv, LifecycleTypeOK
  <2>3. ~stray => Covered(i)'
    BY <2>1, <2>2 DEF UpInv, Covered
  <2>4. ASSUME ~stray', NEW q \in Procs, pc'[q] \in {"attach", "stream"}
        PROVE  q = p
    <3>1. q = p \/ pc[q] \in Deploying
      BY <1>1, <2>4
    <3> QED BY <2>1, <2>4, <3>1, OneInstance
  <2>5. ASSUME ~stray', NEW j \in Ids, j \in 1 .. made', j \notin destroyed'
        PROVE  j = i
    BY <1>0, <2>1, <2>5, OneInstance
  <2>6. ASSUME NEW q \in Procs, pc'[q] = "deploy"
        PROVE  state'[call'[q].inst] = "deploying"
    BY <1>1, <2>1, <2>6 DEF UpInv
  <2>7. ASSUME ~stray', NEW q \in Procs, pc'[q] = "stream"
        PROVE  Covered(call[q].inst)'
    BY <1>0, <2>1, <2>3, <2>4, <2>7
  <2>8. ASSUME ~stray', NEW q \in Procs, pc'[q] = "attach"
        PROVE  FALSE
    BY <2>1, <2>4, <2>8
  <2>9. ASSUME ~stray', NEW j \in Ids, j \in 1 .. made', j \notin destroyed'
        PROVE  Covered(j)'
    BY <2>1, <2>3, <2>5, <2>9
  <2>10. ASSUME ~stray', NEW q \in Procs, pc'[q] = "stream"
         PROVE  Covered(call[q].inst)' /\ call'[q] = call[q]
    BY <2>1, <2>7, <2>10
  <2> QED BY <2>6, <2>8, <2>9, <2>10 DEF UpInv, Covered
<1>8. CASE DeployFinishes(p)
  <2>1. pc[p] = "stream" /\ pc'[p] = "idle" /\ opLock[i] = p
    BY <1>0, <1>8 DEF DeployFinishes, Inv, LifecycleTypeOK, LockInv
  <2>2. UNCHANGED <<stray, made, destroyed, missing, container>> /\ state' = [state EXCEPT ![i] = "running"]
    BY <1>0, <1>8 DEF DeployFinishes
  <2>3. ~stray => Covered(i)
    BY <1>0, <2>1 DEF UpInv
  <2>4. ASSUME NEW q \in Procs, pc'[q] = "deploy"
        PROVE  state'[call'[q].inst] = "deploying"
    <3>1. q # p /\ pc[q] = "deploy" /\ call'[q] = call[q]
      BY <1>1, <2>1, <2>4
    <3>2. call[q].inst # i /\ call[q].inst \in Ids
      BY <1>00, <2>1, <3>1 DEF Inv, LockInv
    <3> QED BY <2>2, <3>1, <3>2 DEF UpInv, Inv, LifecycleTypeOK
  <2>5. ASSUME ~stray', NEW j \in Ids, j \in 1 .. made', j \notin destroyed', state'[j] = "running"
        PROVE  Covered(j)'
    <3>1. j = i \/ state[j] = "running"
      BY <2>2, <2>5 DEF Inv, LifecycleTypeOK
    <3> QED BY <2>2, <2>3, <2>5, <3>1 DEF UpInv, Covered
  <2> QED BY <1>1, <2>1, <2>2, <2>4, <2>5 DEF UpInv, Covered
<1> QED BY <1>2, <1>3, <1>4, <1>5, <1>6, <1>7, <1>8 DEF DeployStep

(* The steps of a destruction: the lab is not running any more when the    *)
(* provider takes its containers away.                                     *)
LEMMA DestroyUp ==
  ASSUME Inv, DataInv, UpInv, NEW p \in Procs, DestroyStep(p)
  PROVE  UpInv'
<1>0. PICK i \in Ids : i = call[p].inst
  BY DEF Inv, LockInv, DestroyStep, CancelDeployment, LockForDestroy, DestroySucceeds, DestroyFails, Unmap
<1>1. \A q \in Procs : q # p => pc'[q] = pc[q] /\ call'[q] = call[q] /\ seen'[q] = seen[q]
  BY DEF DestroyStep, CancelDeployment, LockForDestroy, DestroySucceeds, DestroyFails, Unmap,
     Inv, LifecycleTypeOK, DataInv, SeenType
<1>2. CASE CancelDeployment(p) \/ Unmap(p)
  BY <1>1, <1>2, UpIdle DEF CancelDeployment, Unmap, KeepsContainers, Inv, LifecycleTypeOK
<1>3. CASE LockForDestroy(p)
  <2>1. state' = [state EXCEPT ![i] = "stopping"] /\ opLock[i] = Free /\ pc'[p] = "destroy"
    BY <1>0, <1>3 DEF LockForDestroy, Inv, LifecycleTypeOK
  <2>2. UNCHANGED <<made, destroyed, container, missing>> /\ (~stray' => ~stray)
    BY <1>3 DEF LockForDestroy
  <2>3. ASSUME NEW q \in Procs, pc'[q] = "deploy"
        PROVE  state'[call'[q].inst] = "deploying"
    <3>1. q # p /\ pc[q] = "deploy" /\ call'[q] = call[q]
      BY <1>1, <2>1, <2>3
    <3>2. call[q].inst # i /\ call[q].inst \in Ids
      BY <2>1, <3>1 DEF Inv, LockInv
    <3> QED BY <2>1, <3>1, <3>2 DEF UpInv, Inv, LifecycleTypeOK
  <2>4. \A j \in Ids : state'[j] = "running" => state[j] = "running"
    BY <2>1 DEF Inv, LifecycleTypeOK
  <2> QED BY <1>1, <2>1, <2>2, <2>3, <2>4 DEF UpInv, Covered
<1>4. CASE DestroySucceeds(p) \/ DestroyFails(p)
  <2>1. pc[p] = "destroy" /\ pc'[p] \in {"idle", "unmap"}
    BY <1>4 DEF DestroySucceeds, DestroyFails, Inv, LifecycleTypeOK
  <2>2. UNCHANGED <<made, stray, missing>> /\ destroyed \subseteq destroyed'
    BY <1>4 DEF DestroySucceeds, DestroyFails
  <2>3. state' = state \/ state' = [state EXCEPT ![i] = "failed"]
    BY <1>0, <1>4 DEF DestroySucceeds, DestroyFails
  <2>4. state[i] = "stopping"
    BY <1>0, <2>1 DEF Inv, DestroyedInv
  <2>5. state'[i] # "running" /\ \A j \in Ids : j # i => state'[j] = state[j]
    BY <1>0, <2>3, <2>4 DEF Inv, LifecycleTypeOK
  <2> QED BY <1>0, <1>1, <2>1, <2>2, <2>5, UpAlone
<1> QED BY <1>2, <1>3, <1>4 DEF DestroyStep

(* The steps of a node command, which removes no container. *)
LEMMA NodeCommandUp ==
  ASSUME Inv, DataInv, UpInv, NEW p \in Procs, NodeCommandStep(p)
  PROVE  UpInv'
<1>0. call[p].node \in Nodes
  BY DEF Inv, LockInv, NodeCommandStep, NodeCommandRefused, LockForNodeCommand, NodeCommandSucceeds,
     NodeCommandFails, FetchNode, ApplyNode
<1>1. KeepsContainers
  <2>1. CASE UNCHANGED container
    BY <2>1 DEF KeepsContainers
  <2>2. CASE Commanded(p) /\ UNCHANGED generation
    BY <1>0, <2>2, CommandedData
  <2> QED BY <2>1, <2>2 DEF NodeCommandStep, NodeCommandRefused, LockForNodeCommand,
             NodeCommandSucceeds, NodeCommandFails, FetchNode, ApplyNode
<1>2. \A q \in Procs : q # p => pc'[q] = pc[q] /\ call'[q] = call[q] /\ seen'[q] = seen[q]
  <2>1. \A q \in Procs : q # p => pc'[q] = pc[q] /\ call'[q] = call[q]
    BY DEF NodeCommandStep, NodeCommandRefused, LockForNodeCommand, NodeCommandSucceeds,
       NodeCommandFails, FetchNode, ApplyNode, Inv, LifecycleTypeOK
  <2>2. \A q \in Procs : q # p => seen'[q] = seen[q]
    BY DEF NodeCommandStep, NodeCommandRefused, LockForNodeCommand, NodeCommandSucceeds,
       NodeCommandFails, FetchNode, ApplyNode, DataInv, SeenType
  <2> QED BY <2>1, <2>2
<1>3. pc'[p] \in {"idle", "node", "fetch", "apply"}
  BY DEF NodeCommandStep, NodeCommandRefused, LockForNodeCommand, NodeCommandSucceeds,
     NodeCommandFails, FetchNode, ApplyNode, Inv, LifecycleTypeOK
<1>4. UNCHANGED <<stray, made, destroyed, state, missing>>
  BY DEF NodeCommandStep, NodeCommandRefused, LockForNodeCommand, NodeCommandSucceeds,
     NodeCommandFails, FetchNode, ApplyNode
<1> QED BY <1>1, <1>2, <1>3, <1>4, UpIdle

(* A container that stops by itself is still there, and the other          *)
(* background steps change none.                                           *)
LEMMA BackgroundUp ==
  ASSUME Inv, DataInv, UpInv, Background \/ (\E n \in Observed : EventPanics(n)) \/ UNCHANGED vars
  PROVE  UpInv'
<1>1. UNCHANGED lifecycle
  BY BackgroundKeeps
<1>2. KeepsContainers
  <2>1. CASE \E n \in Observed : ContainerStops(n)
    <3>1. PICK n \in Observed : ContainerStops(n)
      BY <2>1
    <3>2. container' = [container EXCEPT ![n].status = "exited"]
      BY <3>1 DEF ContainerStops
    <3> QED BY <3>2 DEF DataInv, ProviderType, Container, KeepsContainers
  <2>2. CASE ~\E n \in Observed : ContainerStops(n)
    <3>1. container' = container
      BY <2>2 DEF Background, ListenerStep, MonitorDrops, EventArrives, EventApplied, EventPanics, vars
    <3> QED BY <3>1 DEF KeepsContainers
  <2> QED BY <2>1, <2>2
<1>3. seen' = seen
  BY DEF Background, ListenerStep, MonitorDrops, EventArrives, EventApplied, EventPanics, ContainerStops,
     vars
<1> QED BY <1>1, <1>2, <1>3 DEF lifecycle, UpInv, Covered, KeepsContainers

(* It holds at the start and every step keeps it. *)
LEMMA UpInductive ==
  /\ Init => UpInv
  /\ Inv /\ DataInv /\ UpInv /\ [Next]_vars => UpInv'
<1>1. ASSUME Init
      PROVE  UpInv
  <2>1. CASE InitEmpty
    BY <1>1, <2>1 DEF Init, InitEmpty, UpInv
  <2>2. CASE InitRevived
    <3>1. \A n \in Nodes : container[n] \in Made(1)
      BY <2>2 DEF InitRevived, Created
    <3>2. \A n \in Nodes : container[n].status = "absent" => container[n] = Absent
      BY <3>1 DEF Made, Absent
    <3>3. missing[1] = {n \in Nodes : container[n] = Absent}
      BY <2>2 DEF InitRevived
    <3>4. Covered(1)
      BY <3>2, <3>3 DEF Covered
    <3>5. made = 1 /\ \A p \in Procs : pc[p] = "idle"
      BY <1>1, <2>2 DEF Init, InitRevived
    <3>6. \A i \in Ids : i \in 1 .. made => i = 1
      BY <3>5
    <3> QED BY <3>4, <3>5, <3>6 DEF UpInv
  <2> QED BY <1>1, <2>1, <2>2 DEF Init
<1>2. Inv /\ DataInv /\ UpInv /\ [Next]_vars => UpInv'
  BY RequestUp, DeployUp, DestroyUp, NodeCommandUp, BackgroundUp DEF Next, Working, Serve
<1> QED BY <1>1, <1>2

(* For any number of goroutines, requests, nodes and crashes, the data of  *)
(* nodes, containers and listeners is well formed while operations on an   *)
(* instance are serialised, whatever a listener or the event callback that *)
(* does not hold the mutex writes in between (instance.go:16-90).          *)
THEOREM OperationsInvariant == Spec => []OperationsInv
<1>1. Init => Inv /\ DataInv /\ down \in BOOLEAN
  BY InitInv, InitData DEF Init
<1>2. Inv /\ DataInv /\ down \in BOOLEAN /\ [Next]_vars => Inv' /\ DataInv' /\ (down \in BOOLEAN)'
  <2>1. down \in BOOLEAN /\ [Next]_vars => (down \in BOOLEAN)'
    BY DEF Next, Working, EventPanics, vars
  <2> QED BY <2>1, NextStep, DataStep
<1>3. Inv /\ DataInv /\ down \in BOOLEAN => OperationsInv
  <2> SUFFICES ASSUME Inv, DataInv, down \in BOOLEAN
               PROVE  OperationsInv
    OBVIOUS
  <2>1. \A l \in BagToSet(listeners) : l.inst \in Ids /\ l.node \in Nodes
    BY DEF DataInv, ListenerType, StartupListener
  <2>2. TypeOK
    BY <2>1 DEF Inv, DataInv, TypeOK, NodeType, SeenType, ProviderType, ListenerType
  <2> QED BY <2>2, InvImplies DEF OperationsInv
<1> QED BY <1>1, <1>2, <1>3, PTL DEF Spec

(* For any number of goroutines, requests, nodes and crashes, a lab that   *)
(* is running and on which nobody works has all its containers but those   *)
(* its last inspection did not find, unless a destruction went on with an  *)
(* instance that was gone: whatever a deployment or a destruction that     *)
(* failed half-way leaves is not shown as running (service.go:498-517,     *)
(* 681-744, 1189-1196).                                                    *)
THEOREM RunningLabsKeepContainers == Spec => []RunningLabKeepsContainers
<1>1. Init => Inv /\ DataInv /\ UpInv
  BY InitInv, InitData, UpInductive
<1>2. Inv /\ DataInv /\ UpInv /\ [Next]_vars => Inv' /\ DataInv' /\ UpInv'
  BY NextStep, DataStep, UpInductive
<1>3. Inv /\ DataInv /\ UpInv => RunningLabKeepsContainers
  <2> SUFFICES ASSUME Inv, UpInv, NEW i \in Ids, instances = i, state[i] = "running", ~stray
               PROVE  Covered(i)
    BY DEF RunningLabKeepsContainers, Covered
  <2>1. i \in 1 .. made
    BY DEF Inv, LockInv, LifecycleTypeOK
  <2>2. i \notin destroyed
    BY DEF Inv, DestroyedStaysDown
  <2> QED BY <2>1, <2>2 DEF UpInv
<1> QED BY <1>1, <1>2, <1>3, PTL DEF Spec
=============================================================================
