# Verification of antimony-server

TLA+ models of the antimony server (`src/src/`), checked with TLC on small
instances and, where it matters most, proved with TLAPS for all values of the
constants. File names without a directory below are relative to `src/src/`.

## 1. The system and its parts

Antimony lets users store network topologies, turn them into labs, and run the
labs as containers, at once or at a scheduled time. One server process holds
everything in memory; the database keeps rows, the disk keeps the run
environments of labs, and the provider (containerlab or clabernetes) keeps
containers. None of these is touched when the server dies.

| Part | State it keeps | Operations | Interacts with |
|---|---|---|---|
| Schedule queue `utils/schedule.go` | ordered slice, map key -> item | Schedule, Reschedule, Remove, TryPopAt | used twice by the scheduler |
| Scheduler `runtime/scheduler/` | deployment and destruction queue | Run loop (one pop of each queue per tick, a goroutine per pop), five event handlers | lab event bus, instance service |
| Event bus `utils/event_bus.go` | handlers | Publish (synchronous) | lab service, instance service -> scheduler |
| Lab service `domain/lab/` | rows, run environments | Create, Update, Delete, DeleteLabsOfCollection | event bus, instance service (IsRunning, CanDelete) |
| Instance service `runtime/instance/service.go` | map lab -> Instance; per instance a state, nodes, a deployment context, OperationMutex, DataMutex | DeployLab, DestroyLab, node commands, startup listeners, event callback, revival, Close | provider, monitor, sockets |
| Monitor `runtime/instance/monitor.go` | monitored nodes by container id | Run, AddNode, RemoveNode, Close | provider's statistics |
| Shell service `runtime/shell/` | open shells | open, close, input, a reader per shell, time-outs, Close | provider, sockets |
| Packet capture `sshserver/capture.go` | one shared stream per node interface and its receivers | subscribe, open, forward, unsubscribe, shutdown, Close | provider, SSH sessions |
| Socket namespaces `socket/`, command handler `runtime/commands/` | connections, backlog | connect, disconnect, send, requests, release | clients |
| Ring buffers `utils/ring.go` | bounded backlog | Add, AddMany, Items, Clear | namespaces |
| Providers `deployment/` | none of their own (containers outside) | Deploy, Redeploy, Destroy, Inspect, node operations, events | Docker, Kubernetes |
| Node statistics `deployment/stats.go`, `sampler_*.go` | last counters, resolved containers, open streams | ReadNodeStats | monitor, `/proc`, exec streams |
| Topologies, bind files, storage `domain/topology/`, `storage/` | rows and files | create, update, delete | database, disk |
| Collections, users, authentication `domain/collection/`, `domain/user/`, `auth/` | rows; rights of the users who have logged in | CRUD, three kinds of login, refresh | database, OpenID provider |
| Topology policy `policy/` | findings cached per topology | Check, Forget | topology and lab service |
| HTTP transport, start-up `transport/`, `main.go` | none | decode, route, wire | all |

What is hard here:

* **goroutines**: every request, every popped schedule entry, every startup
  listener, the monitor, every shell and every capture stream is a goroutine of
  its own. Several mutexes protect parts of the same object, and values are
  read under one of them, kept, and used after it was released;
* **cancellation**: a deployment is given up by cancelling its context, and the
  one who cancels is responsible for the state that is left;
* **failure of one step of several**: run environment, event and row are three
  steps of a deletion; deploy, inspect and stream three of a deployment;
* **restart**: the queues and instances are rebuilt from the database and from
  the containers that survived;
* **duplicates**: a lab may have several entries in a queue and only the last is
  remembered by the map.

What makes each part correct:

* schedule queue: slice and map agree, the slice is ordered, an item is handed out
  once and only when it is due, and a due item does not wait behind the head;
* scheduler: every stored start that is still to come is queued, every running lab
  has its end queued, through moves, manual commands and restarts; a deleted lab
  never comes up, but for the window of section 6; what is due is carried out;
* instance service: operations on an instance are serialised, a destroyed instance
  stays destroyed and out of the map, no containers are left that no instance
  knows of, a lab is not shown as running once an operation on it has gone wrong
  half way, nothing is left "deploying" for ever, and every request returns;
* capture: nobody joins a stream that is going down, no capture runs without a
  watcher, and everybody who waits is answered;
* shells: no session loses its last reference, ended shells leave the list, no
  session is used after it has been closed;
* namespaces and rings: a client that stays connected gets each message once,
  and the backlog is the end of what was sent;
* clabernetes: what the server shows of a node follows the cluster, stopped nodes
  stay stopped, a deployment that succeeds has had all nodes ready, a destruction
  leaves nothing;
* monitor and statistics: nodes that are up are read, nodes that are down are
  dropped, and restarts in between invent no traffic;
* lab, topology and collection services with their storage: a row that is listed
  has its files, whichever step fails, and a lab runs what was checked;
* policy: an answer belongs to what was asked, an accepted topology stays within
  its lab, and what is not known is reported;
* authentication: one account per person, nobody gets the administrator's, sessions
  have accounts, rights are the newest the provider has told.

`PROJECT.json` lists what can go wrong at its line under `hazards`, with the
properties that cover it.

## 2. Modules

| Module | Models | Kind |
|---|---|---|
| `ScheduleOps` | the operations of `utils/schedule.go` as operators on a queue record | operators |
| `ScheduleAbstract` | what a schedule promises: a set of pending items | abstract specification |
| `ScheduleQueue` | the slice and the map under any sequence of calls | component; refines `ScheduleAbstract` |
| `ScheduleQueueProofs` | invariant and refinement for all keys and items | proofs |
| `Scheduler` | the scheduler, the requests that publish lab events, restart | composition: two instances of `ScheduleOps`, lab service and commands, instance service from outside |
| `Instance` | the instance service for one lab, in detail | component |
| `InstanceProofs` | the safety invariants of `Instance` for all constants | proofs |
| `Clabernetes` | the clabernetes provider for one lab, the cluster it drives, and the part of the instance service that follows it | composition |
| `SchedulerProofs`, `ClabernetesProofs`, `TopologyProofs` | the invariants of these modules for all constants | proofs |
| `RuntimeProofs`, `AccessProofs`, `StreamProofs` | the same for `Monitor` and `Shell`, `Policy` and `Auth`, `Namespace` and `Capture` | proofs |
| `Monitor` | the monitor, the reader of statistics and both samplers | composition |
| `Topology` | topologies, bind files, collections and labs: rows, files, and the requests that change both | composition of topology, collection and lab service with storage |
| `PolicyRules` | what a check of a topology reports, and containerlab's inheritance as the reference | operators |
| `Policy` | checks, edits, deletions and the cache | component |
| `Auth` | logins, native accounts, tokens, the table of users | component |
| `Ring` | both ring buffers, and the sequences they stand for | operators |
| `Namespace` | a socket namespace with its backlog | component, uses `Ring` |
| `Capture` | the capture service and the end of the SSH server | component |
| `Shell` | the shell service | component |
| `MCScheduleQueue`, `MCInstance`, `MCClabernetes`, `MCTopology`, `MCPolicy`, `MCAuth`, `MCNamespace` | values and symmetry for TLC | model checking |

Each of the last three proof modules extends two components that share no state, so
`Shell`, `Auth` and `Capture` prefix the names the other one has too (`ShellSpec`,
`AuthTypeOK`, `CaptureClose`).

### ScheduleQueue

`schedule` is the slice, `map` the map. `IsInsertIndex` states what
`sort.Search` returns when its predicate is monotone; the bisection itself, in
the Go library, is not modelled, and `QueueSorted` is the condition under which
the two agree. `remove` looks up the item of the map by identity
(`slices.Index` on pointers). An item is popped once its time is not after the
given one, only from the head.

### Scheduler

One action per step that another goroutine can observe: a request reads and
checks (`Begin...`), commits (`Commit`), runs the two halves of the event
handler (`HandleDeployment`, `HandleDestruction`; each takes the mutex of one
queue) and finishes. The loop has three steps per tick. `tasks` counts the
goroutines the loop started and that have not run. `inst` and `containers` are
the instance service and the provider seen from outside: a deployment or a
destruction takes one step here and many in `Instance`, and one that fails may
leave some of the containers. Only a DeployLab that creates an instance takes
two: it reads the run environment, and then (`CreateInstance`) puts the instance
in the map. It holds `instancesMutex` all the while (`creating`), for which every
look at the map waits (`instancesUnlocked`), but neither row nor run environment
is protected by it. `Restart` loses memory and
keeps database, environments and containers; `Revive` goes through the stored
labs before requests are served. `waiting`, `overtaken` and `contended` are
history variables that properties refer to and no action reads. Which requests
may begin while another is being served on the same lab is the bound
`Overlapping`: with updates in it row and queue may come to differ (section 6),
and the invariants leave such labs (`contended`) out.

### Instance

`pc[p]` is the next step of request `p`, `call[p]` its local variables and `seen[p]`
the provider's last answer. Everything done under `instancesMutex`,
`DeploymentMutex` or `DataMutex` is one step; `opLock` is OperationMutex, held over
many. `dctx` is the deployment context of an instance and `cancelled` the contexts
that were cancelled. Objects are numbered: `instances` is the one in the map, and
requests may hold older ones. Startup listeners form a bag, because several of the
same node may be in the same state. The provider is external: a call may succeed,
fail, or fail having created, replaced or removed the containers of any of the
nodes, and it may do any of these under a cancelled context; containerlab also
succeeds without a node it could not create. `missing` is what an instance's last
inspection, or its revival after a restart, did not find. An event that comes while
an instance has no context yet takes the server down (`EventPanics`, `down`).
`Observed` bounds the nodes whose startup listeners and events are followed. Log
lines, namespaces and addresses are left out.

### Clabernetes

Each request to the Kubernetes API is a step, and so is each step of a
controller: the manager of clabernetes (which creates Deployments and writes the
status of the Topology at its own pace), the Deployment controller, the kubelet
and the namespace controller. They are external and modelled from what the
provider relies on. The two informers and an operation each inspect a node in
three steps (list the pods, list the Deployments, apply the result). `view` is
what the instance service shows; the inspections write to it, and the startup
listeners (`listening`), whose failing probe marks a node stopped whatever the
cluster says (`ProbeFails`, `givenUp`). The state of a node is derived from its pods
and replicas as `podToInspectContainer` does it.

### Monitor

A node is up or down, has a container id, a number of the run and one byte counter
that starts over with each run. The list is keyed by container id, caches, targets
and streams by the name of the node; the docker sampler resolves a container once
and reads its files, the remote one keeps a stream per node with a goroutine that
reads and a ticker that ends it when idle. `Init` chooses the sampler. A startup
listener adds its node under the id the instance has for it at that time: that of
the container, or, as events are late, an older one or none; the entries without an
id share one key (`HasKey`). Bytes reported are compared with bytes passed.

### Topology

Nothing in these services locks, so each access to the database or to a file is
a step. `reg` holds what a request has read and goes on with. Rows are deleted
softly; the unique index on collection and name is part of saving a row. The
directory of a topology has two paths, one of which lies below the other, so
that a file can be in the way of a directory and the other way round. A definition
is written in two steps, because os.WriteFile truncates the file first; what is
left when the writing fails, or when two requests write side by side, is no
definition (`Empty`), and the topology is `damaged` until the next write. A failing
step ends the request with what it has already done in place, half of its own
effect included (`LeftBehind`): a truncated definition or run environment, a bind
file that is there but not whole, some of the run environments gone.

### PolicyRules and Policy

A topology is a record of node definitions, each a function from keys to values.
`check` is the engine's check, rule by rule; `Confined` is the reference: it merges
the definitions of a node the way containerlab does (`Layers`; kind and group may
themselves come from the other layers) and walks paths element by element, and knows
nothing of findings. containerlab's source is not part of the repository, so
`Layers` is external; but as the policy checks every definition, the property does
not depend on which of the layers wins. In `Policy` a caller reads, looks the hash
up, checks and stores in steps of their own, while topologies are edited and
deleted. The hash is taken to be injective.

### Auth

A login through OpenID is four steps: ask the provider, look the account up, create
or update it, register the rights. Creating a native user is two. A restart keeps
rows and tokens and loses the rest, with a fixed secret old tokens stay valid.
Names, and wrong credentials, are left out. The subjects of the provider and the
names of native accounts share the column `sub`, and the subjects of the run include
a native name and "Admin".

### Ring and Namespace

The slots of a `ValueRing` are numbered from 0 and addressed modulo the capacity as
in the code; a `ByteRing` drops whole lines. A connection is listed, gets its
callbacks and is sent the backlog in three steps, and Send copies the clients, adds
to the backlog and emits to one client after the other; connections and sends
overlap in every way the two mutexes allow. `Capacities` includes 0. What clients
send (`handleData`) changes nothing in a namespace and is not modelled here.

### Capture

A stream object has one opener and one reader goroutine; a session is the
goroutine of one SSH client. What is done under `openStreamsMutex`, or under the
mutex of a stream, is one step. `shutdown` runs once under `closeOnce` in two
steps, and whoever calls it meanwhile waits (`once`). The provider's `source` is
external: opening succeeds, fails, or succeeds although its context was
cancelled; a capture may end by itself. Packets are counted only, because what
matters is that a full channel does not hold up the reader.

### Shell

A request takes one step per locked section. `session` is the shell on the node; it
may end, break, or be closed. `inactive` is the set of shells whose
`lastInteraction` is longer ago than the timeout. The id comes from the first unused
model value. `fragile`, one of `ExecSets`, are the shells with a session of
Clabernetes' ExecInteractive, which panics when it is closed or resized after a
close: the namespace recovers a command, which stays without its answer
(`unanswered`), and in a reader, the manager or Close the panic takes the server
down (`down`). `early` are the shells that ended before they were listed. Which node
a shell is on, terminal sizes and the bytes are left out; checking that the lab runs
has no effect on the service.

## 3. Runs

| Run | Question | Bounds |
|---|---|---|
| `ScheduleQueue` | does any sequence of calls break the slice, lose or repeat an item, or leave the abstract specification? | 2 keys, so that duplicates under one key and order between keys both occur; fairness |
| `Scheduler` | are starts and ends kept through moves, manual commands, deletions and a restart, does a deleted lab stay down, is what is due carried out? | 1 lab, clock 0 to 1, 2 goroutines, deployments may overlap other requests, 3 requests, 1 restart; fairness |
| `Instance_deploy` | deployments and destructions that overlap, supersede each other and fail | 3 goroutines, 2 nodes, so that an operation can leave one of them, 4 requests: some that wait for the mutex, one that holds it, one that comes after; no node observed |
| `Instance_nodes` | node commands among them, a container that crashes: does every request end, do statistics stop? | 2 goroutines, 1 node, observed, all node commands, 2 requests, 1 crash; fairness |
| `Clabernetes` | does what the server shows follow the cluster, and what may rely on a deployment, a stop, a destruction that succeeded? | 1 node, 2 pods (a pod and its replacement), 3 operations, 1 failing request, failing probe, lost pod or restart |
| `Monitor` | which restarts of a node confuse list, caches and streams? | 1 node, 2 starts (same or new container), 2 bytes, 3 streams at a time, 1 sample that fails; fairness |
| `Topology` | what do requests that overlap, or fail half way, leave behind in rows and files? | 2 goroutines, 2 collections, topologies, names and bind files, 1 lab, 4 requests, or 3 when two of them run side by side, 2 failing steps |
| `Policy` | is an answer that of the question, and what does the policy accept? | 2 requests, 3 edits and checks; every topology that sets one key in one definition or two in two, kind and group from every layer, every reference of up to 3 elements |
| `Auth` | what do overlapping logins, failing accesses and restarts do to accounts, sessions and rights? | 2 requests, 2 logins, 3 subjects, of which one is called like the native account "u" and one like the administrator, 1 change of rights, 1 restart, 1 failing access, with and without a fixed secret |
| `Namespace` | which messages may a client miss or get twice? | 2 users (one an administrator), 2 connections, 2 senders, 3 messages, capacities 0 and 2, so that a ring wraps around |
| `Shell` | can a session lose its last reference, do ended shells leave the list, and what takes the server down? | 1 user, 2 goroutines, 2 shells, limit 1, 1 input or resize, sessions that panic and sessions that do not; fairness |
| `Capture` | sessions that share, leave and reopen a capture while it opens, ends or the server closes | 1 interface, 2 sessions, 2 streams (a stream and its successor), channels of capacity 1, so that they fill up; fairness |

All runs pass. The invariants of a data structure, its type invariant among
them, are conjunctions of named parts:

| Run | Properties |
|---|---|
| `ScheduleQueue` | `QueueInv` (`TypeOK`, `QueueSorted`, `RemoveFindsItem`, `HandedOutOnce`), `DueItemsLeave`, `ImplementsPendingSet` |
| `Scheduler` | `QueuesFollowRows` (`TypeOK`, `PendingStartIsQueued`, `RunningLabHasItsEnd`), `DeletedLabsStayDown`, `DueDeploymentRuns`, `EndedLabGoesDown` |
| `Instance_deploy` | `DestroyedIsGone` (`DestroyedInstanceIsUnmapped`, `DestroyedStaysDown`, `NoOrphans`), `SettledWhenIdle`, `RunningLabKeepsContainers` |
| `Instance_nodes` | `OperationsInv` (`TypeOK`, `OperationsAreSerialised`), `RequestsEnd`, `StatsStop` |
| `Clabernetes` | `ViewFollowsCluster`, `StoppedStaysStopped`, `DeploymentInv` (`TypeOK`, `RedeployIsFresh`, `DeployedIsReady`), `DestroyedStaysDown` |
| `Monitor` | `StatsInv` (`TypeOK`, `NoPhantomTraffic`, `NoEmptySample`), `MonitoredWhileUp`, `StoppedNodesLeave`, `IdleStreamsEnd` |
| `Topology` | `RowInv` (`TypeOK`, `StoredTopologiesAreReadable` with `TopologiesHaveFiles`, `NamesAreUnique`), `DeletedCollectionsAreEmpty`, `BindFilesExist`, `EnvironmentIsWhatWasChecked` |
| `Policy` | `CheckInv` (`TypeOK`, `CheckIsFresh`, `FailsClosed`), `AcceptedIsConfined` |
| `Auth` | `AccountInv` (`AuthTypeOK`, `OneAccountPerSubject`, `NativeAdminStays` with `NativeEntryStays` and `NativeAccountIsKept`), `SessionsHaveAccounts`, `NoStaleRights` |
| `Namespace` | `ClientInv` (`TypeOK`, `SingleConnectionIsMapped`), `BacklogIsTheEnd`, `DeliveryInv` (`MissedOnlyUnderWay`, `TwiceOnlyWhileConnecting`) |
| `Shell` | `ShellInv` (`ShellTypeOK`, `NoSessionIsLost`, `EndedShellsAreOff`, `OnlyExecSessionsPanic`), `EndedShellsLeave` |
| `Capture` | `StreamInv` (`CaptureTypeOK`, `RegisteredStreamsAreLive`, `NoCaptureIsLeaked`, `RefusedOnlyByClose`), `WaitersAreAnswered`, `StoppedNodesEndCaptures`, `CloseEndsSessions` |

Two goroutines suffice for every pairwise race on one mutex, one row or one map
entry, and three let an operation wait behind one that waits; the third request
makes a successor of a destroyed instance or a second version of a topology appear.
One restart or fault at every step shows what that step leaves behind; two faults in
a row occur in `Topology` and, without a bound, at the provider of
`Instance_deploy`. The largest run, `Clabernetes`, has some ten million distinct
states; each takes less than four minutes with two workers. The proofs of section 5
remove the bounds for all invariants. Deadlock checking is off where requests are
bounded and the server may have nothing left to do.

Where the code leaves a window open, a property names the window and a history
variable marks what went through it (`contended`, `overtaken`, `stray`, `misled`,
`givenUp`, `missing`, `raced`, `misread`, `missable`, `doubled`, `shared`, `reread`,
`overlapped`, `damaged`, `orphans`, `early`), so that it says that this is the only
way to break the promise. Section 6 lists the windows.

## 4. Fairness

`Scheduler!Fairness`: the loop is one goroutine that sleeps and goes on,
goroutines that were started run, time passes, and a request in progress goes
on. Nothing obliges a client to send a request or the provider to succeed.
`Instance!Fairness`: calls of the provider return, a mutex that is released
goes to one of its waiters (Go's mutexes do not starve), a startup probe ends
after its ten minutes, the monitor polls each second and drops a node whose
statistics are bound to fail.
`Capture!Fairness`: goroutines that can go on do, the provider answers an
opening whose context is cancelled, and a client that is gone is noticed (by the
context or a probe). No client is obliged to read: a session blocked in a write
stays there until its connection ends.
`Monitor!Spec`: Run and the goroutine of each stream go on, and the ticker of a
stream fires. Nodes are not obliged to start, stop or deliver.
`Shell!Fairness`: goroutines go on, the manager sweeps every five seconds, and a
shell nobody types into becomes inactive. No fairness is left, and none is needed,
once the server is `down`. All are weak fairness of one goroutine, or of one
external actor, each. `RequestsEnd`, `StatsStop` and `DueDeploymentRuns` say of a
state that it is always reached again.

## 5. Proofs

`ScheduleQueueProofs`:

* `ScheduleInvariant`: `Spec => []QueueInv`.
  The slice is ordered, each item of the map is in the slice, and no item is in
  the slice twice or handed out again. The inductive invariant adds that items
  in the slice were scheduled and not handed out, which is what keeps the
  slice free of repetitions. Assumed: keys and times of items are of their
  types.
* `ScheduleRefinement`: `Spec => ScheduleAbstract!Spec` under the mapping that
  forgets order and map.

`InstanceProofs`:

* `InstanceInvariant`: `Spec => [](OperationsAreSerialised /\ DestroyedIsGone /\
  SettledWhenIdle)`, for any set of goroutines and nodes and any bounds, and its
  corollary `DestroyedInstancesAreGone`. `InstanceAssumption` says that the
  values standing for "free" and "no instance" are not goroutines or numbers, and
  that observed nodes are nodes.
  They are not inductive together. `Inv` adds: who is in a step that holds
  the mutex is its holder and the other way round (`LockInv`); what the map and
  the requests hold are instances that exist (`MapInv`); a deployment's
  context is the instance's unless it was cancelled (`ContextInv`);
  an instance in state deploying or stopping has a request that will settle it
  (`SettleInv`), which is why an aborted deployment may leave the state alone;
  and the containers of an unmapped lab are gone unless a destruction went on
  with a destroyed instance (`ContainerInv`).
* `OperationsInvariant`: `Spec => []OperationsInv`. Listeners and the event callback
  write to nodes without the mutex, after the instance may have been destroyed;
  `DataInv` follows what they carry with them (`StartupListener`, `FetchedEvent`)
  from where they got it to where they use it, through the bag of listeners.
* `RunningLabsKeepContainers`: `Spec => []RunningLabKeepsContainers`, whichever part
  of the containers a failed or aborted operation leaves. `UpInv` says that the
  absent containers of a running instance are those its last inspection did not
  find (`Covered`), follows them from the provider's answer through the inspection
  to the state "running", and adds that a deployment at the provider keeps the
  instance deploying. Only such a deployment or a destruction takes containers
  away, and by `Inv` it has the one instance that is not destroyed to itself
  (`OneInstance`, `UpAlone`); all other steps keep them (`KeepsContainers`).

`ClabernetesProofs`, for any finite set of nodes and any bounds:

* `NothingComesBack`: `Spec => []DestroyedStaysDown`, `StoppedNodesStayStopped`:
  `Spec => []StoppedStaysStopped`, `DeploymentInvariant`: `Spec => []DeploymentInv`,
  `EveryChangeIsNoticed`: `Spec => []ViewFollowsCluster`. `ClabernetesAssumption`
  says that nodes are finitely many and that `None` is no node, number or status.
  `OpInv` relates the step of an operation to the state of the instance, `FetchInv`
  who inspects what and when inspections overlap. A namespace that is gone is empty
  (`GoneInv`), so nothing is adopted by the next deployment. A stopped node is
  labelled or its Topology is gone, and already is between the two patches
  (`StopInv`); that is what the order of the patches is for. A status that ends the
  wait was written when all nodes were ready (`ReadyInv`), and pods are numbered, so
  that those of before a redeployment can be told from new ones (`FreshInv`). The
  last theorem is the longest. `ViewFollowsCluster` speaks of moments at which
  nothing is under way, so it has to be found in all others: what an inspection has
  listed so far still has the shape of the cluster, or there is an event that will
  start another one (`CurrentInv`), and a node whose shown state differs has an
  event, an inspection or an operation that will see to it, or is shown stopped
  because a startup listener gave up on it since its last inspection (`Shown`,
  `FollowInv`). The step of the cluster is one lemma: it changes what an inspection
  says only with an event (`Noticed`), which is proved of `Reported` for pods and of
  the replicas.

`TopologyProofs`, for any number of requests, collections, topologies, bind files,
labs and faults:

* `RowInvariant`: `Spec => []RowInv`, `CheckedIsDeployed`: `Spec =>
  []EnvironmentIsWhatWasChecked`, `CollectionsAreDeletedWhole`: `Spec =>
  []DeletedCollectionsAreEmpty`, `BindFilesHaveFiles`: `Spec => []BindFilesExist`.
  Assumed (`TopologyAssumption`): values of different kinds differ, and so does
  `None` from all of them; what stands for a truncated file is no definition. The
  invariants do not follow from the tables alone: each step says what the request
  has made sure of before it (`LocalOK`: what it is about exists, and a row is saved
  after its files; `LabOK` and `OneCreator`: a lab has one creator and no row before
  the last step; `CheckedOK`: what was checked is what is read again unless it was
  rewritten). A definition is empty only while a request writes it or after a write
  that went wrong (`EmptyInv`); only `SaveDefinition` ends the first, and it writes
  a definition or marks the topology `damaged`. The last two theorems also need what
  a request may rely on while it is the only one (`OneRequest`, `CollectionOK`), and
  while nothing has failed (`BindOK`, `FilesInv`: paths do not clash, and a bind
  file is without its file only while a request is at it).

`SchedulerProofs`, for any labs, goroutines, times and bounds:

* `QueuesFollowRowsHolds`: `Spec => []QueuesFollowRows`, `DeletedStaysDown`: `Spec
  => DeletedLabsStayDown`. Assumed (`SchedulerAssumption`): times are numbers of
  seconds, `NoTime` is none of them and `NoLab` no row. Both queues have the shape
  the map relies on (`GoodQueue`, `ShapeOK`), in terms of `ScheduleOps`: its
  operations add, drop or pop one entry and leave those of other labs alone (`Adds`,
  `Drops`, `Pops`). A step concerns one lab, so the rest of the invariant is stated
  lab by lab, and what holds of the others is kept by one lemma (`ElsewhereKeeps`).
  Of a lab no two requests have worked on at once, `Inv` says what a request knows
  of its row (`RowOK`), that the deployment queue has at most one entry, which the
  map finds (`EntryOK`), where a lab that waits for its start is on its way into the
  queue (`WaitingOK`), and who is about to queue the end of a lab that is up
  (`EndOK`). `DeletedLabsStayDown` needs `FreshOK` and `DeletedOK` only, and holds
  of all labs: a lab without a row has no run environment, without which DeployLab
  creates nothing, or nothing queued or under way that would deploy it, or is being
  created by a deployment that read the run environment in time. `Starting` counts
  that one among the labs about to be up.

`RuntimeProofs`, for any nodes and stream slots, any number of starts, bytes and
faults, and for any users, goroutines, shells and limits:

* `StatsAreMeasured`: `Spec => []StatsInv`, `AddedNodesAreMonitored`: `Spec =>
  []MonitoredWhileUp`. Assumed (`MonitorAssumption`): `None` is nothing else. What is
  reported never exceeds what passed, although a counter starts over with each run
  and a sample may be older than the run it is compared with. So `FlowInv` gives each
  sample that is still on its way, to Run or in a stream, the bytes `b` that had
  passed before its container (`Within`), and says that reporting it is safe against
  the sample kept from before (`Fits`). `AddedInv` says of a node that was not `raced`
  that what is in the caches and in Run's hands is of the container that is up, and
  that its entry has a key no other entry has.
* `ShellInvariant`: `ShellSpec => []ShellInv`. That no session is lost is inductive
  once it is known that a request that opens has a user (`OpenersAreUsers`) and that
  Close runs once (`NothingLeftBeforeClose`). That ended shells are off the list
  needs `ListInv`: a listed shell has a session that nobody has closed, unless it
  ended early (`MayBeListed`); a shell that is about to be entered is known to one
  request only; and whoever closes a session has taken its shell off the list
  before.

`AccessProofs`, for any topologies and bind files, and for any users, logins,
restarts and faults:

* `ChecksAreFresh`: `Spec => []CheckInv`, `AcceptedStaysConfined`: `Spec =>
  []AcceptedIsConfined`. `PolicyAssumption` says that the elements of a reference and
  the paths of files are names (`WellFormed`); nothing bounds the definitions of a
  topology or the length of a path. `AcceptedMeansConfined` is about the rules alone: a
  topology without findings is confined. Each field containerlab takes from a layer
  is one of a definition that was checked (`FieldsComeFromDefinitions`,
  `UnreportedDefinition`), and a reference that is local once it is cleaned leads
  below the directory of its topology, however it turns on its way (`CleanIsWalk`).
  Both paths are computed by recursive functions; that they exist, and that they
  stay in step, is proved by taking a least position at which they do not
  (`LeastNatural`). `CacheInv` then follows the findings through cache and requests.
* `AccountInvariant`: `AuthSpec => []AccountInv`, `AcceptedTokensHaveAccounts`:
  `AuthSpec => []SessionsHaveAccounts`, `RightsAreCurrent`: `AuthSpec =>
  []NoStaleRights`. The strengthening says what a login has made sure of when it
  registers (`CallInv`), that only one request creates the account of a subject
  unless first logins overlapped or a native account has its name (`CreatorInv`),
  that only a subject called "Admin" is given the id of the native administrator
  (`NativeInv`; ids that are handed out are fresh), and that every entry in memory
  has a row, a write under way, or was left by a write that failed (`EntryInv`).

`StreamProofs`, for any users, connections, senders and capacities, and for any
interfaces, sessions and stream objects:

* `ClientsAreMapped`: `Spec => []ClientInv`, `BacklogStaysTheEnd`: `Spec =>
  []BacklogIsTheEnd`, `DeliveryIsOnce`: `Spec => []DeliveryInv`. Assumed
  (`NamespaceAssumption`): administrators are users, capacities are natural numbers
  (0 among them). Every message to everyone is, for every listed client, sent, read,
  still with a sender, in the backlog the client is about to read, or `missable`
  (`Accounted`); and what could reach a client twice was sent while it was
  connecting (`TwiceInv`). For the rings, `RingInv` relates the slots to the end of
  the list of all that was added: a window of a value ring grows or moves by one
  modulo the capacity (`Window`), a byte ring is what follows the end of a line
  (`ByteInv`). What Send goes through is a list without repetitions also when it is
  filtered for administrators (`SelectionList`).
* `CaptureInvariant`: `CaptureSpec => []StreamInv`. The receivers of a stream are the
  sessions that are subscribed to it (`ReceiversInv`); how far openStream is says
  whether source and reader are there (`OpenerInv`); shutdown closes the source it
  found (`ShutdownInv`); a stream outside the registry is shut down by somebody
  (`Owned`); and a stream that is shut down before its source is installed has nobody
  left (`AbandonedInv`), which is why nobody is refused but by Close.

Every invariant a run checks is stated by a theorem, and so are the action property
`DeletedLabsStayDown` and the refinement of the schedule.

Only model-checked are the eleven properties of fairness, for which the prover has no
rules: `DueItemsLeave`, `DueDeploymentRuns`, `EndedLabGoesDown`, `RequestsEnd`,
`StatsStop`, `StoppedNodesLeave`, `IdleStreamsEnd`, `EndedShellsLeave`,
`WaitersAreAnswered`, `StoppedNodesEndCaptures` and `CloseEndsSessions`.

## 6. Deviations the models reach

These statements of comments, tests or names fail in the models, or hold only
with the exemption a property names. No run asks for them; they are recorded here
with the line they are about, and most follow from the same few causes: values
used after their mutex was released, whole rows saved from old copies, and
several steps without a way back.

Scheduler:

* *A deleted lab is removed from both queues* (`main.go:116`). Both
  `lab.created` and the loop queue the destruction, so a lab started on schedule
  has two entries, and `Remove` takes out the one the map knows. The other one
  later calls DestroyLab for a lab that is gone, which is refused.
* *A manual destruction only concerns the destruction queue*
  (`runtime/instance/service.go:151`). It publishes `lab.deleted`, whose handler
  also withdraws the scheduled start.
* *A redeployment leaves everything as-is* (`runtime/instance/service.go:156`).
  `lab.manually-deployed` adds another destruction entry.
* *Running labs are not deleted* (`domain/lab/service.go:340`). The loop may
  deploy the lab between `CanDelete` and the deletion of the row. A DeployLab that
  has read the run environment (`instance/service.go:557`) puts the instance in the
  map at `:614`, whatever `domain/lab/service.go:341-357` has deleted in between: a
  deleted lab comes up. `DeletedLabsStayDown` therefore speaks of labs whose row is
  gone, that have no instance and of which none is being created.
* *A lab with no end time must keep running* (`test/scheduler_test.go:251`).
  DeployLabCommand clears the end of a lab that has ended
  (`runtime/instance/service.go:166`) and publishes `lab.manually-deployed`; its
  handler schedules nothing for a nil end and leaves the entry of the old end,
  whose pop destroys the lab (`runtime/scheduler/scheduler.go:170`).
* *The scheduler must destroy the lab once its end time passes*
  (`test/scheduler_test.go:117`). Deployment and destruction are goroutines of
  their own: the second may run first, find no instance and return, and its entry
  is gone (`scheduler.go:122`).
* *Queues and rows agree.* Two concurrent moves of one lab may commit in one order
  and publish in the other, and the queue then holds the older start. Update
  saves the whole row, so a renaming that read it before a move writes the old
  times back, while the queues keep the new ones (`domain/lab/service.go:284`).
  `PendingStartIsQueued` and `RunningLabHasItsEnd` leave such labs out.

Instance:

* *Pending deployments are cancelled before an instance is destroyed*
  (`runtime/instance/service.go:460`). DestroyLab does not look at IsDestroyed
  once it has the mutex. A second one goes on with an instance that is gone, and
  Provider.Destroy, which goes by the name of the lab, takes the containers of
  the next instance, whose deployment nobody has cancelled (`stray`).
* *Ready nodes run* (`runtime/instance/instance.go:76`). The event of a stopped
  container sets the state and leaves `IsReady`.
* *A node that is not running has no container id* (`instance.go:85`). A startup
  probe that fails marks the node stopped and keeps the id.
* *Startup listeners are tied to the life of the deployment* (`instance.go:27`).
  A listener whose probe succeeded under a cancelled context goes on under the
  context of the next deployment.
* *DeploymentCtx is the context of the current deployment* (`instance.go:26`).
  An instance is in the map at `service.go:614` and gets its first context at `:625`.
  A node command in between hands the provider a nil context, and a container event
  (`:801-834`) makes containerlab's inspection panic in a goroutine nothing
  recovers, which ends the server (`EventPanics`). `RequestsEnd` and `StatsStop` end
  there.
* *A lab that is running has its nodes.* A node that an inspection does not find is
  marked stopped and the deployment goes on (`service.go:1189-1196`); one that is
  not found when the server starts is passed over and the lab revived as running
  (`service.go:1343-1349`). `RunningLabKeepsContainers` leaves these nodes out
  (`missing`).
* *State is the current state of the node* (`instance.go:73`). A container that
  stops between an inspection and the update of the nodes has had its event
  handled before; the old state stays until the next event or inspection.

* *A node command leaves the node in the state it reached.* A StopNode or
  RestartNode that fails leaves it "stopping", in which later commands are refused
  (`service.go:304`).
* The event callback finds a node by its name in all instances
  (`service.go:811`): with two labs that share a name the wrong one may be
  updated. The models have one lab.

Clabernetes:

* *The state of a node follows the cluster.* Of two inspections side by side the
  older may be applied last (`service.go:1160`); an event that arrives after the
  listener is registered and before the instance is revived is lost
  (`service.go:102`); after a failed destruction the context of the instance stays
  cancelled, and inspections fail. `ViewFollowsCluster` leaves these nodes out
  (`misled`). A startup listener whose probe fails marks its node stopped without an
  event (`service.go:878-886`): a node that runs is shown stopped until it is
  inspected for another reason. The property says so (`givenUp`).
* A pod replaced by one in the same state keeps the container id of the old one
  (`service.go:1154`), and a failed pod beside its replacement are two entries of
  one node, of which any may be taken (`clabernetes.go:800`).
* RestartNode of a stopped node deletes no pod and starts none
  (`clabernetes.go:657`).
* Deploying a lab whose Topology exists, as when its instance was not revived after
  a restart, may read the status of before and return at once
  (`clabernetes.go:932`, `adopted`).
* Closing a session of ExecInteractive twice closes a closed channel
  (`clabernetes.go:1172-1176`), and resizing it afterwards sends on one (`:1189`); see
  shells below.

Monitor and statistics:

* *Nodes that are up are monitored.* Run removes by container id what it failed to
  read by name: a node that has restarted and been added again in between is removed
  for good. So is one whose first sample takes more than ten seconds, or whose
  stream is found idle in a round of more than thirty (`sampler_remote.go:94`,
  `:166`), and one that is added without an id while another is on the list without
  one (`runtime/instance/service.go:1011`). `MonitoredWhileUp` leaves these out
  (`raced`).
* A pod that is replaced without a failing sample in between leaves an entry under
  its old id that shares the samples of the new one (`monitor.go:69`).
* An error other than "does not exist" keeps the resolved container
  (`sampler_docker.go:85`).

Topologies, collections and labs:

* *The topology can change after the lab was created* (`domain/lab/entity.go:22`).
  SetLastDeployFailed saves the copy of the row the lab was created with: a rename
  or a move since is taken back, a deleted topology is inserted again
  (`domain/topology/service.go:438`).
* *The definition of a topology can be read.* os.WriteFile truncates before it writes
  (`storage/manager.go:203-212`): a reader that comes in between, an update that fails
  there, and two updates side by side leave a listed topology with a definition
  that cannot be parsed; a failed update stays so until the next one (`damaged`).
* Moving a bind file to a path below or above an existing one removes the old file
  before the write fails (`service.go:370`); the directory a deleted "a/b" leaves
  is in the way of a file "a".
* Two requests may create a bind file at the same path (`service.go:286`), an
  update beside a deletion saves the row again without its file, and a topology
  created while its collection is deleted stays without one (`service.go:98`).
* The topology may be rewritten between the check and the second reading
  (`domain/lab/service.go:371`, `reread`).

Policy and authentication:

* A check that ends after its topology was forgotten stores findings nobody removes
  (`policy/cache.go:44`). Ids are not used again.
* *One account per user.* Two first logins that overlap create two rows with one
  subject (`domain/user/service.go:81`, `raced`). A native user created again after
  a restart gets a second row.
* *The native administrator has its own account.* Subjects, names of native users and
  "Admin" share the column `sub`, and nothing keeps them apart. GetBySub
  (`domain/user/service.go:81-97`) gives a subject "Admin" of the provider the row of
  the native administrator (`:33-36`), and RegisterUser replaces the entry of
  NativeUserID with the rights the provider told (`auth/manager.go:297`), until the
  next restart. In the same way a subject called like a native user gets that user's
  account. `NativeAdminStays` says that the entry is never lost, that only such a
  login changes its rights, and that no other subject is given it;
  `OneAccountPerSubject` leaves out the subjects in `NativeSubs`.
* CreateNativeUser registers before it writes: if that fails, the user can log in
  without a row and the name is taken until a restart (`service.go:133`). The same
  holds for the native administrator if the database fails at the start
  (`service.go:32`). These are the `orphans`.
* Of two overlapping logins of one user the older answer of the provider may be
  registered last (`auth/manager.go:297`, `overtaken`).

Namespaces:

* A user with two connections loses the entry in the map with the first that
  closes, and SendTo no longer reaches the other (`socket/namespace.go:346`,
  `shared`).
* A connection that closes between being listed and getting its callback stays
  listed (`namespace.go:333`).
* A client listed between the two halves of a Send misses the message
  (`missable`), one that has not read the backlog may get it twice (`doubled`;
  `namespace.go:231`).
* Data sent by a client to an output-only namespace panics in its handler and is
  never answered; neither is a command whose service panics (`namespace.go:323-330`).

Capture and shells:

* *Every interface is only captured once* (`sshserver/capture.go:34`). The last
  session takes the stream out of the registry before it stops the capture; a
  new session opens a second one in between.
* *The limit per user is enforced* (`test/socket_cmd_shell_test.go:310`). Two
  requests count before either has entered its shell.
* *A shell whose reader has seen EOF must no longer be listed*
  (`test/socket_cmd_shell_test.go:844`). The reader is started before the shell is
  entered; if it ends first, the closed shell is entered, listed and counted until
  it times out (`early`), which is why `EndedShellsLeave` relies on the manager.
* *Closing a shell that has ended is harmless.* If its session is one of
  Clabernetes' ExecInteractive, the second close panics
  (`deployment/clabernetes.go:1175`), and so does a resize (`:1189`). The user who
  closes an early shell gets no answer, since the namespace recovers the panic
  (`socket/namespace.go:323-330`); when it is the manager, Close or a reader, the
  server goes down. `OnlyExecSessionsPanic` says that nothing else does.
* *Close terminates all open shells* (`runtime/shell/service.go:129`). A shell
  that is being opened is entered after the map was taken, when the manager has
  stopped; it stays open until the process exits.

## 7. Not modelled

* HTTP decoding, routing, OpenAPI documents, configuration, schemas, devices,
  status messages and logging: I/O, or read-only after the start, without state of
  their own. The order of start-up is part of `Scheduler`.
* containerlab: command lines, log streams and exec sessions are I/O; what a call
  may do to containers is in `Instance`, packet sources in `Capture`. The dummy
  provider stands in for it in tests.
* Access checks: conditions on a request that change no state. Those of namespaces
  and of logins are modelled.
* `Service.Close` and GetInstanceNode of the instance service; several labs in
  `Instance` (names of nodes shared between labs).
* Create and Update of collections, which change one row.
* The branches of the command handler (`runtime/commands/handler.go`) and the
  answers to clients: what a command changes is modelled in the module of the service
  it calls, that a panicking one stays without its answer in `Shell`.
* Reserved names, permissions and parsing of files; the formats under `/proc` and
  `/sys`; the OpenID exchange.
* Unused code: anonymous namespaces, `ByteRing.Add`, `ValueRing.AddMany`.

## 8. Plan

The modules cover the components with state, and every safety property of a run
has its theorem. What is left:

1. Several labs in `Instance`, for what the event callback does when labs share the
   name of a node, with the theorems of `InstanceProofs` carried over lab by lab.
2. The whole row SetLastDeployFailed saves (section 6, the one hazard no property
   covers): `Topology` and the deployments of `Instance` composed.
3. `Scheduler` with `Instance` in the place of the steps that stand for it, and the
   proof that `Instance` implements them.
4. The eleven properties of fairness, once the prover has rules for `ENABLED` and
   weak fairness; until then their bounds are those of section 3.
