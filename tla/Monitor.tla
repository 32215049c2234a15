------------------------------- MODULE Monitor -------------------------------
(***************************************************************************)
(* The monitor of the nodes (src/src/runtime/instance/monitor.go) with the *)
(* statistics it reads: the reader that turns counters into rates          *)
(* (deployment/stats.go) and the two samplers, the one that reads the      *)
(* files of a local container (sampler_docker.go) and the one that keeps a *)
(* stream open to a remote one (sampler_remote.go).                        *)
(*                                                                         *)
(* A sample is reduced to the byte counter of one interface, and a rate to *)
(* the bytes it stands for.  The list of monitored nodes is keyed by       *)
(* container id, everything below it by the name of the node; that a node  *)
(* restarts, with the same container or with another one, between any two  *)
(* steps is what the model is about.                                       *)
(***************************************************************************)
EXTENDS Naturals, FiniteSets

CONSTANTS
  Nodes,
  None,
  Slots,        \* bound: room for the streams that exist at the same time
  MaxStarts,    \* bound: starts of a node in a run
  MaxBytes,     \* bound: bytes that pass in a run
  MaxFaults     \* bound: samples that fail although the node is up

ASSUME MonitorAssumption ==
  /\ MaxStarts \in Nat
  /\ MaxBytes \in Nat
  /\ MaxFaults \in Nat
  /\ None \notin Nat \cup Slots
  /\ None \notin [id : Nat, node : Nodes] \cup [id : Nat, run : Nat]

VARIABLES
  provider,     \* "docker" or "remote": which sampler the server uses
  node,         \* external: the container of every node
  due,          \* the startup listeners that will still add their node, one for every start
  monitored,    \* Monitor.monitoredNodes; a node without a container id has 0
  poll,         \* where Monitor.Run is
  closed,       \* Service.Close has cancelled Run and called Monitor.Close
  nodeCache,    \* StatsReader.nodeCache: the counter of the last sample
  targetCache,  \* dockerSampler.targetCache
  streams,      \* remoteSampler.streams: the slot of the node's stream
  stream,       \* the streams
  faults,       \* number of faults so far
  passed,       \* history: the bytes that have passed
  reported,     \* history: the bytes the rates sent to clients stand for
  raced,        \* history: the nodes AddNode found an entry of, or in the place of, or a sample of which failed
  misread       \* history: the nodes last added under another id than that of their container

vars == <<provider, node, due, monitored, poll, closed, nodeCache, targetCache, streams, stream, faults,
          passed, reported, raced, misread>>
readerVars == <<nodeCache, targetCache, streams, stream>>
history == <<passed, reported, raced, misread>>

Idle == [at |-> "wait", todo |-> {}, entry |-> None, target |-> None, value |-> None]
Free == [at |-> "free", node |-> None, run |-> None, latest |-> None, ready |-> FALSE, done |-> FALSE,
         cancelled |-> FALSE]

Init ==
  /\ provider \in {"docker", "remote"}
  /\ node = [n \in Nodes |-> [up |-> FALSE, run |-> 0, id |-> 0, bytes |-> 0]]
  /\ due = {}
  /\ monitored = {}
  /\ poll = Idle
  /\ closed = FALSE
  /\ nodeCache = [n \in Nodes |-> None]
  /\ targetCache = [n \in Nodes |-> None]
  /\ streams = [n \in Nodes |-> None]
  /\ stream = [s \in Slots |-> Free]
  /\ faults = 0
  /\ passed = [n \in Nodes |-> 0]
  /\ reported = [n \in Nodes |-> 0]
  /\ raced = {}
  /\ misread = {}

-----------------------------------------------------------------------------
(***************************************************************************)
(* External: the nodes                                                     *)
(***************************************************************************)
(* A node starts, in its container or in a new one; its counters start     *)
(* over.  A startup listener waits for it.                                 *)
NodeStarts(n) ==
  /\ ~node[n].up
  /\ node[n].run < MaxStarts
  /\ \E id \in {node[n].id, node[n].id + 1} :
       /\ id > 0
       /\ provider = "remote" => id = node[n].id + 1
       /\ node' = [node EXCEPT ![n] = [up |-> TRUE, run |-> @.run + 1, id |-> id, bytes |-> 0]]
       /\ due' = due \cup {[node |-> n, run |-> node[n].run + 1]}
  /\ UNCHANGED <<provider, monitored, poll, closed, readerVars, faults, history>>

NodeStops(n) ==
  /\ node[n].up
  /\ node' = [node EXCEPT ![n].up = FALSE]
  /\ UNCHANGED <<provider, due, monitored, poll, closed, readerVars, faults, history>>

Traffic(n) ==
  /\ node[n].up
  /\ passed[n] < MaxBytes
  /\ node' = [node EXCEPT ![n].bytes = @ + 1]
  /\ passed' = [passed EXCEPT ![n] = @ + 1]
  /\ UNCHANGED <<provider, due, monitored, poll, closed, readerVars, faults, reported, raced, misread>>

-----------------------------------------------------------------------------
(***************************************************************************)
(* AddNode, RemoveNode and Close                                           *)
(***************************************************************************)
Entries(n) == {e \in monitored : e.node = n}

(* Run is, or will be in this round, at an entry of the node. *)
InRound(n) == \E e \in poll.todo \cup {poll.entry} : e # None /\ e.node = n

(* The key of the list is the container id.  Ids are numbered by node, but  *)
(* the empty one (0) is the same for all.                                  *)
HasKey(e, id, n) == e.id = id /\ (id = 0 \/ e.node = n)

(* A startup listener adds its node, however late, under the id the        *)
(* instance has for it: that of its container, or as events are late, an   *)
(* older one or none.  An id that is there already keeps its entry.        *)
AddNode(d) ==
  LET n == d.node IN
  /\ d \in due
  /\ due' = due \ {d}
  /\ \E id \in 0 .. node[n].id :
       LET there == {e \in monitored : HasKey(e, id, n)} IN
       /\ monitored' = IF there # {} THEN monitored ELSE monitored \cup {[id |-> id, node |-> n]}
       /\ raced' = IF Entries(n) # {} \/ InRound(n) \/ there # {} THEN raced \cup {n} ELSE raced
       /\ misread' = IF id = node[n].id THEN misread \ {n} ELSE misread \cup {n}
  /\ UNCHANGED <<provider, node, poll, closed, readerVars, faults, passed, reported>>

RemoveNode(e) == monitored' = {x \in monitored : ~HasKey(x, e.id, e.node)}

Close ==
  /\ ~closed
  /\ closed' = TRUE
  /\ monitored' = {}
  /\ UNCHANGED <<provider, node, due, poll, readerVars, faults, history>>

-----------------------------------------------------------------------------
(***************************************************************************)
(* Run                                                                     *)
(***************************************************************************)
(* A second has passed: Run clones the list, or ends. *)
Clone ==
  /\ poll.at = "wait"
  /\ poll' = IF closed THEN [Idle EXCEPT !.at = "ended"] ELSE [Idle EXCEPT !.at = "next", !.todo = monitored]
  /\ UNCHANGED <<provider, node, due, monitored, closed, readerVars, faults, history>>

NextNode ==
  /\ poll.at = "next"
  /\ \/ poll.todo = {} /\ poll' = Idle
     \/ \E e \in poll.todo : poll' = [Idle EXCEPT !.at = "sample", !.todo = poll.todo \ {e}, !.entry = e]
  /\ UNCHANGED <<provider, node, due, monitored, closed, readerVars, faults, history>>

Proceed == poll' = [Idle EXCEPT !.at = "next", !.todo = poll.todo]

(* Mutant: a node that cannot be read stays in the list. *)
KeptOnError ==
  /\ nodeCache' = [nodeCache EXCEPT ![poll.entry.node] = None]
  /\ UNCHANGED monitored
  /\ Proceed

(* The sampler returns an error: the reader forgets the node, and Run      *)
(* removes it.                                                             *)
DroppedOnError ==
  /\ nodeCache' = [nodeCache EXCEPT ![poll.entry.node] = None]
  /\ RemoveNode(poll.entry)
  /\ Proceed

Sampled(v) == poll' = [poll EXCEPT !.at = "send", !.value = v]

(* Mutant: the distance of the two counters, as if they never started over. *)
Distance(current, previous) == IF current < previous THEN previous - current ELSE current - previous

counterDelta(current, previous) == IF current < previous THEN 0 ELSE current - previous

(* compute and Send; the first sample of a node has no rate. *)
Send ==
  LET n == poll.entry.node
      delta == IF nodeCache[n] = None THEN 0 ELSE counterDelta(poll.value, nodeCache[n])
  IN
  /\ poll.at = "send"
  /\ nodeCache' = [nodeCache EXCEPT ![n] = poll.value]
  /\ reported' = [reported EXCEPT ![n] = @ + delta]
  /\ Proceed
  /\ UNCHANGED <<provider, node, due, monitored, closed, targetCache, streams, stream, faults, passed, raced, misread>>

-----------------------------------------------------------------------------
(***************************************************************************)
(* dockerSampler.Sample                                                    *)
(***************************************************************************)
(* getTarget: the container of the node is resolved once. *)
GetTarget ==
  LET n == poll.entry.node IN
  /\ provider = "docker"
  /\ poll.at = "sample"
  /\ \/ /\ targetCache[n] # None
        /\ poll' = [poll EXCEPT !.at = "target", !.target = targetCache[n]]
        /\ UNCHANGED <<targetCache, nodeCache, monitored>>
     \/ /\ targetCache[n] = None
        /\ node[n].up
        /\ targetCache' = [targetCache EXCEPT ![n] = [id |-> node[n].id, run |-> node[n].run]]
        /\ poll' = [poll EXCEPT !.at = "target", !.target = targetCache'[n]]
        /\ UNCHANGED <<nodeCache, monitored>>
     \/ /\ targetCache[n] = None
        /\ ~node[n].up
        /\ DroppedOnError
        /\ UNCHANGED targetCache
  /\ UNCHANGED <<provider, node, due, closed, streams, stream, faults, history>>

(* Mutant: a target without files is kept. *)
TargetKept ==
  LET n == poll.entry.node
      there == node[n].up /\ node[n].id = poll.target.id /\ node[n].run = poll.target.run
  IN
  /\ provider = "docker"
  /\ poll.at = "target"
  /\ \/ there /\ Sampled(node[n].bytes) /\ UNCHANGED <<nodeCache, monitored>>
     \/ ~there /\ DroppedOnError
  /\ UNCHANGED <<provider, node, due, closed, targetCache, streams, stream, faults, history>>

(* readTarget: the files are there as long as the container and its process *)
(* are; a target without files is forgotten.                                *)
ReadTarget ==
  LET n == poll.entry.node
      there == node[n].up /\ node[n].id = poll.target.id /\ node[n].run = poll.target.run
  IN
  /\ provider = "docker"
  /\ poll.at = "target"
  /\ \/ there /\ Sampled(node[n].bytes) /\ UNCHANGED <<targetCache, nodeCache, monitored>>
     \/ ~there /\ targetCache' = [targetCache EXCEPT ![n] = None] /\ DroppedOnError
  /\ UNCHANGED <<provider, node, due, closed, streams, stream, faults, history>>

-----------------------------------------------------------------------------
(***************************************************************************)
(* remoteSampler.Sample                                                    *)
(***************************************************************************)
(* Run has the stream in hand. *)
Held(s) == poll.at = "stream" /\ poll.target = s

(* Run lets go of its stream; a slot whose goroutine has ended is free then. *)
LetGo == stream' = [s \in Slots |-> IF Held(s) /\ stream[s].at = "free" THEN Free ELSE stream[s]]

Unused(s) == stream[s].at = "free" /\ ~Held(s)

(* streamFor: the node's stream, a new one if it has none. *)
streamFor ==
  LET n == poll.entry.node IN
  /\ provider = "remote"
  /\ poll.at = "sample"
  /\ \/ /\ streams[n] # None
        /\ poll' = [poll EXCEPT !.at = "stream", !.target = streams[n]]
        /\ UNCHANGED <<streams, stream>>
     \/ /\ streams[n] = None
        /\ \E x \in Slots : Unused(x)
        /\ LET s == CHOOSE x \in Slots : Unused(x) IN
           /\ stream' = [stream EXCEPT ![s] = [Free EXCEPT !.at = "start", !.node = n]]
           /\ streams' = [streams EXCEPT ![n] = s]
           /\ poll' = [poll EXCEPT !.at = "stream", !.target = s]
  /\ UNCHANGED <<provider, node, due, monitored, closed, nodeCache, targetCache, faults, history>>

(* Once the stream is ready: its latest sample, unless it has ended. *)
ReadStream ==
  LET n == poll.entry.node
      s == stream[poll.target]
  IN
  /\ provider = "remote"
  /\ poll.at = "stream"
  /\ s.ready
  /\ \/ ~s.done /\ Sampled(s.latest) /\ UNCHANGED <<streams, nodeCache, monitored>>
     \/ s.done /\ streams' = [streams EXCEPT ![n] = None] /\ DroppedOnError
  /\ LetGo
  /\ UNCHANGED <<provider, node, due, closed, targetCache, faults, history>>

(* A sample fails although the node is up: a file cannot be read, the      *)
(* resolver fails, the first sample does not come in time or the context   *)
(* has been cancelled.                                                     *)
SampleFails ==
  /\ poll.at \in {"sample", "target", "stream"}
  /\ faults < MaxFaults
  /\ faults' = faults + 1
  /\ DroppedOnError
  /\ raced' = raced \cup {poll.entry.node}
  /\ LetGo
  /\ UNCHANGED <<provider, node, due, closed, targetCache, streams, passed, reported, misread>>

-----------------------------------------------------------------------------
(***************************************************************************)
(* remoteSampler.run: the goroutine of a stream                            *)
(***************************************************************************)
unchangedByStream ==
  <<provider, node, due, monitored, poll, closed, nodeCache, targetCache, passed, reported, misread>>

(* The command is started in the container the node has then. *)
StartStream(s) ==
  /\ stream[s].at = "start"
  /\ LET n == stream[s].node IN
     stream' = [stream EXCEPT ![s].at = IF node[n].up /\ ~stream[s].cancelled THEN "run" ELSE "end",
                              ![s].run = node[n].run]
  /\ UNCHANGED <<unchangedByStream, streams, faults, raced>>

Alive(s) == ~stream[s].cancelled /\ node[stream[s].node].up /\ node[stream[s].node].run = stream[s].run

(* A complete block arrives; a block with a section missing is skipped. *)
StreamDelivers(s) ==
  /\ stream[s].at = "run"
  /\ Alive(s)
  /\ ~stream[s].ready \/ stream[s].latest # node[stream[s].node].bytes
  /\ stream' = [stream EXCEPT ![s].latest = node[stream[s].node].bytes, ![s].ready = TRUE]
  /\ UNCHANGED <<unchangedByStream, streams, faults, raced>>

StreamEnds(s) ==
  /\ stream[s].at = "run"
  /\ ~Alive(s)
  /\ stream' = [stream EXCEPT ![s].at = "end"]
  /\ UNCHANGED <<unchangedByStream, streams, faults, raced>>

(* The steps in which the end of a stream is made known. *)
MarkDone(s) == stream' = [stream EXCEPT ![s].at = "told", ![s].done = TRUE]
MarkReady(s) == stream' = [stream EXCEPT ![s].at = "drop", ![s].ready = TRUE]

Tell(s) ==
  /\ \/ stream[s].at = "end" /\ MarkDone(s)
     \/ stream[s].at = "told" /\ MarkReady(s)
  /\ UNCHANGED <<unchangedByStream, streams, faults, raced>>

(* The stream is taken out of the map if it is still the node's. *)
DropStream(s) ==
  /\ stream[s].at = "drop"
  /\ streams' = [n \in Nodes |-> IF streams[n] = s THEN None ELSE streams[n]]
  /\ stream' = [stream EXCEPT ![s] = IF Held(s) THEN [@ EXCEPT !.at = "free"] ELSE Free]
  /\ UNCHANGED <<unchangedByStream, faults, raced>>

(* Mutant: a stream nobody reads stays open. *)
NeverIdle(s) == FALSE /\ UNCHANGED vars

(* Nobody has read the stream for thirty seconds: its node has left the     *)
(* list, or a round took that long, which counts as a fault.                *)
IdleTimeout(s) ==
  LET n == stream[s].node IN
  /\ stream[s].at \in {"start", "run"}
  /\ ~stream[s].cancelled
  /\ ~Held(s)
  /\ \/ Entries(n) = {} /\ ~InRound(n) /\ UNCHANGED <<faults, raced>>
     \/ /\ Entries(n) # {} \/ InRound(n)
        /\ faults < MaxFaults
        /\ faults' = faults + 1
        /\ raced' = raced \cup {n}
  /\ stream' = [stream EXCEPT ![s].cancelled = TRUE]
  /\ UNCHANGED <<unchangedByStream, streams>>

-----------------------------------------------------------------------------
Run == Clone \/ NextNode \/ Send \/ GetTarget \/ ReadTarget \/ streamFor \/ ReadStream

Stream(s) == StartStream(s) \/ StreamDelivers(s) \/ StreamEnds(s) \/ Tell(s) \/ DropStream(s)

Next ==
  \/ \E n \in Nodes : NodeStarts(n) \/ NodeStops(n) \/ Traffic(n)
  \/ \E d \in due : AddNode(d)
  \/ Close
  \/ Run \/ SampleFails
  \/ \E s \in Slots : Stream(s) \/ IdleTimeout(s)

(* Run and the goroutines of the streams are never stopped for good, and   *)
(* the ticker of a stream fires.                                           *)
Spec ==
  /\ Init
  /\ [][Next]_vars
  /\ WF_vars(Run)
  /\ \A s \in Slots : WF_vars(Stream(s)) /\ WF_vars(IdleTimeout(s))

-----------------------------------------------------------------------------
(***************************************************************************)
(* Properties                                                              *)
(***************************************************************************)
TypeOK ==
  /\ provider \in {"docker", "remote"}
  /\ \A n \in Nodes : node[n].run \in 0 .. MaxStarts /\ node[n].id \in 0 .. MaxStarts
  /\ \A e \in monitored : e.node \in Nodes /\ e.id \in 0 .. MaxStarts
  /\ poll.at \in {"wait", "next", "sample", "target", "stream", "send", "ended"}
  /\ \A n \in Nodes : streams[n] \in Slots \cup {None}
  /\ \A s \in Slots : stream[s].at \in {"free", "start", "run", "end", "told", "drop"}
  /\ \A s \in Slots : stream[s].at # "free" => stream[s].node \in Nodes
  /\ faults \in 0 .. MaxFaults

(* Clients are never told of traffic there was not, through any sequence   *)
(* of restarts in which the counters start over while the reader remembers *)
(* older ones.                                                             *)
NoPhantomTraffic == \A n \in Nodes : reported[n] <= passed[n]

(* A Sample that has waited for a stream gets a sample or an error, never  *)
(* the empty sample of a stream that ended before it delivered one.        *)
NoEmptySample == poll.at = "send" => poll.value # None

(* Clients are told what has been measured: no sample is empty, and no     *)
(* rate stands for more than has passed (stats.go:40-111,                  *)
(* sampler_remote.go:85-153).                                              *)
StatsInv ==
  /\ TypeOK
  /\ NoPhantomTraffic
  /\ NoEmptySample

(* A node that is up and whose startup listener has added it is monitored, *)
(* as long as the monitor is not closed, and under the id of its container *)
(* unless the instance had another when it was added: stale targets,       *)
(* streams and entries of other nodes do not make Run drop it.  Left out   *)
(* are the nodes that have been added while there, or in the hands of Run, *)
(* was an entry of them or under their key, and those of which a sample    *)
(* has failed while they were up.                                          *)
MonitoredWhileUp ==
  \A n \in Nodes \ raced :
    node[n].up /\ ~closed /\ ~(\E d \in due : d.node = n /\ d.run = node[n].run)
      => /\ Entries(n) # {}
         /\ n \notin misread => [id |-> node[n].id, node |-> n] \in monitored

(* A node that stays down leaves the list for good, unless the monitor is  *)
(* closed, when Run no longer looks at what is added.                      *)
StoppedNodesLeave ==
  \A n \in Nodes : <>[](~node[n].up) => <>[](closed \/ Entries(n) = {})

(* The stream of a node that is not monitored any more ends.               *)
IdleStreamsEnd ==
  \A n \in Nodes : <>[](Entries(n) = {}) => <>[](\A s \in Slots : stream[s].at # "free" => stream[s].node # n)
=============================================================================
