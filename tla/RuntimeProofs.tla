--------------------------- MODULE RuntimeProofs ----------------------------
(***************************************************************************)
(* Proofs about the two services that follow the nodes of running labs:    *)
(* module Monitor, for any number of nodes, starts and failures, and module *)
(* Shell, for any number of users, requests and shells.  The two share no  *)
(* state; each part has an inductive invariant of its own.                 *)
(***************************************************************************)
EXTENDS Monitor, Shell, TLAPS

(***************************************************************************)
(* The invariant                                                           *)
(***************************************************************************)
(* Entries of the list, targets, and what a stream is. *)
Entry == [id : 0 .. MaxStarts, node : Nodes]
Target == [id : Nat, run : Nat]
Steps == {"wait", "next", "sample", "target", "stream", "send", "ended"}
PollRecord == [at : Steps, todo : SUBSET Entry, entry : Entry \cup {None}, target : Target \cup Slots \cup {None},
               value : Nat \cup {None}]
StreamRecord == [at : {"free", "start", "run", "end", "told", "drop"}, node : Nodes \cup {None}, run : Nat \cup {None},
                 latest : Nat \cup {None}, ready : BOOLEAN, done : BOOLEAN, cancelled : BOOLEAN]

(* Every variable has its type, and one node at most is in the list        *)
(* without a container id.                                                 *)
ShapeInv ==
  /\ provider \in {"docker", "remote"}
  /\ node \in [Nodes -> [up : BOOLEAN, run : 0 .. MaxStarts, id : Nat, bytes : Nat]]
  /\ \A n \in Nodes : node[n].id <= node[n].run
  /\ due \subseteq [node : Nodes, run : 1 .. MaxStarts]
  /\ monitored \subseteq Entry
  /\ \A x, y \in monitored : x.id = 0 /\ y.id = 0 => x = y
  /\ poll \in PollRecord
  /\ closed \in BOOLEAN
  /\ nodeCache \in [Nodes -> Nat \cup {None}]
  /\ targetCache \in [Nodes -> Target \cup {None}]
  /\ streams \in [Nodes -> Slots \cup {None}]
  /\ stream \in [Slots -> StreamRecord]
  /\ faults \in 0 .. MaxFaults
  /\ passed \in [Nodes -> Nat]
  /\ reported \in [Nodes -> Nat]
  /\ raced \subseteq Nodes

(* Run is at an entry of node n, at one of the steps. *)
AtNode(n, steps) == poll.at \in steps /\ poll.entry.node = n

(* Where Run is says what it has in hand; its entries are in the list.     *)
PollInv ==
  /\ IF poll.at \in {"sample", "target", "stream", "send"} THEN poll.entry \in Entry \ poll.todo ELSE poll.entry = None
  /\ poll.at = "target" => provider = "docker" /\ poll.target \in Target
  /\ poll.at = "stream" => provider = "remote" /\ poll.target \in Slots
  /\ poll.at = "send" => poll.value \in Nat
  /\ ~closed => \A e \in poll.todo \cup {poll.entry} : e # None => e \in monitored

(* A stream that goes on is the node's, and the node's stream is one that  *)
(* exists.  What Run holds stays what it was until Run lets go.            *)
StreamInv ==
  /\ provider = "docker" => \A n \in Nodes : streams[n] = None
  /\ provider = "remote" => \A n \in Nodes : targetCache[n] = None
  /\ \A n \in Nodes : streams[n] # None => stream[streams[n]].at # "free" /\ stream[streams[n]].node = n
  /\ \A s \in Slots :
       /\ stream[s].at # "free" => stream[s].node \in Nodes
       /\ stream[s].at \in {"start", "run", "end"} => ~stream[s].done /\ streams[stream[s].node] = s
       /\ stream[s].at \in {"told", "drop"} => stream[s].done
       /\ Unused(s) => stream[s] = Free
       /\ stream[s].at = "start" => stream[s].latest = None
       /\ stream[s].ready /\ ~stream[s].done => stream[s].latest \in Nat
       /\ stream[s].latest \in Nat /\ stream[s].at # "free" =>
            stream[s].run \in Nat /\ stream[s].run <= node[stream[s].node].run
  /\ poll.at = "stream" =>
       /\ stream[poll.target].node = poll.entry.node
       /\ stream[poll.target].at = "free" => stream[poll.target].done
       /\ streams[poll.entry.node] \in {poll.target, None}
  /\ poll.at = "send" /\ streams[poll.entry.node] # None => stream[streams[poll.entry.node]].latest \in Nat

(* What passed before the node's container was last started. *)
Before(n) == passed[n] - node[n].bytes

(* A sample v of a container before which b bytes had passed: no more than *)
(* b + v has been reported; and if there is a sample to compare it with,   *)
(* that one was of an earlier container or is not larger.                  *)
Fits(n, b, v) ==
  /\ reported[n] <= b + v
  /\ nodeCache[n] # None => reported[n] <= b \/ (nodeCache[n] <= v /\ reported[n] <= b + nodeCache[n])

(* The container is the node's or an earlier one. *)
Within(n, b, v) == (b = Before(n) /\ v <= node[n].bytes) \/ b + v <= Before(n)

FlowInv(n) ==
  /\ node[n].bytes <= passed[n]
  /\ Fits(n, Before(n), node[n].bytes)
  /\ \E b \in 0 .. passed[n] :
       /\ AtNode(n, {"send"}) => Within(n, b, poll.value) /\ Fits(n, b, poll.value)
       /\ \A s \in Slots : streams[n] = s /\ stream[s].latest \in Nat =>
            /\ Within(n, b, stream[s].latest) /\ Fits(n, b, stream[s].latest)
            /\ stream[s].run = node[n].run => b = Before(n) /\ stream[s].latest <= node[n].bytes
            /\ AtNode(n, {"send"}) => poll.value <= stream[s].latest

(* The node is up, and its startup listener has added it. *)
Added(n) == node[n].up /\ ~closed /\ ~(\E d \in due : d.node = n /\ d.run = node[n].run)

(* The node is in the list, under its id if that was known.                *)
HasEntry(n) ==
  /\ Entries(n) # {}
  /\ n \notin misread => [id |-> node[n].id, node |-> n] \in monitored

(* Nothing stale is left of a node that is not in the list, and a node     *)
(* that has been added has a target and a stream of its container.         *)
AddedInv(n) ==
  /\ ~closed /\ Entries(n) = {} /\ ~InRound(n) => targetCache[n] = None /\ streams[n] = None
  /\ \A d \in due : d.node = n => d.run <= node[n].run
  /\ Added(n) =>
       /\ HasEntry(n)
       /\ targetCache[n] \in {None, [id |-> node[n].id, run |-> node[n].run]}
       /\ AtNode(n, {"target"}) => poll.target = [id |-> node[n].id, run |-> node[n].run]
       /\ streams[n] # None =>
            /\ stream[streams[n]].at \in {"start", "run"} /\ ~stream[streams[n]].cancelled
            /\ stream[streams[n]].at = "run" => stream[streams[n]].run = node[n].run
       /\ AtNode(n, {"stream"}) => streams[n] = poll.target

Inv ==
  /\ ShapeInv /\ PollInv /\ StreamInv
  /\ \A n \in Nodes : FlowInv(n)
  /\ \A n \in Nodes \ raced : AddedInv(n)

-----------------------------------------------------------------------------
(***************************************************************************)
(* What a conjunct of the invariant depends on                             *)
(***************************************************************************)
USE MonitorAssumption

(* None is none of the values it stands in for. *)
LEMMA NoneIsNothing ==
  /\ None \notin Nat /\ None \notin Slots /\ None \notin Entry /\ None \notin Target
<1>1. Entry \subseteq [id : Nat, node : Nodes]
  BY DEF Entry
<1> QED BY <1>1 DEF Target

(* Steps that leave the counters of a node, its stream's samples and what  *)
(* Run has sampled of it as they are keep FlowInv; the reader may forget   *)
(* its last sample.                                                        *)
LEMMA FlowFrame ==
  ASSUME NEW n \in Nodes, FlowInv(n),
         node'[n].bytes = node[n].bytes, node'[n].run = node[n].run,
         passed'[n] = passed[n], reported'[n] = reported[n],
         nodeCache'[n] \in {nodeCache[n], None},
         AtNode(n, {"send"})' => AtNode(n, {"send"}) /\ poll'.value = poll.value,
         \A s \in Slots : streams'[n] = s /\ stream'[s].latest \in Nat =>
           streams[n] = s /\ stream'[s].latest = stream[s].latest /\ stream'[s].run = stream[s].run
  PROVE  FlowInv(n)'
<1>1. PICK b \in 0 .. passed[n] :
       /\ AtNode(n, {"send"}) => Within(n, b, poll.value) /\ Fits(n, b, poll.value)
       /\ \A s \in Slots : streams[n] = s /\ stream[s].latest \in Nat =>
            /\ Within(n, b, stream[s].latest) /\ Fits(n, b, stream[s].latest)
            /\ stream[s].run = node[n].run => b = Before(n) /\ stream[s].latest <= node[n].bytes
            /\ AtNode(n, {"send"}) => poll.value <= stream[s].latest
  BY DEF FlowInv
<1>2. Before(n)' = Before(n)
  BY DEF Before
<1>3. ASSUME NEW c, NEW v, Within(n, c, v) PROVE Within(n, c, v)'
  BY <1>2, <1>3 DEF Within
<1>4. ASSUME NEW c, NEW v, Fits(n, c, v) PROVE Fits(n, c, v)'
  BY <1>4 DEF Fits
<1>5. node'[n].bytes <= passed'[n] /\ Fits(n, Before(n), node[n].bytes)'
  BY <1>2, <1>4 DEF FlowInv, Fits
<1>6. AtNode(n, {"send"})' => Within(n, b, poll.value)' /\ Fits(n, b, poll.value)'
  BY <1>1, <1>3, <1>4
<1>7. ASSUME NEW s \in Slots, streams'[n] = s, stream'[s].latest \in Nat
      PROVE  /\ Within(n, b, stream[s].latest)' /\ Fits(n, b, stream[s].latest)'
             /\ stream'[s].run = node'[n].run => b = Before(n)' /\ stream'[s].latest <= node'[n].bytes
             /\ AtNode(n, {"send"})' => poll'.value <= stream'[s].latest
  <2>1. streams[n] = s /\ stream'[s].latest = stream[s].latest /\ stream'[s].run = stream[s].run
    BY <1>7
  <2>2. stream[s].latest \in Nat
    BY <1>7, <2>1
  <2>3. Within(n, b, stream[s].latest) /\ Fits(n, b, stream[s].latest)
    BY <1>1, <2>1, <2>2
  <2>4. Within(n, b, stream[s].latest)' /\ Fits(n, b, stream[s].latest)'
    BY <1>3, <1>4, <2>1, <2>3
  <2>5. stream'[s].run = node'[n].run => b = Before(n)' /\ stream'[s].latest <= node'[n].bytes
    BY <1>1, <1>2, <2>1, <2>2
  <2>6. AtNode(n, {"send"})' => poll'.value <= stream'[s].latest
    BY <1>1, <2>1, <2>2
  <2> QED BY <2>4, <2>5, <2>6
<1> QED
  <2>1. b \in 0 .. passed'[n]
    OBVIOUS
  <2> QED BY <2>1, <1>5, <1>6, <1>7 DEF FlowInv

(* Steps that change no stream and take no node's run back keep StreamInv, *)
(* as long as Run neither takes hold of a stream nor lets go of one.       *)
LEMMA StreamFrame ==
  ASSUME ShapeInv, StreamInv, provider' = provider, streams' = streams, stream' = stream,
         \A n \in Nodes : node'[n].run \in Nat /\ node[n].run <= node'[n].run,
         provider = "remote" => targetCache' = targetCache,
         poll'.at = "stream" \/ poll.at = "stream" => poll' = poll,
         poll'.at = "send" => poll' = poll \/ (provider = "docker" /\ poll'.entry.node \in Nodes)
  PROVE  StreamInv'
<1>1. /\ provider' = "docker" => \A n \in Nodes : streams'[n] = None
      /\ provider' = "remote" => \A n \in Nodes : targetCache'[n] = None
      /\ \A n \in Nodes : streams'[n] # None => stream'[streams'[n]].at # "free" /\ stream'[streams'[n]].node = n
  BY DEF StreamInv
<1>2. ASSUME NEW s \in Slots
      PROVE  /\ stream'[s].at # "free" => stream'[s].node \in Nodes
             /\ stream'[s].at \in {"start", "run", "end"} => ~stream'[s].done /\ streams'[stream'[s].node] = s
             /\ stream'[s].at \in {"told", "drop"} => stream'[s].done
             /\ Unused(s)' => stream'[s] = Free
             /\ stream'[s].at = "start" => stream'[s].latest = None
             /\ stream'[s].ready /\ ~stream'[s].done => stream'[s].latest \in Nat
  <2>1. Unused(s)' => Unused(s)
    BY DEF Unused, Held
  <2> QED BY <2>1 DEF StreamInv, Free
<1>3. ASSUME NEW s \in Slots, stream'[s].latest \in Nat, stream'[s].at # "free"
      PROVE  stream'[s].run \in Nat /\ stream'[s].run <= node'[stream'[s].node].run
  <2>1. stream[s].node \in Nodes /\ stream[s].run \in Nat /\ stream[s].run <= node[stream[s].node].run
    BY <1>3 DEF StreamInv
  <2>2. PICK n \in Nodes : n = stream[s].node
    BY <2>1
  <2>3. node[n].run \in Nat
    BY DEF ShapeInv
  <2> QED BY <2>1, <2>2, <2>3
<1>4. poll'.at = "stream" =>
       /\ stream'[poll'.target].node = poll'.entry.node
       /\ stream'[poll'.target].at = "free" => stream'[poll'.target].done
       /\ streams'[poll'.entry.node] \in {poll'.target, None}
  BY DEF StreamInv
<1>5. poll'.at = "send" /\ streams'[poll'.entry.node] # None => stream'[streams'[poll'.entry.node]].latest \in Nat
  BY DEF StreamInv
<1> QED BY <1>1, <1>2, <1>3, <1>4, <1>5 DEF StreamInv

(* As long as the monitor is not closed, Run has no node in hand that is   *)
(* not in the list.                                                        *)
LEMMA RoundIsListed ==
  ASSUME PollInv, ~closed, NEW n, InRound(n)
  PROVE  Entries(n) # {}
<1>1. PICK e \in poll.todo \cup {poll.entry} : e # None /\ e.node = n
  BY DEF InRound
<1>2. e \in monitored
  BY <1>1 DEF PollInv
<1> QED BY <1>1, <1>2 DEF Entries

(* Run is at an entry of a node. *)
LEMMA AtEntry ==
  ASSUME ShapeInv, PollInv, poll.at \in {"sample", "target", "stream", "send"}
  PROVE  /\ poll.entry \in Entry /\ poll.entry \notin poll.todo /\ poll.entry.node \in Nodes
         /\ InRound(poll.entry.node)
         /\ ~closed => poll.entry \in monitored
<1>1. poll.entry \in Entry /\ poll.entry \notin poll.todo
  BY DEF PollInv
<1>2. poll.entry # None
  BY <1>1, NoneIsNothing
<1> QED BY <1>1, <1>2 DEF PollInv, InRound, Entry

(* Steps that leave a node, its entries, its listeners, its target and its *)
(* stream alone keep AddedInv.                                             *)
LEMMA AddedFrame ==
  ASSUME NEW n \in Nodes, AddedInv(n), PollInv,
         node'[n].up = node[n].up, node'[n].run = node[n].run, node'[n].id = node[n].id,
         due' = due, Entries(n)' = Entries(n), n \in misread' <=> n \in misread, closed \in BOOLEAN, closed => closed',
         targetCache'[n] = targetCache[n], streams'[n] = streams[n],
         streams[n] # None =>
           /\ stream'[streams[n]].at = stream[streams[n]].at
           /\ stream'[streams[n]].run = stream[streams[n]].run
           /\ stream'[streams[n]].cancelled = stream[streams[n]].cancelled,
         AtNode(n, {"target"})' => AtNode(n, {"target"}) /\ poll'.target = poll.target,
         AtNode(n, {"stream"})' => AtNode(n, {"stream"}) /\ poll'.target = poll.target
  PROVE  AddedInv(n)'
<1>1. Added(n)' => Added(n)
  BY DEF Added
<1>2. ~closed' /\ Entries(n)' = {} => targetCache'[n] = None /\ streams'[n] = None
  BY RoundIsListed DEF AddedInv
<1>3. \A d \in due' : d.node = n => d.run <= node'[n].run
  BY DEF AddedInv
<1>4. ASSUME Added(n)'
      PROVE  /\ HasEntry(n)'
             /\ targetCache'[n] \in {None, [id |-> node'[n].id, run |-> node'[n].run]}
             /\ AtNode(n, {"target"})' => poll'.target = [id |-> node'[n].id, run |-> node'[n].run]
             /\ streams'[n] # None =>
                  /\ stream'[streams'[n]].at \in {"start", "run"} /\ ~stream'[streams'[n]].cancelled
                  /\ stream'[streams'[n]].at = "run" => stream'[streams'[n]].run = node'[n].run
             /\ AtNode(n, {"stream"})' => streams'[n] = poll'.target
  <2>1. Added(n)
    BY <1>1, <1>4
  <2>2. Entries(n) # {} /\ (n \notin misread => [id |-> node[n].id, node |-> n] \in Entries(n))
    BY <2>1 DEF AddedInv, HasEntry, Entries
  <2>3. HasEntry(n)'
    <3>1. n \notin misread' => [id |-> node'[n].id, node |-> n] \in Entries(n)'
      BY <2>2
    <3> QED BY <2>2, <3>1 DEF HasEntry, Entries
  <2>4. targetCache'[n] \in {None, [id |-> node'[n].id, run |-> node'[n].run]}
    BY <2>1 DEF AddedInv
  <2>5. AtNode(n, {"target"})' => poll'.target = [id |-> node'[n].id, run |-> node'[n].run]
    BY <2>1 DEF AddedInv
  <2>6. streams'[n] # None =>
          /\ stream'[streams'[n]].at \in {"start", "run"} /\ ~stream'[streams'[n]].cancelled
          /\ stream'[streams'[n]].at = "run" => stream'[streams'[n]].run = node'[n].run
    BY <2>1 DEF AddedInv
  <2>7. AtNode(n, {"stream"})' => streams'[n] = poll'.target
    BY <2>1 DEF AddedInv
  <2> QED BY <2>3, <2>4, <2>5, <2>6, <2>7
<1> QED BY <1>2, <1>3, <1>4 DEF AddedInv

(* Where Run keeps its entries in hand and the list only changes when the  *)
(* monitor is closed, PollInv is kept.                                     *)
LEMMA PollFrame ==
  ASSUME PollInv, provider' = provider, poll' = poll, closed => closed', closed \in BOOLEAN,
         closed' \/ monitored \subseteq monitored'
  PROVE  PollInv'
BY DEF PollInv

-----------------------------------------------------------------------------
(* Nothing runs and nothing has been counted. *)
LEMMA InitInv == Init => Inv
<1> SUFFICES ASSUME Init PROVE Inv
  OBVIOUS
<1> USE DEF Init
<1>1. ShapeInv
  <2>1. poll \in PollRecord
    BY DEF Idle, PollRecord, Steps
  <2>2. stream \in [Slots -> StreamRecord]
    BY DEF Free, StreamRecord
  <2>3. node \in [Nodes -> [up : BOOLEAN, run : 0 .. MaxStarts, id : Nat, bytes : Nat]]
    OBVIOUS
  <2>4. \A n \in Nodes : node[n].id <= node[n].run
    OBVIOUS
  <2>5. faults \in 0 .. MaxFaults
    OBVIOUS
  <2> QED BY <2>1, <2>2, <2>3, <2>4, <2>5 DEF ShapeInv
<1>2. PollInv
  BY DEF PollInv, Idle
<1>3. StreamInv
  BY NoneIsNothing DEF StreamInv, Idle, Free, Unused, Held
<1>4. ASSUME NEW n \in Nodes PROVE FlowInv(n)
  <2>1. 0 \in 0 .. passed[n]
    OBVIOUS
  <2> QED BY <2>1, NoneIsNothing DEF FlowInv, Idle, Fits, Before, AtNode
<1>5. ASSUME NEW n \in Nodes PROVE AddedInv(n)
  BY DEF AddedInv, Added
<1> QED BY <1>1, <1>2, <1>3, <1>4, <1>5 DEF Inv

-----------------------------------------------------------------------------
(***************************************************************************)
(* The nodes                                                               *)
(***************************************************************************)
(* A start of node n: the counters of its earlier containers are part of   *)
(* what has passed before, and its listener has not added it yet.          *)
LEMMA NodeStartsKeeps ==
  ASSUME Inv, NEW n \in Nodes, NodeStarts(n)
  PROVE  Inv'
<1>1. PICK id \in {node[n].id, node[n].id + 1} :
       /\ id > 0
       /\ node' = [node EXCEPT ![n] = [up |-> TRUE, run |-> @.run + 1, id |-> id, bytes |-> 0]]
       /\ due' = due \cup {[node |-> n, run |-> node[n].run + 1]}
  BY DEF NodeStarts
<1>2. /\ node[n].run < MaxStarts
      /\ UNCHANGED <<provider, monitored, poll, closed, nodeCache, targetCache, streams, stream, faults,
                     passed, reported, raced, misread>>
  BY DEF NodeStarts, readerVars, history
<1>3. ShapeInv /\ PollInv /\ StreamInv
  BY DEF Inv
<1>4. /\ node \in [Nodes -> [up : BOOLEAN, run : 0 .. MaxStarts, id : Nat, bytes : Nat]]
      /\ node[n].run \in 0 .. MaxStarts /\ node[n].id \in Nat /\ node[n].id <= node[n].run
  BY <1>3 DEF ShapeInv
<1>5. /\ id \in 1 .. MaxStarts /\ id <= node[n].run + 1
      /\ node'[n] = [up |-> TRUE, run |-> node[n].run + 1, id |-> id, bytes |-> 0]
      /\ \A m \in Nodes : m # n => node'[m] = node[m]
  BY <1>1, <1>2, <1>4
<1>6. ShapeInv'
  <2>1. node' \in [Nodes -> [up : BOOLEAN, run : 0 .. MaxStarts, id : Nat, bytes : Nat]]
    BY <1>1, <1>2, <1>4, <1>5
  <2>2. \A m \in Nodes : node'[m].id <= node'[m].run
    BY <1>3, <1>4, <1>5 DEF ShapeInv
  <2>3. due' \subseteq [node : Nodes, run : 1 .. MaxStarts]
    BY <1>1, <1>2, <1>3, <1>4, <1>5 DEF ShapeInv
  <2> QED BY <1>2, <1>3, <2>1, <2>2, <2>3 DEF ShapeInv, PollRecord
<1>7. PollInv'
  BY <1>2, <1>3, PollFrame DEF ShapeInv
<1>8. StreamInv'
  <2>1. \A m \in Nodes : node'[m].run \in Nat /\ node[m].run <= node'[m].run
    BY <1>3, <1>4, <1>5 DEF ShapeInv
  <2> QED BY <1>2, <1>3, <2>1, StreamFrame
<1>9. ASSUME NEW m \in Nodes PROVE FlowInv(m)'
  <2>0. FlowInv(m)
    BY DEF Inv
  <2>1. CASE m # n
    BY <1>2, <1>5, <2>0, <2>1, FlowFrame DEF AtNode
  <2>2. CASE m = n
    <3>1. PICK b \in 0 .. passed[n] :
           /\ AtNode(n, {"send"}) => Within(n, b, poll.value) /\ Fits(n, b, poll.value)
           /\ \A s \in Slots : streams[n] = s /\ stream[s].latest \in Nat =>
                /\ Within(n, b, stream[s].latest) /\ Fits(n, b, stream[s].latest)
                /\ stream[s].run = node[n].run => b = Before(n) /\ stream[s].latest <= node[n].bytes
                /\ AtNode(n, {"send"}) => poll.value <= stream[s].latest
      BY <2>0, <2>2 DEF FlowInv
    <3>2. /\ passed[n] \in Nat /\ node[n].bytes \in Nat /\ reported[n] \in Nat /\ nodeCache[n] \in Nat \cup {None}
          /\ node[n].bytes <= passed[n]
      BY <1>3, <2>0, <2>2 DEF ShapeInv, FlowInv
    <3>3. Before(n) \in Nat /\ Before(n) <= passed[n] /\ Before(n)' = passed[n] /\ Before(n) + node[n].bytes = passed[n]
      BY <1>2, <1>5, <3>2 DEF Before
    <3>4. reported[n] <= passed[n]
      BY <2>0, <2>2, <3>2, <3>3 DEF FlowInv, Fits
    <3>5. Fits(n, Before(n), node[n].bytes)'
      BY <1>2, <1>5, <3>2, <3>3, <3>4 DEF Fits
    <3>6. ASSUME NEW v \in Nat, Within(n, b, v) PROVE Within(n, b, v)'
      BY <1>2, <1>5, <3>2, <3>3, <3>6 DEF Within
    <3>7. AtNode(n, {"send"})' => Within(n, b, poll.value)' /\ Fits(n, b, poll.value)'
      <4> SUFFICES ASSUME AtNode(n, {"send"}) PROVE Within(n, b, poll.value)' /\ Fits(n, b, poll.value)'
        BY <1>2 DEF AtNode
      <4>1. poll.value \in Nat
        BY <1>3 DEF PollInv, AtNode
      <4> QED BY <1>2, <3>1, <3>6, <4>1 DEF Fits
    <3>8. ASSUME NEW s \in Slots, streams'[n] = s, stream'[s].latest \in Nat
          PROVE  /\ Within(n, b, stream[s].latest)' /\ Fits(n, b, stream[s].latest)'
                 /\ stream'[s].run # node'[n].run
                 /\ AtNode(n, {"send"})' => poll'.value <= stream'[s].latest
      <4>1. streams[n] = s /\ stream[s].latest \in Nat /\ s # None
        BY <1>2, <3>8
      <4>2. stream[s].run \in Nat /\ stream[s].run <= node[n].run
        BY <1>3, <4>1 DEF StreamInv
      <4>3. stream'[s].run # node'[n].run
        BY <1>2, <1>4, <1>5, <4>2
      <4>4. Within(n, b, stream[s].latest)' /\ Fits(n, b, stream[s].latest)'
        BY <1>2, <3>1, <3>6, <4>1 DEF Fits
      <4>5. AtNode(n, {"send"})' => poll'.value <= stream'[s].latest
        BY <1>2, <3>1, <4>1 DEF AtNode
      <4> QED BY <4>3, <4>4, <4>5
    <3>9. b \in 0 .. passed'[n] /\ node'[n].bytes <= passed'[n]
      BY <1>2, <1>5, <3>2
    <3> QED BY <2>2, <3>5, <3>7, <3>8, <3>9 DEF FlowInv
  <2> QED BY <2>1, <2>2
<1>10. ASSUME NEW m \in Nodes \ raced' PROVE AddedInv(m)'
  <2>0. AddedInv(m)
    BY <1>2 DEF Inv
  <2>1. ~closed' /\ Entries(m)' = {} /\ ~InRound(m)' => targetCache'[m] = None /\ streams'[m] = None
    BY <1>2, <2>0 DEF AddedInv, Entries, InRound
  <2>2. CASE m # n
    <3>1. Added(m)' => Added(m)
      BY <1>1, <1>2, <1>5, <2>2 DEF Added
    <3>2. \A d \in due' : d.node = m => d.run <= node'[m].run
      BY <1>1, <1>5, <2>0, <2>2 DEF AddedInv
    <3> QED BY <1>2, <1>5, <2>0, <2>1, <2>2, <3>1, <3>2 DEF AddedInv, AtNode, HasEntry, Entries
  <2>3. CASE m = n
    <3>1. ~Added(m)'
      <4>1. [node |-> n, run |-> node[n].run + 1] \in due'
        BY <1>1
      <4> QED BY <1>5, <2>3, <4>1 DEF Added
    <3>2. ASSUME NEW d \in due', d.node = m
          PROVE  d.run <= node'[m].run
      <4>1. CASE d \in due
        <5>1. d.run \in Nat /\ d.run <= node[n].run
          BY <1>3, <2>0, <2>3, <3>2, <4>1 DEF AddedInv, ShapeInv
        <5> QED BY <1>4, <1>5, <2>3, <5>1
      <4>2. CASE d = [node |-> n, run |-> node[n].run + 1]
        BY <1>4, <1>5, <2>3, <4>2
      <4> QED BY <1>1, <4>1, <4>2
    <3> QED BY <2>1, <3>1, <3>2 DEF AddedInv
  <2> QED BY <2>2, <2>3
<1> QED BY <1>6, <1>7, <1>8, <1>9, <1>10 DEF Inv

(* A node stops: it is no longer up.                                       *)
LEMMA NodeStopsKeeps ==
  ASSUME Inv, NEW n \in Nodes, NodeStops(n)
  PROVE  Inv'
<1>1. /\ node' = [node EXCEPT ![n].up = FALSE]
      /\ UNCHANGED <<provider, due, monitored, poll, closed, nodeCache, targetCache, streams, stream, faults,
                     passed, reported, raced, misread>>
  BY DEF NodeStops, readerVars, history
<1>2. ShapeInv /\ PollInv /\ StreamInv
  BY DEF Inv
<1>3. node \in [Nodes -> [up : BOOLEAN, run : 0 .. MaxStarts, id : Nat, bytes : Nat]]
  BY <1>2 DEF ShapeInv
<1>4. \A m \in Nodes : /\ node'[m].run = node[m].run /\ node'[m].id = node[m].id /\ node'[m].bytes = node[m].bytes
                       /\ node'[m].up => node[m].up /\ m # n
  BY <1>1, <1>3
<1>5. ShapeInv'
  <2>1. node' \in [Nodes -> [up : BOOLEAN, run : 0 .. MaxStarts, id : Nat, bytes : Nat]]
    BY <1>1, <1>3
  <2>2. \A m \in Nodes : node'[m].id <= node'[m].run
    BY <1>2, <1>4 DEF ShapeInv
  <2> QED BY <1>1, <1>2, <2>1, <2>2 DEF ShapeInv, PollRecord
<1>6. PollInv'
  BY <1>1, <1>2, PollFrame DEF ShapeInv
<1>7. StreamInv'
  <2>1. \A m \in Nodes : node'[m].run \in Nat /\ node[m].run <= node'[m].run
    BY <1>3, <1>4
  <2> QED BY <1>1, <1>2, <2>1, StreamFrame
<1>8. ASSUME NEW m \in Nodes PROVE FlowInv(m)'
  BY <1>1, <1>4, FlowFrame DEF AtNode, Inv
<1>9. ASSUME NEW m \in Nodes \ raced' PROVE AddedInv(m)'
  <2>0. AddedInv(m)
    BY <1>1 DEF Inv
  <2>1. Added(m)' => Added(m)
    BY <1>1, <1>4 DEF Added
  <2>2. ~closed' /\ Entries(m)' = {} /\ ~InRound(m)' => targetCache'[m] = None /\ streams'[m] = None
    BY <1>1, <2>0 DEF AddedInv, Entries, InRound
  <2>3. \A d \in due' : d.node = m => d.run <= node'[m].run
    BY <1>1, <1>4, <2>0 DEF AddedInv
  <2> QED BY <1>1, <1>4, <2>0, <2>1, <2>2, <2>3 DEF AddedInv, AtNode, HasEntry, Entries
<1> QED BY <1>5, <1>6, <1>7, <1>8, <1>9 DEF Inv

(* Bytes pass: the counter of the container and the sum grow together.     *)
LEMMA TrafficKeeps ==
  ASSUME Inv, NEW n \in Nodes, Traffic(n)
  PROVE  Inv'
<1>1. /\ node' = [node EXCEPT ![n].bytes = @ + 1]
      /\ passed' = [passed EXCEPT ![n] = @ + 1]
      /\ UNCHANGED <<provider, due, monitored, poll, closed, nodeCache, targetCache, streams, stream, faults,
                     reported, raced, misread>>
  BY DEF Traffic, readerVars
<1>2. ShapeInv /\ PollInv /\ StreamInv
  BY DEF Inv
<1>3. /\ node \in [Nodes -> [up : BOOLEAN, run : 0 .. MaxStarts, id : Nat, bytes : Nat]]
      /\ passed \in [Nodes -> Nat]
  BY <1>2 DEF ShapeInv
<1>4. /\ \A m \in Nodes : node'[m].run = node[m].run /\ node'[m].id = node[m].id /\ node'[m].up = node[m].up
      /\ \A m \in Nodes : m # n => node'[m].bytes = node[m].bytes /\ passed'[m] = passed[m]
      /\ node'[n].bytes = node[n].bytes + 1 /\ passed'[n] = passed[n] + 1
      /\ node[n].bytes \in Nat /\ passed[n] \in Nat
  BY <1>1, <1>3
<1>5. ShapeInv'
  <2>1. node' \in [Nodes -> [up : BOOLEAN, run : 0 .. MaxStarts, id : Nat, bytes : Nat]]
    BY <1>1, <1>3
  <2>2. \A m \in Nodes : node'[m].id <= node'[m].run
    BY <1>2, <1>4 DEF ShapeInv
  <2>3. passed' \in [Nodes -> Nat]
    BY <1>1, <1>3
  <2> QED BY <1>1, <1>2, <2>1, <2>2, <2>3 DEF ShapeInv, PollRecord
<1>6. PollInv'
  BY <1>1, <1>2, PollFrame DEF ShapeInv
<1>7. StreamInv'
  <2>1. \A m \in Nodes : node'[m].run \in Nat /\ node[m].run <= node'[m].run
    BY <1>3, <1>4
  <2> QED BY <1>1, <1>2, <2>1, StreamFrame
<1>8. ASSUME NEW m \in Nodes PROVE FlowInv(m)'
  <2>0. FlowInv(m)
    BY DEF Inv
  <2>1. CASE m # n
    BY <1>1, <1>4, <2>0, <2>1, FlowFrame DEF AtNode
  <2>2. CASE m = n
    <3>1. PICK b \in 0 .. passed[n] :
           /\ AtNode(n, {"send"}) => Within(n, b, poll.value) /\ Fits(n, b, poll.value)
           /\ \A s \in Slots : streams[n] = s /\ stream[s].latest \in Nat =>
                /\ Within(n, b, stream[s].latest) /\ Fits(n, b, stream[s].latest)
                /\ stream[s].run = node[n].run => b = Before(n) /\ stream[s].latest <= node[n].bytes
                /\ AtNode(n, {"send"}) => poll.value <= stream[s].latest
      BY <2>0, <2>2 DEF FlowInv
    <3>2. /\ reported[n] \in Nat /\ nodeCache[n] \in Nat \cup {None} /\ node[n].bytes <= passed[n]
      BY <1>2, <2>0, <2>2 DEF ShapeInv, FlowInv
    <3>3. Before(n)' = Before(n) /\ Before(n) \in Nat
      BY <1>4, <3>2 DEF Before
    <3>4. Fits(n, Before(n), node[n].bytes)'
      BY <1>1, <1>4, <2>0, <2>2, <3>2, <3>3 DEF Fits, FlowInv
    <3>5. ASSUME NEW v \in Nat, Within(n, b, v) PROVE Within(n, b, v)'
      BY <1>4, <3>3, <3>5 DEF Within
    <3>6. AtNode(n, {"send"})' => Within(n, b, poll.value)' /\ Fits(n, b, poll.value)'
      <4> SUFFICES ASSUME AtNode(n, {"send"}) PROVE Within(n, b, poll.value)' /\ Fits(n, b, poll.value)'
        BY <1>1 DEF AtNode
      <4>1. poll.value \in Nat
        BY <1>2 DEF PollInv, AtNode
      <4> QED BY <1>1, <3>1, <3>5, <4>1 DEF Fits
    <3>7. ASSUME NEW s \in Slots, streams'[n] = s, stream'[s].latest \in Nat
          PROVE  /\ Within(n, b, stream[s].latest)' /\ Fits(n, b, stream[s].latest)'
                 /\ stream'[s].run = node'[n].run => b = Before(n)' /\ stream'[s].latest <= node'[n].bytes
                 /\ AtNode(n, {"send"})' => poll'.value <= stream'[s].latest
      <4>1. streams[n] = s /\ stream[s].latest \in Nat /\ stream'[s] = stream[s]
        BY <1>1, <3>7
      <4>2. Within(n, b, stream[s].latest)' /\ Fits(n, b, stream[s].latest)'
        BY <1>1, <3>1, <3>5, <4>1 DEF Fits
      <4>3. stream'[s].run = node'[n].run => b = Before(n)' /\ stream'[s].latest <= node'[n].bytes
        BY <1>4, <3>1, <3>3, <4>1
      <4>4. AtNode(n, {"send"})' => poll'.value <= stream'[s].latest
        BY <1>1, <3>1, <4>1 DEF AtNode
      <4> QED BY <4>2, <4>3, <4>4
    <3>8. b \in 0 .. passed'[n] /\ node'[n].bytes <= passed'[n]
      BY <1>4, <3>2
    <3> QED BY <2>2, <3>4, <3>6, <3>7, <3>8 DEF FlowInv
  <2> QED BY <2>1, <2>2
<1>9. ASSUME NEW m \in Nodes \ raced' PROVE AddedInv(m)'
  <2>0. AddedInv(m)
    BY <1>1 DEF Inv
  <2>1. closed \in BOOLEAN /\ Entries(m)' = Entries(m)
    BY <1>1, <1>2 DEF ShapeInv, Entries
  <2> QED BY <1>1, <1>2, <1>4, <2>0, <2>1, AddedFrame DEF AtNode
<1> QED BY <1>5, <1>6, <1>7, <1>8, <1>9 DEF Inv

-----------------------------------------------------------------------------
(***************************************************************************)
(* AddNode and Close                                                       *)
(***************************************************************************)
(* A node that is added while the monitor knows nothing of it has no       *)
(* target and no stream of an earlier container; otherwise it has raced.   *)
LEMMA AddNodeKeeps ==
  ASSUME Inv, NEW d \in due, AddNode(d)
  PROVE  Inv'
<1> PICK n : n = d.node
  OBVIOUS
<1>1. PICK id \in 0 .. node[n].id :
       LET there == {e \in monitored : HasKey(e, id, n)} IN
       /\ monitored' = IF there # {} THEN monitored ELSE monitored \cup {[id |-> id, node |-> n]}
       /\ raced' = IF Entries(n) # {} \/ InRound(n) \/ there # {} THEN raced \cup {n} ELSE raced
       /\ misread' = IF id = node[n].id THEN misread \ {n} ELSE misread \cup {n}
  BY DEF AddNode
<1>2. ShapeInv /\ PollInv /\ StreamInv
  BY DEF Inv
<1>3. /\ due' = due \ {d}
      /\ UNCHANGED <<provider, node, poll, closed, nodeCache, targetCache, streams, stream, faults, passed, reported>>
      /\ monitored \subseteq monitored' /\ raced \subseteq raced'
  BY <1>1 DEF AddNode, readerVars
<1>4. /\ n \in Nodes /\ d.run \in Nat /\ id \in 0 .. MaxStarts /\ [id |-> id, node |-> n] \in Entry
      /\ monitored' \subseteq monitored \cup {[id |-> id, node |-> n]}
  <2>1. n \in Nodes /\ d.run \in Nat
    BY <1>2 DEF ShapeInv
  <2>2. node[n].id \in Nat /\ node[n].id <= node[n].run /\ node[n].run \in 0 .. MaxStarts
    BY <1>2, <2>1 DEF ShapeInv
  <2> QED BY <1>1, <2>1, <2>2 DEF Entry
<1>5. ShapeInv'
  <2>1. monitored' \subseteq Entry
    BY <1>2, <1>4 DEF ShapeInv
  <2>2. raced' \subseteq Nodes
    BY <1>1, <1>2, <1>4 DEF ShapeInv
  <2>3. due' \subseteq [node : Nodes, run : 1 .. MaxStarts]
    BY <1>2, <1>3 DEF ShapeInv
  <2>4. ASSUME NEW x \in monitored', NEW y \in monitored', x.id = 0, y.id = 0
        PROVE  x = y
    <3>1. CASE \E e \in monitored : HasKey(e, id, n)
      BY <1>1, <1>2, <2>4, <3>1 DEF ShapeInv
    <3>2. CASE ~\E e \in monitored : HasKey(e, id, n)
      <4>1. id = 0 => \A e \in monitored : e.id # 0
        BY <3>2 DEF HasKey
      <4>2. [id |-> id, node |-> n].id = id
        OBVIOUS
      <4> QED BY <1>2, <1>4, <2>4, <4>1, <4>2 DEF ShapeInv
    <3> QED BY <3>1, <3>2
  <2> QED BY <1>2, <1>3, <2>1, <2>2, <2>3, <2>4 DEF ShapeInv, PollRecord
<1>6. PollInv'
  BY <1>2, <1>3, PollFrame DEF ShapeInv
<1>7. StreamInv'
  <2>1. \A m \in Nodes : node'[m].run \in Nat /\ node[m].run <= node'[m].run
    BY <1>2, <1>3 DEF ShapeInv
  <2> QED BY <1>2, <1>3, <2>1, StreamFrame
<1>8. ASSUME NEW m \in Nodes PROVE FlowInv(m)'
  BY <1>3, FlowFrame DEF AtNode, Inv
<1>9. ASSUME NEW m \in Nodes \ raced' PROVE AddedInv(m)'
  <2>0. AddedInv(m)
    BY <1>3 DEF Inv
  <2>1. \A c \in due' : c.node = m => c.run <= node'[m].run
    BY <1>3, <2>0 DEF AddedInv
  <2>2. CASE m # n
    <3>1. Added(m)' => Added(m)
      BY <1>3, <2>2 DEF Added
    <3>2. Entries(m)' = Entries(m) /\ (InRound(m)' <=> InRound(m)) /\ (m \in misread' <=> m \in misread)
      BY <1>1, <1>3, <2>2 DEF Entries, InRound
    <3>3. ~closed' /\ Entries(m)' = {} /\ ~InRound(m)' => targetCache'[m] = None /\ streams'[m] = None
      BY <1>3, <2>0, <3>2 DEF AddedInv
    <3>4. Added(m)' => HasEntry(m)'
      BY <1>3, <2>0, <3>1, <3>2 DEF AddedInv, HasEntry
    <3> QED BY <1>3, <2>0, <2>1, <3>1, <3>3, <3>4 DEF AddedInv, AtNode
  <2>3. CASE m = n
    <3>1. Entries(m) = {} /\ ~InRound(m) /\ [id |-> id, node |-> m] \in monitored'
      BY <1>1, <1>4, <2>3
    <3>2. ~closed => targetCache[m] = None /\ streams[m] = None
      BY <2>0, <3>1 DEF AddedInv
    <3>3. Entries(m)' # {}
      BY <3>1 DEF Entries
    <3>4. ~AtNode(m, {"target"}) /\ ~AtNode(m, {"stream"})
      BY <1>2, <3>1, AtEntry DEF AtNode
    <3>5. m \notin misread' => [id |-> node'[m].id, node |-> m] \in monitored'
      BY <1>1, <1>3, <2>3, <3>1
    <3>6. Added(m)' => ~closed
      BY <1>3 DEF Added
    <3> QED BY <1>3, <2>1, <3>2, <3>3, <3>4, <3>5, <3>6 DEF AddedInv, AtNode, HasEntry
  <2> QED BY <2>2, <2>3
<1> QED BY <1>5, <1>6, <1>7, <1>8, <1>9 DEF Inv

(* Once the monitor is closed, nothing is promised of the list.            *)
LEMMA CloseKeeps ==
  ASSUME Inv, Close
  PROVE  Inv'
<1>1. /\ closed' = TRUE /\ monitored' = {}
      /\ UNCHANGED <<provider, node, due, poll, nodeCache, targetCache, streams, stream, faults, passed, reported,
                     raced, misread>>
  BY DEF Close, readerVars, history
<1>2. ShapeInv /\ PollInv /\ StreamInv
  BY DEF Inv
<1>3. ShapeInv'
  BY <1>1, <1>2 DEF ShapeInv, PollRecord
<1>4. PollInv'
  BY <1>1, <1>2, PollFrame DEF ShapeInv
<1>5. StreamInv'
  <2>1. \A m \in Nodes : node'[m].run \in Nat /\ node[m].run <= node'[m].run
    BY <1>1, <1>2 DEF ShapeInv
  <2> QED BY <1>1, <1>2, <2>1, StreamFrame
<1>6. ASSUME NEW m \in Nodes PROVE FlowInv(m)'
  BY <1>1, FlowFrame DEF AtNode, Inv
<1>7. ASSUME NEW m \in Nodes \ raced' PROVE AddedInv(m)'
  BY <1>1 DEF AddedInv, Inv, Added
<1> QED BY <1>3, <1>4, <1>5, <1>6, <1>7 DEF Inv

-----------------------------------------------------------------------------
(***************************************************************************)
(* Run                                                                     *)
(***************************************************************************)
(* A step of Run between two entries changes nothing but what it has in    *)
(* hand.                                                                   *)
LEMMA BetweenEntriesKeeps ==
  ASSUME Inv, poll' \in PollRecord, poll.at \in {"wait", "next"}, PollInv',
         poll'.at \in {"wait", "next", "sample", "ended"},
         UNCHANGED <<provider, node, due, monitored, closed, readerVars, faults, history>>
  PROVE  Inv'
<1>1. UNCHANGED <<provider, node, due, monitored, closed, nodeCache, targetCache, streams, stream, faults, passed,
                  reported, raced, misread>>
  BY DEF readerVars, history
<1>2. ShapeInv /\ PollInv /\ StreamInv
  BY DEF Inv
<1>3. ShapeInv'
  BY <1>1, <1>2 DEF ShapeInv
<1>4. StreamInv'
  <2>1. \A m \in Nodes : node'[m].run \in Nat /\ node[m].run <= node'[m].run
    BY <1>1, <1>2 DEF ShapeInv
  <2> QED BY <1>1, <1>2, <2>1, StreamFrame
<1>5. ASSUME NEW m \in Nodes PROVE FlowInv(m)'
  BY <1>1, FlowFrame DEF AtNode, Inv
<1>6. ASSUME NEW m \in Nodes \ raced' PROVE AddedInv(m)'
  <2>0. AddedInv(m)
    BY <1>1 DEF Inv
  <2>1. closed \in BOOLEAN /\ Entries(m)' = Entries(m)
    BY <1>1, <1>2 DEF ShapeInv, Entries
  <2> QED BY <1>1, <1>2, <2>0, <2>1, AddedFrame DEF AtNode
<1> QED BY <1>3, <1>4, <1>5, <1>6 DEF Inv

(* Run clones the list. *)
LEMMA CloneKeeps ==
  ASSUME Inv, Clone
  PROVE  Inv'
<1>1. /\ monitored \subseteq Entry /\ closed \in BOOLEAN /\ PollInv
      /\ UNCHANGED <<provider, closed, monitored>>
  BY DEF Inv, ShapeInv, Clone
<1>2. CASE closed
  <2>1. poll' = [at |-> "ended", todo |-> {}, entry |-> None, target |-> None, value |-> None]
    BY <1>2 DEF Clone, Idle
  <2>2. poll' \in PollRecord /\ PollInv'
    BY <1>1, <2>1 DEF PollRecord, Steps, PollInv
  <2> QED BY <2>1, <2>2, BetweenEntriesKeeps DEF Clone
<1>3. CASE ~closed
  <2>1. poll' = [at |-> "next", todo |-> monitored, entry |-> None, target |-> None, value |-> None]
    BY <1>3 DEF Clone, Idle
  <2>2. poll' \in PollRecord /\ PollInv'
    BY <1>1, <2>1 DEF PollRecord, Steps, PollInv
  <2> QED BY <2>1, <2>2, BetweenEntriesKeeps DEF Clone
<1> QED BY <1>2, <1>3

(* Run takes the next entry of its round, or waits for the next round. *)
LEMMA NextNodeKeeps ==
  ASSUME Inv, NextNode
  PROVE  Inv'
<1>1. /\ poll \in PollRecord /\ closed \in BOOLEAN /\ PollInv
      /\ UNCHANGED <<provider, closed, monitored>>
  BY DEF Inv, ShapeInv, NextNode
<1>2. CASE poll' = Idle
  <2>1. poll' = [at |-> "wait", todo |-> {}, entry |-> None, target |-> None, value |-> None]
    BY <1>2 DEF Idle
  <2>2. poll' \in PollRecord /\ PollInv'
    BY <1>1, <2>1 DEF PollRecord, Steps, PollInv
  <2> QED BY <2>1, <2>2, BetweenEntriesKeeps DEF NextNode
<1>3. ASSUME NEW e \in poll.todo, poll' = [Idle EXCEPT !.at = "sample", !.todo = poll.todo \ {e}, !.entry = e]
      PROVE  Inv'
  <2>1. poll' = [at |-> "sample", todo |-> poll.todo \ {e}, entry |-> e, target |-> None, value |-> None]
    BY <1>3 DEF Idle
  <2>2. poll.todo \subseteq Entry /\ e \in Entry /\ e # None
    BY <1>1, NoneIsNothing DEF PollRecord
  <2>3. poll' \in PollRecord
    BY <2>1, <2>2 DEF PollRecord, Steps
  <2>4. PollInv'
    BY <1>1, <2>1, <2>2 DEF PollInv
  <2> QED BY <2>1, <2>3, <2>4, BetweenEntriesKeeps DEF NextNode
<1> QED BY <1>2, <1>3 DEF NextNode

(* The rest of a round is in the list. *)
LEMMA TodoIsListed ==
  ASSUME ShapeInv, PollInv, ~closed
  PROVE  \A e \in poll.todo : e \in monitored
<1>1. poll.todo \subseteq Entry
  BY DEF ShapeInv, PollRecord
<1> QED BY <1>1, NoneIsNothing DEF PollInv

(* Run goes on to the rest of its round. *)
LEMMA ProceedKeeps ==
  ASSUME ShapeInv, PollInv, Proceed, provider' = provider, closed' = closed,
         ~closed => \A e \in poll.todo : e \in monitored'
  PROVE  /\ poll' = [at |-> "next", todo |-> poll.todo, entry |-> None, target |-> None, value |-> None]
         /\ poll' \in PollRecord /\ PollInv'
<1>1. poll' = [at |-> "next", todo |-> poll.todo, entry |-> None, target |-> None, value |-> None]
  BY DEF Proceed, Idle
<1>2. poll.todo \subseteq Entry
  BY DEF ShapeInv, PollRecord
<1>3. poll' \in PollRecord
  BY <1>1, <1>2 DEF PollRecord, Steps
<1>4. PollInv'
  BY <1>1, <1>2 DEF PollInv, ShapeInv
<1> QED BY <1>1, <1>3, <1>4

(* A rate is sent: what has been reported of the node is then no more than *)
(* what its last sample stands for.                                        *)
LEMMA SendKeeps ==
  ASSUME Inv, Send
  PROVE  Inv'
<1> PICK n : n = poll.entry.node
  OBVIOUS
<1> PICK v : v = poll.value
  OBVIOUS
<1> PICK delta : delta = IF nodeCache[n] = None THEN 0 ELSE counterDelta(v, nodeCache[n])
  OBVIOUS
<1>1. /\ poll.at = "send"
      /\ nodeCache' = [nodeCache EXCEPT ![n] = v]
      /\ reported' = [reported EXCEPT ![n] = @ + delta]
      /\ Proceed
      /\ UNCHANGED <<provider, node, due, monitored, closed, targetCache, streams, stream, faults, passed, raced, misread>>
  BY DEF Send
<1>2. ShapeInv /\ PollInv /\ StreamInv
  BY DEF Inv
<1>3. n \in Nodes /\ v \in Nat /\ nodeCache[n] \in Nat \cup {None} /\ reported[n] \in Nat
  BY <1>1, <1>2, AtEntry DEF PollInv, ShapeInv
<1>4. delta \in Nat
  BY <1>3 DEF counterDelta
<1>5. /\ poll' = [at |-> "next", todo |-> poll.todo, entry |-> None, target |-> None, value |-> None]
      /\ poll' \in PollRecord /\ PollInv'
  <2>1. ~closed => \A e \in poll.todo : e \in monitored
    BY <1>2, TodoIsListed
  <2> QED BY <1>1, <1>2, <2>1, ProceedKeeps
<1>6. ShapeInv'
  <2>1. nodeCache' \in [Nodes -> Nat \cup {None}] /\ reported' \in [Nodes -> Nat]
    BY <1>1, <1>2, <1>3, <1>4 DEF ShapeInv
  <2> QED BY <1>1, <1>2, <1>5, <2>1 DEF ShapeInv
<1>7. StreamInv'
  <2>1. \A m \in Nodes : node'[m].run \in Nat /\ node[m].run <= node'[m].run
    BY <1>1, <1>2 DEF ShapeInv
  <2> QED BY <1>1, <1>2, <1>5, <2>1, StreamFrame
<1>8. ASSUME NEW m \in Nodes PROVE FlowInv(m)'
  <2>0. FlowInv(m)
    BY DEF Inv
  <2>1. CASE m # n
    <3>1. nodeCache'[m] = nodeCache[m] /\ reported'[m] = reported[m]
      BY <1>1, <1>2, <2>1 DEF ShapeInv
    <3> QED BY <1>1, <1>5, <2>0, <2>1, <3>1, FlowFrame DEF AtNode
  <2>2. CASE m = n
    <3>0. AtNode(n, {"send"})
      BY <1>1 DEF AtNode
    <3>1. PICK b \in 0 .. passed[n] :
           /\ Within(n, b, v) /\ Fits(n, b, v)
           /\ \A s \in Slots : streams[n] = s /\ stream[s].latest \in Nat =>
                /\ Within(n, b, stream[s].latest) /\ Fits(n, b, stream[s].latest)
                /\ stream[s].run = node[n].run => b = Before(n) /\ stream[s].latest <= node[n].bytes
                /\ v <= stream[s].latest
      BY <2>0, <2>2, <3>0 DEF FlowInv
    <3>2. passed[n] \in Nat /\ node[n].bytes \in Nat /\ node[n].bytes <= passed[n]
      BY <1>2, <1>3, <2>0, <2>2 DEF ShapeInv, FlowInv
    <3>3. Before(n)' = Before(n) /\ Before(n) \in Nat
      BY <1>1, <3>2 DEF Before
    <3>4. nodeCache'[n] = v /\ reported'[n] = reported[n] + delta
      BY <1>1, <1>2, <1>3 DEF ShapeInv
    <3>5. reported'[n] <= b + v
      BY <1>3, <3>1, <3>4 DEF Fits, counterDelta
    <3>6. ASSUME NEW c \in Nat, NEW w \in Nat, (c = b /\ v <= w) \/ b + v <= c
          PROVE  Fits(n, c, w)'
      BY <1>3, <1>4, <3>4, <3>5, <3>6 DEF Fits
    <3>7. Fits(n, Before(n), node[n].bytes)'
      <4>1. Fits(n, Before(n), node[n].bytes)' <=> /\ reported'[n] <= Before(n) + node[n].bytes
                                                   /\ nodeCache'[n] # None => \/ reported'[n] <= Before(n)
                                                                              \/ /\ nodeCache'[n] <= node[n].bytes
                                                                                 /\ reported'[n] <= Before(n) + nodeCache'[n]
        BY <1>1, <3>3 DEF Fits
      <4> QED BY <1>3, <1>4, <3>1, <3>2, <3>3, <3>4, <3>5, <4>1 DEF Within
    <3>8. ASSUME NEW s \in Slots, streams'[n] = s, stream'[s].latest \in Nat
          PROVE  /\ Within(n, b, stream[s].latest)' /\ Fits(n, b, stream[s].latest)'
                 /\ stream'[s].run = node'[n].run => b = Before(n)' /\ stream'[s].latest <= node'[n].bytes
                 /\ AtNode(n, {"send"})' => poll'.value <= stream'[s].latest
      <4>1. streams[n] = s /\ stream[s].latest \in Nat /\ stream'[s] = stream[s] /\ node'[n] = node[n]
        BY <1>1, <3>8
      <4>2. Within(n, b, stream[s].latest)'
        BY <1>1, <3>1, <3>3, <4>1 DEF Within
      <4>3. Fits(n, b, stream[s].latest)'
        BY <3>1, <3>6, <4>1 DEF Fits
      <4>4. stream'[s].run = node'[n].run => b = Before(n)' /\ stream'[s].latest <= node'[n].bytes
        BY <3>1, <3>3, <4>1
      <4>5. ~AtNode(n, {"send"})'
        BY <1>5 DEF AtNode
      <4> QED BY <4>2, <4>3, <4>4, <4>5
    <3>9. b \in 0 .. passed'[n] /\ node'[n].bytes <= passed'[n] /\ ~AtNode(n, {"send"})'
      BY <1>1, <1>5, <3>2 DEF AtNode
    <3> QED BY <2>2, <3>7, <3>8, <3>9 DEF FlowInv
  <2> QED BY <2>1, <2>2
<1>9. ASSUME NEW m \in Nodes \ raced' PROVE AddedInv(m)'
  <2>0. AddedInv(m)
    BY <1>1 DEF Inv
  <2>1. closed \in BOOLEAN /\ Entries(m)' = Entries(m)
    BY <1>1, <1>2 DEF ShapeInv, Entries
  <2> QED BY <1>1, <1>2, <1>5, <2>0, <2>1, AddedFrame DEF AtNode
<1> QED BY <1>5, <1>6, <1>7, <1>8, <1>9 DEF Inv

(* A node that cannot be read leaves the list, and Run lets go of its      *)
(* stream: either a fault is to blame, or the node is not up in the        *)
(* container it has been added with, and nothing stale is left of it.      *)
LEMMA DroppedOnErrorKeeps ==
  ASSUME Inv, poll.at \in {"sample", "target", "stream"}, DroppedOnError, LetGo,
         UNCHANGED <<provider, node, due, closed, passed, reported, misread>>,
         faults' \in 0 .. MaxFaults, raced \subseteq raced', raced' \subseteq Nodes,
         targetCache' \in [Nodes -> Target \cup {None}],
         streams' \in [Nodes -> Slots \cup {None}],
         \A m \in Nodes : m # poll.entry.node => targetCache'[m] = targetCache[m] /\ streams'[m] = streams[m],
         provider = "remote" => targetCache' = targetCache,
         streams'[poll.entry.node] \in {streams[poll.entry.node], None},
         streams' = streams \/ \A s \in Slots : stream[s].at \in {"start", "run", "end"} => stream[s].node # poll.entry.node,
         \/ poll.entry.node \in raced'
         \/ targetCache'[poll.entry.node] = None /\ streams'[poll.entry.node] = None /\ ~Added(poll.entry.node)
  PROVE  Inv'
<1> PICK n : n = poll.entry.node
  OBVIOUS
<1>1. ShapeInv /\ PollInv /\ StreamInv
  BY DEF Inv
<1>2. /\ nodeCache' = [nodeCache EXCEPT ![n] = None]
      /\ monitored' = {x \in monitored : ~HasKey(x, poll.entry.id, n)}
      /\ Proceed
  BY DEF DroppedOnError, RemoveNode
<1>3. n \in Nodes /\ poll.entry \notin poll.todo
  BY <1>1, AtEntry
<1>13. ~closed => monitored' = monitored \ {poll.entry}
  <2> SUFFICES ASSUME ~closed PROVE \A x \in monitored : HasKey(x, poll.entry.id, n) <=> x = poll.entry
    BY <1>2
  <2> TAKE x \in monitored
  <2>1. poll.entry \in monitored /\ poll.entry \in Entry /\ x \in Entry
    BY <1>1, AtEntry DEF ShapeInv
  <2>2. x.id = 0 /\ poll.entry.id = 0 => x = poll.entry
    BY <1>1, <2>1 DEF ShapeInv
  <2>3. x.id = poll.entry.id /\ x.node = n => x = poll.entry
    BY <2>1 DEF Entry
  <2> QED BY <2>2, <2>3 DEF HasKey
<1>4. /\ poll' = [at |-> "next", todo |-> poll.todo, entry |-> None, target |-> None, value |-> None]
      /\ poll' \in PollRecord /\ PollInv'
  <2>1. ~closed => \A e \in poll.todo : e \in monitored'
    BY <1>1, <1>13, <1>3, TodoIsListed
  <2> QED BY <1>1, <1>2, <2>1, ProceedKeeps
<1>5. \A s \in Slots : \/ ~(Held(s) /\ stream[s].at = "free") /\ stream'[s] = stream[s]
                       \/ Held(s) /\ stream[s].at = "free" /\ stream'[s] = Free
  BY DEF LetGo
<1>6. Free \in StreamRecord
  BY DEF Free, StreamRecord
<1>7. ShapeInv'
  <2>1. nodeCache' \in [Nodes -> Nat \cup {None}] /\ monitored' \subseteq Entry
    BY <1>1, <1>2 DEF ShapeInv
  <2>2. stream' \in [Slots -> StreamRecord]
    BY <1>1, <1>6 DEF LetGo, ShapeInv
  <2>3. \A x, y \in monitored' : x.id = 0 /\ y.id = 0 => x = y
    BY <1>1, <1>2 DEF ShapeInv
  <2> QED BY <1>1, <1>4, <2>1, <2>2, <2>3 DEF ShapeInv
<1>8. \A s \in Slots : stream[s].at # "free" => stream'[s] = stream[s]
  BY <1>5
<1>9. \A s \in Slots : stream[s].at = "free" => stream'[s] = Free
  BY <1>1, <1>5 DEF StreamInv, Unused
<1>10. StreamInv'
  <2>1. /\ provider' = "docker" => \A m \in Nodes : streams'[m] = None
        /\ provider' = "remote" => \A m \in Nodes : targetCache'[m] = None
    BY <1>1, <1>3 DEF StreamInv
  <2>2. ASSUME NEW m \in Nodes, streams'[m] # None
        PROVE  stream'[streams'[m]].at # "free" /\ stream'[streams'[m]].node = m
    <3>1. streams'[m] = streams[m] /\ streams[m] \in Slots
      BY <1>1, <2>2 DEF ShapeInv
    <3>2. stream[streams[m]].at # "free" /\ stream[streams[m]].node = m
      BY <1>1, <2>2, <3>1 DEF StreamInv
    <3> QED BY <1>8, <3>1, <3>2
  <2>3. ASSUME NEW s \in Slots
        PROVE  /\ stream'[s].at # "free" => stream'[s].node \in Nodes
               /\ stream'[s].at \in {"start", "run", "end"} => ~stream'[s].done /\ streams'[stream'[s].node] = s
               /\ stream'[s].at \in {"told", "drop"} => stream'[s].done
               /\ Unused(s)' => stream'[s] = Free
               /\ stream'[s].at = "start" => stream'[s].latest = None
               /\ stream'[s].ready /\ ~stream'[s].done => stream'[s].latest \in Nat
               /\ stream'[s].latest \in Nat /\ stream'[s].at # "free" =>
                    stream'[s].run \in Nat /\ stream'[s].run <= node'[stream'[s].node].run
    <3>1. CASE stream[s].at = "free"
      <4>1. stream'[s] = Free
        BY <1>9, <3>1
      <4>2. stream'[s].at = "free" /\ ~stream'[s].ready
        BY <4>1 DEF Free
      <4> QED BY <4>1, <4>2
    <3>2. CASE stream[s].at # "free"
      <4>1. stream'[s] = stream[s] /\ stream[s].node \in Nodes
        BY <1>1, <1>8, <3>2 DEF StreamInv
      <4>2. stream[s].at \in {"start", "run", "end"} => streams'[stream[s].node] = streams[stream[s].node]
        BY <4>1
      <4> QED BY <1>1, <3>2, <4>1, <4>2 DEF StreamInv, Unused
    <3> QED BY <3>1, <3>2
  <2> QED BY <1>4, <2>1, <2>2, <2>3 DEF StreamInv
<1>11. ASSUME NEW m \in Nodes PROVE FlowInv(m)'
  <2>0. FlowInv(m) /\ ~AtNode(m, {"send"})'
    BY <1>4 DEF Inv, AtNode
  <2>1. nodeCache'[m] \in {nodeCache[m], None}
    BY <1>1, <1>2 DEF ShapeInv
  <2>2. ASSUME NEW s \in Slots, streams'[m] = s, stream'[s].latest \in Nat
        PROVE  streams[m] = s /\ stream'[s] = stream[s]
    <3>1. streams[m] = s
      BY <2>2
    <3>2. stream[s].at # "free"
      BY <1>1, <3>1 DEF StreamInv
    <3> QED BY <1>8, <3>1, <3>2
  <2> QED BY <2>0, <2>1, <2>2, FlowFrame
<1>12. ASSUME NEW m \in Nodes \ raced' PROVE AddedInv(m)'
  <2>0. AddedInv(m)
    BY DEF Inv
  <2>1. \A d \in due' : d.node = m => d.run <= node'[m].run
    BY <2>0 DEF AddedInv
  <2>2. CASE m = n
    <3>1. targetCache'[m] = None /\ streams'[m] = None /\ ~Added(m)
      BY <2>2
    <3>2. ~Added(m)'
      BY <3>1 DEF Added
    <3> QED BY <2>1, <3>1, <3>2 DEF AddedInv
  <2>3. CASE m # n /\ closed
    BY <2>1, <2>3 DEF AddedInv, Added
  <2>4. CASE m # n /\ ~closed
    <3>1. Entries(m)' = Entries(m) /\ closed \in BOOLEAN
      BY <1>1, <1>13, <2>4 DEF Entries, ShapeInv
    <3>2. streams[m] # None => stream'[streams[m]] = stream[streams[m]]
      BY <1>1, <1>8 DEF StreamInv, ShapeInv
    <3> QED BY <1>1, <1>4, <2>0, <2>4, <3>1, <3>2, AddedFrame DEF AtNode
  <2> QED BY <2>2, <2>3, <2>4
<1> QED BY <1>4, <1>7, <1>10, <1>11, <1>12 DEF Inv

(* Where Run is at no stream it has none to let go of. *)
LEMMA NothingToLetGo ==
  ASSUME ShapeInv, poll.at # "stream", stream' = stream
  PROVE  LetGo
<1>1. stream \in [Slots -> StreamRecord]
  BY DEF ShapeInv
<1> QED BY <1>1 DEF LetGo, Held

(* A sample has been taken: nothing but what Run has in hand changes, and  *)
(* the sample fits what has been reported.                                 *)
LEMMA SampledKeeps ==
  ASSUME Inv, NEW n \in Nodes, NEW v \in Nat, poll.entry.node = n, poll.at \in {"target", "stream"},
         Sampled(v), LetGo,
         UNCHANGED <<provider, node, due, monitored, closed, nodeCache, targetCache, streams, faults, history>>,
         FlowInv(n)', streams[n] # None => stream[streams[n]].latest \in Nat
  PROVE  Inv'
<1>1. ShapeInv /\ PollInv /\ StreamInv
  BY DEF Inv
<1>2. /\ passed' = passed /\ reported' = reported /\ raced' = raced /\ misread' = misread
      /\ poll \in PollRecord
  BY <1>1 DEF history, ShapeInv
<1>3. poll' = [poll EXCEPT !.at = "send", !.value = v]
  BY DEF Sampled
<1>4. /\ poll'.at = "send" /\ poll'.value = v /\ poll'.entry = poll.entry /\ poll'.todo = poll.todo
      /\ poll' \in PollRecord
  BY <1>2, <1>3 DEF PollRecord, Steps
<1>5. PollInv'
  BY <1>1, <1>4 DEF PollInv
<1>6. \A s \in Slots : \/ ~(Held(s) /\ stream[s].at = "free") /\ stream'[s] = stream[s]
                       \/ Held(s) /\ stream[s].at = "free" /\ stream'[s] = Free
  BY DEF LetGo
<1>7. ShapeInv'
  <2>1. Free \in StreamRecord
    BY DEF Free, StreamRecord
  <2>2. stream' \in [Slots -> StreamRecord]
    BY <1>1, <2>1 DEF LetGo, ShapeInv
  <2> QED BY <1>1, <1>2, <1>4, <2>2 DEF ShapeInv
<1>8. /\ \A s \in Slots : stream[s].at # "free" => stream'[s] = stream[s]
      /\ \A s \in Slots : stream[s].at = "free" => stream'[s] = Free
  BY <1>1, <1>6 DEF StreamInv, Unused
<1>9. ASSUME NEW m \in Nodes, streams[m] # None
      PROVE  streams[m] \in Slots /\ stream[streams[m]].at # "free" /\ stream'[streams[m]] = stream[streams[m]]
  BY <1>1, <1>8, <1>9 DEF StreamInv, ShapeInv
<1>10. StreamInv'
  <2>1. /\ provider' = "docker" => \A m \in Nodes : streams'[m] = None
        /\ provider' = "remote" => \A m \in Nodes : targetCache'[m] = None
    BY <1>1 DEF StreamInv
  <2>2. ASSUME NEW m \in Nodes, streams'[m] # None
        PROVE  stream'[streams'[m]].at # "free" /\ stream'[streams'[m]].node = m
    BY <1>1, <1>9, <2>2 DEF StreamInv
  <2>3. ASSUME NEW s \in Slots
        PROVE  /\ stream'[s].at # "free" => stream'[s].node \in Nodes
               /\ stream'[s].at \in {"start", "run", "end"} => ~stream'[s].done /\ streams'[stream'[s].node] = s
               /\ stream'[s].at \in {"told", "drop"} => stream'[s].done
               /\ Unused(s)' => stream'[s] = Free
               /\ stream'[s].at = "start" => stream'[s].latest = None
               /\ stream'[s].ready /\ ~stream'[s].done => stream'[s].latest \in Nat
               /\ stream'[s].latest \in Nat /\ stream'[s].at # "free" =>
                    stream'[s].run \in Nat /\ stream'[s].run <= node'[stream'[s].node].run
    <3>1. CASE stream[s].at = "free"
      <4>1. stream'[s] = Free
        BY <1>8, <3>1
      <4>2. stream'[s].at = "free" /\ ~stream'[s].ready
        BY <4>1 DEF Free
      <4> QED BY <4>1, <4>2
    <3>2. CASE stream[s].at # "free"
      <4>1. stream'[s] = stream[s]
        BY <1>8, <3>2
      <4> QED BY <1>1, <3>2, <4>1 DEF StreamInv, Unused
    <3> QED BY <3>1, <3>2
  <2>4. streams'[poll'.entry.node] # None => stream'[streams'[poll'.entry.node]].latest \in Nat
    BY <1>2, <1>4, <1>9
  <2> QED BY <1>4, <2>1, <2>2, <2>3, <2>4 DEF StreamInv
<1>11. ASSUME NEW m \in Nodes PROVE FlowInv(m)'
  <2>1. CASE m = n
    BY <2>1
  <2>2. CASE m # n
    <3>1. FlowInv(m) /\ ~AtNode(m, {"send"})'
      BY <1>4, <2>2 DEF Inv, AtNode
    <3>2. \A s \in Slots : streams'[m] = s => stream'[s] = stream[s]
      BY <1>9
    <3> QED BY <1>2, <3>1, <3>2, FlowFrame
  <2> QED BY <2>1, <2>2
<1>12. ASSUME NEW m \in Nodes \ raced' PROVE AddedInv(m)'
  <2>0. AddedInv(m)
    BY <1>2 DEF Inv
  <2>1. Entries(m)' = Entries(m) /\ closed \in BOOLEAN
    BY <1>1 DEF Entries, ShapeInv
  <2>2. streams[m] # None => stream'[streams[m]] = stream[streams[m]]
    BY <1>9
  <2> QED BY <1>1, <1>2, <1>4, <2>0, <2>1, <2>2, AddedFrame DEF AtNode
<1> QED BY <1>5, <1>7, <1>10, <1>11, <1>12 DEF Inv

-----------------------------------------------------------------------------
(***************************************************************************)
(* The samplers                                                            *)
(***************************************************************************)
(* The target of a node that is up and added is its container. *)
LEMMA GetTargetKeeps ==
  ASSUME Inv, GetTarget
  PROVE  Inv'
<1> PICK n : n = poll.entry.node
  OBVIOUS
<1>1. ShapeInv /\ PollInv /\ StreamInv
  BY DEF Inv
<1>2. /\ provider = "docker" /\ poll.at = "sample"
      /\ UNCHANGED <<provider, node, due, closed, streams, stream, faults, passed, reported, raced, misread>>
  BY DEF GetTarget, history
<1>3. n \in Nodes /\ poll \in PollRecord /\ targetCache[n] \in Target \cup {None} /\ closed \in BOOLEAN
      /\ (~closed => poll.entry \in monitored)
  BY <1>1, <1>2, AtEntry DEF ShapeInv
<1>4. CASE ~node[n].up /\ DroppedOnError /\ targetCache' = targetCache /\ targetCache[n] = None
  <2>1. LetGo
    BY <1>1, <1>2, NothingToLetGo
  <2>2. streams[n] = None /\ ~Added(n)
    BY <1>1, <1>2, <1>3, <1>4 DEF StreamInv, Added
  <2> QED BY <1>1, <1>2, <1>3, <1>4, <2>1, <2>2, DroppedOnErrorKeeps DEF ShapeInv
<1>5. ASSUME NEW t \in Target,
             poll' = [poll EXCEPT !.at = "target", !.target = t],
             targetCache' = [targetCache EXCEPT ![n] = t],
             targetCache[n] = t \/ (node[n].up /\ t = [id |-> node[n].id, run |-> node[n].run]),
             UNCHANGED <<nodeCache, monitored>>
      PROVE  Inv'
  <2>1. /\ poll'.at = "target" /\ poll'.target = t /\ poll'.entry = poll.entry /\ poll'.todo = poll.todo
        /\ poll' \in PollRecord
    BY <1>3, <1>5 DEF PollRecord, Steps
  <2>2. PollInv'
    BY <1>1, <1>2, <1>5, <2>1 DEF PollInv
  <2>3. targetCache' \in [Nodes -> Target \cup {None}]
    BY <1>1, <1>5 DEF ShapeInv
  <2>4. ShapeInv'
    BY <1>1, <1>2, <1>5, <2>1, <2>3 DEF ShapeInv
  <2>5. StreamInv'
    <3>1. \A m \in Nodes : node'[m].run \in Nat /\ node[m].run <= node'[m].run
      BY <1>1, <1>2 DEF ShapeInv
    <3> QED BY <1>1, <1>2, <2>1, <3>1, StreamFrame
  <2>6. ASSUME NEW m \in Nodes PROVE FlowInv(m)'
    BY <1>2, <1>5, <2>1, FlowFrame DEF AtNode, Inv
  <2>7. ASSUME NEW m \in Nodes \ raced' PROVE AddedInv(m)'
    <3>0. AddedInv(m)
      BY <1>2 DEF Inv
    <3>1. Entries(m)' = Entries(m)
      BY <1>5 DEF Entries
    <3>2. CASE m # n
      <4>1. targetCache'[m] = targetCache[m]
        BY <1>1, <1>5, <3>2 DEF ShapeInv
      <4> QED BY <1>1, <1>2, <1>3, <2>1, <3>0, <3>1, <3>2, <4>1, AddedFrame DEF AtNode
    <3>3. CASE m = n
      <4>1. targetCache'[n] = t
        BY <1>1, <1>3, <1>5 DEF ShapeInv
      <4>2. ~closed => Entries(n)' # {}
        BY <1>3, <3>1, <3>3 DEF Entries
      <4>3. Added(n)' => Added(n)
        BY <1>2 DEF Added
      <4>4. Added(n) => t = [id |-> node[n].id, run |-> node[n].run]
        BY <1>5, <3>0, <3>3, NoneIsNothing DEF AddedInv
      <4>5. Added(n) => HasEntry(n)'
        BY <1>2, <1>5, <3>0, <3>3 DEF AddedInv, HasEntry, Entries
      <4>6. streams'[n] = None /\ ~AtNode(n, {"stream"})'
        BY <1>1, <1>2, <1>3, <2>1 DEF StreamInv, AtNode
      <4>7. \A d \in due' : d.node = n => d.run <= node'[n].run
        BY <1>2, <3>0, <3>3 DEF AddedInv
      <4> QED BY <1>2, <2>1, <3>3, <4>1, <4>2, <4>3, <4>4, <4>5, <4>6, <4>7 DEF AddedInv
    <3> QED BY <3>2, <3>3
  <2> QED BY <2>2, <2>4, <2>5, <2>6, <2>7 DEF Inv
<1>6. CASE targetCache[n] # None /\ poll' = [poll EXCEPT !.at = "target", !.target = targetCache[n]]
           /\ UNCHANGED <<targetCache, nodeCache, monitored>>
  <2>1. targetCache[n] \in Target
    BY <1>3, <1>6
  <2>2. targetCache' = [targetCache EXCEPT ![n] = targetCache[n]]
    BY <1>1, <1>3, <1>6 DEF ShapeInv
  <2>3. PICK t \in Target : t = targetCache[n]
    BY <2>1
  <2>4. /\ poll' = [poll EXCEPT !.at = "target", !.target = t]
        /\ targetCache' = [targetCache EXCEPT ![n] = t] /\ targetCache[n] = t
        /\ UNCHANGED <<nodeCache, monitored>>
    BY <1>6, <2>2, <2>3
  <2> QED BY <1>5, <2>4
<1>7. CASE targetCache[n] = None /\ node[n].up
           /\ targetCache' = [targetCache EXCEPT ![n] = [id |-> node[n].id, run |-> node[n].run]]
           /\ poll' = [poll EXCEPT !.at = "target", !.target = targetCache'[n]]
           /\ UNCHANGED <<nodeCache, monitored>>
  <2>1. [id |-> node[n].id, run |-> node[n].run] \in Target
    BY <1>1, <1>3 DEF ShapeInv, Target
  <2>2. PICK t \in Target : t = [id |-> node[n].id, run |-> node[n].run]
    BY <2>1
  <2>3. targetCache' = [targetCache EXCEPT ![n] = t] /\ targetCache'[n] = t
    BY <1>1, <1>3, <1>7, <2>2 DEF ShapeInv
  <2> QED BY <1>5, <1>7, <2>2, <2>3
<1> QED BY <1>4, <1>6, <1>7 DEF GetTarget

(* The files of the target are those of the node's container, or there are *)
(* none.                                                                   *)
LEMMA ReadTargetKeeps ==
  ASSUME Inv, ReadTarget
  PROVE  Inv'
<1> PICK n : n = poll.entry.node
  OBVIOUS
<1>1. ShapeInv /\ PollInv /\ StreamInv
  BY DEF Inv
<1>2. /\ provider = "docker" /\ poll.at = "target"
      /\ UNCHANGED <<provider, node, due, closed, streams, stream, faults, passed, reported, raced, misread>>
  BY DEF ReadTarget, history
<1>3. n \in Nodes /\ streams[n] = None /\ LetGo
  BY <1>1, <1>2, AtEntry, NothingToLetGo DEF StreamInv
<1>4. CASE /\ ~(node[n].up /\ node[n].id = poll.target.id /\ node[n].run = poll.target.run)
           /\ targetCache' = [targetCache EXCEPT ![n] = None] /\ DroppedOnError
  <2>1. targetCache' \in [Nodes -> Target \cup {None}] /\ targetCache'[n] = None
        /\ \A m \in Nodes : m # n => targetCache'[m] = targetCache[m]
    BY <1>1, <1>3, <1>4 DEF ShapeInv
  <2>2. CASE n \in raced
    BY <1>1, <1>2, <1>3, <1>4, <2>1, <2>2, DroppedOnErrorKeeps DEF ShapeInv
  <2>3. CASE n \notin raced
    <3>1. AddedInv(n)
      BY <1>3, <2>3 DEF Inv
    <3>2. ~Added(n)
      <4> SUFFICES ASSUME Added(n) PROVE FALSE
        OBVIOUS
      <4>1. poll.target = [id |-> node[n].id, run |-> node[n].run]
        BY <1>2, <3>1 DEF AddedInv, AtNode
      <4> QED BY <1>4, <4>1 DEF Added
    <3> QED BY <1>1, <1>2, <1>3, <1>4, <2>1, <3>2, DroppedOnErrorKeeps DEF ShapeInv
  <2> QED BY <2>2, <2>3
<1>5. CASE Sampled(node[n].bytes) /\ UNCHANGED <<targetCache, nodeCache, monitored>>
  <2>1. PICK v \in Nat : v = node[n].bytes
    BY <1>1, <1>3 DEF ShapeInv
  <2>2. FlowInv(n) /\ passed[n] \in Nat /\ v <= passed[n]
    BY <1>1, <1>3, <2>1 DEF Inv, FlowInv, ShapeInv
  <2>3. Before(n) \in 0 .. passed[n] /\ Before(n)' = Before(n)
    BY <1>2, <2>1, <2>2 DEF Before
  <2>4. PICK b \in 0 .. passed[n] : b = Before(n)
    BY <2>3
  <2>5. poll'.value = v
    BY <1>1, <1>5, <2>1 DEF Sampled, ShapeInv, PollRecord
  <2>6. Fits(n, b, v) /\ Within(n, b, v)
    BY <2>1, <2>2, <2>4 DEF FlowInv, Within
  <2>7. Fits(n, Before(n), node[n].bytes)' /\ Fits(n, b, poll.value)' /\ Within(n, b, poll.value)'
    BY <1>2, <1>5, <2>1, <2>3, <2>4, <2>5, <2>6 DEF Fits, Within
  <2>8. FlowInv(n)'
    <3>1. \A s \in Slots : streams'[n] # s
      BY <1>2, <1>3
    <3>2. b \in 0 .. passed'[n] /\ node'[n].bytes <= passed'[n]
      BY <1>2, <2>1, <2>2
    <3> QED BY <2>7, <3>1, <3>2 DEF FlowInv
  <2> QED BY <1>2, <1>3, <1>5, <2>1, <2>8, SampledKeeps DEF history
<1> QED BY <1>4, <1>5 DEF ReadTarget

(* The stream Run takes in hand is the node's; a new one has not delivered *)
(* anything yet.                                                           *)
LEMMA streamForKeeps ==
  ASSUME Inv, streamFor
  PROVE  Inv'
<1> PICK n : n = poll.entry.node
  OBVIOUS
<1>1. ShapeInv /\ PollInv /\ StreamInv
  BY DEF Inv
<1>2. /\ provider = "remote" /\ poll.at = "sample"
      /\ UNCHANGED <<provider, node, due, monitored, closed, nodeCache, targetCache, faults, passed, reported, raced, misread>>
  BY DEF streamFor, history
<1>3. /\ n \in Nodes /\ poll \in PollRecord /\ closed \in BOOLEAN /\ streams[n] \in Slots \cup {None}
      /\ ~closed => poll.entry \in monitored
  BY <1>1, <1>2, AtEntry DEF ShapeInv
<1>4. ASSUME NEW t \in Slots, poll' = [poll EXCEPT !.at = "stream", !.target = t]
      PROVE  /\ poll'.at = "stream" /\ poll'.target = t /\ poll'.entry = poll.entry /\ poll'.todo = poll.todo
             /\ poll' \in PollRecord /\ PollInv'
  <2>1. /\ poll'.at = "stream" /\ poll'.target = t /\ poll'.entry = poll.entry /\ poll'.todo = poll.todo
        /\ poll' \in PollRecord
    BY <1>3, <1>4 DEF PollRecord, Steps
  <2> QED BY <1>1, <1>2, <2>1 DEF PollInv
<1>5. CASE /\ streams[n] # None
           /\ poll' = [poll EXCEPT !.at = "stream", !.target = streams[n]]
           /\ UNCHANGED <<streams, stream>>
  <2>1. PICK t \in Slots : t = streams[n]
    BY <1>3, <1>5
  <2>2. /\ poll'.at = "stream" /\ poll'.target = t /\ poll'.entry = poll.entry /\ poll'.todo = poll.todo
        /\ poll' \in PollRecord /\ PollInv'
    BY <1>4, <1>5, <2>1
  <2>3. ShapeInv'
    BY <1>1, <1>2, <1>5, <2>2 DEF ShapeInv
  <2>4. StreamInv'
    <3>1. \A s \in Slots : Unused(s)' => Unused(s)
      BY <1>2, <1>5 DEF Unused, Held
    <3>2. stream[t].at # "free" /\ stream[t].node = n
      BY <1>1, <1>3, <1>5, <2>1 DEF StreamInv
    <3>3. ASSUME NEW s \in Slots PROVE Unused(s)' => stream'[s] = Free
      BY <1>1, <1>5, <3>1 DEF StreamInv, Free
    <3> QED BY <1>1, <1>2, <1>5, <2>1, <2>2, <3>2, <3>3 DEF StreamInv
  <2>5. ASSUME NEW m \in Nodes PROVE FlowInv(m)'
    BY <1>2, <1>5, <2>2, FlowFrame DEF AtNode, Inv
  <2>6. ASSUME NEW m \in Nodes \ raced' PROVE AddedInv(m)'
    <3>0. AddedInv(m)
      BY <1>2 DEF Inv
    <3>1. Entries(m)' = Entries(m)
      BY <1>2 DEF Entries
    <3>2. CASE m # n
      BY <1>1, <1>2, <1>3, <1>5, <2>2, <3>0, <3>1, <3>2, AddedFrame DEF AtNode
    <3>3. CASE m = n
      <4>1. ~closed' /\ Entries(m)' = {} /\ ~InRound(m)' => targetCache'[m] = None /\ streams'[m] = None
        BY <1>2, <1>3, <3>1, <3>3 DEF Entries
      <4>2. Added(m)' => Added(m)
        BY <1>2 DEF Added
      <4>3. AtNode(m, {"stream"})' => streams'[m] = poll'.target
        BY <1>5, <2>1, <2>2, <3>3
      <4>4. ~AtNode(m, {"target"})'
        BY <2>2 DEF AtNode
      <4>5. \A d \in due' : d.node = m => d.run <= node'[m].run
        BY <1>2, <3>0 DEF AddedInv
      <4> QED BY <1>2, <1>5, <3>0, <4>1, <4>2, <4>3, <4>4, <4>5 DEF AddedInv, HasEntry, Entries
    <3> QED BY <3>2, <3>3
  <2> QED BY <2>2, <2>3, <2>4, <2>5, <2>6 DEF Inv
<1>6. ASSUME NEW s \in Slots, Unused(s), streams[n] = None,
             stream' = [stream EXCEPT ![s] = [Free EXCEPT !.at = "start", !.node = n]],
             streams' = [streams EXCEPT ![n] = s],
             poll' = [poll EXCEPT !.at = "stream", !.target = s]
      PROVE  Inv'
  <2>1. /\ poll'.at = "stream" /\ poll'.target = s /\ poll'.entry = poll.entry /\ poll'.todo = poll.todo
        /\ poll' \in PollRecord /\ PollInv'
    BY <1>4, <1>6
  <2>2. /\ stream'[s] = [at |-> "start", node |-> n, run |-> None, latest |-> None, ready |-> FALSE, done |-> FALSE,
                         cancelled |-> FALSE]
        /\ \A r \in Slots : r # s => stream'[r] = stream[r]
        /\ streams'[n] = s /\ \A m \in Nodes : m # n => streams'[m] = streams[m]
    BY <1>1, <1>3, <1>6 DEF ShapeInv, Free
  <2>3. ShapeInv'
    <3>1. [at |-> "start", node |-> n, run |-> None, latest |-> None, ready |-> FALSE, done |-> FALSE,
           cancelled |-> FALSE] \in StreamRecord
      BY <1>3 DEF StreamRecord
    <3>2. stream' \in [Slots -> StreamRecord] /\ streams' \in [Nodes -> Slots \cup {None}]
      BY <1>1, <1>6, <3>1, <2>2 DEF ShapeInv
    <3> QED BY <1>1, <1>2, <2>1, <3>2 DEF ShapeInv
  <2>4. \A m \in Nodes : streams[m] # s
    BY <1>1, <1>6 DEF StreamInv, Unused
  <2>5. StreamInv'
    <3>1. ASSUME NEW m \in Nodes, streams'[m] # None
          PROVE  stream'[streams'[m]].at # "free" /\ stream'[streams'[m]].node = m
      <4>1. CASE m = n
        BY <2>2, <4>1
      <4>2. CASE m # n
        <5>1. streams'[m] = streams[m] /\ streams[m] \in Slots /\ streams[m] # s
          BY <1>1, <2>2, <2>4, <3>1, <4>2 DEF ShapeInv
        <5> QED BY <1>1, <2>2, <3>1, <5>1 DEF StreamInv
      <4> QED BY <4>1, <4>2
    <3>2. ASSUME NEW r \in Slots
          PROVE  /\ stream'[r].at # "free" => stream'[r].node \in Nodes
                 /\ stream'[r].at \in {"start", "run", "end"} => ~stream'[r].done /\ streams'[stream'[r].node] = r
                 /\ stream'[r].at \in {"told", "drop"} => stream'[r].done
                 /\ Unused(r)' => stream'[r] = Free
                 /\ stream'[r].at = "start" => stream'[r].latest = None
                 /\ stream'[r].ready /\ ~stream'[r].done => stream'[r].latest \in Nat
                 /\ stream'[r].latest \in Nat /\ stream'[r].at # "free" =>
                      stream'[r].run \in Nat /\ stream'[r].run <= node'[stream'[r].node].run
      <4>1. CASE r = s
        <5>1. ~Unused(r)'
          BY <2>2, <4>1 DEF Unused
        <5> QED BY <1>3, <2>2, <4>1, <5>1, NoneIsNothing
      <4>2. CASE r # s
        <5>1. stream'[r] = stream[r]
          BY <2>2, <4>2
        <5>2. Unused(r)' => Unused(r)
          BY <1>2, <5>1 DEF Unused, Held
        <5>3. stream[r].at \in {"start", "run", "end"} => streams'[stream[r].node] = r
          BY <1>1, <1>6, <2>2, NoneIsNothing DEF StreamInv
        <5>4. /\ stream[r].at # "free" => stream[r].node \in Nodes
              /\ stream[r].at \in {"start", "run", "end"} => ~stream[r].done
              /\ stream[r].at \in {"told", "drop"} => stream[r].done
              /\ Unused(r) => stream[r] = Free
              /\ stream[r].at = "start" => stream[r].latest = None
              /\ stream[r].ready /\ ~stream[r].done => stream[r].latest \in Nat
              /\ stream[r].latest \in Nat /\ stream[r].at # "free" =>
                   stream[r].run \in Nat /\ stream[r].run <= node[stream[r].node].run
          BY <1>1 DEF StreamInv
        <5> QED BY <1>2, <5>1, <5>2, <5>3, <5>4
      <4> QED BY <4>1, <4>2
    <3>3. /\ provider' = "docker" => \A m \in Nodes : streams'[m] = None
          /\ provider' = "remote" => \A m \in Nodes : targetCache'[m] = None
      BY <1>1, <1>2 DEF StreamInv
    <3>4. /\ stream'[poll'.target].node = poll'.entry.node
          /\ stream'[poll'.target].at # "free"
          /\ streams'[poll'.entry.node] = poll'.target
      BY <2>1, <2>2
    <3> QED BY <2>1, <3>1, <3>2, <3>3, <3>4 DEF StreamInv
  <2>6. ASSUME NEW m \in Nodes PROVE FlowInv(m)'
    <3>1. FlowInv(m) /\ ~AtNode(m, {"send"})'
      BY <2>1 DEF Inv, AtNode
    <3>2. ASSUME NEW r \in Slots, streams'[m] = r, stream'[r].latest \in Nat
          PROVE  streams[m] = r /\ stream'[r] = stream[r]
      BY <2>2, <2>4, <3>2, NoneIsNothing
    <3> QED BY <1>2, <3>1, <3>2, FlowFrame
  <2>7. ASSUME NEW m \in Nodes \ raced' PROVE AddedInv(m)'
    <3>0. AddedInv(m)
      BY <1>2 DEF Inv
    <3>1. Entries(m)' = Entries(m)
      BY <1>2 DEF Entries
    <3>2. CASE m # n
      <4>1. streams'[m] = streams[m] /\ (streams[m] # None => stream'[streams[m]] = stream[streams[m]])
        BY <1>1, <2>2, <2>4, <3>2 DEF ShapeInv
      <4> QED BY <1>1, <1>2, <1>3, <2>1, <3>0, <3>1, <3>2, <4>1, AddedFrame DEF AtNode
    <3>3. CASE m = n
      <4>1. ~closed' /\ Entries(m)' = {} /\ ~InRound(m)' => targetCache'[m] = None /\ streams'[m] = None
        BY <1>2, <1>3, <3>1, <3>3 DEF Entries
      <4>2. Added(m)' => Added(m)
        BY <1>2 DEF Added
      <4>3. /\ streams'[m] = poll'.target /\ stream'[streams'[m]].at = "start" /\ ~stream'[streams'[m]].cancelled
            /\ ~AtNode(m, {"target"})'
        BY <2>1, <2>2, <3>3 DEF AtNode
      <4>4. \A d \in due' : d.node = m => d.run <= node'[m].run
        BY <1>2, <3>0 DEF AddedInv
      <4> QED BY <1>2, <3>0, <4>1, <4>2, <4>3, <4>4 DEF AddedInv, HasEntry, Entries
    <3> QED BY <3>2, <3>3
  <2> QED BY <2>1, <2>3, <2>5, <2>6, <2>7 DEF Inv
<1>7. CASE /\ streams[n] = None
           /\ \E x \in Slots : Unused(x)
           /\ LET s == CHOOSE x \in Slots : Unused(x) IN
              /\ stream' = [stream EXCEPT ![s] = [Free EXCEPT !.at = "start", !.node = n]]
              /\ streams' = [streams EXCEPT ![n] = s]
              /\ poll' = [poll EXCEPT !.at = "stream", !.target = s]
  <2>1. PICK s \in Slots : Unused(s) /\ s = CHOOSE x \in Slots : Unused(x)
    BY <1>7
  <2> QED BY <1>6, <1>7, <2>1
<1> QED BY <1>5, <1>7 DEF streamFor

(* What a stream that is ready and has not ended holds is a sample of the  *)
(* container it was started in; a stream that has ended is not the one of  *)
(* a node that is up and added.                                            *)
LEMMA ReadStreamKeeps ==
  ASSUME Inv, ReadStream
  PROVE  Inv'
<1> PICK n : n = poll.entry.node
  OBVIOUS
<1> PICK t : t = poll.target
  OBVIOUS
<1>1. ShapeInv /\ PollInv /\ StreamInv
  BY DEF Inv
<1>2. /\ provider = "remote" /\ poll.at = "stream" /\ stream[t].ready /\ LetGo
      /\ UNCHANGED <<provider, node, due, closed, targetCache, faults, passed, reported, raced, misread>>
  BY DEF ReadStream, history
<1>3. n \in Nodes /\ t \in Slots /\ targetCache[n] = None /\ streams[n] \in {t, None} /\ stream[t].node = n
  BY <1>1, <1>2, AtEntry DEF StreamInv, PollInv
<1>4. CASE stream[t].done /\ streams' = [streams EXCEPT ![n] = None] /\ DroppedOnError
  <2>1. streams' \in [Nodes -> Slots \cup {None}] /\ streams'[n] = None
        /\ \A m \in Nodes : m # n => streams'[m] = streams[m]
    BY <1>1, <1>3, <1>4 DEF ShapeInv
  <2>2. \A s \in Slots : stream[s].at \in {"start", "run", "end"} => stream[s].node # n
    BY <1>1, <1>3, <1>4, NoneIsNothing DEF StreamInv
  <2>3. CASE n \in raced
    BY <1>1, <1>2, <1>3, <1>4, <2>1, <2>2, <2>3, DroppedOnErrorKeeps DEF ShapeInv
  <2>4. CASE n \notin raced
    <3>1. AddedInv(n)
      BY <1>3, <2>4 DEF Inv
    <3>2. ~Added(n)
      <4> SUFFICES ASSUME Added(n) PROVE FALSE
        OBVIOUS
      <4>1. streams[n] = t /\ t # None
        BY <1>2, <1>3, <3>1 DEF AddedInv, AtNode
      <4>2. stream[t].at \in {"start", "run"}
        BY <3>1, <4>1 DEF AddedInv
      <4> QED BY <1>1, <1>3, <1>4, <4>2 DEF StreamInv
    <3> QED BY <1>1, <1>2, <1>3, <1>4, <2>1, <2>2, <3>2, DroppedOnErrorKeeps DEF ShapeInv
  <2> QED BY <2>3, <2>4
<1>5. CASE ~stream[t].done /\ Sampled(stream[t].latest) /\ UNCHANGED <<streams, nodeCache, monitored>>
  <2>1. PICK v \in Nat : v = stream[t].latest
    BY <1>1, <1>2, <1>3, <1>5 DEF StreamInv
  <2>2. stream[t].at \in {"start", "run", "end"}
    <3>1. stream[t].at \in {"free", "start", "run", "end", "told", "drop"}
      BY <1>1, <1>3 DEF ShapeInv, StreamRecord
    <3> QED BY <1>1, <1>2, <1>3, <1>5, <3>1 DEF StreamInv
  <2>3. streams[n] = t
    BY <1>1, <1>3, <2>2 DEF StreamInv
  <2>4. stream'[t] = stream[t]
    BY <1>2, <1>3, <2>2 DEF LetGo
  <2>5. FlowInv(n)
    BY <1>3 DEF Inv
  <2>6. PICK b \in 0 .. passed[n] :
         /\ Within(n, b, v) /\ Fits(n, b, v)
         /\ stream[t].run = node[n].run => b = Before(n) /\ v <= node[n].bytes
    BY <1>3, <2>1, <2>3, <2>5 DEF FlowInv
  <2>7. poll'.value = v
    BY <1>1, <1>5, <2>1 DEF Sampled, ShapeInv, PollRecord
  <2>8. Before(n)' = Before(n) /\ node'[n] = node[n] /\ passed'[n] = passed[n]
    BY <1>2 DEF Before
  <2>9. FlowInv(n)'
    <3>1. Fits(n, Before(n), node[n].bytes)'
      BY <1>2, <1>5, <2>5, <2>8 DEF FlowInv, Fits
    <3>2. Within(n, b, poll.value)' /\ Fits(n, b, poll.value)'
      BY <1>2, <1>5, <2>6, <2>7, <2>8 DEF Within, Fits
    <3>3. ASSUME NEW s \in Slots, streams'[n] = s
          PROVE  /\ Within(n, b, stream[s].latest)' /\ Fits(n, b, stream[s].latest)'
                 /\ stream'[s].run = node'[n].run => b = Before(n)' /\ stream'[s].latest <= node'[n].bytes
                 /\ poll'.value <= stream'[s].latest
      <4>1. s = t /\ stream'[s].latest = v /\ stream'[s].run = stream[t].run
        BY <1>5, <2>1, <2>3, <2>4, <3>3
      <4>2. Within(n, b, stream[s].latest)' /\ Fits(n, b, stream[s].latest)'
        BY <2>7, <3>2, <4>1 DEF Within, Fits
      <4> QED BY <2>6, <2>7, <2>8, <4>1, <4>2
    <3> QED BY <2>5, <2>8, <3>1, <3>2, <3>3 DEF FlowInv
  <2> QED BY <1>2, <1>3, <1>5, <2>1, <2>3, <2>9, SampledKeeps DEF history
<1> QED BY <1>4, <1>5 DEF ReadStream

(* A node of which a sample fails has raced.                               *)
LEMMA SampleFailsKeeps ==
  ASSUME Inv, SampleFails
  PROVE  Inv'
<1>1. ShapeInv /\ PollInv /\ StreamInv
  BY DEF Inv
<1>2. /\ poll.at \in {"sample", "target", "stream"} /\ faults < MaxFaults /\ faults' = faults + 1
      /\ DroppedOnError /\ LetGo /\ raced' = raced \cup {poll.entry.node}
      /\ UNCHANGED <<provider, node, due, closed, targetCache, streams, passed, reported, misread>>
  BY DEF SampleFails
<1>3. poll.entry.node \in Nodes
  BY <1>1, <1>2, AtEntry
<1>4. faults' \in 0 .. MaxFaults /\ raced' \subseteq Nodes
  BY <1>1, <1>2, <1>3 DEF ShapeInv
<1> QED BY <1>1, <1>2, <1>3, <1>4, DroppedOnErrorKeeps DEF ShapeInv

-----------------------------------------------------------------------------
(***************************************************************************)
(* The goroutine of a stream                                               *)
(***************************************************************************)
(* A step of the goroutine of stream s, of node n, that leaves it in the   *)
(* map: what it has to establish of the stream.                            *)
LEMMA StreamStepKeeps ==
  ASSUME Inv, NEW s \in Slots, NEW n \in Nodes, NEW r \in StreamRecord,
         stream[s].at # "free", stream[s].node = n, r.at # "free", r.node = n,
         stream' = [stream EXCEPT ![s] = r],
         UNCHANGED <<unchangedByStream, streams>>,
         faults' \in 0 .. MaxFaults, raced \subseteq raced', raced' \subseteq Nodes,
         r.at \in {"start", "run", "end"} => ~r.done /\ streams[n] = s,
         r.at \in {"told", "drop"} => r.done,
         r.at = "start" => r.latest = None,
         r.ready /\ ~r.done => r.latest \in Nat,
         r.latest \in Nat => r.run \in Nat /\ r.run <= node[n].run,
         stream[s].latest \in Nat => r.latest \in Nat,
         r.latest \in Nat => FlowInv(n)' \/ (r.latest = stream[s].latest /\ r.run = stream[s].run),
         \/ n \in raced' \/ ~Added(n) \/ streams[n] # s
         \/ r.at \in {"start", "run"} /\ ~r.cancelled /\ (r.at = "run" => r.run = node[n].run)
  PROVE  Inv'
<1>1. ShapeInv /\ PollInv /\ StreamInv
  BY DEF Inv
<1>2. UNCHANGED <<provider, node, due, monitored, poll, closed, nodeCache, targetCache, passed, reported, misread, streams>>
  BY DEF unchangedByStream
<1>3. stream'[s] = r /\ \A x \in Slots : x # s => stream'[x] = stream[x]
  BY <1>1 DEF ShapeInv
<1>4. ShapeInv'
  <2>1. stream' \in [Slots -> StreamRecord]
    BY <1>1 DEF ShapeInv
  <2> QED BY <1>1, <1>2, <2>1 DEF ShapeInv, PollRecord
<1>5. PollInv'
  BY <1>1, <1>2, PollFrame DEF ShapeInv
<1>6. StreamInv'
  <2>1. /\ provider' = "docker" => \A m \in Nodes : streams'[m] = None
        /\ provider' = "remote" => \A m \in Nodes : targetCache'[m] = None
    BY <1>1, <1>2 DEF StreamInv
  <2>2. ASSUME NEW m \in Nodes, streams'[m] # None
        PROVE  stream'[streams'[m]].at # "free" /\ stream'[streams'[m]].node = m
    <3>1. streams'[m] = streams[m] /\ streams[m] \in Slots
      BY <1>1, <1>2, <2>2 DEF ShapeInv
    <3>2. stream[streams[m]].at # "free" /\ stream[streams[m]].node = m
      BY <1>1, <2>2, <3>1 DEF StreamInv
    <3> QED BY <1>3, <3>1, <3>2
  <2>3. ASSUME NEW x \in Slots
        PROVE  /\ stream'[x].at # "free" => stream'[x].node \in Nodes
               /\ stream'[x].at \in {"start", "run", "end"} => ~stream'[x].done /\ streams'[stream'[x].node] = x
               /\ stream'[x].at \in {"told", "drop"} => stream'[x].done
               /\ Unused(x)' => stream'[x] = Free
               /\ stream'[x].at = "start" => stream'[x].latest = None
               /\ stream'[x].ready /\ ~stream'[x].done => stream'[x].latest \in Nat
               /\ stream'[x].latest \in Nat /\ stream'[x].at # "free" =>
                    stream'[x].run \in Nat /\ stream'[x].run <= node'[stream'[x].node].run
    <3>1. CASE x = s
      <4>1. ~Unused(x)'
        BY <1>3, <3>1 DEF Unused
      <4> QED BY <1>2, <1>3, <3>1, <4>1
    <3>2. CASE x # s
      <4>1. stream'[x] = stream[x]
        BY <1>3, <3>2
      <4>2. Unused(x)' <=> Unused(x)
        BY <1>2, <4>1 DEF Unused, Held
      <4> QED BY <1>1, <1>2, <4>1, <4>2 DEF StreamInv
    <3> QED BY <3>1, <3>2
  <2>4. poll'.at = "stream" =>
         /\ stream'[poll'.target].node = poll'.entry.node
         /\ stream'[poll'.target].at = "free" => stream'[poll'.target].done
         /\ streams'[poll'.entry.node] \in {poll'.target, None}
    <3>1. poll.at = "stream" => poll.target \in Slots
      BY <1>1 DEF PollInv
    <3> QED BY <1>1, <1>2, <1>3, <3>1 DEF StreamInv
  <2>5. poll'.at = "send" /\ streams'[poll'.entry.node] # None => stream'[streams'[poll'.entry.node]].latest \in Nat
    <3> SUFFICES ASSUME poll.at = "send", streams[poll.entry.node] # None
                 PROVE  stream'[streams[poll.entry.node]].latest \in Nat
      BY <1>2
    <3>1. PICK x \in Slots : x = streams[poll.entry.node]
      BY <1>1, AtEntry DEF ShapeInv
    <3>2. stream[x].latest \in Nat
      BY <1>1, <3>1 DEF StreamInv
    <3> QED BY <1>3, <3>1, <3>2
  <2> QED BY <2>1, <2>2, <2>3, <2>4, <2>5 DEF StreamInv
<1>7. ASSUME NEW m \in Nodes PROVE FlowInv(m)'
  <2>1. CASE m = n /\ FlowInv(n)'
    BY <2>1
  <2>2. CASE ~(m = n /\ FlowInv(n)')
    <3>1. FlowInv(m)
      BY DEF Inv
    <3>2. ASSUME NEW x \in Slots, streams'[m] = x, stream'[x].latest \in Nat
          PROVE  streams[m] = x /\ stream'[x].latest = stream[x].latest /\ stream'[x].run = stream[x].run
      <4>1. streams[m] = x /\ stream[x].node = m
        BY <1>1, <1>2, <3>2 DEF StreamInv
      <4>2. CASE x # s
        BY <1>3, <4>1, <4>2
      <4>3. CASE x = s
        BY <1>3, <2>2, <3>2, <4>1, <4>3
      <4> QED BY <4>2, <4>3
    <3> QED BY <1>2, <3>1, <3>2, FlowFrame DEF AtNode
  <2> QED BY <2>1, <2>2
<1>8. ASSUME NEW m \in Nodes \ raced' PROVE AddedInv(m)'
  <2>0. AddedInv(m)
    BY DEF Inv
  <2>1. Entries(m)' = Entries(m) /\ closed \in BOOLEAN
    BY <1>1, <1>2 DEF Entries, ShapeInv
  <2>2. CASE streams[m] # s
    <3>1. streams[m] # None => stream'[streams[m]] = stream[streams[m]]
      BY <1>1, <1>3, <2>2 DEF ShapeInv
    <3> QED BY <1>1, <1>2, <2>0, <2>1, <3>1, AddedFrame DEF AtNode
  <2>3. CASE streams[m] = s
    <3>1. m = n
      BY <1>1, <2>3 DEF StreamInv
    <3>2. Added(m)' <=> Added(m)
      BY <1>2 DEF Added
    <3>3. Added(m) => r.at \in {"start", "run"} /\ ~r.cancelled /\ (r.at = "run" => r.run = node[n].run)
      BY <2>3, <3>1
    <3>4. ~closed' /\ Entries(m)' = {} /\ ~InRound(m)' => targetCache'[m] = None /\ streams'[m] = None
      BY <1>2, <2>0, <2>1 DEF AddedInv, InRound
    <3>5. \A d \in due' : d.node = m => d.run <= node'[m].run
      BY <1>2, <2>0 DEF AddedInv
    <3> QED BY <1>2, <1>3, <2>0, <2>3, <3>1, <3>2, <3>3, <3>4, <3>5 DEF AddedInv, AtNode, HasEntry, Entries
  <2> QED BY <2>2, <2>3
<1> QED BY <1>4, <1>5, <1>6, <1>7, <1>8 DEF Inv

(* The stream of a slot. *)
LEMMA StreamIs ==
  ASSUME Inv, NEW s \in Slots, stream[s].at # "free"
  PROVE  stream[s] \in StreamRecord /\ stream[s].node \in Nodes
BY DEF Inv, ShapeInv, StreamInv

(* The command is started in the container the node has, or not at all.    *)
LEMMA StartStreamKeeps ==
  ASSUME Inv, NEW s \in Slots, StartStream(s)
  PROVE  Inv'
<1> PICK n : n = stream[s].node
  OBVIOUS
<1> PICK at : at = IF node[n].up /\ ~stream[s].cancelled THEN "run" ELSE "end"
  OBVIOUS
<1>1. /\ stream[s].at = "start"
      /\ stream' = [stream EXCEPT ![s].at = at, ![s].run = node[n].run]
      /\ UNCHANGED <<unchangedByStream, streams, faults, raced>>
  BY DEF StartStream
<1>2. ShapeInv /\ PollInv /\ StreamInv
  BY DEF Inv
<1>3. n \in Nodes /\ stream[s] \in StreamRecord
  BY <1>1, StreamIs
<1> PICK r : r = [stream[s] EXCEPT !.at = at, !.run = node[n].run]
  OBVIOUS
<1>4. node[n].run \in Nat
  BY <1>2, <1>3 DEF ShapeInv
<1>5. /\ r \in StreamRecord /\ r.at = at /\ r.run = node[n].run /\ r.node = n /\ r.latest = stream[s].latest
      /\ (r.ready <=> stream[s].ready) /\ (r.done <=> stream[s].done) /\ (r.cancelled <=> stream[s].cancelled)
  BY <1>3, <1>4 DEF StreamRecord
<1>6. stream' = [stream EXCEPT ![s] = r]
  BY <1>1, <1>2, <1>3 DEF ShapeInv, StreamRecord
<1>7. stream[s].latest = None /\ ~stream[s].done /\ streams[n] = s
  BY <1>1, <1>2 DEF StreamInv
<1>8. ~stream[s].ready
  BY <1>2, <1>7, NoneIsNothing DEF StreamInv
<1>9. n \in raced \/ ~Added(n) \/ (at = "run" /\ ~stream[s].cancelled)
  <2> SUFFICES ASSUME n \notin raced, Added(n) PROVE at = "run" /\ ~stream[s].cancelled
    OBVIOUS
  <2>1. AddedInv(n)
    BY <1>3 DEF Inv
  <2> QED BY <1>7, <2>1, NoneIsNothing DEF AddedInv, Added
<1>10. faults' \in 0 .. MaxFaults /\ raced' = raced /\ raced \subseteq Nodes
  BY <1>1, <1>2 DEF ShapeInv
<1> QED
  <2>1. r.latest \notin Nat
    BY <1>5, <1>7
  <2>2. r.at # "free" /\ r.at # "start" /\ r.at \notin {"told", "drop"}
    BY <1>5
  <2>3. stream[s].at # "free" /\ UNCHANGED <<unchangedByStream, streams>>
    BY <1>1
  <2> QED BY <1>3, <1>5, <1>6, <1>7, <1>8, <1>9, <1>10, <2>1, <2>2, <2>3, StreamStepKeeps

(* A block that arrives is of the node's container: it is no older than    *)
(* what Run may still have to send.                                        *)
LEMMA StreamDeliversKeeps ==
  ASSUME Inv, NEW s \in Slots, StreamDelivers(s)
  PROVE  Inv'
<1> PICK n : n = stream[s].node
  OBVIOUS
<1> PICK v : v = node[n].bytes
  OBVIOUS
<1>1. /\ stream[s].at = "run" /\ node[n].up /\ node[n].run = stream[s].run /\ ~stream[s].cancelled
      /\ stream' = [stream EXCEPT ![s].latest = v, ![s].ready = TRUE]
      /\ UNCHANGED <<unchangedByStream, streams, faults, raced>>
  BY DEF StreamDelivers, Alive
<1>2. ShapeInv /\ PollInv /\ StreamInv
  BY DEF Inv
<1>3. n \in Nodes /\ stream[s] \in StreamRecord
  BY <1>1, StreamIs
<1> PICK r : r = [stream[s] EXCEPT !.latest = v, !.ready = TRUE]
  OBVIOUS
<1>4. node[n].run \in Nat /\ v \in Nat /\ passed[n] \in Nat
  BY <1>2, <1>3 DEF ShapeInv
<1>5. /\ r \in StreamRecord /\ r.at = "run" /\ r.run = node[n].run /\ r.node = n /\ r.latest = v
      /\ r.ready /\ (r.done <=> stream[s].done) /\ ~r.cancelled
  BY <1>1, <1>3, <1>4 DEF StreamRecord
<1>6. stream' = [stream EXCEPT ![s] = r] /\ stream'[s] = r
  BY <1>1, <1>2, <1>3 DEF ShapeInv, StreamRecord
<1>7. ~stream[s].done /\ streams[n] = s
  BY <1>1, <1>2 DEF StreamInv
<1>8. UNCHANGED <<provider, node, due, monitored, poll, closed, nodeCache, targetCache, passed, reported, misread, streams>>
  BY <1>1 DEF unchangedByStream
<1>9. FlowInv(n)'
  <2>1. FlowInv(n)
    BY <1>3 DEF Inv
  <2>2. v <= passed[n] /\ Fits(n, Before(n), v)
    BY <2>1 DEF FlowInv
  <2>3. Before(n)' = Before(n) /\ Before(n) \in 0 .. passed[n]
    BY <1>4, <1>8, <2>2 DEF Before
  <2>4. PICK b \in 0 .. passed[n] : b = Before(n)
    BY <2>3
  <2>5. ASSUME NEW c, NEW w, Fits(n, c, w) PROVE Fits(n, c, w)'
    BY <1>8, <2>5 DEF Fits
  <2>6. Fits(n, Before(n), node[n].bytes)'
    BY <1>8, <2>2, <2>3, <2>5 DEF Fits
  <2>7. ASSUME AtNode(n, {"send"})
        PROVE  poll.value \in Nat /\ poll.value <= v /\ Fits(n, b, poll.value)
    <3>1. PICK c \in 0 .. passed[n] :
           /\ AtNode(n, {"send"}) => Within(n, c, poll.value) /\ Fits(n, c, poll.value)
           /\ \A x \in Slots : streams[n] = x /\ stream[x].latest \in Nat =>
                /\ Within(n, c, stream[x].latest) /\ Fits(n, c, stream[x].latest)
                /\ stream[x].run = node[n].run => c = Before(n) /\ stream[x].latest <= node[n].bytes
                /\ AtNode(n, {"send"}) => poll.value <= stream[x].latest
      BY <2>1 DEF FlowInv
    <3>2. poll.at = "send" /\ poll.entry.node = n /\ poll.value \in Nat
      BY <1>2, <2>7 DEF AtNode, PollInv
    <3>3. s # None /\ stream[s].latest \in Nat
      BY <1>2, <1>7, <3>2 DEF StreamInv
    <3>4. c = b /\ stream[s].latest <= v /\ poll.value <= stream[s].latest
      BY <1>1, <1>7, <2>4, <2>7, <3>1, <3>3
    <3> QED BY <1>4, <2>7, <3>1, <3>2, <3>3, <3>4
  <2>8. AtNode(n, {"send"})' => Within(n, b, poll.value)' /\ Fits(n, b, poll.value)' /\ poll'.value <= v
    <3> SUFFICES ASSUME AtNode(n, {"send"})
                 PROVE  Within(n, b, poll.value)' /\ Fits(n, b, poll.value)' /\ poll'.value <= v
      BY <1>8 DEF AtNode
    <3>1. Fits(n, b, poll.value)'
      BY <1>8, <2>7 DEF Fits
    <3>2. Within(n, b, poll.value)' /\ poll'.value <= v
      BY <1>8, <2>3, <2>4, <2>7 DEF Within
    <3> QED BY <3>1, <3>2
  <2>9. ASSUME NEW x \in Slots, streams'[n] = x
        PROVE  /\ Within(n, b, stream[x].latest)' /\ Fits(n, b, stream[x].latest)'
               /\ stream'[x].run = node'[n].run => b = Before(n)' /\ stream'[x].latest <= node'[n].bytes
               /\ AtNode(n, {"send"})' => poll'.value <= stream'[x].latest
    <3>1. stream'[x].latest = v /\ node'[n].bytes = v
      BY <1>5, <1>6, <1>7, <1>8, <2>9
    <3>2. Fits(n, b, stream[x].latest)'
      BY <1>8, <2>2, <2>4, <3>1 DEF Fits
    <3>3. Within(n, b, stream[x].latest)'
      BY <1>4, <2>3, <2>4, <3>1 DEF Within
    <3> QED BY <1>4, <2>3, <2>4, <2>8, <3>1, <3>2, <3>3
  <2> QED BY <1>8, <2>2, <2>6, <2>8, <2>9 DEF FlowInv
<1>10. faults' \in 0 .. MaxFaults /\ raced' = raced /\ raced \subseteq Nodes
  BY <1>1, <1>2 DEF ShapeInv
<1>11. stream[s].at # "free" /\ UNCHANGED <<unchangedByStream, streams>>
  BY <1>1
<1>12. /\ r.at # "free" /\ r.at \notin {"told", "drop"} /\ r.at # "start"
       /\ r.at \in {"start", "run"} /\ ~r.cancelled /\ (r.at = "run" => r.run = node[n].run)
       /\ r.latest \in Nat /\ r.run \in Nat /\ r.run <= node[n].run /\ ~r.done /\ streams[n] = s
  BY <1>4, <1>5, <1>7
<1>13. r \in StreamRecord /\ r.node = n /\ stream' = [stream EXCEPT ![s] = r]
  BY <1>5, <1>6
<1> QED BY <1>3, <1>9, <1>10, <1>11, <1>12, <1>13, StreamStepKeeps

(* A stream only ends by itself when its container is gone or it has been  *)
(* cancelled, and then it is not the one of a node that is up and added.   *)
LEMMA StreamEndsKeeps ==
  ASSUME Inv, NEW s \in Slots, StreamEnds(s)
  PROVE  Inv'
<1> PICK n : n = stream[s].node
  OBVIOUS
<1>1. /\ stream[s].at = "run" /\ ~Alive(s)
      /\ stream' = [stream EXCEPT ![s].at = "end"]
      /\ UNCHANGED <<unchangedByStream, streams, faults, raced>>
  BY DEF StreamEnds
<1>2. ShapeInv /\ PollInv /\ StreamInv
  BY DEF Inv
<1>3. n \in Nodes /\ stream[s] \in StreamRecord
  BY <1>1, StreamIs
<1> PICK r : r = [stream[s] EXCEPT !.at = "end"]
  OBVIOUS
<1>4. /\ r \in StreamRecord /\ r.at = "end" /\ r.run = stream[s].run /\ r.node = n /\ r.latest = stream[s].latest
      /\ (r.ready <=> stream[s].ready) /\ (r.done <=> stream[s].done)
  BY <1>3 DEF StreamRecord
<1>5. stream' = [stream EXCEPT ![s] = r]
  BY <1>1, <1>2, <1>3 DEF ShapeInv, StreamRecord
<1>6. /\ ~stream[s].done /\ streams[n] = s
      /\ stream[s].ready => stream[s].latest \in Nat
      /\ stream[s].latest \in Nat => stream[s].run \in Nat /\ stream[s].run <= node[n].run
  BY <1>1, <1>2 DEF StreamInv
<1>7. n \in raced \/ ~Added(n)
  <2> SUFFICES ASSUME n \notin raced, Added(n) PROVE FALSE
    OBVIOUS
  <2>1. AddedInv(n) /\ s # None
    BY <1>3 DEF Inv
  <2>2. ~stream[s].cancelled /\ stream[s].run = node[n].run
    BY <1>1, <1>6, <2>1 DEF AddedInv
  <2> QED BY <1>1, <2>2 DEF Alive, Added
<1>8. faults' \in 0 .. MaxFaults /\ raced' = raced /\ raced \subseteq Nodes
  BY <1>1, <1>2 DEF ShapeInv
<1>9. stream[s].at # "free" /\ UNCHANGED <<unchangedByStream, streams>>
  BY <1>1
<1> QED BY <1>3, <1>4, <1>5, <1>6, <1>7, <1>8, <1>9, StreamStepKeeps

(* The end of a stream is made known, first that it is done and then that  *)
(* it is ready: who waits for it finds it done.                            *)
LEMMA TellKeeps ==
  ASSUME Inv, NEW s \in Slots, Tell(s)
  PROVE  Inv'
<1> PICK n : n = stream[s].node
  OBVIOUS
<1>1. /\ stream[s].at \in {"end", "told"}
      /\ \/ stream[s].at = "end" /\ stream' = [stream EXCEPT ![s].at = "told", ![s].done = TRUE]
         \/ stream[s].at = "told" /\ stream' = [stream EXCEPT ![s].at = "drop", ![s].ready = TRUE]
      /\ UNCHANGED <<unchangedByStream, streams, faults, raced>>
  BY DEF Tell, MarkDone, MarkReady
<1>2. ShapeInv /\ PollInv /\ StreamInv
  BY DEF Inv
<1>3. n \in Nodes /\ stream[s] \in StreamRecord
  BY <1>1, StreamIs
<1>4. stream[s].latest \in Nat => stream[s].run \in Nat /\ stream[s].run <= node[n].run
  BY <1>1, <1>2 DEF StreamInv
<1>5. n \in raced \/ ~Added(n) \/ streams[n] # s
  <2> SUFFICES ASSUME n \notin raced, Added(n), streams[n] = s PROVE FALSE
    OBVIOUS
  <2>1. AddedInv(n) /\ s # None
    BY <1>3 DEF Inv
  <2> QED BY <1>1, <2>1 DEF AddedInv
<1>6. faults' \in 0 .. MaxFaults /\ raced' = raced /\ raced \subseteq Nodes
  BY <1>1, <1>2 DEF ShapeInv
<1>7. CASE stream[s].at = "end"
  <2> PICK r : r = [stream[s] EXCEPT !.at = "told", !.done = TRUE]
    OBVIOUS
  <2>1. /\ r \in StreamRecord /\ r.at = "told" /\ r.run = stream[s].run /\ r.node = n /\ r.latest = stream[s].latest
        /\ r.done
    BY <1>3 DEF StreamRecord
  <2>2. stream' = [stream EXCEPT ![s] = r]
    BY <1>1, <1>2, <1>3, <1>7 DEF ShapeInv, StreamRecord
  <2> QED BY <1>1, <1>3, <1>4, <1>5, <1>6, <2>1, <2>2, StreamStepKeeps
<1>8. CASE stream[s].at = "told"
  <2> PICK r : r = [stream[s] EXCEPT !.at = "drop", !.ready = TRUE]
    OBVIOUS
  <2>1. /\ r \in StreamRecord /\ r.at = "drop" /\ r.run = stream[s].run /\ r.node = n /\ r.latest = stream[s].latest
        /\ (r.done <=> stream[s].done)
    BY <1>3 DEF StreamRecord
  <2>2. stream' = [stream EXCEPT ![s] = r]
    BY <1>1, <1>2, <1>3, <1>8 DEF ShapeInv, StreamRecord
  <2>3. stream[s].done
    BY <1>2, <1>8 DEF StreamInv
  <2> QED BY <1>1, <1>3, <1>4, <1>5, <1>6, <2>1, <2>2, <2>3, StreamStepKeeps
<1> QED BY <1>1, <1>7, <1>8

(* A stream that is read, or whose node is in the list, is only cancelled  *)
(* by a fault; one whose node is not has nobody who counts on it.          *)
LEMMA IdleTimeoutKeeps ==
  ASSUME Inv, NEW s \in Slots, IdleTimeout(s)
  PROVE  Inv'
<1> PICK n : n = stream[s].node
  OBVIOUS
<1>1. /\ stream[s].at \in {"start", "run"}
      /\ \/ Entries(n) = {} /\ ~InRound(n) /\ UNCHANGED <<faults, raced>>
         \/ faults < MaxFaults /\ faults' = faults + 1 /\ raced' = raced \cup {n}
      /\ stream' = [stream EXCEPT ![s].cancelled = TRUE]
      /\ UNCHANGED <<unchangedByStream, streams>>
  BY DEF IdleTimeout
<1>2. ShapeInv /\ PollInv /\ StreamInv
  BY DEF Inv
<1>3. n \in Nodes /\ stream[s] \in StreamRecord
  BY <1>1, StreamIs
<1> PICK r : r = [stream[s] EXCEPT !.cancelled = TRUE]
  OBVIOUS
<1>4. /\ r \in StreamRecord /\ r.at = stream[s].at /\ r.run = stream[s].run /\ r.node = n
      /\ r.latest = stream[s].latest /\ (r.ready <=> stream[s].ready) /\ (r.done <=> stream[s].done)
  BY <1>3 DEF StreamRecord
<1>5. stream' = [stream EXCEPT ![s] = r]
  BY <1>1, <1>2, <1>3 DEF ShapeInv, StreamRecord
<1>6. /\ ~stream[s].done /\ streams[n] = s
      /\ stream[s].ready => stream[s].latest \in Nat
      /\ stream[s].at = "start" => stream[s].latest = None
      /\ stream[s].latest \in Nat => stream[s].run \in Nat /\ stream[s].run <= node[n].run
  BY <1>1, <1>2 DEF StreamInv
<1>7. n \in raced' \/ ~Added(n)
  <2> SUFFICES ASSUME n \notin raced', Added(n) PROVE FALSE
    OBVIOUS
  <2>1. Entries(n) = {} /\ ~InRound(n) /\ n \notin raced
    BY <1>1
  <2>2. AddedInv(n) /\ s # None
    BY <1>3, <2>1 DEF Inv
  <2> QED BY <1>6, <2>1, <2>2 DEF AddedInv, Added
<1>8. faults' \in 0 .. MaxFaults /\ raced \subseteq raced' /\ raced' \subseteq Nodes
  BY <1>1, <1>2, <1>3 DEF ShapeInv
<1>9. /\ r.at \in {"start", "run", "end"} => ~r.done /\ streams[n] = s
      /\ r.at \in {"told", "drop"} => r.done
      /\ r.at = "start" => r.latest = None
  BY <1>1, <1>4, <1>6
<1>10. /\ r.ready /\ ~r.done => r.latest \in Nat
       /\ r.latest \in Nat => r.run \in Nat /\ r.run <= node[n].run
       /\ stream[s].latest \in Nat => r.latest \in Nat
       /\ r.latest \in Nat => FlowInv(n)' \/ (r.latest = stream[s].latest /\ r.run = stream[s].run)
  BY <1>1, <1>4, <1>6
<1>11. r.at # "free" /\ stream[s].at # "free"
  BY <1>1, <1>4
<1>12. UNCHANGED <<unchangedByStream, streams>>
  BY <1>1
<1> QED BY <1>3, <1>4, <1>5, <1>7, <1>8, <1>9, <1>10, <1>11, <1>12, StreamStepKeeps

(* A stream that has ended leaves the map and, once Run has let go of it,  *)
(* its slot.                                                               *)
LEMMA DropStreamKeeps ==
  ASSUME Inv, NEW s \in Slots, DropStream(s)
  PROVE  Inv'
<1> PICK n : n = stream[s].node
  OBVIOUS
<1>1. /\ stream[s].at = "drop"
      /\ streams' = [m \in Nodes |-> IF streams[m] = s THEN None ELSE streams[m]]
      /\ stream' = [stream EXCEPT ![s] = IF Held(s) THEN [stream[s] EXCEPT !.at = "free"] ELSE Free]
      /\ faults' = faults /\ raced' = raced
  BY DEF DropStream, Inv, ShapeInv
<1>2. ShapeInv /\ PollInv /\ StreamInv
  BY DEF Inv
<1>3. n \in Nodes /\ stream[s] \in StreamRecord /\ stream[s].done
  BY <1>1, <1>2, StreamIs DEF StreamInv
<1>4. UNCHANGED <<provider, node, due, monitored, poll, closed, nodeCache, targetCache, passed, reported, misread>>
  BY DEF DropStream, unchangedByStream
<1> PICK r : r = IF Held(s) THEN [stream[s] EXCEPT !.at = "free"] ELSE Free
  OBVIOUS
<1>5. /\ r \in StreamRecord /\ r.at = "free" /\ (~Held(s) => r = Free)
      /\ Held(s) => r.node = n /\ r.done
      /\ ~(r.ready /\ ~r.done)
  <2>1. CASE Held(s)
    <3>1. r = [stream[s] EXCEPT !.at = "free"]
      BY <2>1
    <3>2. r \in StreamRecord /\ r.at = "free" /\ r.node = n /\ (r.done <=> stream[s].done)
      BY <1>3, <3>1 DEF StreamRecord
    <3> QED BY <1>3, <2>1, <3>2
  <2>2. CASE ~Held(s)
    <3>1. r = Free
      BY <2>2
    <3>2. Free \in StreamRecord /\ Free.at = "free" /\ ~Free.ready
      BY DEF StreamRecord, Free
    <3> QED BY <2>2, <3>1, <3>2
  <2> QED BY <2>1, <2>2
<1>6. stream'[s] = r /\ (\A x \in Slots : x # s => stream'[x] = stream[x]) /\ stream' \in [Slots -> StreamRecord]
  BY <1>1, <1>2, <1>5 DEF ShapeInv
<1>7. /\ \A m \in Nodes : streams[m] = s => streams'[m] = None
      /\ \A m \in Nodes : streams[m] # s => streams'[m] = streams[m]
      /\ streams' \in [Nodes -> Slots \cup {None}]
  BY <1>1, <1>2 DEF ShapeInv
<1>8. ShapeInv'
  BY <1>1, <1>2, <1>4, <1>6, <1>7 DEF ShapeInv, PollRecord
<1>9. PollInv'
  BY <1>2, <1>4, PollFrame DEF ShapeInv
<1>10. \A x \in Slots : Held(x)' <=> Held(x)
  BY <1>4 DEF Held
<1>11. StreamInv'
  <2>1. /\ provider' = "docker" => \A m \in Nodes : streams'[m] = None
        /\ provider' = "remote" => \A m \in Nodes : targetCache'[m] = None
    BY <1>2, <1>4, <1>7 DEF StreamInv
  <2>2. ASSUME NEW m \in Nodes, streams'[m] # None
        PROVE  stream'[streams'[m]].at # "free" /\ stream'[streams'[m]].node = m
    <3>1. streams'[m] = streams[m] /\ streams[m] \in Slots /\ streams[m] # s
      BY <1>2, <1>7, <2>2 DEF ShapeInv
    <3> QED BY <1>2, <1>6, <2>2, <3>1 DEF StreamInv
  <2>3. ASSUME NEW x \in Slots
        PROVE  /\ stream'[x].at # "free" => stream'[x].node \in Nodes
               /\ stream'[x].at \in {"start", "run", "end"} => ~stream'[x].done /\ streams'[stream'[x].node] = x
               /\ stream'[x].at \in {"told", "drop"} => stream'[x].done
               /\ Unused(x)' => stream'[x] = Free
               /\ stream'[x].at = "start" => stream'[x].latest = None
               /\ stream'[x].ready /\ ~stream'[x].done => stream'[x].latest \in Nat
               /\ stream'[x].latest \in Nat /\ stream'[x].at # "free" =>
                    stream'[x].run \in Nat /\ stream'[x].run <= node'[stream'[x].node].run
    <3>1. CASE x = s
      <4>1. Unused(x)' => stream'[x] = Free
        BY <1>5, <1>6, <1>10, <3>1 DEF Unused
      <4> QED BY <1>5, <1>6, <3>1, <4>1
    <3>2. CASE x # s
      <4>1. stream'[x] = stream[x] /\ stream'[x] \in StreamRecord
        BY <1>6, <3>2
      <4>2. (Unused(x)' <=> Unused(x)) /\ (Free' = Free)
        BY <1>10, <4>1 DEF Unused, Free
      <4>3. stream[x].at \in {"start", "run", "end"} => streams'[stream[x].node] = x
        BY <1>2, <1>7, <3>2 DEF StreamInv
      <4> QED BY <1>2, <1>4, <4>1, <4>2, <4>3 DEF StreamInv
    <3> QED BY <3>1, <3>2
  <2>4. poll'.at = "stream" =>
         /\ stream'[poll'.target].node = poll'.entry.node
         /\ stream'[poll'.target].at = "free" => stream'[poll'.target].done
         /\ streams'[poll'.entry.node] \in {poll'.target, None}
    <3> SUFFICES ASSUME poll.at = "stream"
                 PROVE  /\ stream'[poll.target].node = poll.entry.node
                        /\ stream'[poll.target].at = "free" => stream'[poll.target].done
                        /\ streams'[poll.entry.node] \in {poll.target, None}
      BY <1>4
    <3>1. poll.target \in Slots /\ poll.entry.node \in Nodes
      BY <1>2, AtEntry DEF PollInv
    <3>2. streams'[poll.entry.node] \in {poll.target, None} /\ stream[poll.target].node = poll.entry.node
      BY <1>2, <1>7, <3>1 DEF StreamInv
    <3>3. CASE poll.target = s
      BY <1>5, <1>6, <3>2, <3>3 DEF Held
    <3>4. CASE poll.target # s
      BY <1>2, <1>6, <3>1, <3>2, <3>4 DEF StreamInv
    <3> QED BY <3>2, <3>3, <3>4
  <2>5. poll'.at = "send" /\ streams'[poll'.entry.node] # None => stream'[streams'[poll'.entry.node]].latest \in Nat
    <3> SUFFICES ASSUME poll.at = "send", streams'[poll.entry.node] # None
                 PROVE  stream'[streams'[poll.entry.node]].latest \in Nat
      BY <1>4
    <3>1. poll.entry.node \in Nodes
      BY <1>2, AtEntry
    <3>2. streams'[poll.entry.node] = streams[poll.entry.node] /\ streams[poll.entry.node] \in Slots
          /\ streams[poll.entry.node] # s
      BY <1>2, <1>7, <3>1 DEF ShapeInv
    <3> QED BY <1>2, <1>6, <3>2 DEF StreamInv
  <2> QED BY <2>1, <2>2, <2>3, <2>4, <2>5 DEF StreamInv
<1>12. ASSUME NEW m \in Nodes PROVE FlowInv(m)'
  <2>1. FlowInv(m)
    BY DEF Inv
  <2>2. ASSUME NEW x \in Slots, streams'[m] = x, stream'[x].latest \in Nat
        PROVE  streams[m] = x /\ stream'[x].latest = stream[x].latest /\ stream'[x].run = stream[x].run
    BY <1>6, <1>7, <2>2
  <2> QED BY <1>4, <2>1, <2>2, FlowFrame DEF AtNode
<1>13. ASSUME NEW m \in Nodes \ raced' PROVE AddedInv(m)'
  <2>0. AddedInv(m)
    BY <1>1 DEF Inv
  <2>1. Entries(m)' = Entries(m) /\ closed \in BOOLEAN
    BY <1>2, <1>4 DEF Entries, ShapeInv
  <2>2. CASE streams[m] # s
    <3>1. streams'[m] = streams[m]
      BY <1>7, <2>2
    <3>2. streams[m] # None => stream'[streams[m]] = stream[streams[m]]
      BY <1>2, <1>6, <2>2 DEF ShapeInv
    <3> QED BY <1>2, <1>4, <2>0, <2>1, <3>1, <3>2, AddedFrame DEF AtNode
  <2>3. CASE streams[m] = s
    <3>1. ~Added(m)
      BY <1>1, <2>0, <2>3 DEF AddedInv
    <3>2. ~Added(m)' /\ streams'[m] = None
      BY <1>4, <1>7, <2>3, <3>1 DEF Added
    <3>3. ~closed' /\ Entries(m)' = {} /\ ~InRound(m)' => targetCache'[m] = None
      BY <1>4, <2>0, <2>1 DEF AddedInv, InRound
    <3>4. \A d \in due' : d.node = m => d.run <= node'[m].run
      BY <1>4, <2>0 DEF AddedInv
    <3> QED BY <3>2, <3>3, <3>4 DEF AddedInv
  <2> QED BY <2>2, <2>3
<1> QED BY <1>8, <1>9, <1>11, <1>12, <1>13 DEF Inv

-----------------------------------------------------------------------------
(***************************************************************************)
(* The theorems                                                            *)
(***************************************************************************)
(* Every step keeps the invariant. *)
LEMMA NextInv == Inv /\ [Next]_vars => Inv'
<1> SUFFICES ASSUME Inv, [Next]_vars PROVE Inv'
  OBVIOUS
<1>1. CASE UNCHANGED vars
  <2>1. UNCHANGED <<provider, node, due, monitored, poll, closed, nodeCache, targetCache, streams, stream, faults,
                    passed, reported, raced, misread>>
    BY <1>1 DEF vars
  <2>2. ShapeInv' /\ PollInv' /\ StreamInv'
    BY <2>1 DEF Inv, ShapeInv, PollInv, StreamInv, Unused, Held, PollRecord, Free
  <2>3. \A n \in Nodes : FlowInv(n)'
    BY <2>1, FlowFrame DEF Inv, AtNode
  <2>4. ASSUME NEW n \in Nodes \ raced' PROVE AddedInv(n)'
    <3>1. AddedInv(n) /\ PollInv /\ closed \in BOOLEAN /\ Entries(n)' = Entries(n)
      BY <2>1 DEF Inv, ShapeInv, Entries
    <3> QED BY <2>1, <3>1, AddedFrame DEF AtNode
  <2> QED BY <2>2, <2>3, <2>4 DEF Inv
<1>2. CASE \E n \in Nodes : NodeStarts(n) \/ NodeStops(n) \/ Traffic(n)
  BY <1>2, NodeStartsKeeps, NodeStopsKeeps, TrafficKeeps
<1>3. CASE \E d \in due : AddNode(d)
  BY <1>3, AddNodeKeeps
<1>4. CASE Close
  BY <1>4, CloseKeeps
<1>5. CASE Run \/ SampleFails
  BY <1>5, CloneKeeps, NextNodeKeeps, SendKeeps, GetTargetKeeps, ReadTargetKeeps, streamForKeeps, ReadStreamKeeps,
     SampleFailsKeeps DEF Run
<1>6. CASE \E s \in Slots : Stream(s) \/ IdleTimeout(s)
  BY <1>6, StartStreamKeeps, StreamDeliversKeeps, StreamEndsKeeps, TellKeeps, DropStreamKeeps, IdleTimeoutKeeps
     DEF Stream
<1> QED BY <1>1, <1>2, <1>3, <1>4, <1>5, <1>6 DEF Next

(* The invariant holds throughout. *)
LEMMA InvAlways == Spec => []Inv
BY InitInv, NextInv, PTL DEF Spec

(* No sample that Run sends is empty, and the rates sent to clients stand  *)
(* for no more bytes than have passed, whatever restarts, late blocks of   *)
(* streams and failed samples come between (stats.go:40-111,               *)
(* sampler_remote.go:85-153).                                              *)
THEOREM StatsAreMeasured == Spec => []StatsInv
<1>1. Inv => StatsInv
  <2> SUFFICES ASSUME Inv PROVE StatsInv
    OBVIOUS
  <2>1. ShapeInv /\ PollInv /\ StreamInv
    BY DEF Inv
  <2>2. TypeOK
    <3>1. \A n \in Nodes : node[n].run \in 0 .. MaxStarts /\ node[n].id \in 0 .. MaxStarts
      BY <2>1 DEF ShapeInv
    <3>2. \A e \in monitored : e.node \in Nodes /\ e.id \in 0 .. MaxStarts
      BY <2>1 DEF ShapeInv, Entry
    <3>3. poll.at \in {"wait", "next", "sample", "target", "stream", "send", "ended"}
      BY <2>1 DEF ShapeInv, PollRecord, Steps
    <3>4. \A s \in Slots : stream[s].at \in {"free", "start", "run", "end", "told", "drop"}
      BY <2>1 DEF ShapeInv, StreamRecord
    <3> QED BY <2>1, <3>1, <3>2, <3>3, <3>4 DEF TypeOK, ShapeInv, StreamInv
  <2>3. NoPhantomTraffic
    <3> SUFFICES ASSUME NEW n \in Nodes PROVE reported[n] <= passed[n]
      BY DEF NoPhantomTraffic
    <3>1. FlowInv(n)
      BY DEF Inv
    <3>2. reported[n] \in Nat /\ passed[n] \in Nat /\ node[n].bytes \in Nat
      BY <2>1 DEF ShapeInv
    <3> QED BY <3>1, <3>2 DEF FlowInv, Fits, Before
  <2>4. NoEmptySample
    BY <2>1 DEF PollInv, NoEmptySample
  <2> QED BY <2>2, <2>3, <2>4 DEF StatsInv
<1> QED BY <1>1, InvAlways, PTL

(* A node that is up and has been added stays in the list, and under the   *)
(* id of its container if the instance had it, for any number of nodes and *)
(* restarts, unless it was added where an entry of it or under its key was *)
(* still there, or a sample of it failed (monitor.go:60-157).              *)
THEOREM AddedNodesAreMonitored == Spec => []MonitoredWhileUp
<1>1. Inv => MonitoredWhileUp
  BY DEF Inv, AddedInv, Added, HasEntry, MonitoredWhileUp
<1> QED BY <1>1, InvAlways, PTL

HIDE MonitorAssumption

-----------------------------------------------------------------------------
(***************************************************************************)
(* Shells                                                                  *)
(***************************************************************************)

(* A request that opens a shell has a user, so that the shell it opens has *)
(* an owner.                                                               *)
OpenersAreUsers == \A p \in Procs : pc[p] = "open" => call[p].user \in Users

(* Close is called once: it finds no shells of an earlier call.            *)
NothingLeftBeforeClose == closing = "no" => left = {}

ShellIndInv == ShellTypeOK /\ OpenersAreUsers /\ NothingLeftBeforeClose /\ NoSessionIsLost

(* A shell that has not ended, or whose connection broke, or that ended    *)
(* too early.                                                              *)
MayBeListed(s) ==
  s \notin early => session[s] # "closed" /\ (reader[s] = "reading" \/ session[s] = "broken")

Inserting(p, s) == pc[p] = "insert" /\ call[p].shell = s

(* Who has a shell in hand: a shell that is about to be listed is known to *)
(* the request that opened it and to its reader only, and one that is      *)
(* being closed is off the list for good.                                  *)
ListInv ==
  /\ \A s \in openShells : MayBeListed(s)
  /\ \A p \in Procs, s \in Shells : Inserting(p, s) =>
       /\ MayBeListed(s)
       /\ s \notin openShells \cup left
       /\ \A q \in Procs : q # p /\ pc[q] \in {"insert", "delete", "close", "resize", "input"} => call[q].shell # s
  /\ \A p \in Procs : pc[p] = "close" => call[p].shell \notin openShells
  /\ openShells \cap left = {}
  /\ \A s \in Shells : reader[s] = "close" => session[s] \in {"ended", "closed"}

PanicInv == OnlyExecSessionsPanic

(* Somebody can still close the session of s.                              *)
ShellIsHeld(s) ==
  \/ s \in openShells \cup left
  \/ reader[s] = "close"
  \/ \E p \in Procs : pc[p] \in {"insert", "close"} /\ call[p].shell = s

-----------------------------------------------------------------------------
USE ShellAssumption DEF requestVars, closeVars, panicVars, Panics, CloseOrCrash, Recover, Allocated, NoCall, Begin, Return, closeShell

(* A step of request p that hands out no id and opens no session keeps     *)
(* every session held if it keeps the shells that p alone holds.           *)
LEMMA HeldKept ==
  ASSUME NoSessionIsLost, ShellTypeOK, NEW p \in Procs,
         owner' = owner, reader' = reader, left' = left,
         \A q \in Procs : q # p => pc'[q] = pc[q] /\ call'[q] = call[q],
         \A s \in Shells : session'[s] = session[s] \/ session'[s] = "closed",
         \A s \in Shells : s \in openShells /\ s \notin openShells' => ShellIsHeld(s)',
         \A s \in Shells : (pc[p] \in {"insert", "close"} /\ call[p].shell = s /\ session'[s] # "closed") => ShellIsHeld(s)'
  PROVE  NoSessionIsLost'
<1> SUFFICES ASSUME NEW s \in Allocated', session'[s] # "closed"
             PROVE  ShellIsHeld(s)'
  BY DEF NoSessionIsLost, ShellIsHeld
<1>1. s \in Allocated /\ session[s] # "closed"
  OBVIOUS
<1>2. CASE s \in openShells \cup left \/ reader[s] = "close"
  BY <1>2 DEF ShellIsHeld
<1>3. CASE \E q \in Procs : pc[q] \in {"insert", "close"} /\ call[q].shell = s
  <2>1. PICK q \in Procs : pc[q] \in {"insert", "close"} /\ call[q].shell = s
    BY <1>3
  <2>2. CASE q = p
    BY <2>1, <2>2
  <2>3. CASE q # p
    BY <2>1, <2>3 DEF ShellIsHeld
  <2> QED BY <2>2, <2>3
<1> QED BY <1>1, <1>2, <1>3 DEF NoSessionIsLost

(* In the beginning there are no shells.                                   *)
LEMMA ShellInitInv == ShellInit => ShellIndInv /\ ListInv /\ PanicInv
<1> SUFFICES ASSUME ShellInit PROVE ShellIndInv /\ ListInv /\ PanicInv
  OBVIOUS
<1>1. fragile \subseteq Shells
  BY DEF ShellInit
<1>2. ShellIndInv
  BY <1>1 DEF ShellInit, ShellIndInv, ShellTypeOK, OpenersAreUsers, NothingLeftBeforeClose, NoSessionIsLost
<1>3. ListInv /\ PanicInv
  BY DEF ShellInit, ListInv, PanicInv, Inserting, EndedShellsAreOff, OnlyExecSessionsPanic
<1> QED BY <1>2, <1>3

-----------------------------------------------------------------------------
(* A request begins: no shell changes hands.                               *)
LEMMA RequestStep ==
  ASSUME ShellIndInv, NEW p \in Procs, Request(p)
  PROVE  ShellIndInv'
<1>1. /\ UNCHANGED <<openShells, owner, session, reader, inactive, manager, closeVars>>
      /\ \A q \in Procs : q # p => pc'[q] = pc[q] /\ call'[q] = call[q]
      /\ pc[p] = "idle"
  BY DEF Request, BeginOpen, BeginClose, BeginResize, BeginInput, ShellIndInv, ShellTypeOK
<1>2. ShellTypeOK' /\ OpenersAreUsers' /\ NothingLeftBeforeClose'
  <2>1. CASE \E u \in Users : BeginOpen(p, u)
    BY <1>1, <2>1 DEF BeginOpen, ShellIndInv, ShellTypeOK, OpenersAreUsers, NothingLeftBeforeClose
  <2>2. CASE \E u \in Users, s \in Shells : BeginClose(p, u, s)
    BY <1>1, <2>2 DEF BeginClose, ShellIndInv, ShellTypeOK, OpenersAreUsers, NothingLeftBeforeClose
  <2>3. CASE \E u \in Users, s \in Shells : BeginResize(p, u, s)
    BY <1>1, <2>3 DEF BeginResize, ShellIndInv, ShellTypeOK, OpenersAreUsers, NothingLeftBeforeClose
  <2>4. CASE \E s \in Shells : BeginInput(p, s)
    BY <1>1, <2>4 DEF BeginInput, ShellIndInv, ShellTypeOK, OpenersAreUsers, NothingLeftBeforeClose
  <2> QED BY <2>1, <2>2, <2>3, <2>4 DEF Request
<1>3. NoSessionIsLost'
  BY <1>1, HeldKept DEF ShellIndInv
<1> QED BY <1>2, <1>3 DEF ShellIndInv

(* A shell that could not be opened leaves nothing behind.                 *)
LEMMA OpenFailsStep ==
  ASSUME ShellIndInv, NEW p \in Procs, OpenFails(p)
  PROVE  ShellIndInv'
<1>1. ShellTypeOK' /\ OpenersAreUsers' /\ NothingLeftBeforeClose'
  BY DEF ShellIndInv, ShellTypeOK, OpenersAreUsers, NothingLeftBeforeClose, OpenFails
<1>2. NoSessionIsLost'
  BY HeldKept DEF ShellIndInv, ShellTypeOK, OpenFails
<1> QED BY <1>1, <1>2 DEF ShellIndInv

(* The session of a new shell is held by the request that opened it.       *)
LEMMA OpenSucceedsStep ==
  ASSUME ShellIndInv, NEW p \in Procs, OpenSucceeds(p)
  PROVE  ShellIndInv'
<1> DEFINE s == CHOOSE t \in Shells : t \notin Allocated
<1>1. s \in Shells /\ s \notin Allocated
  BY DEF OpenSucceeds
<1>2. call[p].user \in Users /\ owner' = [owner EXCEPT ![s] = call[p].user]
  BY DEF OpenSucceeds, ShellIndInv, OpenersAreUsers
<1>3. Allocated' = Allocated \cup {s}
  BY <1>1, <1>2 DEF ShellIndInv, ShellTypeOK
<1>4. /\ pc' = [pc EXCEPT ![p] = "insert"]
      /\ call' = [call EXCEPT ![p].shell = s]
      /\ session' = [session EXCEPT ![s] = "open"]
      /\ reader' = [reader EXCEPT ![s] = "reading"]
      /\ pc[p] = "open"
      /\ UNCHANGED <<openShells, inactive, manager, closeVars, inputs, panicVars>>
  BY DEF OpenSucceeds
<1> HIDE DEF s
<1>5. ShellTypeOK'
  <2>1. owner' \in [Shells -> Users \cup {Nobody}]
    BY <1>1, <1>2 DEF ShellIndInv, ShellTypeOK
  <2>2. \A q \in Procs : pc'[q] \in {"insert", "delete", "close", "resize", "input"} => call'[q].shell \in Allocated'
    <3> SUFFICES ASSUME NEW q \in Procs, pc'[q] \in {"insert", "delete", "close", "resize", "input"}
                 PROVE  call'[q].shell \in Allocated \cup {s}
      BY <1>3
    <3>1. CASE q = p
      BY <1>4, <3>1 DEF ShellIndInv, ShellTypeOK
    <3>2. CASE q # p
      BY <1>4, <3>2 DEF ShellIndInv, ShellTypeOK
    <3> QED BY <3>1, <3>2
  <2>3. openShells' \subseteq Allocated' /\ left' \subseteq Allocated' /\ inactive' \subseteq Allocated'
        /\ fragile' \subseteq Shells /\ unanswered' \subseteq Allocated' /\ early' \subseteq Allocated' /\ down' \in BOOLEAN
    BY <1>3, <1>4 DEF ShellIndInv, ShellTypeOK
  <2>4. call' \in [Procs -> [user : Users \cup {Nobody}, shell : Shells \cup {Nobody}]]
    BY <1>1, <1>4 DEF ShellIndInv, ShellTypeOK
  <2> QED BY <1>1, <1>4, <2>1, <2>2, <2>3, <2>4 DEF ShellIndInv, ShellTypeOK
<1>6. OpenersAreUsers' /\ NothingLeftBeforeClose'
  BY <1>4 DEF ShellIndInv, ShellTypeOK, OpenersAreUsers, NothingLeftBeforeClose
<1>7. NoSessionIsLost'
  <2> SUFFICES ASSUME NEW t \in Allocated', session'[t] # "closed"
               PROVE  ShellIsHeld(t)'
    BY DEF NoSessionIsLost, ShellIsHeld
  <2>1. CASE t = s
    BY <1>4, <2>1 DEF ShellIsHeld, ShellIndInv, ShellTypeOK
  <2>2. CASE t # s
    <3>1. t \in Allocated /\ session'[t] = session[t] /\ reader'[t] = reader[t]
      BY <1>3, <1>4, <2>2 DEF ShellIndInv, ShellTypeOK
    <3>2. ShellIsHeld(t)
      BY <3>1 DEF ShellIndInv, NoSessionIsLost, ShellIsHeld
    <3> QED BY <1>4, <3>1, <3>2 DEF ShellIsHeld, ShellIndInv, ShellTypeOK
  <2> QED BY <2>1, <2>2
<1> QED BY <1>5, <1>6, <1>7 DEF ShellIndInv

(* The request passes the shell on to the list, and Delete takes it back.  *)
LEMMA InsertStep ==
  ASSUME ShellIndInv, NEW p \in Procs, Insert(p)
  PROVE  ShellIndInv'
<1>1. ShellTypeOK' /\ OpenersAreUsers' /\ NothingLeftBeforeClose'
  BY DEF ShellIndInv, ShellTypeOK, OpenersAreUsers, NothingLeftBeforeClose, Insert
<1>2. NoSessionIsLost'
  BY HeldKept DEF ShellIndInv, ShellTypeOK, Insert, ShellIsHeld
<1> QED BY <1>1, <1>2 DEF ShellIndInv

(* The request that takes a shell off the list holds it.                   *)
LEMMA DeleteStep ==
  ASSUME ShellIndInv, NEW p \in Procs, Delete(p)
  PROVE  ShellIndInv'
<1>1. ShellTypeOK' /\ OpenersAreUsers' /\ NothingLeftBeforeClose'
  BY DEF ShellIndInv, ShellTypeOK, OpenersAreUsers, NothingLeftBeforeClose, Delete
<1>2. NoSessionIsLost'
  BY HeldKept DEF ShellIndInv, ShellTypeOK, Delete, ShellIsHeld
<1> QED BY <1>1, <1>2 DEF ShellIndInv

(* The request that holds a shell closes its session.                      *)
LEMMA CloseByUserStep ==
  ASSUME ShellIndInv, NEW p \in Procs, CloseByUser(p)
  PROVE  ShellIndInv'
<1>1. ShellTypeOK' /\ OpenersAreUsers' /\ NothingLeftBeforeClose'
  BY DEF ShellIndInv, ShellTypeOK, OpenersAreUsers, NothingLeftBeforeClose, CloseByUser
<1>2. NoSessionIsLost'
  BY HeldKept DEF ShellIndInv, ShellTypeOK, CloseByUser, ShellIsHeld
<1> QED BY <1>1, <1>2 DEF ShellIndInv

(* Input changes nothing but the time of the last interaction, and a       *)
(* resize only whether it was answered.                                    *)
LEMMA InputStep ==
  ASSUME ShellIndInv, NEW p \in Procs, Input(p) \/ Resize(p)
  PROVE  ShellIndInv'
<1>1. ShellTypeOK' /\ OpenersAreUsers' /\ NothingLeftBeforeClose'
  <2>1. CASE Input(p)
    BY <2>1 DEF ShellIndInv, ShellTypeOK, OpenersAreUsers, NothingLeftBeforeClose, Input
  <2>2. CASE Resize(p)
    <3>1. call[p].shell \in Allocated /\ unanswered' \subseteq Allocated
      BY <2>2 DEF ShellIndInv, ShellTypeOK, Resize
    <3> QED BY <2>2, <3>1 DEF ShellIndInv, ShellTypeOK, OpenersAreUsers, NothingLeftBeforeClose, Resize
  <2> QED BY <2>1, <2>2
<1>2. NoSessionIsLost'
  BY HeldKept DEF ShellIndInv, ShellTypeOK, Input, Resize, ShellIsHeld
<1> QED BY <1>1, <1>2 DEF ShellIndInv

-----------------------------------------------------------------------------
(* The reader of a shell, its node, the manager and Close: none of them    *)
(* touches the requests, and whoever takes a shell off the list holds it   *)
(* or closes it in the same step.                                          *)
LEMMA ShellStep ==
  ASSUME ShellIndInv, NEW s \in Shells,
         Read(s) \/ RemoteEnds(s) \/ TimePasses(s) \/ TimeOut(s) \/ CloseNext(s)
  PROVE  ShellIndInv'
<1>1. UNCHANGED <<owner, pc, call, inputs, manager, closing>>
  BY DEF Read, ReadEof, CloseByReader, ReadError, RemoteEnds, TimePasses, TimeOut, CloseNext
<1>2. ShellTypeOK' /\ OpenersAreUsers' /\ NothingLeftBeforeClose'
  <2>1. CASE ReadEof(s) \/ ReadError(s)
    BY <1>1, <2>1 DEF ShellIndInv, ShellTypeOK, OpenersAreUsers, NothingLeftBeforeClose, ReadEof, ReadError
  <2>2. CASE RemoteEnds(s) \/ TimePasses(s)
    BY <1>1, <2>2 DEF ShellIndInv, ShellTypeOK, OpenersAreUsers, NothingLeftBeforeClose, RemoteEnds, TimePasses
  <2>3. CASE CloseByReader(s)
    BY <1>1, <2>3 DEF ShellIndInv, ShellTypeOK, OpenersAreUsers, NothingLeftBeforeClose, CloseByReader
  <2>4. CASE TimeOut(s)
    BY <1>1, <2>4 DEF ShellIndInv, ShellTypeOK, OpenersAreUsers, NothingLeftBeforeClose, TimeOut
  <2>5. CASE CloseNext(s)
    BY <1>1, <2>5 DEF ShellIndInv, ShellTypeOK, OpenersAreUsers, NothingLeftBeforeClose, CloseNext
  <2> QED BY <2>1, <2>2, <2>3, <2>4, <2>5 DEF Read
<1>3. \A t \in Shells : t # s =>
        /\ session'[t] = session[t] /\ reader'[t] = reader[t]
        /\ t \in openShells <=> t \in openShells'
        /\ t \in left <=> t \in left'
  BY DEF ShellIndInv, ShellTypeOK, Read, ReadEof, CloseByReader, ReadError, RemoteEnds, TimePasses, TimeOut, CloseNext
<1>4. session'[s] = "closed" \/ (ShellIsHeld(s) => ShellIsHeld(s)')
  BY <1>1 DEF ShellIndInv, ShellTypeOK, ShellIsHeld, Read, ReadEof, CloseByReader, ReadError, RemoteEnds, TimePasses,
     TimeOut, CloseNext
<1>5. session'[s] # "closed" => session[s] # "closed"
  BY DEF ShellIndInv, ShellTypeOK, Read, ReadEof, CloseByReader, ReadError, RemoteEnds, TimePasses, TimeOut, CloseNext
<1>6. NoSessionIsLost'
  <2> SUFFICES ASSUME NEW t \in Allocated', session'[t] # "closed"
               PROVE  ShellIsHeld(t)'
    BY DEF NoSessionIsLost, ShellIsHeld
  <2>1. t \in Allocated /\ session[t] # "closed"
    BY <1>1, <1>3, <1>5
  <2>2. ShellIsHeld(t)
    BY <2>1 DEF ShellIndInv, NoSessionIsLost, ShellIsHeld
  <2> QED BY <1>1, <1>3, <1>4, <2>2 DEF ShellIsHeld
<1> QED BY <1>2, <1>6 DEF ShellIndInv

(* Close holds the shells it takes off the list until it has closed them.  *)
LEMMA ShutdownStep ==
  ASSUME ShellIndInv, ManagerStops \/ ShellClose \/ UNCHANGED shellVars
  PROVE  ShellIndInv'
<1>1. UNCHANGED <<owner, session, reader, inactive, pc, call, inputs>>
  BY DEF ManagerStops, ShellClose, shellVars
<1>2. ShellTypeOK' /\ OpenersAreUsers' /\ NothingLeftBeforeClose'
  BY <1>1 DEF ShellIndInv, ShellTypeOK, OpenersAreUsers, NothingLeftBeforeClose, ManagerStops, ShellClose, shellVars
<1>3. left = {} \/ left' = left
  BY DEF ShellIndInv, NothingLeftBeforeClose, ManagerStops, ShellClose, shellVars
<1>4. NoSessionIsLost'
  BY <1>1, <1>3 DEF ShellIndInv, NoSessionIsLost, ManagerStops, ShellClose, shellVars
<1> QED BY <1>2, <1>4 DEF ShellIndInv

(* Every step keeps the invariant.                                         *)
LEMMA ShellNextStep ==
  ASSUME ShellIndInv, [ShellNext]_shellVars
  PROVE  ShellIndInv'
<1>1. ASSUME NEW p \in Procs, Serve(p)
      PROVE  ShellIndInv'
  BY <1>1, OpenFailsStep, OpenSucceedsStep, InsertStep, DeleteStep, CloseByUserStep, InputStep
     DEF Serve
<1> QED BY <1>1, RequestStep, ShellStep, ShutdownStep DEF ShellNext

-----------------------------------------------------------------------------
(* A request that closes nothing and lists nothing: it may take a shell    *)
(* off the list, or begin or end.                                          *)
LEMMA PlainRequest ==
  ASSUME ShellIndInv, ListInv, NEW p \in Procs,
         UNCHANGED <<session, reader, left, early>>,
         \A q \in Procs : q # p => pc'[q] = pc[q] /\ call'[q] = call[q],
         openShells' \subseteq openShells,
         pc'[p] # "insert",
         pc'[p] = "close" => call'[p].shell \notin openShells',
         pc'[p] \in {"delete", "close", "resize", "input"} =>
           call'[p].shell \in openShells \/ (pc[p] = "delete" /\ call'[p] = call[p])
  PROVE  ListInv'
<1>1. (\A s \in openShells : MayBeListed(s))' /\ (openShells \cap left = {})'
  BY DEF ListInv, MayBeListed
<1>2. (\A s \in Shells : reader[s] = "close" => session[s] \in {"ended", "closed"})'
  BY DEF ListInv
<1>3. (\A q \in Procs : pc[q] = "close" => call[q].shell \notin openShells)'
  BY DEF ListInv
<1>4. ASSUME NEW q \in Procs, NEW s \in Shells, Inserting(q, s)'
      PROVE  /\ MayBeListed(s)'
             /\ s \notin openShells' \cup left'
             /\ \A o \in Procs : o # q /\ pc'[o] \in {"insert", "delete", "close", "resize", "input"} => call'[o].shell # s
  <2>1. q # p /\ Inserting(q, s)
    BY <1>4 DEF Inserting
  <2>2. /\ MayBeListed(s)
        /\ s \notin openShells \cup left
        /\ \A o \in Procs : o # q /\ pc[o] \in {"insert", "delete", "close", "resize", "input"} => call[o].shell # s
    BY <2>1 DEF ListInv
  <2>3. pc'[p] \in {"delete", "close", "resize", "input"} => call'[p].shell # s
    BY <2>1, <2>2
  <2>4. MayBeListed(s)'
    BY <2>2 DEF MayBeListed
  <2> QED BY <2>1, <2>2, <2>3, <2>4
<1> QED BY <1>1, <1>2, <1>3, <1>4 DEF ListInv

(* The requests that neither open nor list nor close a session.            *)
LEMMA PlainSteps ==
  ASSUME ShellIndInv, ListInv, NEW p \in Procs,
         Request(p) \/ OpenFails(p) \/ Delete(p) \/ Input(p) \/ Resize(p)
  PROVE  ListInv'
<1>1. CASE \E u \in Users : BeginOpen(p, u)
  BY <1>1, PlainRequest DEF BeginOpen, ShellIndInv, ShellTypeOK
<1>2. CASE \E u \in Users, s \in Shells : BeginClose(p, u, s)
  BY <1>2, PlainRequest DEF BeginClose, ShellIndInv, ShellTypeOK
<1>3. CASE \E u \in Users, s \in Shells : BeginResize(p, u, s)
  BY <1>3, PlainRequest DEF BeginResize, ShellIndInv, ShellTypeOK
<1>4. CASE \E s \in Shells : BeginInput(p, s)
  BY <1>4, PlainRequest DEF BeginInput, ShellIndInv, ShellTypeOK
<1>5. CASE OpenFails(p)
  BY <1>5, PlainRequest DEF OpenFails, ShellIndInv, ShellTypeOK
<1>6. CASE Delete(p)
  BY <1>6, PlainRequest DEF Delete, ShellIndInv, ShellTypeOK
<1>7. CASE Input(p)
  BY <1>7, PlainRequest DEF Input, ShellIndInv, ShellTypeOK
<1>8. CASE Resize(p)
  BY <1>8, PlainRequest DEF Resize, ShellIndInv, ShellTypeOK
<1> QED BY <1>1, <1>2, <1>3, <1>4, <1>5, <1>6, <1>7, <1>8 DEF Request

(* Nobody else knows the shell a request opens.                            *)
LEMMA OpenKeepsList ==
  ASSUME ShellIndInv, ListInv, NEW p \in Procs, OpenSucceeds(p)
  PROVE  ListInv'
<1> DEFINE s == CHOOSE t \in Shells : t \notin Allocated
<1>1. /\ s \in Shells /\ s \notin Allocated
      /\ pc' = [pc EXCEPT ![p] = "insert"]
      /\ call' = [call EXCEPT ![p].shell = s]
      /\ session' = [session EXCEPT ![s] = "open"]
      /\ reader' = [reader EXCEPT ![s] = "reading"]
      /\ pc[p] = "open"
      /\ UNCHANGED <<openShells, left, early>>
  BY DEF OpenSucceeds
<1> HIDE DEF s
<1>2. s \notin openShells \cup left /\ \A q \in Procs : pc[q] \in {"insert", "delete", "close", "resize", "input"} => call[q].shell # s
  BY <1>1 DEF ShellIndInv, ShellTypeOK
<1>3. /\ pc'[p] = "insert" /\ call'[p].shell = s
      /\ \A q \in Procs : q # p => pc'[q] = pc[q] /\ call'[q] = call[q]
      /\ session'[s] = "open" /\ reader'[s] = "reading"
      /\ \A t \in Shells : t # s => session'[t] = session[t] /\ reader'[t] = reader[t]
  BY <1>1 DEF ShellIndInv, ShellTypeOK
<1>4. \A t \in Shells : (t = s \/ MayBeListed(t)) => MayBeListed(t)'
  BY <1>1, <1>3 DEF MayBeListed
<1>5. (\A t \in openShells : MayBeListed(t))' /\ (openShells \cap left = {})'
  BY <1>1, <1>4 DEF ListInv, ShellIndInv, ShellTypeOK
<1>6. (\A q \in Procs : pc[q] = "close" => call[q].shell \notin openShells)'
  BY <1>1, <1>3 DEF ListInv
<1>7. (\A t \in Shells : reader[t] = "close" => session[t] \in {"ended", "closed"})'
  BY <1>3 DEF ListInv
<1>8. ASSUME NEW q \in Procs, NEW t \in Shells, Inserting(q, t)'
      PROVE  /\ MayBeListed(t)'
             /\ t \notin openShells' \cup left'
             /\ \A o \in Procs : o # q /\ pc'[o] \in {"insert", "delete", "close", "resize", "input"} => call'[o].shell # t
  <2>1. CASE q = p
    BY <1>1, <1>2, <1>3, <1>4, <1>8, <2>1 DEF Inserting
  <2>2. CASE q # p
    <3>1. Inserting(q, t) /\ t # s
      BY <1>2, <1>3, <1>8, <2>2 DEF Inserting
    <3> QED BY <1>1, <1>3, <1>4, <3>1 DEF ListInv
  <2> QED BY <2>1, <2>2
<1> QED BY <1>5, <1>6, <1>7, <1>8 DEF ListInv

(* A shell is listed once, by the request that opened it.                  *)
LEMMA InsertKeepsList ==
  ASSUME ShellIndInv, ListInv, NEW p \in Procs, Insert(p)
  PROVE  ListInv'
<1>1. PICK s : s = call[p].shell
  OBVIOUS
<1>2. /\ s \in Shells /\ Inserting(p, s) /\ openShells' = openShells \cup {s}
      /\ pc'[p] = "idle"
      /\ \A q \in Procs : q # p => pc'[q] = pc[q] /\ call'[q] = call[q]
      /\ UNCHANGED <<session, reader, left, early>>
  BY <1>1 DEF Insert, Inserting, ShellIndInv, ShellTypeOK
<1>3. /\ MayBeListed(s)
      /\ s \notin openShells \cup left
      /\ \A q \in Procs : q # p /\ pc[q] \in {"insert", "delete", "close", "resize", "input"} => call[q].shell # s
  BY <1>2 DEF ListInv
<1>4. \A t \in Shells : MayBeListed(t) <=> MayBeListed(t)'
  BY <1>2 DEF MayBeListed
<1>5. (\A t \in openShells : MayBeListed(t))' /\ (openShells \cap left = {})'
  BY <1>2, <1>3, <1>4 DEF ListInv, ShellIndInv, ShellTypeOK
<1>6. (\A q \in Procs : pc[q] = "close" => call[q].shell \notin openShells)'
  BY <1>2, <1>3 DEF ListInv
<1>7. (\A t \in Shells : reader[t] = "close" => session[t] \in {"ended", "closed"})'
  BY <1>2 DEF ListInv
<1>8. ASSUME NEW q \in Procs, NEW t \in Shells, Inserting(q, t)'
      PROVE  /\ MayBeListed(t)'
             /\ t \notin openShells' \cup left'
             /\ \A o \in Procs : o # q /\ pc'[o] \in {"insert", "delete", "close", "resize", "input"} => call'[o].shell # t
  <2>1. q # p /\ Inserting(q, t) /\ t # s
    BY <1>2, <1>3, <1>8 DEF Inserting
  <2> QED BY <1>2, <1>4, <2>1 DEF ListInv
<1> QED BY <1>5, <1>6, <1>7, <1>8 DEF ListInv

(* A session is closed when its shell is off the list for good, or goes    *)
(* off it in the same step; other shells are left alone.                   *)
LEMMA CloseKeepsList ==
  ASSUME ShellIndInv, ListInv, NEW s \in Shells,
         session' = [session EXCEPT ![s] = "closed"],
         \A t \in Shells : t # s => reader'[t] = reader[t],
         reader'[s] = reader[s] \/ reader'[s] = "over",
         early' = early, openShells' \subseteq openShells, left' \subseteq left,
         \A q \in Procs : (pc'[q] = pc[q] /\ call'[q] = call[q]) \/ pc'[q] = "idle",
         s \notin openShells' \/ s \in early,
         s \in early \/ \A q \in Procs : ~Inserting(q, s)
  PROVE  ListInv'
<1>1. \A t \in Shells : session'[t] = IF t = s THEN "closed" ELSE session[t]
  BY DEF ShellIndInv, ShellTypeOK
<1>2. \A t \in Shells : (t # s \/ t \in early) /\ MayBeListed(t) => MayBeListed(t)'
  BY <1>1 DEF MayBeListed
<1>3. (\A t \in openShells : MayBeListed(t))' /\ (openShells \cap left = {})'
  BY <1>2 DEF ListInv, ShellIndInv, ShellTypeOK
<1>4. (\A q \in Procs : pc[q] = "close" => call[q].shell \notin openShells)'
  BY DEF ListInv
<1>5. (\A t \in Shells : reader[t] = "close" => session[t] \in {"ended", "closed"})'
  BY <1>1 DEF ListInv
<1>6. ASSUME NEW q \in Procs, NEW t \in Shells, Inserting(q, t)'
      PROVE  /\ MayBeListed(t)'
             /\ t \notin openShells' \cup left'
             /\ \A o \in Procs : o # q /\ pc'[o] \in {"insert", "delete", "close", "resize", "input"} => call'[o].shell # t
  <2>1. Inserting(q, t)
    BY <1>6 DEF Inserting
  <2> QED BY <1>2, <2>1 DEF ListInv
<1> QED BY <1>3, <1>4, <1>5, <1>6 DEF ListInv

(* The four who close sessions.                                            *)
LEMMA ClosersKeepList ==
  ASSUME ShellIndInv, ListInv,
         \/ \E p \in Procs : CloseByUser(p)
         \/ \E s \in Shells : CloseByReader(s) \/ TimeOut(s) \/ CloseNext(s)
  PROVE  ListInv'
<1>1. ASSUME NEW p \in Procs, CloseByUser(p)
      PROVE  ListInv'
  <2>1. PICK s : s = call[p].shell
    OBVIOUS
  <2>2. s \in Shells /\ s \notin openShells /\ pc[p] = "close"
    BY <1>1, <2>1 DEF CloseByUser, ListInv, ShellIndInv, ShellTypeOK
  <2>3. \A q \in Procs : ~Inserting(q, s)
    BY <2>1, <2>2 DEF ListInv, Inserting
  <2>4. /\ \A q \in Procs : (pc'[q] = pc[q] /\ call'[q] = call[q]) \/ pc'[q] = "idle"
        /\ session' = [session EXCEPT ![s] = "closed"]
        /\ UNCHANGED <<openShells, reader, left, early>>
    BY <1>1, <2>1 DEF CloseByUser, ShellIndInv, ShellTypeOK
  <2> QED BY <2>2, <2>3, <2>4, CloseKeepsList
<1>2. ASSUME NEW s \in Shells, CloseByReader(s)
      PROVE  ListInv'
  <2>1. reader[s] = "close" /\ session[s] # "broken"
    BY <1>2 DEF CloseByReader, ListInv
  <2>2. s \notin openShells \/ s \in early
    BY <2>1 DEF ListInv, MayBeListed
  <2>3. s \in early \/ \A q \in Procs : ~Inserting(q, s)
    BY <2>1 DEF ListInv, MayBeListed
  <2>4. /\ \A t \in Shells : t # s => reader'[t] = reader[t]
        /\ reader'[s] = "over"
        /\ session' = [session EXCEPT ![s] = "closed"]
        /\ UNCHANGED <<openShells, left, early, pc, call>>
    BY <1>2 DEF CloseByReader, ShellIndInv, ShellTypeOK
  <2> QED BY <2>2, <2>3, <2>4, CloseKeepsList
<1>3. ASSUME NEW s \in Shells, TimeOut(s)
      PROVE  ListInv'
  <2>1. \A q \in Procs : ~Inserting(q, s)
    BY <1>3 DEF TimeOut, ListInv
  <2>2. s \notin openShells' \/ s \in early
    BY <1>3 DEF TimeOut, ListInv, MayBeListed
  <2>3. /\ session' = [session EXCEPT ![s] = "closed"]
        /\ UNCHANGED <<reader, left, early, pc, call>> /\ openShells' \subseteq openShells
    BY <1>3 DEF TimeOut
  <2> QED BY <2>1, <2>2, <2>3, CloseKeepsList
<1>4. ASSUME NEW s \in Shells, CloseNext(s)
      PROVE  ListInv'
  <2>1. \A q \in Procs : ~Inserting(q, s)
    BY <1>4 DEF CloseNext, ListInv
  <2>2. s \notin openShells
    BY <1>4 DEF CloseNext, ListInv
  <2>3. /\ session' = [session EXCEPT ![s] = "closed"]
        /\ UNCHANGED <<openShells, reader, early, pc, call>> /\ left' \subseteq left
    BY <1>4 DEF CloseNext
  <2> QED BY <2>1, <2>2, <2>3, CloseKeepsList
<1> QED BY <1>1, <1>2, <1>3, <1>4

(* A reader that meets the end of a shell takes it off the list, or is too *)
(* early.                                                                  *)
LEMMA ReaderKeepsList ==
  ASSUME ShellIndInv, ListInv, NEW s \in Shells, ReadEof(s) \/ ReadError(s)
  PROVE  ListInv'
<1>1. /\ UNCHANGED <<session, left, pc, call>>
      /\ \A t \in Shells : t # s => reader'[t] = reader[t]
      /\ early \subseteq early' /\ openShells' \subseteq openShells
  BY DEF ReadEof, ReadError, ShellIndInv, ShellTypeOK
<1>2. \A t \in Shells : t # s /\ MayBeListed(t) => MayBeListed(t)'
  BY <1>1 DEF MayBeListed
<1>3. s \in openShells' /\ MayBeListed(s) => MayBeListed(s)'
  <2>1. CASE ReadEof(s)
    BY <2>1 DEF ReadEof
  <2>2. CASE ReadError(s)
    BY <1>1, <2>2 DEF ReadError, MayBeListed
  <2> QED BY <2>1, <2>2
<1>4. ASSUME NEW q \in Procs, Inserting(q, s), MayBeListed(s)
      PROVE  MayBeListed(s)'
  <2>1. CASE ReadEof(s)
    BY <1>4, <2>1 DEF ReadEof, Inserting, MayBeListed
  <2>2. CASE ReadError(s)
    BY <1>1, <1>4, <2>2 DEF ReadError, MayBeListed
  <2> QED BY <2>1, <2>2
<1>5. (\A t \in openShells : MayBeListed(t))' /\ (openShells \cap left = {})'
  BY <1>1, <1>2, <1>3 DEF ListInv, ShellIndInv, ShellTypeOK
<1>6. (\A q \in Procs : pc[q] = "close" => call[q].shell \notin openShells)'
  BY <1>1 DEF ListInv
<1>7. (\A t \in Shells : reader[t] = "close" => session[t] \in {"ended", "closed"})'
  BY <1>1 DEF ListInv, ReadEof, ReadError, ShellIndInv, ShellTypeOK
<1>8. ASSUME NEW q \in Procs, NEW t \in Shells, Inserting(q, t)'
      PROVE  /\ MayBeListed(t)'
             /\ t \notin openShells' \cup left'
             /\ \A o \in Procs : o # q /\ pc'[o] \in {"insert", "delete", "close", "resize", "input"} => call'[o].shell # t
  <2>1. Inserting(q, t)
    BY <1>1, <1>8 DEF Inserting
  <2>2. MayBeListed(t)
    BY <2>1 DEF ListInv
  <2>3. MayBeListed(t)'
    BY <1>2, <1>4, <2>1, <2>2
  <2> QED BY <1>1, <2>1, <2>3 DEF ListInv
<1> QED BY <1>5, <1>6, <1>7, <1>8 DEF ListInv

(* Time, the nodes and the shutdown list nothing and close nothing.        *)
LEMMA OthersKeepList ==
  ASSUME ShellIndInv, ListInv,
         \/ \E s \in Shells : RemoteEnds(s) \/ TimePasses(s)
         \/ ManagerStops \/ ShellClose \/ UNCHANGED shellVars
  PROVE  ListInv'
<1>1. /\ UNCHANGED <<reader, early, pc, call>>
      /\ \A t \in Shells : session'[t] = session[t] \/ (session[t] = "open" /\ session'[t] \in {"ended", "broken"})
      /\ openShells' \subseteq openShells /\ left' \subseteq left \cup openShells
      /\ left' = left \/ openShells' = {}
  <2>1. ASSUME NEW s \in Shells, RemoteEnds(s)
        PROVE  /\ UNCHANGED <<openShells, left, reader, early, pc, call>>
               /\ \A t \in Shells : session'[t] = session[t] \/ (session[t] = "open" /\ session'[t] \in {"ended", "broken"})
    BY <2>1 DEF RemoteEnds, ShellIndInv, ShellTypeOK
  <2>2. ASSUME \/ \E s \in Shells : TimePasses(s)
               \/ ManagerStops \/ ShellClose \/ UNCHANGED shellVars
        PROVE  /\ UNCHANGED <<session, reader, early, pc, call>>
               /\ openShells' \subseteq openShells /\ left' \subseteq left \cup openShells
               /\ left' = left \/ openShells' = {}
    BY <2>2 DEF TimePasses, ManagerStops, ShellClose, shellVars
  <2> QED BY <2>1, <2>2
<1>2. \A t \in Shells : MayBeListed(t) => MayBeListed(t)'
  BY <1>1 DEF MayBeListed
<1>3. (\A t \in openShells : MayBeListed(t))' /\ (openShells \cap left = {})'
  BY <1>1, <1>2 DEF ListInv, ShellIndInv, ShellTypeOK
<1>4. (\A q \in Procs : pc[q] = "close" => call[q].shell \notin openShells)'
  BY <1>1 DEF ListInv
<1>5. (\A t \in Shells : reader[t] = "close" => session[t] \in {"ended", "closed"})'
  BY <1>1 DEF ListInv
<1>6. ASSUME NEW q \in Procs, NEW t \in Shells, Inserting(q, t)'
      PROVE  /\ MayBeListed(t)'
             /\ t \notin openShells' \cup left'
             /\ \A o \in Procs : o # q /\ pc'[o] \in {"insert", "delete", "close", "resize", "input"} => call'[o].shell # t
  <2>1. Inserting(q, t)
    BY <1>1, <1>6 DEF Inserting
  <2> QED BY <1>1, <1>2, <2>1 DEF ListInv
<1> QED BY <1>3, <1>4, <1>5, <1>6 DEF ListInv

(* Every step keeps the list.                                              *)
LEMMA ListNextStep ==
  ASSUME ShellIndInv, ListInv, [ShellNext]_shellVars
  PROVE  ListInv'
BY PlainSteps, OpenKeepsList, InsertKeepsList, ClosersKeepList, ReaderKeepsList, OthersKeepList
   DEF ShellNext, Serve, Read

-----------------------------------------------------------------------------
(* A session that has been closed stays closed, and no session but one of  *)
(* ExecInteractive that is closed already panics.                          *)
LEMMA PanicNextStep ==
  ASSUME ShellIndInv, PanicInv, [ShellNext]_shellVars
  PROVE  PanicInv'
<1>1. CASE UNCHANGED shellVars
  BY <1>1 DEF PanicInv, OnlyExecSessionsPanic, shellVars
<1>2. ASSUME ~down,
             UNCHANGED <<fragile, down, unanswered>>,
             \A s \in Allocated : session[s] = "closed" => session'[s] = "closed"
      PROVE  PanicInv'
  BY <1>2 DEF ShellIndInv, ShellTypeOK, PanicInv, OnlyExecSessionsPanic
<1>3. ASSUME NEW s \in Shells, CloseOrCrash(s)
      PROVE  PanicInv'
  <2>1. \A t \in Shells : session[t] = "closed" => session'[t] = "closed"
    BY <1>3 DEF ShellIndInv, ShellTypeOK
  <2>2. down' => s \in fragile /\ session'[s] = "closed"
    BY <1>3, <2>1
  <2> QED BY <1>3, <2>1, <2>2 DEF ShellIndInv, ShellTypeOK, PanicInv, OnlyExecSessionsPanic
<1>4. ASSUME NEW s \in Allocated, Recover(s), ~down,
             \A t \in Shells : session[t] = "closed" => session'[t] = "closed"
      PROVE  PanicInv'
  BY <1>4 DEF ShellIndInv, ShellTypeOK, PanicInv, OnlyExecSessionsPanic
<1>5. ASSUME NEW p \in Procs, ~down, Request(p) \/ OpenFails(p) \/ Insert(p) \/ Delete(p) \/ Input(p)
      PROVE  PanicInv'
  BY <1>2, <1>5 DEF Request, BeginOpen, BeginClose, BeginResize, BeginInput, OpenFails, Insert, Delete, Input
<1>6. ASSUME NEW p \in Procs, ~down, OpenSucceeds(p)
      PROVE  PanicInv'
  <2>1. \A s \in Allocated : session[s] = session'[s]
    BY <1>6 DEF OpenSucceeds, ShellIndInv, ShellTypeOK
  <2> QED BY <1>2, <1>6, <2>1 DEF OpenSucceeds
<1>7. ASSUME NEW p \in Procs, ~down, CloseByUser(p) \/ Resize(p)
      PROVE  PanicInv'
  <2>1. call[p].shell \in Allocated
    BY <1>7 DEF CloseByUser, Resize, ShellIndInv, ShellTypeOK
  <2>2. Recover(call[p].shell) /\ \A t \in Shells : session[t] = "closed" => session'[t] = "closed"
    BY <1>7 DEF CloseByUser, Resize, ShellIndInv, ShellTypeOK
  <2> QED BY <1>4, <1>7, <2>1, <2>2
<1>8. ASSUME NEW s \in Shells, ~down, ReadEof(s) \/ ReadError(s) \/ RemoteEnds(s) \/ TimePasses(s)
      PROVE  PanicInv'
  BY <1>2, <1>8 DEF ReadEof, ReadError, RemoteEnds, TimePasses, ShellIndInv, ShellTypeOK
<1>9. ASSUME NEW s \in Shells, CloseByReader(s) \/ TimeOut(s) \/ CloseNext(s)
      PROVE  PanicInv'
  <2>1. CloseOrCrash(s)
    BY <1>9 DEF CloseByReader, TimeOut, CloseNext
  <2> QED BY <1>3, <2>1
<1>10. ASSUME ~down, ManagerStops \/ ShellClose
       PROVE  PanicInv'
  BY <1>2, <1>10 DEF ManagerStops, ShellClose
<1> QED BY <1>1, <1>5, <1>6, <1>7, <1>8, <1>9, <1>10 DEF ShellNext, Serve, Read

(* For any number of users, requests and shells, and whatever is typed,    *)
(* ended, timed out or shut down in whichever order: a session that has    *)
(* not been closed belongs to a shell somebody can still close, a shell    *)
(* that has ended is off the list unless it ended before it was listed,    *)
(* and only a session of ExecInteractive takes the server or an answer     *)
(* with it (service.go:212-340, 500-527; clabernetes.go:1167-1192).        *)
THEOREM ShellInvariant == ShellSpec => []ShellInv
<1>1. ShellInit => ShellIndInv /\ ListInv /\ PanicInv
  BY ShellInitInv
<1>2. (ShellIndInv /\ ListInv /\ PanicInv) /\ [ShellNext]_shellVars => (ShellIndInv /\ ListInv /\ PanicInv)'
  BY ShellNextStep, ListNextStep, PanicNextStep
<1>3. ShellIndInv /\ ListInv /\ PanicInv => ShellInv
  BY DEF ShellIndInv, ListInv, PanicInv, MayBeListed, ShellInv, EndedShellsAreOff
<1> QED BY <1>1, <1>2, <1>3, PTL DEF ShellSpec
=============================================================================
