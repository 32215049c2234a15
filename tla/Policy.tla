-------------------------------- MODULE Policy --------------------------------
(***************************************************************************)
(* The policy engine (src/src/policy/engine.go and cache.go): checks of    *)
(* topologies that are edited and deleted meanwhile, with the findings of  *)
(* every topology cached under a hash of what they belong to.              *)
(*                                                                         *)
(* A caller reads the definition and the paths of the bind files, and the  *)
(* engine looks the hash up, checks and stores in separate steps: the      *)
(* mutex of the cache is held for one access only.                         *)
(***************************************************************************)
EXTENDS PolicyRules

CONSTANTS
  Procs,         \* requests that need the findings of a topology
  Topologies,    \* ids of topologies
  None,
  Probes,        \* the topologies there are at the beginning
  Edits,         \* the topologies users save
  FileSets,      \* the bind files a topology may have
  MaxSteps       \* bound: edits and checks in a run

ASSUME PolicyAssumption ==
  /\ MaxSteps \in Nat
  /\ \A topo \in Probes \cup Edits : WellFormed(topo)
  /\ \A files \in FileSets : files \subseteq Seq(STRING)

VARIABLES
  content,       \* the topology and bind files of every id, None once it is deleted
  entries,       \* findingsCache.entries
  call,          \* the requests
  steps          \* number of edits and checks so far

vars == <<content, entries, call, steps>>

Content == [topo : Probes \cup Edits, files : FileSets]

NoCall == [at |-> "idle", id |-> None, in |-> None, out |-> {}]

Init ==
  /\ content \in [Topologies -> [topo : Probes, files : FileSets]]
  /\ entries = [t \in Topologies |-> None]
  /\ call = [p \in Procs |-> NoCall]
  /\ steps = 0

Count == steps < MaxSteps /\ steps' = steps + 1

-----------------------------------------------------------------------------
(* Mutant: the hash does not depend on the bind files. *)
hashDefinition(in) == <<in.topo>>

(* The hash of different inputs is different; the paths are sorted first.   *)
hashInput(in) == <<in.topo, in.files>>

(* A user saves the topology or one of its bind files. *)
Edit(t) ==
  /\ Count
  /\ content[t] # None
  /\ \E c \in [topo : Edits \cup {content[t].topo}, files : FileSets] : c # content[t] /\ content' = [content EXCEPT ![t] = c]
  /\ UNCHANGED <<entries, call>>

(* A topology is deleted; its findings are forgotten. *)
Forget(t) ==
  /\ content[t] # None
  /\ content' = [content EXCEPT ![t] = None]
  /\ entries' = [entries EXCEPT ![t] = None]
  /\ UNCHANGED <<call, steps>>

(* A request has read a topology. *)
Begin(p, t) ==
  /\ Count
  /\ call[p].at \in {"idle", "done"}
  /\ content[t] # None
  /\ call' = [call EXCEPT ![p] = [at |-> "read", id |-> t, in |-> content[t], out |-> {}]]
  /\ UNCHANGED <<content, entries>>

(* findingsCache.get *)
Get(p) ==
  LET entry == entries[call[p].id] IN
  /\ call[p].at = "read"
  /\ call' = [call EXCEPT ![p] = IF entry # None /\ entry.hash = hashInput(@.in)
                                   THEN [@ EXCEPT !.at = "done", !.out = entry.findings]
                                   ELSE [@ EXCEPT !.at = "miss"]]
  /\ UNCHANGED <<content, entries, steps>>

(* The check and findingsCache.set *)
Set(p) ==
  LET findings == check(call[p].in.topo, call[p].in.files) IN
  /\ call[p].at = "miss"
  /\ entries' = [entries EXCEPT ![call[p].id] = [hash |-> hashInput(call[p].in), findings |-> findings]]
  /\ call' = [call EXCEPT ![p].at = "done", ![p].out = findings]
  /\ UNCHANGED <<content, steps>>

Next ==
  \/ \E t \in Topologies : Edit(t) \/ Forget(t)
  \/ \E p \in Procs : Get(p) \/ Set(p) \/ \E t \in Topologies : Begin(p, t)

Spec == Init /\ [][Next]_vars

-----------------------------------------------------------------------------
(* Every finding has a rule and an impact clients know. *)
TypeOK ==
  /\ \A t \in Topologies : content[t] = None \/ content[t] \in Content
  /\ \A p \in Procs : call[p].at \in {"idle", "read", "miss", "done"}
  /\ \A p \in Procs : \A f \in call[p].out : f.rule \in Rules /\ f.impact \in Impacts

(* The findings a request gets are those of what it has read, whatever has *)
(* been saved, deleted or checked by others since.                         *)
CheckIsFresh ==
  \A p \in Procs : call[p].at = "done" => call[p].out = check(call[p].in.topo, call[p].in.files)

(* A topology without findings is confined to its lab: whichever of node,  *)
(* group, kind and defaults containerlab takes a field from, and wherever  *)
(* a path leads.                                                           *)
AcceptedIsConfined ==
  \A p \in Procs : call[p].at = "done" /\ call[p].out = {} => Confined(call[p].in.topo, call[p].in.files)

(* Every key the policy does not know is reported, in any definition, also *)
(* when the findings come from the cache.                                  *)
FailsClosed ==
  \A p \in Procs : call[p].at = "done" =>
    LET defs == Definitions(call[p].in.topo) IN
    \A path \in DOMAIN defs : \A k \in DOMAIN defs[path] :
      ~Reviewed(k) => \E f \in call[p].out : f.path = Append(path, k)

(* The answer to a check belongs to the question, and reports what the     *)
(* policy does not know (engine.go:60-116, 187-204, cache.go:27-73).       *)
CheckInv ==
  /\ TypeOK
  /\ CheckIsFresh
  /\ FailsClosed
=============================================================================
