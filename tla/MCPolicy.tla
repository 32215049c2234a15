------------------------------- MODULE MCPolicy -------------------------------
(***************************************************************************)
(* Topologies for Policy: all that set one key in one definition, pairs of *)
(* definitions for one node, and every reference of up to three elements.  *)
(***************************************************************************)
EXTENDS Policy, TLC

Name(w) == [word |-> w, spelling |-> "lower"]
Loud(w) == [word |-> w, spelling |-> "upper"]
Here(parts) == [start |-> "here", parts |-> parts]
Away(start) == [start |-> start, parts |-> <<>>]

Elements == {"a", "b", "..", "."}
References ==
  {Here(s) : s \in {<<>>} \cup {<<x>> : x \in Elements} \cup (Elements \X Elements) \cup (Elements \X Elements \X Elements)}
    \cup {Away(s) : s \in {"remote", "home", "root"}}

Plain == (AllowedFields \ {"kind", "group", "image", "privileged", "stages", "binds", "startup-config", "license", "credentials"})
           \cup DOMAIN DeniedFields \cup {"unheard-of"}

(* The definitions that matter to containerlab's inheritance. *)
Values ==
  {"kind" :> k : k \in {Name("linux"), Name("host"), Loud("host")}} \cup {"privileged" :> v : v \in BOOLEAN}
    \cup {"image" :> [prefixes |-> p] : p \in {{}, {"reg"}}}
    \cup {"stages" :> {Name(w)} : w \in {"", "container", "host"}}
    \cup {"binds" :> {Here(<<"a">>)}, "binds" :> {Here(<<"..">>)}, "ports" :> TRUE, "unheard-of" :> TRUE}

Singles ==
  {k :> TRUE : k \in Plain} \cup Values \cup {"binds" :> {r} : r \in References}
    \cup {k :> r : k \in {"license", "credentials", "startup-config"}, r \in {Here(<<"a">>), Here(<<"..">>), Away("remote")}}
    \cup {"startup-config" :> Away("inline")}

Base ==
  [text |-> {}, root |-> {"name"}, sections |-> {}, defaults |-> <<>>,
   kinds |-> "linux" :> <<>>, groups |-> "g" :> <<>>,
   nodes |-> "n" :> ("kind" :> Name("linux") @@ "group" :> Name("g")), links |-> {}]

Put(topo, layer, d) ==
  CASE layer = "defaults" -> [topo EXCEPT !.defaults = d]
    [] layer = "kinds" -> [topo EXCEPT !.kinds["linux"] = d]
    [] layer = "groups" -> [topo EXCEPT !.groups["g"] = d]
    [] layer = "nodes" -> [topo EXCEPT !.nodes["n"] = d @@ @]

(* A node that says neither its kind nor its group: they come from the     *)
(* defaults, and from each other.                                          *)
Bare == [Base EXCEPT !.nodes["n"] = <<>>]
Given ==
  {[Bare EXCEPT !.defaults = "kind" :> Name("linux") @@ d] : d \in {<<>>, "group" :> Name("g")}}
    \cup {[Bare EXCEPT !.defaults = "group" :> Name("g"), !.nodes["n"] = "kind" :> Name("linux")],
          [Bare EXCEPT !.nodes["n"] = "group" :> Name("g"), !.groups["g"] = "kind" :> Name("linux")],
          [Bare EXCEPT !.defaults = "kind" :> Name("linux"), !.kinds["linux"] = "group" :> Name("g")]}

AllLayers == {"defaults", "kinds", "groups", "nodes"}

Ends(w) == [type |-> "veth", endpoints |-> {Name("n"), Name(w)}]

McProbes ==
  {Base} \cup {Put(Base, l, d) : l \in AllLayers, d \in Singles}
    \cup {Put(Put(Base, lo, d), "nodes", e) : lo \in AllLayers \ {"nodes"}, d \in Values, e \in Values}
    \cup {[t EXCEPT !.kinds["linux"] = d @@ @] : t \in Given, d \in Values}
    \cup {[t EXCEPT !.groups["g"] = d @@ @] : t \in Given, d \in Values}
    \cup {[Base EXCEPT !.text = t] : t \in SUBSET {"template", "env"}}
    \cup {[Base EXCEPT !.root = {"name", k}] : k \in {"debug", "mgmt", "prefix", "settings", "unheard-of"}}
    \cup {[Base EXCEPT !.sections = {"unheard-of"}]}
    \cup {[Base EXCEPT !.links = {l}] : l \in {Ends("n"), Ends("host"), [type |-> "dummy"], [type |-> "vxlan"]}}

McEdits == {Base, Put(Base, "nodes", "binds" :> {Here(<<"a">>)}), Put(Base, "groups", "privileged" :> TRUE)}

McFileSets == {{}, {<<"a">>}, {<<"a", "b">>}}

Symmetry == Permutations(Procs)
=============================================================================
