----------------------------- MODULE PolicyRules -----------------------------
(***************************************************************************)
(* The rules of the topology policy (src/src/policy/engine.go): what a     *)
(* check of a containerlab topology reports.                               *)
(*                                                                         *)
(* A topology is a record.  Its node definitions (the defaults, and those  *)
(* of the kinds, groups and nodes) are functions from the keys that are    *)
(* set to their values.  A finding is a path, a rule and an impact; the    *)
(* messages are left out, and so is the order of the findings.             *)
(***************************************************************************)
EXTENDS Naturals, Sequences

CONSTANT AllowedImagePrefixes   \* Options.AllowedImagePrefixes

Impacts == {"deploy", "shell", "unreviewed"}

Rules ==
  {"netlab", "unreviewed-field", "go-template", "env-expansion", "mgmt", "prefix", "settings", "env-files",
   "host-kind", "image-not-allowed", "privileged", "privileges", "host-namespace", "kernel-settings", "runtime",
   "host-ports", "volumes", "static-mgmt-address", "host-exec", "remote-file", "foreign-file", "host-link"}

Finding(path, rule, impact) == [path |-> path, rule |-> rule, impact |-> impact]

unknown(path) == {Finding(path, "unreviewed-field", "unreviewed")}

-----------------------------------------------------------------------------
(***************************************************************************)
(* The raw definition: text, top-level keys, sections and node keys        *)
(***************************************************************************)
(* What containerlab would replace before it parses the text. *)
checkRawText(text) ==
  {Finding(<<>>, IF mark = "template" THEN "go-template" ELSE "env-expansion", "deploy") : mark \in text}

AllowedFields ==
  {"group", "type", "startup-delay", "enforce-startup-config", "suppress-startup-config", "auto-remove",
   "restart-policy", "config", "image-pull-policy", "position", "hostname", "entrypoint", "cmd", "exec", "env",
   "user", "labels", "dns", "aliases", "healthcheck", "link-apply-mode", "credentials", "certificate",
   "cpu", "cpu-set", "memory", "shm-size", "tmpfs",
   "kind", "image", "privileged", "stages", "binds", "startup-config", "license"}

(* The fields that are reported whenever they are set, with rule and impact. *)
DeniedFields ==
  [f \in {"network-mode", "pid-mode", "cgroupns-mode", "cgroup-parent", "env-files", "cap-add", "devices",
          "security-opts", "sysctls", "runtime", "ports", "volumes", "mgmt-ipv4", "mgmt-ipv6", "extras",
          "components"} |->
     CASE f \in {"network-mode", "pid-mode", "cgroupns-mode"} -> <<"host-namespace", "shell">>
       [] f = "cgroup-parent" -> <<"host-namespace", "deploy">>
       [] f = "env-files" -> <<"env-files", "deploy">>
       [] f \in {"cap-add", "devices", "security-opts"} -> <<"privileges", "shell">>
       [] f = "sysctls" -> <<"kernel-settings", "deploy">>
       [] f = "runtime" -> <<"runtime", "deploy">>
       [] f = "ports" -> <<"host-ports", "deploy">>
       [] f = "volumes" -> <<"volumes", "shell">>
       [] f \in {"mgmt-ipv4", "mgmt-ipv6"} -> <<"static-mgmt-address", "shell">>
       [] f \in {"extras", "components"} -> <<"unreviewed-field", "unreviewed">>]

Reviewed(key) == key \in AllowedFields \cup DOMAIN DeniedFields

checkNodeKeys(path, def) ==
  {Finding(Append(path, k), DeniedFields[k][1], DeniedFields[k][2]) : k \in DOMAIN def \cap DOMAIN DeniedFields}
    \cup (UNION {unknown(Append(path, k)) : k \in {key \in DOMAIN def : ~Reviewed(key)}})

(* The node definitions of a topology, by path. *)
Definitions(topo) ==
  [p \in {<<"defaults">>} \cup (UNION {{section} \X DOMAIN topo[section] : section \in {"kinds", "groups", "nodes"}}) |->
     IF p = <<"defaults">> THEN topo.defaults ELSE topo[p[1]][p[2]]]

checkTopologyKeys(topo) ==
  (UNION {checkNodeKeys(p, Definitions(topo)[p]) : p \in DOMAIN Definitions(topo)})
    \cup (UNION {unknown(<<s>>) : s \in topo.sections})

checkRootKeys(topo) ==
  (UNION {CASE k = "mgmt" -> {Finding(<<k>>, "mgmt", "shell")}
            [] k = "prefix" -> {Finding(<<k>>, "prefix", "deploy")}
            [] k = "settings" -> {Finding(<<k>>, "settings", "deploy")}
            [] k \in {"name", "debug"} -> {}
            [] OTHER -> unknown(<<k>>) : k \in topo.root})
    \cup checkTopologyKeys(topo)

-----------------------------------------------------------------------------
(***************************************************************************)
(* Files.  A reference is remote, starts at a home directory or at the     *)
(* root, or is a sequence of path elements; a bind file is a normalised    *)
(* sequence of names.                                                      *)
(***************************************************************************)
(* filepath.Clean of a relative path *)
Clean(parts) ==
  LET Step(done, p) ==
        IF p = "." THEN done
        ELSE IF p = ".." /\ done # <<>> /\ done[Len(done)] # ".." THEN SubSeq(done, 1, Len(done) - 1)
        ELSE Append(done, p)
      upTo[i \in 0 .. Len(parts)] == IF i = 0 THEN <<>> ELSE Step(upTo[i - 1], parts[i])
  IN upTo[Len(parts)]

(* filepath.IsLocal, and not the directory itself *)
IsBelow(cleaned) == cleaned # <<>> /\ cleaned[1] # ".."

Contains(dir, path) == Len(dir) <= Len(path) /\ SubSeq(path, 1, Len(dir)) = dir

isOwnFile(ref, files) ==
  /\ ref.start = "here"
  /\ IsBelow(Clean(ref.parts))
  /\ \E f \in files : Contains(Clean(ref.parts), f)

checkFileReference(path, ref, files) ==
  IF ref.start = "remote" THEN {Finding(path, "remote-file", "deploy")}
  ELSE IF isOwnFile(ref, files) THEN {}
  ELSE {Finding(path, "foreign-file", "shell")}

-----------------------------------------------------------------------------
(***************************************************************************)
(* The values of a node definition, and the links                          *)
(***************************************************************************)
(* A name is a word and the way it is spelled.  Names are compared in lower *)
(* case and without the spaces around them.                                 *)
Normalised(name) == name.word

hostReachingKinds == {"host", "bridge", "ovs-bridge", "ext-container", "k8s-kind", "tailscale"}
hostEndpointNodes == {"host", "macvlan", "mgmt-net"}

(* An image is a name with the prefixes it has. *)
checkImage(path, image) ==
  IF AllowedImagePrefixes = {} \/ image.prefixes \cap AllowedImagePrefixes # {} THEN {}
  ELSE {Finding(path, "image-not-allowed", "shell")}

(* The commands of the stages, each with its target. *)
checkStages(path, execs) ==
  {Finding(path, "host-exec", "deploy") : x \in {y \in execs : Normalised(y) \notin {"", "container"}}}

(* An inline configuration of several lines is not a reference. *)
FileReferences(def) ==
  (IF "binds" \in DOMAIN def THEN {<<"binds", r>> : r \in def["binds"]} ELSE {})
    \cup {<<k, def[k]>> : k \in DOMAIN def \cap {"license", "credentials"}}
    \cup {<<k, def[k]>> : k \in {x \in DOMAIN def \cap {"startup-config"} : def[x].start # "inline"}}

(* The references that start in the directory of the topology are paths. *)
WellFormed(topo) ==
  \A p \in DOMAIN Definitions(topo) : \A r \in FileReferences(Definitions(topo)[p]) :
    r[2].start = "here" => r[2].parts \in Seq(STRING)

checkNodeDefinition(path, def, files) ==
  (IF "kind" \in DOMAIN def /\ Normalised(def["kind"]) \in hostReachingKinds
     THEN {Finding(Append(path, "kind"), "host-kind", "shell")} ELSE {})
    \cup (IF "image" \in DOMAIN def THEN checkImage(Append(path, "image"), def["image"]) ELSE {})
    \cup (IF "privileged" \in DOMAIN def /\ def["privileged"]
            THEN {Finding(Append(path, "privileged"), "privileged", "shell")} ELSE {})
    \cup (UNION {checkFileReference(Append(path, r[1]), r[2], files) : r \in FileReferences(def)})
    \cup (IF "stages" \in DOMAIN def THEN checkStages(Append(path, "stages"), def["stages"]) ELSE {})

(* A veth endpoint that names the server leaves the lab, a dummy link stays *)
(* in it, and every other type of link is taken to leave it.                *)
checkLinks(links) ==
  {Finding(<<"links">>, "host-link", "shell") :
     l \in {k \in links : k.type \notin {"dummy", "veth"}
                            \/ (k.type = "veth" /\ \E x \in k.endpoints : Normalised(x) \in hostEndpointNodes)}}

(* Mutant: the values of the groups are not looked at. *)
checkWithoutGroups(topo, files) ==
  checkRawText(topo.text)
    \cup checkRootKeys(topo)
    \cup (UNION {checkNodeDefinition(p, Definitions(topo)[p], files) : p \in {q \in DOMAIN Definitions(topo) : q[1] # "groups"}})
    \cup checkLinks(topo.links)

check(topo, files) ==
  checkRawText(topo.text)
    \cup checkRootKeys(topo)
    \cup (UNION {checkNodeDefinition(p, Definitions(topo)[p], files) : p \in DOMAIN Definitions(topo)})
    \cup checkLinks(topo.links)

-----------------------------------------------------------------------------
(***************************************************************************)
(* What the rules are for: what a topology makes containerlab do           *)
(***************************************************************************)
(* External: the definition of a section that is named by the first of the *)
(* givers to set the key, if there is one.                                 *)
Named(section, key, givers) ==
  LET setting == {i \in DOMAIN givers : key \in DOMAIN givers[i]}
      word == givers[CHOOSE i \in setting : \A j \in setting : i <= j][key].word
  IN IF setting # {} /\ word \in DOMAIN section THEN section[word] ELSE <<>>

(* External: containerlab takes a field from the node, then its group, its *)
(* kind and the defaults, whichever sets it first; binds add up.  The kind *)
(* is that of the node, of the group it names or of the defaults, and the  *)
(* group that of the node, of its kind or of the defaults.                 *)
Layers(topo, n) ==
  LET def == topo.nodes[n]
      kind == Named(topo.kinds, "kind", <<def, Named(topo.groups, "group", <<def>>), topo.defaults>>)
      group == Named(topo.groups, "group", <<def, kind, topo.defaults>>)
  IN <<def, group, kind, topo.defaults>>

Effective(topo, n, f) ==
  LET layers == Layers(topo, n)
      first == CHOOSE i \in 1 .. 4 : f \in DOMAIN layers[i] /\ \A j \in 1 .. i - 1 : f \notin DOMAIN layers[j]
  IN layers[first][f]

Fields(topo, n) == UNION {DOMAIN Layers(topo, n)[i] : i \in 1 .. 4}

(* The place a relative reference leads to, from the directory of the      *)
(* topology, element by element.                                           *)
Home == <<"topologies", "t">>

Walk(parts) ==
  LET Step(at, p) ==
        IF p = "." THEN at
        ELSE IF p # ".." THEN Append(at, p)
        ELSE IF at = <<>> THEN at
        ELSE SubSeq(at, 1, Len(at) - 1)
      upTo[i \in 0 .. Len(parts)] == IF i = 0 THEN Home ELSE Step(upTo[i - 1], parts[i])
  IN upTo[Len(parts)]

(* It is a file of the topology, or a directory that holds some. *)
LeadsToOwnFile(ref, files) ==
  /\ ref.start = "here"
  /\ Walk(ref.parts) # Home
  /\ \E f \in files : Contains(Walk(ref.parts), Home \o f) /\ Contains(Home, Walk(ref.parts))

Harmless(f, v, files) ==
  CASE f = "kind" -> v.word \notin hostReachingKinds
    [] f = "image" -> AllowedImagePrefixes = {} \/ v.prefixes \cap AllowedImagePrefixes # {}
    [] f = "privileged" -> ~v
    [] f = "binds" -> \A r \in v : LeadsToOwnFile(r, files)
    [] f \in {"license", "credentials"} -> LeadsToOwnFile(v, files)
    [] f = "startup-config" -> v.start = "inline" \/ LeadsToOwnFile(v, files)
    [] f = "stages" -> \A x \in v : x.word \in {"", "container"}
    [] OTHER -> f \in AllowedFields

(* Deploying the topology touches nothing but its own lab.  Binds add up,  *)
(* and the kind is looked at in every layer it could come from.            *)
Confined(topo, files) ==
  /\ topo.text = {}
  /\ topo.root \subseteq {"name", "debug"}
  /\ \A n \in DOMAIN topo.nodes : \A f \in Fields(topo, n) :
       IF f \in {"binds", "kind"}
       THEN \A i \in 1 .. 4 : f \in DOMAIN Layers(topo, n)[i] => Harmless(f, Layers(topo, n)[i][f], files)
       ELSE Harmless(f, Effective(topo, n, f), files)
  /\ \A l \in topo.links : l.type = "dummy" \/ (l.type = "veth" /\ \A x \in l.endpoints : x.word \notin hostEndpointNodes)
=============================================================================
