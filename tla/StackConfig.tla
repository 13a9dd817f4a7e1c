---------------------------- MODULE StackConfig ----------------------------
(***************************************************************************)
(* hypernetwork.config.yaml: the validation every command applies to it,   *)
(* and the `vzctl stack` commands that edit it in place (load and          *)
(* validate, change in memory, serialize, validate again, write a          *)
(* temporary file of a fixed name, rename it). Nothing keeps two of these  *)
(* commands apart. A behaviour starts from a file a user has written: any  *)
(* one of a bounded family for each topic of the validation.               *)
(***************************************************************************)
EXTENDS Naturals, Sequences, FiniteSets, SequencesExt, FiniteSetsExt

CONSTANTS CfClis,     \* concurrent `vzctl stack` commands
          CfTopics,   \* the topics whose files are tried
          MaxCfCmds,  \* bound: commands
          NoCf        \* nothing

ASSUME StackConfigAssumption == IsFiniteSet(CfClis) /\ MaxCfCmds \in Nat

VARIABLE cf  \* [file, tmp, cmds, p]; a file is a configuration, "torn" (as TornCf) or absent

CfVms  == {"v1", "v2", "v3"}
CfLast == 255      \* offset of the broadcast address of the networks used here, all /24

CfNone(f)  == [x \in CfVms |-> f]
CfVm       == [nets |-> <<[net |-> "lan", off |-> 10]>>, roles |-> {}, deps |-> <<>>, ports |-> <<>>,
               mounts |-> <<>>, ctr |-> FALSE, req |-> {}]
CfLan      == [canon |-> TRUE, docker |-> FALSE, dhcp |-> FALSE, nat |-> TRUE]

\* scaffold_environment: one network, no VM.
scaffold_environment ==
  [nets |-> [n \in {"lan"} |-> CfLan], vms |-> [v \in {} |-> CfVm], vols |-> {}, ports |-> <<>>,
   routes |-> <<>>, policies |-> <<>>, ing |-> NoCf, oidc |-> NoCf, probes |-> <<>>, ds |-> NoCf,
   kube |-> NoCf, claims |-> FALSE]

-----------------------------------------------------------------------------
(* Validation: each definition is true when the check finds no issue.      *)

CfDistinct(s)        == \A i, j \in DOMAIN s : i # j => s[i] # s[j]
require_network(c, n) == n \in DOMAIN c.nets
CfAttached(c, v)     == {c.vms[v].nets[i].net : i \in DOMAIN c.vms[v].nets}
CfDocker(c, n)       == n \in DOMAIN c.nets /\ c.nets[n].docker

validate_networks(c) ==
  \A n \in DOMAIN c.nets : c.nets[n].canon /\ (c.nets[n].docker => ~c.nets[n].dhcp /\ ~c.nets[n].nat)

\* A router VM that the rule names has the role and an interface in each network.
CfRouter(c, via, nets) ==
  via \in DOMAIN c.vms /\ "router" \in c.vms[via].roles /\ nets \intersect DOMAIN c.nets \subseteq CfAttached(c, via)

validate_routes(c) ==
  /\ CfDistinct([i \in DOMAIN c.routes |-> c.routes[i].name])
  /\ \A i \in DOMAIN c.routes : LET r == c.routes[i] IN
       require_network(c, r.from) /\ require_network(c, r.to) /\ CfRouter(c, r.via, {r.from, r.to})

\* A docker network may forward to the internet through its parents' routers.
CfEgress(c, source) ==
  CfDocker(c, source) \/ \E v \in DOMAIN c.vms :
    /\ "router" \in c.vms[v].roles /\ source \in CfAttached(c, v)
    /\ \E n \in CfAttached(c, v) \intersect DOMAIN c.nets : c.nets[n].nat

validate_policies(c) ==
  /\ CfDistinct([i \in DOMAIN c.policies |-> c.policies[i].name])
  /\ \A i \in DOMAIN c.policies : LET r == c.policies[i] IN
       /\ require_network(c, r.net)
       /\ r.via # NoCf => CfRouter(c, r.via, {r.net} \union ({r.to} \ {"internet"}))
       /\ IF r.to = "internet" THEN CfEgress(c, r.net) ELSE require_network(c, r.to)
       /\ (r.icmp <=> r.ports = {}) /\ 0 \notin r.ports

\* "8080:80", "bind:8080:80", "8080:vm:80" or "bind:8080:vm:80", as tokens.
CfPort(t) == t \in {"80", "81"}
parse_port_forward(e, vm) ==
  LET f(bind, host, v, guest) ==
        IF CfPort(host) /\ CfPort(guest) /\ v # NoCf THEN [bind |-> bind, host |-> host, vm |-> v] ELSE NoCf
  IN  CASE Len(e) = 2 -> f("lo", e[1], vm, e[2])
        [] Len(e) = 3 -> IF e[2] \in {"0", "80", "81"} THEN f(e[1], e[2], vm, e[3]) ELSE f("lo", e[1], e[2], e[3])
        [] Len(e) = 4 -> f(e[1], e[2], e[3], e[4])
        [] OTHER      -> NoCf

\* All forwards, the stack's own first.
collect_port_forwards(c) ==
  [i \in DOMAIN c.ports |-> parse_port_forward(c.ports[i], NoCf)] \o
  FlattenSeq([k \in 1..Cardinality(DOMAIN c.vms) |->
               LET v == SetToSeq(DOMAIN c.vms)[k]
               IN  [i \in DOMAIN c.vms[v].ports |-> parse_port_forward(c.vms[v].ports[i], v)]])

collect_port_list(c) ==
  LET all == collect_port_forwards(c) IN
  /\ \A i \in DOMAIN all : all[i] # NoCf /\ all[i].bind = "lo" /\ all[i].vm \in DOMAIN c.vms
  /\ CfDistinct([i \in DOMAIN all |-> <<all[i].bind, all[i].host>>])

validate_vm_mounts(c, v) ==
  LET m == c.vms[v].mounts IN
  /\ \A i \in DOMAIN m : m[i].source \in c.vols /\ m[i].target # "/"
  /\ CfDistinct([i \in DOMAIN m |-> m[i].source]) /\ CfDistinct([i \in DOMAIN m |-> m[i].target])

\* Containers need the role and a docker network to have names in.
validate_vm_containers(c, v) ==
  c.vms[v].ctr => "docker" \in c.vms[v].roles /\ \E n \in CfAttached(c, v) : CfDocker(c, n)

\* .0 and .1 are the gateway's, the last address is the broadcast.
validate_attachments(c, v) ==
  LET a == c.vms[v].nets IN
  /\ CfDistinct([i \in DOMAIN a |-> a[i].net])
  /\ \A i \in DOMAIN a :
       /\ require_network(c, a[i].net) /\ a[i].off > 1 /\ a[i].off < CfLast
       /\ CfDocker(c, a[i].net) => a[i].off = 2
       /\ a[i].net \in DOMAIN c.nets => ~c.nets[a[i].net].dhcp
       /\ \A w \in DOMAIN c.vms \ {v} : \A j \in DOMAIN c.vms[w].nets : c.vms[w].nets[j] # a[i]

validate_docker_vm(c, v) ==
  (\E n \in CfAttached(c, v) : CfDocker(c, n)) =>
    /\ \E n \in CfAttached(c, v) \intersect DOMAIN c.nets : ~c.nets[n].docker
    /\ {"docker", "router"} \subseteq c.vms[v].roles

validate_depends_on(c, v) ==
  LET d == c.vms[v].deps IN CfDistinct(d) /\ \A i \in DOMAIN d : d[i] # v /\ d[i] \in DOMAIN c.vms

validate_docker_owners(c) ==
  \A n \in DOMAIN c.nets : c.nets[n].docker => Cardinality({v \in DOMAIN c.vms : n \in CfAttached(c, v)}) = 1

\* The depth-first search: s is [visited, cycle]; `visiting` is the path.
RECURSIVE visit(_, _, _, _)
visit(c, s, visiting, v) ==
  IF v \in s.visited THEN s
  ELSE IF Contains(visiting, v) THEN [s EXCEPT !.cycle = TRUE]
  ELSE LET deps == SelectSeq(c.vms[v].deps, LAMBDA d : d \in DOMAIN c.vms)
           down == FoldLeft(LAMBDA t, d : visit(c, t, Append(visiting, v), d), s, deps)
       IN  [down EXCEPT !.visited = @ \union {v}]

\* Mutant: a VM counts as visited as soon as the search reaches it.
RECURSIVE visitEager(_, _, _, _)
visitEager(c, s, visiting, v) ==
  IF v \in s.visited THEN s
  ELSE LET deps == SelectSeq(c.vms[v].deps, LAMBDA d : d \in DOMAIN c.vms)
       IN  FoldLeft(LAMBDA t, d : visitEager(c, t, Append(visiting, v), d), [s EXCEPT !.visited = @ \union {v}], deps)
detect_dependency_cyclesEager(c) ==
  ~FoldLeft(LAMBDA s, v : visitEager(c, s, <<>>, v), [visited |-> {}, cycle |-> FALSE],
            SetToSeq(DOMAIN c.vms)).cycle

detect_dependency_cycles(c) ==
  ~FoldLeft(LAMBDA s, v : visit(c, s, <<>>, v), [visited |-> {}, cycle |-> FALSE], SetToSeq(DOMAIN c.vms)).cycle

CfOidcOn(c) == c.oidc # NoCf /\ c.oidc.on
CfIngOn(c)  == c.ing # NoCf /\ c.ing.on

\* A route leads to a VM of the stack, or to the OIDC server if that is enabled.
validate_ingress(c) ==
  CfIngOn(c) =>
    /\ c.ing.bind = "lo" /\ c.ing.port > 0 /\ c.ing.routes # <<>>
    /\ CfDistinct([i \in DOMAIN c.ing.routes |-> c.ing.routes[i].host])
    /\ \A i \in DOMAIN c.ing.routes : LET r == c.ing.routes[i] IN
         /\ r.host # "localhost"
         /\ r.to \in DOMAIN c.vms \union (IF CfOidcOn(c) THEN {"oidc"} ELSE {})
         /\ r.requires => CfOidcOn(c)

validate_oidc(c) ==
  CfOidcOn(c) =>
    /\ c.oidc.host = "auth" /\ c.oidc.listen = "lo"
    /\ CfIngOn(c) => \E i \in DOMAIN c.ing.routes : c.ing.routes[i].to = "oidc" /\ c.ing.routes[i].host = c.oidc.host
    /\ IF c.oidc.mode = "simple"
       THEN c.oidc.uplink = NoCf /\ ~c.oidc.password /\ c.oidc.users # <<>> /\ CfDistinct(c.oidc.users)
       ELSE c.oidc.users = <<>> /\ c.oidc.uplink # "bad"

validate_requires(c) == \A v \in DOMAIN c.vms : "oidc" \in c.vms[v].req => CfOidcOn(c)

validate_observability(c) ==
  /\ CfDistinct([i \in DOMAIN c.probes |-> c.probes[i].name])
  /\ \A i \in DOMAIN c.probes : LET r == c.probes[i] IN
       /\ r.from \in {"host"} \union DOMAIN c.vms
       /\ IF r.expect = "http2xx" THEN r.target = "url" ELSE r.target = "host"

\* The default is one of the entries, and each is reached through a VM of the stack.
validate_data_sources(c) ==
  c.ds # NoCf =>
    /\ c.ds.entries # {} /\ c.ds.default \in c.ds.entries /\ c.ds.via \in DOMAIN c.vms
    /\ c.ds.host = "private" /\ c.ds.user

kubernetes_validate(c) ==
  c.kube # NoCf =>
    LET nodes == <<c.kube.server>> \o c.kube.agents IN
    /\ require_network(c, c.kube.net) /\ ~CfDocker(c, c.kube.net) /\ ~c.kube.overlap
    /\ CfDistinct(nodes)
    /\ \A i \in DOMAIN nodes : nodes[i] \in DOMAIN c.vms
                               /\ (nodes[i] \in DOMAIN c.vms => c.kube.net \in CfAttached(c, nodes[i]))

validate_references(c) ==
  /\ validate_networks(c) /\ validate_routes(c) /\ validate_policies(c) /\ collect_port_list(c)
  /\ \A v \in DOMAIN c.vms : /\ validate_vm_mounts(c, v) /\ validate_vm_containers(c, v) /\ validate_attachments(c, v)
                             /\ validate_docker_vm(c, v) /\ validate_depends_on(c, v)
  /\ validate_docker_owners(c) /\ detect_dependency_cycles(c)
  /\ validate_ingress(c) /\ validate_oidc(c) /\ validate_requires(c)
  /\ validate_observability(c) /\ validate_data_sources(c) /\ kubernetes_validate(c)

TornCf == [torn |-> TRUE]

\* Read and parsed, checked against the schema, then against itself.
validate_path(file) == file # NoCf /\ file # TornCf /\ (file # NoCf /\ file # TornCf => validate_references(file))

-----------------------------------------------------------------------------
(* The edits, as the set of their possible results in memory; a refused one *)
(* has none.                                                                *)

\* The first free address from .10 on, or .2 of a docker network.
next_free_ip(c, n) ==
  IF CfDocker(c, n) THEN (IF \E v \in DOMAIN c.vms : n \in CfAttached(c, v) THEN NoCf ELSE 2)
  ELSE LET free == {o \in 10..253 : \A v \in DOMAIN c.vms : \A i \in DOMAIN c.vms[v].nets :
                                      c.vms[v].nets[i] # [net |-> n, off |-> o]}
       IN  IF free = {} THEN NoCf ELSE Min(free)

add_vm(c) ==
  {[c EXCEPT !.vms = [x \in DOMAIN @ \union {v} |->
       IF x = v THEN [CfVm EXCEPT !.nets = <<[net |-> n, off |-> o]>>] ELSE @[x]]] :
     <<v, n, o>> \in {t \in (CfVms \ DOMAIN c.vms) \X (DOMAIN c.nets) \X {2, 10, 11, 12} :
                        t[3] = next_free_ip(c, t[2])}}

CfWithout(f, x) == [y \in DOMAIN f \ {x} |-> f[y]]
remove_vm(c)  == {[c EXCEPT !.vms = CfWithout(@, v)] : v \in DOMAIN c.vms}

add_network(c) ==
  {[c EXCEPT !.nets = [x \in DOMAIN @ \union {n} |-> IF x = n THEN [CfLan EXCEPT !.docker = d, !.nat = ~d] ELSE @[x]]] :
     n \in {"dk"} \ DOMAIN c.nets, d \in BOOLEAN}

remove_network(c) == {[c EXCEPT !.nets = CfWithout(@, n)] : n \in DOMAIN c.nets}
add_volume(c)     == {[c EXCEPT !.vols = @ \union {x}] : x \in {"d1"} \ c.vols}
remove_volume(c)  == {[c EXCEPT !.vols = @ \ {x}] : x \in c.vols}

\* Only the target is looked at here; a second mount of a source fails validation.
add_mount(c) ==
  {[c EXCEPT !.vms[t[1]].mounts = Append(@, [source |-> t[2], target |-> t[3]])] :
     t \in {u \in (DOMAIN c.vms) \X c.vols \X {"/a", "/b"} :
              \A i \in DOMAIN c.vms[u[1]].mounts : c.vms[u[1]].mounts[i].target # u[3]}}

remove_mount(c) ==
  UNION {{[c EXCEPT !.vms[v].mounts = RemoveAt(@, i)] : i \in DOMAIN c.vms[v].mounts} : v \in DOMAIN c.vms}

\* The document is put together section by section: clusters, service providers
\* and claims have no line here.
serialize_environment_yaml(c) == [c EXCEPT !.kube = NoCf, !.claims = FALSE]

-----------------------------------------------------------------------------
(* The commands.                                                           *)

CfIdle == [pc |-> "idle", yaml |-> NoCf, kind |-> NoCf]

\* Validated before anything is written; refused otherwise.
CfWrite(x, c, kind) ==
  LET yaml == serialize_environment_yaml(c) IN
  cf' = IF validate_references(yaml) THEN [cf EXCEPT !.p[x] = [pc |-> "open", yaml |-> yaml, kind |-> kind], !.cmds = @ + 1]
        ELSE [cf EXCEPT !.cmds = @ + 1]

init_command(x) ==
  /\ cf.p[x].pc = "idle" /\ cf.cmds < MaxCfCmds
  /\ \E force \in BOOLEAN :
       IF cf.file # NoCf /\ ~force THEN cf' = [cf EXCEPT !.cmds = @ + 1] ELSE CfWrite(x, scaffold_environment, "init")

CfEdit(x, edit(_), kind) ==
  /\ cf.p[x].pc = "idle" /\ cf.cmds < MaxCfCmds /\ validate_path(cf.file)
  /\ \E c \in edit(cf.file) : CfWrite(x, c, kind)

vm_add(x)        == CfEdit(x, add_vm, "vm")
vm_remove(x)     == CfEdit(x, remove_vm, "vm")
net_add(x)       == CfEdit(x, add_network, "net")
net_remove(x)    == CfEdit(x, remove_network, "net")
volume_add(x)    == CfEdit(x, add_volume, "vol")
volume_remove(x) == CfEdit(x, remove_volume, "vol")
mount_add(x)     == CfEdit(x, add_mount, "vm")
mount_remove(x)  == CfEdit(x, remove_mount, "vm")

\* The temporary file is truncated and written, then renamed over the config;
\* a rename of a file another command has renamed already fails.
write_environment_atomic(x) ==
  \/ cf.p[x].pc = "open" /\ cf' = [cf EXCEPT !.tmp = TornCf, !.p[x].pc = "write"]
  \/ cf.p[x].pc = "write" /\ cf' = [cf EXCEPT !.tmp = IF @ = NoCf THEN @ ELSE cf.p[x].yaml, !.p[x].pc = "rename"]
  \/ /\ cf.p[x].pc = "rename"
     /\ cf' = [cf EXCEPT !.p[x] = CfIdle, !.tmp = NoCf, !.file = IF cf.tmp = NoCf THEN @ ELSE cf.tmp]

cf_killed(x) == cf.p[x].pc # "idle" /\ cf' = [cf EXCEPT !.p[x] = CfIdle]

-----------------------------------------------------------------------------
(* What a user may have written.                                           *)

CfTwo == [scaffold_environment EXCEPT !.vms = [v \in {"v1", "v2"} |->
            [CfVm EXCEPT !.nets = <<[net |-> "lan", off |-> IF v = "v1" THEN 10 ELSE 11]>>]]]
CfDkNet  == [CfLan EXCEPT !.docker = TRUE, !.nat = FALSE]
CfWithDk == [CfTwo EXCEPT !.nets = [n \in {"lan", "dk"} |-> IF n = "dk" THEN CfDkNet ELSE CfLan]]
CfUpTo(S, k) == UNION {[1..n -> S] : n \in 0..k}

CfDepsFiles ==
  LET three == [scaffold_environment EXCEPT !.vms = [v \in CfVms |->
                  [CfVm EXCEPT !.nets = <<[net |-> "lan", off |-> CASE v = "v1" -> 10 [] v = "v2" -> 11 [] OTHER -> 12]>>]]]
      lists == {<<>>, <<"v1">>, <<"v2">>, <<"v3">>, <<"v1", "v2">>, <<"v3", "v1">>, <<"v2", "v3">>, <<"v2", "v2">>, <<"gone">>}
  IN  {[three EXCEPT !.vms["v1"].deps = d[1], !.vms["v2"].deps = d[2], !.vms["v3"].deps = d[3]] : d \in lists \X lists \X lists}

CfNetFiles ==
  LET atts == CfUpTo([net : {"lan", "dk"}, off : {1, 2, 10}], 2)
  IN  {[CfWithDk EXCEPT !.vms["v1"].nets = a, !.vms["v2"].nets = b, !.vms["v2"].roles = r, !.vms["v2"].ctr = r # {},
                        !.nets["lan"].dhcp = d] :
         a \in atts, b \in atts, r \in {{}, {"docker", "router"}}, d \in {FALSE}}
      \union {[CfTwo EXCEPT !.nets["lan"] = [canon |-> k, docker |-> FALSE, dhcp |-> d, nat |-> TRUE]] : k \in BOOLEAN, d \in BOOLEAN}

CfPortFiles ==
  LET entries == {<<"80", "81">>, <<"lo", "80", "81">>, <<"any", "80", "80">>, <<"80", "v1", "80">>, <<"81", "v2", "80">>,
                  <<"lo", "80", "v2", "81">>, <<"lo", "81", "gone", "80">>, <<"0", "80">>, <<"80">>}
  IN  {[CfTwo EXCEPT !.ports = a, !.vms["v1"].ports = b, !.vms["v2"].ports = d] :
         a \in CfUpTo(entries, 2), b \in CfUpTo(entries, 1), d \in CfUpTo(entries, 1)}

CfRuleFiles ==
  LET base == [CfWithDk EXCEPT !.vms["v2"].nets = <<[net |-> "lan", off |-> 11], [net |-> "dk", off |-> 2]>>,
                               !.vms["v2"].roles = {"docker", "router"}]
  IN  {[base EXCEPT !.routes = r] : r \in CfUpTo([name : {"r"}, from : {"lan", "gone"}, to : {"dk"}, via : {"v1", "v2"}], 2)}
      \union {[base EXCEPT !.policies = r, !.vms["v2"].roles = IF s THEN @ ELSE @ \ {"router"}] :
                s \in BOOLEAN,
                r \in CfUpTo([name : {"p"}, net : {"lan", "dk"}, via : {NoCf, "v2"}, to : {"internet", "lan", "gone"},
                               icmp : BOOLEAN, ports : {{}, {0}, {80}}], 1)}

CfEdgeFiles ==
  LET routes == CfUpTo([host : {"auth", "web"}, to : {"v1", "gone", "oidc"}, requires : BOOLEAN], 2)
      oidcs  == {NoCf} \union [on : BOOLEAN, host : {"auth"}, listen : {"lo"}, mode : {"simple", "embedded"},
                               uplink : {NoCf, "ok"}, password : {FALSE}, users : {<<>>, <<"u">>, <<"u", "u">>}]
  IN  {[CfTwo EXCEPT !.ing = i, !.oidc = o, !.vms["v1"].req = q] :
         i \in {NoCf} \union [on : {TRUE}, bind : {"lo"}, port : {80}, routes : routes], o \in oidcs, q \in {{}, {"oidc"}}}

CfOtherFiles ==
  LET base == [CfTwo EXCEPT !.vols = {"d1"}] IN
  {[base EXCEPT !.vms["v1"].mounts = m] : m \in CfUpTo([source : {"d1", "gone"}, target : {"/", "/a", "/b"}], 2)}
  \union {[base EXCEPT !.probes = r] : r \in CfUpTo([name : {"p"}, from : {"host", "v1", "gone"}, expect : {"http2xx", "tcp"},
                                                     target : {"url", "host"}], 2)}
  \union {[base EXCEPT !.ds = d] : d \in [entries : {{}, {"e"}}, default : {"e", "f"}, via : {"v1", "gone"},
                                          host : {"private", "public"}, user : {TRUE}]}
  \union {[CfWithDk EXCEPT !.kube = k, !.claims = TRUE,
                           !.vms["v2"].nets = Append(@, [net |-> "dk", off |-> 2]), !.vms["v2"].roles = {"docker", "router"}] :
            k \in [server : {"v1", "v2"}, agents : {<<>>, <<"v2">>, <<"gone">>}, net : {"lan", "dk"}, overlap : BOOLEAN]}

CfFiles ==
  [deps |-> CfDepsFiles, nets |-> CfNetFiles, ports |-> CfPortFiles, rules |-> CfRuleFiles,
   edge |-> CfEdgeFiles, other |-> CfOtherFiles, none |-> {NoCf}]

CfStart(file) == [file |-> file, tmp |-> NoCf, cmds |-> 0, p |-> [x \in CfClis |-> CfIdle]]
CfInit == \E topic \in CfTopics : \E file \in CfFiles[topic] : cf = CfStart(file)

CfNext ==
  \E x \in CfClis :
    \/ init_command(x) \/ vm_add(x) \/ vm_remove(x) \/ net_add(x) \/ net_remove(x) \/ volume_add(x) \/ volume_remove(x)
    \/ mount_add(x) \/ mount_remove(x) \/ write_environment_atomic(x) \/ cf_killed(x)

CfSpec == CfInit /\ [][CfNext]_cf

-----------------------------------------------------------------------------
\* What `apply` relies on once a file has passed validation: its VMs can be
\* started one after the other, each after the VMs it depends on; no two port
\* forwards listen on the same address and port, however they are written; no
\* two VMs have an address in common, and every ingress route leads somewhere.
ValidIsRunnable ==
  validate_path(cf.file) =>
    LET c == cf.file
        n == Cardinality(DOMAIN c.vms)
        all == collect_port_forwards(c)
    IN  /\ \E order \in [1..n -> DOMAIN c.vms] :
             /\ IsInjective(order)
             /\ \A i \in 1..n : \A k \in DOMAIN c.vms[order[i]].deps :
                  \E j \in 1..(i - 1) : order[j] = c.vms[order[i]].deps[k]
        /\ \A i, j \in DOMAIN all : i # j => all[i].host # all[j].host
        /\ \A v, w \in DOMAIN c.vms : v # w => ToSet(c.vms[v].nets) \intersect ToSet(c.vms[w].nets) = {}
        /\ CfIngOn(c) => \A i \in DOMAIN c.ing.routes :
             IF c.ing.routes[i].to = "oidc" THEN CfOidcOn(c) ELSE c.ing.routes[i].to \in DOMAIN c.vms
=============================================================================
