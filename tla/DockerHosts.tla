---------------------------- MODULE DockerHosts ----------------------------
(***************************************************************************)
(* A project's Docker VMs: the SSH key, SSH config and Docker context that  *)
(* all of them share, the containers and Compose services `apply` ensures   *)
(* on them, the container names it publishes in DNS, and `vzctl docker`,     *)
(* which may run at any time beside it. A command reaches the VM that the   *)
(* shared SSH config names when it is sent. Either process may be killed    *)
(* anywhere; virtual machines stop, start and are deleted.                  *)
(***************************************************************************)
EXTENDS Naturals, FiniteSets, FiniteSetsExt

CONSTANTS DkVms,      \* Docker VMs, as numbers: the order of the configuration
          DkConfigs,  \* configurations: the Docker VMs, the declared container or NoDk, its
                      \* revision (image, environment, ports), its volume, whether there
                      \* is a Compose file, and the consumer of the service claim
          MaxDkEdits, \* bound: edits of the configuration
          MaxDkCalls, \* bound: `vzctl docker` commands and changes of VMs
          NoDk        \* nothing: no file, no VM, no container

ASSUME DockerHostsAssumption ==
  /\ DkVms \subseteq Nat /\ NoDk \notin Nat /\ NoDk # "ok"
  /\ DkConfigs \subseteq [vms : SUBSET DkVms, name : {"web", "svc", NoDk}, rev : Nat, volume : {"data", "binding"},
                          compose : BOOLEAN, consumer : {NoDk, "web", "db", "ghost"}]

VARIABLE dk  \* [cfg, inv, host, key, ssh, ctx, dns, p, edits, calls, quiet]

DkProcs == {"apply", "user"}
DkIdle == [pc |-> "idle", want |-> NoDk, vm |-> NoDk, back |-> "idle", op |-> NoDk, cfg |-> NoDk, todo |-> {},
           seen |-> {}, miss |-> {}, recs |-> {}, exit |-> NoDk]

DkInit ==
  \E c \in DkConfigs :
    dk = [cfg |-> c, inv |-> [v \in DkVms |-> IF v = 1 THEN "running" ELSE "none"],
          host |-> [v \in DkVms |-> {}],
          key |-> "none", ssh |-> NoDk, ctx |-> FALSE, dns |-> {}, p |-> [q \in DkProcs |-> DkIdle],
          edits |-> 0, calls |-> 0, quiet |-> TRUE]

DkAt(q, pc) == dk.p[q].pc = pc
DkGo(s, q, pc) == [s EXCEPT !.p[q].pc = pc]
\* Only the success of apply is remembered, for the property below.
DkExit(s, q, code) == [s EXCEPT !.p[q] = [DkIdle EXCEPT !.exit = IF q = "apply" /\ code = "ok" THEN "ok" ELSE NoDk]]
DkFail(q) == DkExit(dk, q, "fail")

-----------------------------------------------------------------------------
(* The shared transport.                                                   *)

\* The one Docker VM of the inventory that was asked for; any VM is taken
\* into account when none was. A manifest that cannot be read is an error.
select_vm(want) ==
  LET found == {v \in DkVms : dk.inv[v] # "none" /\ want \in {NoDk, v}}
  IN  IF (\E v \in found : dk.inv[v] = "broken") \/ Cardinality(found) # 1 THEN NoDk
      ELSE LET v == CHOOSE v \in found : TRUE IN IF dk.inv[v] = "stopped" THEN NoDk ELSE v

\* Exactly one attachment that is not the Docker bridge.
select_address(v) == IF v # NoDk /\ dk.inv[v] = "running" THEN v ELSE NoDk

management_address(q) ==
  /\ DkAt(q, "context")
  /\ LET v == select_address(select_vm(dk.p[q].want))
     IN  dk' = IF v = NoDk THEN DkFail(q) ELSE [DkGo(dk, q, "key") EXCEPT !.p[q].vm = v]

\* ssh-keygen writes the private key, then the public one. A private key
\* alone is not replaced, and the public key is then missing.
ensure_ssh_keypair(q) ==
  \/ DkAt(q, "key") /\ dk.key = "none" /\ dk' = [DkGo(dk, q, "keygen") EXCEPT !.key = "private"]
  \/ DkAt(q, "keygen") /\ dk' = [DkGo(dk, q, "ssh") EXCEPT !.key = "pair"]
  \/ DkAt(q, "key") /\ dk.key = "pair" /\ dk' = DkGo(dk, q, "ssh")
  \/ DkAt(q, "key") /\ dk.key = "private" /\ dk' = DkFail(q)

\* Truncated, then written: in between the file names no VM.
write_ssh_config(q) ==
  \/ DkAt(q, "ssh") /\ dk' = [DkGo(dk, q, "sshBody") EXCEPT !.ssh = NoDk]
  \/ DkAt(q, "sshBody") /\ dk' = [DkGo(dk, q, "docker") EXCEPT !.ssh = dk.p[q].vm]

\* Updated when it is listed, else (or when the update fails) created anew.
ensure_context(q) ==
  /\ DkAt(q, "docker")
  /\ dk' \in {[DkGo(dk, q, dk.p[q].back) EXCEPT !.ctx = TRUE], [DkFail(q) EXCEPT !.ctx = FALSE]}

docker_session(s, q, want, back) ==
  [s EXCEPT !.p[q].pc = "context", !.p[q].want = want, !.p[q].back = back]

\* What a Docker command of process q acts on: the VM the SSH config names
\* now, or none when that VM does not answer or the context is gone.
docker_output ==
  IF dk.ctx /\ dk.ssh # NoDk /\ dk.inv[dk.ssh] \in {"running", "ambiguous"} THEN dk.ssh ELSE NoDk

-----------------------------------------------------------------------------
(* Containers on a VM's engine.                                            *)

Named(v, n) == {c \in dk.host[v] : c.name = n}
Put(s, v, c) == [s EXCEPT !.host[v] = {o \in @ : o.name # c.name} \cup {c}]

\* The claims of a VM by consumer: container or Compose service.
for_vm(c) == IF c.consumer = NoDk THEN {} ELSE {c.consumer}

compose_services(c) == IF c.compose THEN {"db"} ELSE {}

\* A declared volume at the binding's own path is refused.
with_mounts(c, n) ==
  IF n \in for_vm(c) THEN (IF c.volume = "binding" THEN NoDk ELSE {c.volume, "claim"}) ELSE {c.volume}

\* Mutant: the hash leaves out the mounts.
container_config_hashNoVolumes(c, vols) == [rev |-> c.rev, vols |-> {}]
\* Everything the container is created from.
container_config_hash(c, vols) == [rev |-> c.rev, vols |-> vols]

\* A consumer that is neither a declared container nor a Compose service is
\* an error before anything is touched.
ensure_vm_containers ==
  /\ DkAt("apply", "vm")
  /\ LET me == dk.p["apply"]
         c == me.cfg
         v == Min(me.todo)
         next == docker_session(dk, "apply", v, IF c.compose THEN "compose" ELSE "inspect")
     IN  dk' = IF ~c.compose /\ c.name = NoDk THEN [dk EXCEPT !.p["apply"].todo = @ \ {v}, !.p["apply"].pc = "vms"]
               ELSE IF for_vm(c) \subseteq ({c.name} \cup compose_services(c)) THEN next ELSE DkFail("apply")

\* `compose up` creates, recreates or starts the service's container on the
\* service's own network; the override adds the claims' mounts.
ensure_compose_file ==
  /\ DkAt("apply", "compose")
  /\ LET c == dk.p["apply"].cfg
         me == dk.p["apply"]
         t == docker_output
         new == [name |-> "db", owner |-> "compose", vm |-> Min(me.todo), hash |-> NoDk,
                 args |-> [rev |-> 0, vols |-> for_vm(c) \cap {"db"}], running |-> TRUE, bridge |-> FALSE]
         same == {o \in Named(t, "db") : o.args = new.args}
     IN  dk' = IF t = NoDk THEN DkFail("apply")
               ELSE DkGo(Put(dk, t, IF same # {} THEN [(CHOOSE o \in same : TRUE) EXCEPT !.running = TRUE] ELSE new), "apply", "inspect")

\* docker run: the labels name the VM and the hash. It may fail before the
\* container exists, or with a container that is created and not running.
build_run_args(c, v) ==
  LET vols == with_mounts(c, c.name)
  IN  [name |-> c.name, owner |-> "managed", vm |-> v, hash |-> container_config_hash(c, vols),
       args |-> [rev |-> c.rev, vols |-> vols], running |-> TRUE, bridge |-> TRUE]

create_container ==
  /\ DkAt("apply", "run")
  /\ LET t == docker_output
         new == build_run_args(dk.p["apply"].cfg, Min(dk.p["apply"].todo))
     IN  \/ t # NoDk /\ Named(t, new.name) = {} /\ dk' = DkGo(Put(dk, t, new), "apply", "dns")
         \/ t # NoDk /\ Named(t, new.name) = {} /\ dk' = Put(DkFail("apply"), t, [new EXCEPT !.running = FALSE])
         \/ dk' = DkFail("apply")

\* Absent: created. Not managed by vzctl: refused. Same hash: started when it
\* is stopped. Another hash: removed by force, then created.
inspect_container ==
  /\ DkAt("apply", "inspect")
  /\ LET c == dk.p["apply"].cfg
         t == docker_output
         vols == with_mounts(c, c.name)
     IN  dk' = CASE c.name = NoDk -> DkGo(dk, "apply", "dns")
                 [] c.name # NoDk /\ (vols = NoDk \/ t = NoDk) -> DkFail("apply")
                 [] OTHER -> IF Named(t, c.name) = {} THEN DkGo(dk, "apply", "run")
                             ELSE LET o == CHOOSE o \in Named(t, c.name) : TRUE
                                  IN  CASE o.owner # "managed" -> DkFail("apply")
                                        [] o.owner = "managed" /\ o.hash = container_config_hash(c, vols) ->
                                             DkGo(dk, "apply", IF o.running THEN "dns" ELSE "start")
                                        [] OTHER -> DkGo(dk, "apply", "rm")

\* By name: rm -f and start act on whatever has the name by then.
ensure_one_container ==
  LET t == docker_output
      n == dk.p["apply"].cfg.name
  IN  \/ /\ DkAt("apply", "start")
         /\ dk' = IF t = NoDk \/ Named(t, n) = {} THEN DkFail("apply")
                  ELSE DkGo(Put(dk, t, [(CHOOSE o \in Named(t, n) : TRUE) EXCEPT !.running = TRUE]), "apply", "dns")
      \/ /\ DkAt("apply", "rm")
         /\ dk' = IF t = NoDk THEN DkFail("apply") ELSE DkGo([dk EXCEPT !.host[t] = @ \ Named(t, n)], "apply", "run")

-----------------------------------------------------------------------------
(* Container names in DNS.                                                 *)

\* Labelled with the VM, or a container of one of its Compose projects.
owned_running_container(o, c, v) ==
  o.running /\ o.vm = v /\ (o.owner = "managed" \/ (o.owner = "compose" /\ c.compose))

\* "svc" and names that are no DNS label cannot be published.
validate_container_dns_names(seen, c, v) == \A o \in seen : owned_running_container(o, c, v) => o.name # "svc"

\* Owned containers without an address in the Docker network.
containers_missing_dns_bridge(seen, c, v) == {o \in seen : owned_running_container(o, c, v) /\ ~o.bridge}

container_dns_from_inspect(seen, c, v) == {[name |-> o.name, vm |-> v] : o \in {x \in seen : owned_running_container(x, c, v)}}

\* ps lists ids, inspect fails when one of them is gone by then.
dns_inspect ==
  /\ DkAt("apply", "ps")
  /\ LET me == dk.p["apply"]
         v == Min(me.todo)
         t == docker_output
         seen == {o \in dk.host[t] : o.running}
     IN  dk' = IF t = NoDk \/ ~validate_container_dns_names(seen, me.cfg, v) THEN DkFail("apply")
               ELSE [DkGo(dk, "apply", "bridge") EXCEPT !.p["apply"].seen = seen,
                       !.p["apply"].miss = {o.name : o \in containers_missing_dns_bridge(seen, me.cfg, v)}]

\* Each is connected to the bridge; a container that is gone is an error.
dns_connect ==
  /\ DkAt("apply", "bridge") /\ dk.p["apply"].miss # {}
  /\ LET t == docker_output
         n == CHOOSE n \in dk.p["apply"].miss : TRUE
     IN  dk' = IF t = NoDk \/ Named(t, n) = {} THEN DkFail("apply")
               ELSE [Put(dk, t, [(CHOOSE o \in Named(t, n) : TRUE) EXCEPT !.bridge = TRUE])
                      EXCEPT !.p["apply"].miss = @ \ {n}]

\* Inspected again after a connection; an owned container that still has no
\* address is an error. Then the next VM.
collect_vm_container_dns ==
  /\ DkAt("apply", "bridge") /\ dk.p["apply"].miss = {}
  /\ LET me == dk.p["apply"]
         v == Min(me.todo)
         t == docker_output
         again == containers_missing_dns_bridge(me.seen, me.cfg, v) # {}
         gone == again /\ (t = NoDk \/ ~({o.name : o \in me.seen} \subseteq {o.name : o \in dk.host[t]}))
         seen == IF again THEN {o \in dk.host[t] : o.name \in {x.name : x \in me.seen}} ELSE me.seen
     IN  dk' = IF gone \/ containers_missing_dns_bridge(seen, me.cfg, v) # {} THEN DkFail("apply")
               ELSE [DkGo(dk, "apply", "vms") EXCEPT !.p["apply"].todo = @ \ {v}, !.p["apply"].seen = {},
                       !.p["apply"].recs = @ \cup container_dns_from_inspect(seen, me.cfg, v)]

-----------------------------------------------------------------------------
(* apply, and the purge of `down --purge`.                                  *)

\* No VM is named: with two Docker VMs in the inventory this step fails.
ensure_docker_context ==
  /\ DkAt("apply", "idle")
  /\ LET s == [dk EXCEPT !.quiet = DkAt("user", "idle"), !.p["apply"] = [DkIdle EXCEPT !.cfg = dk.cfg]]
     IN  dk' = IF dk.cfg.vms = {} THEN DkGo(s, "apply", "vms") ELSE docker_session(s, "apply", NoDk, "steps")

\* VM by VM; the records replace all of the project's at the end.
ensure_containers ==
  \/ DkAt("apply", "steps") /\ dk' = [DkGo(dk, "apply", "vms") EXCEPT !.p["apply"].todo = dk.p["apply"].cfg.vms]
  \/ DkAt("apply", "vms") /\ dk.p["apply"].todo # {} /\ dk' = DkGo(dk, "apply", "vm")
  \/ DkAt("apply", "dns") /\ dk' = docker_session(dk, "apply", Min(dk.p["apply"].todo), "ps")
  \/ DkAt("apply", "vms") /\ dk.p["apply"].todo = {}
     /\ dk' = [DkExit(dk, "apply", "ok") EXCEPT !.dns = dk.p["apply"].recs, !.p["apply"].cfg = dk.p["apply"].cfg]

purge_docker_context ==
  /\ DkAt("apply", "idle") /\ dk.cfg.vms # {}
  /\ dk' = [dk EXCEPT !.ctx = FALSE, !.p["apply"] = DkIdle]

-----------------------------------------------------------------------------
(* vzctl docker and vzctl doctor.                                          *)

DockerOps == {"ps", "start", "stop", "restart", "run", "rm"}

\* Without --project the project of some managed attachment is taken.
infer_project == \E v \in DkVms : dk.inv[v] # "none"

docker_command ==
  /\ DkAt("user", "idle") /\ dk.calls < MaxDkCalls
  /\ \E op \in DockerOps :
       LET s == [dk EXCEPT !.calls = @ + 1, !.quiet = FALSE, !.p["user"] = [DkIdle EXCEPT !.op = op]]
       IN  dk' = IF infer_project THEN docker_session(s, "user", NoDk, "op") ELSE DkExit(s, "user", "fail")

\* A name the engine does not know, or one that is taken, is an error.
run_structured_op ==
  /\ DkAt("user", "op")
  /\ LET t == docker_output
         op == dk.p["user"].op
         ok == DkExit(dk, "user", "ok")
         own(n) == [name |-> n, owner |-> "user", vm |-> NoDk, hash |-> NoDk, args |-> [rev |-> 0, vols |-> {}],
                    running |-> TRUE, bridge |-> TRUE]
     IN  IF t = NoDk \/ op = "ps" THEN dk' = DkExit(dk, "user", IF t = NoDk THEN "fail" ELSE "ok")
         ELSE \E n \in {"web", "db"} :
                IF (op = "run") = (Named(t, n) # {}) THEN dk' = DkFail("user")
                ELSE CASE op = "run" -> dk' = Put(ok, t, own(n))
                       [] op = "rm" -> dk' = [ok EXCEPT !.host[t] = @ \ Named(t, n)]
                       [] OTHER -> dk' = Put(ok, t, [(CHOOSE o \in Named(t, n) : TRUE) EXCEPT !.running = (op # "stop")])

\* Every project that has a private key is pinged through its context.
doctor_check ==
  /\ DkAt("user", "idle") /\ dk.calls < MaxDkCalls
  /\ dk' = DkExit([dk EXCEPT !.calls = @ + 1], "user", IF dk.key = "none" \/ docker_output # NoDk THEN "ok" ELSE "fail")

-----------------------------------------------------------------------------

dk_edit ==
  /\ dk.edits < MaxDkEdits
  /\ \E c \in DkConfigs : dk' = [dk EXCEPT !.cfg = c, !.edits = @ + 1]

\* A VM is created, started, stopped or deleted with its containers; it gets
\* a second network, or its manifest cannot be read.
dk_power ==
  /\ dk.calls < MaxDkCalls
  /\ \E v \in DkVms, i \in {"none", "stopped", "running", "ambiguous", "broken"} :
       /\ i # dk.inv[v]
       /\ dk' = [dk EXCEPT !.inv[v] = i, !.calls = @ + 1, !.quiet = FALSE,
                   !.host[v] = IF i = "none" THEN {} ELSE {[o EXCEPT !.running = @ /\ i # "stopped"] : o \in dk.host[v]}]

dk_killed == \E q \in DkProcs : ~DkAt(q, "idle") /\ dk' = [dk EXCEPT !.p[q] = DkIdle]

DkNext ==
  \/ \E q \in DkProcs : management_address(q) \/ ensure_ssh_keypair(q) \/ write_ssh_config(q) \/ ensure_context(q)
  \/ ensure_docker_context \/ ensure_containers \/ purge_docker_context
  \/ ensure_vm_containers \/ ensure_compose_file \/ inspect_container \/ ensure_one_container \/ create_container
  \/ dns_inspect \/ dns_connect \/ collect_vm_container_dns
  \/ docker_command \/ run_structured_op \/ doctor_check
  \/ dk_edit \/ dk_power \/ dk_killed

DkSpec == DkInit /\ [][DkNext]_dk

-----------------------------------------------------------------------------
(* Correctness.                                                            *)

\* When the container step of apply succeeds and neither a docker command nor
\* a change of the VMs came in between, every declared container runs on its
\* own VM with the settings and mounts of the configuration, whatever earlier
\* runs, killed halfway, left there; and DNS names exactly the stack's
\* running containers.
ContainersAsDeclared ==
  LET me == dk.p["apply"]
      c == me.cfg
  IN  me.exit = "ok" /\ me.pc = "idle" /\ dk.quiet =>
        /\ c.name # NoDk =>
             \A v \in c.vms : \E o \in Named(v, c.name) :
               o.running /\ o.args = [rev |-> c.rev, vols |-> with_mounts(c, c.name)]
        /\ dk.dns = UNION {container_dns_from_inspect(dk.host[v], c, v) : v \in IF c.name = NoDk /\ ~c.compose THEN {} ELSE c.vms}
=============================================================================
