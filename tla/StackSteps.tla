----------------------------- MODULE StackSteps -----------------------------
(***************************************************************************)
(* What the steps of up, apply and down do to the host: networks and       *)
(* attachments, VM bundles and helpers, containers and the other services. *)
(* Reconciler.tla models the journal, the lease and the heartbeat around   *)
(* the steps; here one CLI runs at a time and the steps have their effect. *)
(*                                                                         *)
(* A step is an operator from the world to the set of its possible         *)
(* outcomes. Every RPC or child process of a step may fail, and the CLI    *)
(* may die between any two of them, so a step that makes several changes   *)
(* has a failing outcome after each.                                       *)
(***************************************************************************)
EXTENDS StackPlan, TLC

CONSTANTS
  Configs,     \* the environments the user may write, all validated
  Nets,        \* network names (naturals)
  Vms,         \* VM names (naturals)
  Cidrs,       \* address ranges; two ranges overlap iff they are equal
  MaxEdits,    \* bound: edits of the configuration
  MaxOps,      \* bound: up, apply and down invocations
  MaxForeign,  \* bound: steps of other owners and of the VMs themselves
  None,        \* no bundle, row, operation or journal
  Partial      \* a VM directory without vm.json: what a killed `vm create` leaves

VARIABLES
  cfg,      \* the configuration file now
  rec,      \* stack_resources in the supervisor's database
  world,    \* the host
  op,       \* the invocation under way
  journal,  \* the incomplete operation, if any
  count     \* how many edits, operations and foreign steps happened

stepVars == <<cfg, rec, world, op, journal, count>>

Ok(w)   == [ok |-> TRUE, w |-> w]
Fail(w) == [ok |-> FALSE, w |-> w]

\* A loop of a step: each item after the previous ones succeeded.
Loop(items, w, Body(_, _)) ==
  FoldLeft(LAMBDA outs, i : UNION {IF o.ok THEN Body(i, o.w) ELSE {o} : o \in outs},
           {Ok(w)}, items)

\* Two parts of one step.
Then(first, Second(_)) == UNION {IF o.ok THEN Second(o.w) ELSE {o} : o \in first}

IdleWorld ==
  [nets    |-> [n \in Nets |-> None],   \* network rows: CIDR and whether ours
   foreign |-> {},                      \* CIDRs of other projects' networks
   att     |-> {},                      \* attachments
   bundle  |-> [v \in Vms |-> None],    \* VM bundles on disk
   helper  |-> [v \in Vms |-> "stopped"],
   guest   |-> [v \in Vms |-> {}],      \* what was put into the guest, containers too
   svc     |-> {}]                      \* host services and guest state ensured
-----------------------------------------------------------------------------
(* Networks.                                                               *)

network_changed(row, cidr) == row.cidr # cidr

network_attachments(w, n) == {a \in w.att : a.net = n}

\* No network of the configuration touches another owner: rows of the same
\* name are ours, a row that must be recreated carries only our
\* attachments, and no other row overlaps.
validate_network_ownership(env, w) ==
  \A n \in DOMAIN env.nets :
    /\ w.nets[n] # None =>
         /\ w.nets[n].mine
         /\ network_changed(w.nets[n], env.nets[n]) =>
              \A a \in network_attachments(w, n) : a.mine
    /\ env.nets[n] \notin w.foreign
    /\ \A m \in Nets \ {n} : w.nets[m] # None => w.nets[m].cidr # env.nets[n]

\* net.create, net.detach, net.attach and net.delete as the registry answers
\* them: attachments change only while their VM is stopped, an address has
\* one owner, and a network with attachments cannot be deleted.
Stopped(v, w) == v \in Vms => w.helper[v] \notin {"starting", "running"}

NetCreate(n, cidr, w) == {Ok([w EXCEPT !.nets[n] = [cidr |-> cidr, mine |-> TRUE]]), Fail(w)}

NetDetach(a, w) ==
  IF a \notin w.att \/ ~Stopped(a.vm, w) THEN {Fail(w)}
  ELSE {Ok([w EXCEPT !.att = @ \ {a}]), Fail(w)}

NetAttach(a, w) ==
  IF \/ w.nets[a.net] = None \/ ~Stopped(a.vm, w)
     \/ \E b \in w.att : b.net = a.net /\ b.ip = a.ip /\ b.vm # a.vm
  THEN {Fail(w)}
  ELSE {Ok([w EXCEPT !.att = {b \in @ : b.vm # a.vm \/ b.net # a.net} \cup {a}]), Fail(w)}

NetDelete(n, w) ==
  IF network_attachments(w, n) # {} THEN {Fail(w)}
  ELSE {Ok([w EXCEPT !.nets[n] = None]), Fail(w)}

\* Create what is missing; with --force replace what changed, detaching the
\* attachments of the snapshot first.
ensure_networks(o, w) ==
  LET Recreate(n, x) ==
        Then(Then(Loop(SetToSeq(network_attachments(w, n)), x, NetDetach),
                  LAMBDA y : NetDelete(n, y)),
             LAMBDA y : NetCreate(n, o.env.nets[n], y))
      Ensure(n, x) ==
        IF w.nets[n] = None THEN NetCreate(n, o.env.nets[n], x)
        ELSE IF ~network_changed(w.nets[n], o.env.nets[n]) THEN {Ok(x)}
        ELSE IF ~o.force THEN {Fail(x)}
        ELSE Recreate(n, x)
  IN  IF ~validate_network_ownership(o.env, w) THEN {Fail(w)}
      ELSE Loop(InOrder(DOMAIN o.env.nets), w, Ensure)

Attachment(v, n, ip) == [vm |-> v, net |-> n, ip |-> ip, mine |-> TRUE]
DesiredAttachments(env) ==
  {Attachment(v, env.vms[v].net, env.vms[v].ip) : v \in DOMAIN env.vms}

\* Mutant: drifted attachments of VMs that left the configuration are kept.
ensure_attachmentsOnly(o, w) ==
  LET Attach(v, x) ==
        LET a == Attachment(v, o.env.vms[v].net, o.env.vms[v].ip)
        IN  IF a \in w.att THEN {Ok(x)} ELSE NetAttach(a, x)
  IN  Loop(InOrder(DOMAIN o.env.vms), w, Attach)

\* Detach our drifted attachments first, so that addresses can move, then
\* attach what the snapshot does not have.
ensure_attachments(o, w) ==
  LET wanted == DesiredAttachments(o.env)
      stale  == IF o.mode \in {"apply", "up"} THEN {a \in w.att : a.mine /\ a \notin wanted}
                ELSE {}
      Attach(v, x) ==
        LET a == Attachment(v, o.env.vms[v].net, o.env.vms[v].ip)
        IN  IF a \in w.att THEN {Ok(x)} ELSE NetAttach(a, x)
  IN  Then(Loop(SetToSeq(stale), w, NetDetach),
           LAMBDA x : Loop(InOrder(DOMAIN o.env.vms), x, Attach))

\* Only apply prunes, and only rows of this stack the plan deletes.
prune_networks(o, w) ==
  LET gone == IF o.mode # "apply" THEN {}
              ELSE {n \in Planned(o.plan, "delete", "network") :
                      w.nets[n] # None /\ w.nets[n].mine}
  IN  Loop(InOrder(gone), w, NetDelete)

\* Mutant: the owner of an attachment is not looked at.
detach_networksAll(w) == Loop(SetToSeq(w.att), w, NetDetach)

detach_networks(w) == Loop(SetToSeq({a \in w.att : a.mine}), w, NetDetach)

\* dns install-resolver or uninstall-resolver, then resilience.ensure.
ensure_dns(o, w) ==
  LET resolved == [w EXCEPT !.svc = IF "dns" \in o.env.features THEN @ \cup {"resolver"}
                                    ELSE @ \ {"resolver"}]
  IN  {Fail(w), Fail(resolved), Ok([resolved EXCEPT !.svc = @ \cup {"resilience"}])}

\* Every forward needs the address of its VM's attachment.
ensure_ports(o, w) ==
  IF "ports" \notin o.env.features THEN {Ok([w EXCEPT !.svc = @ \ {"ports"}]), Fail(w)}
  ELSE IF \A v \in DOMAIN o.env.vms : \E a \in w.att : a.vm = v /\ a.mine
       THEN {Ok([w EXCEPT !.svc = @ \cup {"ports"}]), Fail(w)} ELSE {Fail(w)}
-----------------------------------------------------------------------------
(* VMs.                                                                    *)

\* What a recreate compares before it wipes: root size, roles, addresses.
bundle_matches_vm(bundle, vm) ==
  bundle \notin {None, Partial} /\ bundle.disk = vm.disk /\ bundle.ip = vm.ip

\* vm.stop and the wait for it: SIGTERM may not be obeyed in time.
stop_one(v, w) == {Fail(w), Ok([w EXCEPT !.helper[v] = "stopped"])}

\* A bundle without a manifest is left alone.
remove_managed_vm(v, w) ==
  IF w.bundle[v] \in {None, Partial} THEN {Ok(w)}
  ELSE {Ok([w EXCEPT !.bundle[v] = None, !.guest[v] = {}]), Fail(w)}

StopAndRemove(v, w) == Then(stop_one(v, w), LAMBDA x : remove_managed_vm(v, x))

\* vm create: refused when the directory exists; on an error it removes the
\* directory again, on a crash it cannot. The address comes from the
\* attachment made before.
create_vm_bundle(v, vm, w) ==
  IF w.bundle[v] # None THEN {Fail(w)}
  ELSE {Ok([w EXCEPT !.bundle[v] = vm]), Fail(w), Fail([w EXCEPT !.bundle[v] = Partial])}

\* Planned deletions first, then creation and recreation in dependency order.
ensure_vms(o, w) ==
  LET Update(v) == \E a \in o.plan : a.key = <<"vm", v>> /\ a.action = "update" /\ a.breaking
      Create(v, x) ==
        IF x.bundle[v] \notin {None, Partial} THEN {Ok(x)}
        ELSE create_vm_bundle(v, o.env.vms[v], x)
      Ensure(v, x) ==
        IF ~Update(v) THEN Create(v, x)
        ELSE IF ~o.force THEN {Fail(x)}
        ELSE IF bundle_matches_vm(x.bundle[v], o.env.vms[v]) THEN {Ok(x)}
        ELSE Then(StopAndRemove(v, x), LAMBDA y : Create(v, y))
  IN  Then(Loop(InOrder(Planned(o.plan, "delete", "vm")), w, StopAndRemove),
           LAMBDA x : Loop(dependency_order(o.env.vms), x, Ensure))

\* vm.start answers at once for a live helper and spawns one otherwise; the
\* helper exits at once without a manifest.
start_helpers(o, w) ==
  LET Start(v, x) ==
        IF x.helper[v] \in {"starting", "running"} THEN {Ok(x)}
        ELSE IF x.bundle[v] \in {None, Partial} THEN {Fail(x)}
        ELSE {Ok([x EXCEPT !.helper[v] = "starting"]), Fail(x),
              Fail([x EXCEPT !.helper[v] = "failed"])}
  IN  Loop(dependency_order(o.env.vms), w, Start)

failed_helper_diagnostics(env, w) == {v \in DOMAIN env.vms : w.helper[v] = "failed"}

\* The poll ends when a helper failed, when all agents answer, or in time.
await_helpers(o, w) ==
  IF failed_helper_diagnostics(o.env, w) # {} THEN {Fail(w)}
  ELSE IF \A v \in DOMAIN o.env.vms : w.helper[v] = "running" THEN {Ok(w), Fail(w)}
  ELSE {Fail(w)}

\* With --purge the kill is asked for and its answer is not looked at, so the
\* helper may run on; the CLI may die before it.
KillHelper(v, w) == {Fail(w), Ok(w), Ok([w EXCEPT !.helper[v] = "stopped"])}

\* Mutant: helpers are stopped in the order of their start.
stop_helpersForward(o, w) ==
  LET Stop(v, x) == IF o.purge THEN KillHelper(v, x) ELSE stop_one(v, x)
  IN  Loop(dependency_order(o.env.vms), w, Stop)

\* down stops in reverse order and waits for each; with --purge it kills and
\* does not wait.
stop_helpers(o, w) ==
  LET Stop(v, x) == IF o.purge THEN KillHelper(v, x) ELSE stop_one(v, x)
  IN  Loop(Reverse(dependency_order(o.env.vms)), w, Stop)

\* vm.purge, or what the fallback of vm delete gets done: the helper is
\* killed or, with every call failing, runs on; attachments of a helper that
\* runs cannot be detached, the others may stay.
PurgeRuntime(v, w) ==
  LET own  == {a \in w.att : a.vm = v}
      dead == [w EXCEPT !.helper[v] = "stopped"]
  IN  {w} \cup {[x EXCEPT !.att = @ \ gone] :
                  x \in {dead} \cup (IF Stopped(v, w) THEN {w} ELSE {}), gone \in SUBSET own}

\* vm delete --force: whatever became of the helper and the attachments, the
\* bundle is wiped; only that may still fail.
VmDeleteForce(v, w) ==
  UNION {{Ok([x EXCEPT !.bundle[v] = None, !.guest[v] = {}]), Fail(x)} : x \in PurgeRuntime(v, w)}

\* Mutant: a failed deletion ends the VM's part as if it had succeeded.
purge_managedIgnoringErrors(o, w) ==
  LET ours == {n \in Nets : w.nets[n] # None /\ w.nets[n].mine}
  IN  Then(Loop(InOrder(DOMAIN o.env.vms), w, LAMBDA v, x : {Ok(r.w) : r \in VmDeleteForce(v, x)}),
           LAMBDA x : Loop(InOrder(ours), x, NetDelete))

\* The VMs of the configuration, then every network of the stack; a failed
\* deletion is fine when no manifest is left.
purge_managed(o, w) ==
  LET Purge(v, x) == {IF o2.ok \/ o2.w.bundle[v] \in {None, Partial} THEN Ok(o2.w) ELSE o2
                        : o2 \in VmDeleteForce(v, x)}
      ours == {n \in Nets : w.nets[n] # None /\ w.nets[n].mine}
  IN  Then(Loop(InOrder(DOMAIN o.env.vms), w, Purge), LAMBDA x : Loop(InOrder(ours), x, NetDelete))
-----------------------------------------------------------------------------
(* The guests.                                                             *)

\* cloud-init status: error and degraded exit codes and messages go before
\* the status text, and anything unknown counts as still running.
parse_cloud_init(exit, status, errors) ==
  IF exit = 2 \/ status = "degraded" \/ errors THEN "failed"
  ELSE IF exit = 1 \/ status = "error" THEN "failed"
  ELSE IF status = "disabled" THEN "failed"
  ELSE IF status = "done" THEN "done" ELSE "running"

\* One answer of the guest: no cloud-init, a status, or a failed vm.exec.
query_cloud_init ==
  {"failed", "error"} \cup
  {parse_cloud_init(e, s, b) : e \in 0 .. 2, b \in BOOLEAN,
     s \in {"running", "done", "error", "degraded", "disabled"}}

\* The monitor thread of one VM polls until a final answer or its deadline;
\* failed queries do not end it. The last poll decides.
monitor_cloud_init == {IF q \in {"done", "failed"} THEN q ELSE "failed" : q \in query_cloud_init}

\* One monitor per created or replaced VM; all are awaited, one failure is
\* enough.
await_cloud_init(o, w) ==
  LET targets == Planned(o.plan, "create", "vm") \cup Planned(o.plan, "update", "vm")
  IN  {IF \A v \in targets : f[v] = "done" THEN Ok(w) ELSE Fail(w)
         : f \in [targets -> monitor_cloud_init]}

\* Put item x into the guests vs, one RPC each: the code goes on after a
\* failure and reports them all at the end.
EachGuest(vs, x, w) ==
  {[ok |-> done = vs, w |-> [w EXCEPT !.guest = [v \in Vms |->
       IF v \in done THEN @[v] \cup {x} ELSE @[v]]]] : done \in SUBSET vs}

ensure_guest_utils(o, w) == EachGuest(DOMAIN o.env.vms, "agent", w)

\* The project directory is mounted into every docker VM that has a bundle,
\* and the first failure ends the step.
ensure_docker_project_mount(o, w) ==
  LET Mount(v, x) == IF x.bundle[v] \in {None, Partial} THEN {Ok(x)}
                     ELSE {Ok([x EXCEPT !.guest[v] = @ \cup {"project"}]), Fail(x)}
  IN  Loop(InOrder({v \in DOMAIN o.env.vms : o.env.vms[v].ctrs # {}}), w, Mount)

CertsEnabled(env) == env.features \cap {"certs", "ingress", "oidc"} # {}

\* ca_inject, and for an old agent the install script through vm.exec.
ensure_ca_rollout(o, w) ==
  IF ~CertsEnabled(o.env) THEN {Ok(w)}
  ELSE IF "ca" \notin w.svc THEN {Fail(w)}
  ELSE EachGuest(DOMAIN o.env.vms, "trust", w)

\* The result of writing the client's environment file is not looked at.
ensure_oidc_inject(o, w) ==
  IF "oidc" \notin o.env.features THEN {Ok(w)}
  ELSE {Ok(x.w) : x \in EachGuest(DOMAIN o.env.vms, "oidc.env", w)}
-----------------------------------------------------------------------------
(* Host services and controllers.                                          *)

Ensure(name, w) == {Ok([w EXCEPT !.svc = @ \cup {name}]), Fail(w)}
Drop(name, w)   == {Ok([w EXCEPT !.svc = @ \ {name}]), Fail(w)}

\* Its errors are ignored, so that a down goes on.
BestEffort(outs) == {Ok(x.w) : x \in outs}

ensure_images(w) == IF "images" \in w.svc THEN {Ok(w)} ELSE Ensure("images", w)

step_ca(o, w) == IF CertsEnabled(o.env) THEN Ensure("ca", w) ELSE {Ok(w)}

\* Clients for the VMs and routes that require OIDC, then oidc.ensure with
\* the rendered configuration of the simple or the embedded provider.
ensure_oidc(o, w) ==
  IF "oidc" \notin o.env.features THEN {Ok(w)}
  ELSE Then(Ensure("oidc-clients", w), LAMBDA x : Ensure("oidc", x))

\* A leaf per route from the CA, the routes' upstreams from the
\* attachments, then ingress.ensure with retries. With service claims or
\* clusters the controllers own the ingress and the step does nothing.
ensure_ingress(o, w) ==
  IF "ingress" \notin o.env.features \/ o.env.features \cap RetainedKinds # {} THEN {Ok(w)}
  ELSE IF "ca" \notin w.svc THEN {Fail(w)}
  ELSE Ensure("ingress", w)

step_docker_context(o, w) ==
  IF \A v \in DOMAIN o.env.vms : o.env.vms[v].ctrs = {} THEN {Ok(w)} ELSE Ensure("context", w)

\* Per docker VM its containers, which needs the row of its network for the
\* DNS listener; then all DNS records at once. Nothing is pruned.
step_containers(o, w) ==
  LET docker == {v \in DOMAIN o.env.vms : o.env.vms[v].ctrs # {}}
      Run(v, x) ==
        LET up == [x EXCEPT !.guest[v] = @ \cup o.env.vms[v].ctrs]
        IN  {Fail(x), IF w.nets[o.env.vms[v].net] # None THEN Ok(up) ELSE Fail(up)}
  IN  Then(Loop(InOrder(docker), w, Run), LAMBDA x : Ensure("dns-records", x))

\* Register the project with the controllers, run them once, and require
\* every declared claim to be Ready or Retained.
check_claim_readiness(states) == \A s \in states : s \in {"Ready", "Retained"}

ensure_service_claims(o, w) ==
  IF o.env.features \cap RetainedKinds = {} THEN {Ok(w)}
  ELSE Then(Ensure("controllers", w),
            LAMBDA x : {IF check_claim_readiness(s) THEN Ok(x) ELSE Fail(x)
                          : s \in SUBSET {"Ready", "Retained", "Pending", "Failed"}})

ensure_kubernetes(o, w) ==
  IF "kubernetes" \notin o.env.features THEN {Ok(w)} ELSE Ensure("kubernetes", w)

\* route.apply is retried while the agents are not ready.
apply_routes(o, w) == IF "routes" \notin o.env.features THEN {Ok(w)} ELSE Ensure("routes", w)
-----------------------------------------------------------------------------
(* The invocation.                                                         *)

\* The steps that change the host, in the code's order; validate,
\* acquire_lease and release_lease only appear in the journal.
APPLY_STEPS ==
  <<"ensure_nets", "ensure_dns", "step_ca", "ensure_images", "attach_nets", "ensure_vms",
    "start_helpers", "await_agents", "await_cloud_init", "ensure_guest_utils",
    "ensure_docker_project_mount", "ensure_oidc", "ensure_ingress", "ensure_ca_rollout",
    "ensure_oidc_inject", "step_docker_context", "apply_routes_policies",
    "ensure_kubernetes", "ensure_service_claims", "step_containers", "ensure_ports">>
DOWN_STEPS ==
  <<"disable_service_controllers", "purge_ingress", "purge_dns_records", "purge_oidc",
    "stop_helpers", "detach_nets", "destroy_managed", "purge_docker_context",
    "purge_ports", "dns_cleanup">>

StepsOf(mode) == IF mode = "down" THEN DOWN_STEPS ELSE APPLY_STEPS

execute_step(step, o, w) ==
  CASE step = "ensure_nets"                 -> ensure_networks(o, w)
    [] step = "ensure_dns"                  -> ensure_dns(o, w)
    [] step = "step_ca"                   -> step_ca(o, w)
    [] step = "ensure_images"               -> ensure_images(w)
    [] step = "attach_nets"                 -> Then(ensure_attachments(o, w),
                                                    LAMBDA x : prune_networks(o, x))
    [] step = "ensure_vms"                  -> ensure_vms(o, w)
    [] step = "start_helpers"               -> start_helpers(o, w)
    [] step = "await_agents" /\ o.resume    -> Then(start_helpers(o, w),
                                                    LAMBDA x : await_helpers(o, x))
    [] step = "await_agents" /\ ~o.resume   -> await_helpers(o, w)
    [] step = "await_cloud_init"            -> await_cloud_init(o, w)
    [] step = "ensure_guest_utils"          -> ensure_guest_utils(o, w)
    [] step = "ensure_docker_project_mount" -> ensure_docker_project_mount(o, w)
    [] step = "ensure_oidc"                 -> ensure_oidc(o, w)
    [] step = "ensure_ingress"              -> ensure_ingress(o, w)
    [] step = "ensure_ca_rollout"           -> ensure_ca_rollout(o, w)
    [] step = "ensure_oidc_inject"          -> ensure_oidc_inject(o, w)
    [] step = "step_docker_context"       -> step_docker_context(o, w)
    [] step = "apply_routes_policies"       -> apply_routes(o, w)
    [] step = "ensure_kubernetes"           -> ensure_kubernetes(o, w)
    [] step = "ensure_service_claims"       -> ensure_service_claims(o, w)
    [] step = "step_containers"           -> step_containers(o, w)
    [] step = "ensure_ports"                -> ensure_ports(o, w)
    [] step = "disable_service_controllers" -> Drop("controllers", w)
    [] step = "purge_ingress"               -> BestEffort(Drop("ingress", w))
    [] step = "purge_dns_records"           -> BestEffort(Then(Drop("dns-records", w),
                                                    LAMBDA x : Drop("resilience", x)))
    [] step = "purge_oidc"                  -> BestEffort(Drop("oidc", w))
    [] step = "stop_helpers"                -> stop_helpers(o, w)
    [] ~o.purge                             -> {Ok(w)}
    [] step = "detach_nets"                 -> detach_networks(w)
    [] step = "destroy_managed"             -> purge_managed(o, w)
    [] step = "purge_docker_context"        -> BestEffort(Drop("context", w))
    [] step = "purge_ports"                 -> Drop("ports", w)
    [] step = "dns_cleanup"                 -> IF "dns" \in o.env.features THEN Drop("resolver", w)
                                               ELSE {Ok(w)}

\* The command: refused over an incomplete journal or a foreign network.
\* Breaking plans need --force or a yes at the prompt; force stays what the
\* command line said.
Begin(mode, force, purge, yes) ==
  /\ op = None /\ journal = None /\ count.ops < MaxOps
  /\ purge => mode = "down"
  /\ force => mode # "down"
  /\ mode # "down" => validate_network_ownership(cfg, world)
  /\ LET plan == build_plan(mode, Desired(cfg), rec)
     IN  /\ IsBreaking(plan) => force \/ yes
         /\ op' = [mode |-> mode, force |-> force, purge |-> purge, resume |-> FALSE,
                   env |-> cfg, plan |-> plan, at |-> 1]
  /\ journal' = [mode |-> mode, purge |-> purge, env |-> cfg, at |-> 1]
  /\ count' = [count EXCEPT !.ops = @ + 1]
  /\ UNCHANGED <<cfg, rec, world>>

\* apply --resume: the same desired state, from the journal's step, with a
\* plan built again from the recorded resources.
Resume(force) ==
  /\ op = None /\ journal # None /\ journal.env = cfg
  /\ journal.mode # "down" => validate_network_ownership(cfg, world)
  /\ LET plan == build_plan(journal.mode, Desired(cfg), rec)
     IN  /\ IsBreaking(plan) => force
         /\ op' = [mode |-> journal.mode, force |-> force, purge |-> journal.purge,
                   resume |-> TRUE, env |-> cfg, plan |-> plan, at |-> journal.at]
  /\ UNCHANGED <<cfg, rec, world, journal, count>>

\* apply --abort frees the stack and touches nothing else.
Abort ==
  /\ op = None /\ journal # None
  /\ journal' = None
  /\ UNCHANGED <<cfg, rec, world, op, count>>

\* One step with its checkpoints; a failure, and likewise a crash, leaves
\* the journal at the step.
Step ==
  /\ op # None /\ op.at <= Len(StepsOf(op.mode))
  /\ journal' = [journal EXCEPT !.at = op.at]
  /\ \E r \in execute_step(StepsOf(op.mode)[op.at], op, world) :
       /\ world' = r.w
       /\ op' = IF r.ok THEN [op EXCEPT !.at = @ + 1] ELSE None
  /\ UNCHANGED <<cfg, rec, count>>

\* What stack.finish records.
final_resources(o) ==
  IF o.mode # "down" THEN Desired(o.env)
  ELSE IF o.purge THEN <<>>
  ELSE [k \in DOMAIN Desired(o.env) |->
          IF k[1] = "vm" THEN Resource(Desired(o.env)[k].spec, "stopped") ELSE Desired(o.env)[k]]

\* After the last step: an edit in the meantime leaves the journal
\* incomplete, otherwise the resources are recorded and the journal closed.
Finish ==
  /\ op # None /\ op.at > Len(StepsOf(op.mode))
  /\ op' = None
  /\ IF cfg = op.env THEN rec' = final_resources(op) /\ journal' = None
     ELSE UNCHANGED <<rec, journal>>
  /\ UNCHANGED <<cfg, world, count>>
-----------------------------------------------------------------------------
(* Everybody else.                                                         *)

Edit ==
  /\ count.edits < MaxEdits
  /\ cfg' \in Configs \ {cfg}
  /\ count' = [count EXCEPT !.edits = @ + 1]
  /\ UNCHANGED <<rec, world, op, journal>>

\* A helper reports running, exits with an error, or its VM shuts down.
HelperChange(v) ==
  /\ \/ world.helper[v] = "starting" /\ world' = [world EXCEPT !.helper[v] = "running"]
     \/ world.helper[v] = "running" /\ count.foreign < MaxForeign
        /\ \E s \in {"failed", "stopped"} : world' = [world EXCEPT !.helper[v] = s]
  /\ count' = [count EXCEPT !.foreign = @ + IF world.helper[v] = "running" THEN 1 ELSE 0]
  /\ UNCHANGED <<cfg, rec, op, journal>>

\* Another project reserves a free range, or another stack of this project
\* attaches a VM of its own to one of our networks.
Foreign ==
  /\ count.foreign < MaxForeign
  /\ \/ \E c \in Cidrs \ world.foreign :
          /\ \A n \in Nets : world.nets[n] # None => world.nets[n].cidr # c
          /\ world' = [world EXCEPT !.foreign = @ \cup {c}]
     \/ \E n \in Nets :
          /\ world.nets[n] # None
          /\ world' = [world EXCEPT !.att = @ \cup {[vm |-> None, net |-> n, ip |-> 0, mine |-> FALSE]}]
  /\ count' = [count EXCEPT !.foreign = @ + 1]
  /\ UNCHANGED <<cfg, rec, op, journal>>

StepsInit ==
  /\ cfg \in Configs /\ rec = <<>> /\ world = IdleWorld
  /\ op = None /\ journal = None
  /\ count = [edits |-> 0, ops |-> 0, foreign |-> 0]

StepsNext ==
  \/ \E m \in {"up", "apply", "down"}, f, p, y \in BOOLEAN : Begin(m, f, p, y)
  \/ \E f \in BOOLEAN : Resume(f)
  \/ Abort
  \/ Step
  \/ Finish
  \/ Edit
  \/ \E v \in Vms : HelperChange(v)
  \/ Foreign

StepsSpec == StepsInit /\ [][StepsNext]_stepVars
-----------------------------------------------------------------------------
(* Properties.                                                             *)

HasBundle(v) == world.bundle[v] \notin {None, Partial}
ForeignOn(n) == {a \in network_attachments(world, n) : ~a.mine}

\* Whatever step of whatever command runs, forced, resumed or purging, the
\* attachments of other stacks stay and a network that carries one is
\* neither deleted nor recreated (validate_network_ownership, prune_networks
\* and purge_managed filter by owner on snapshots that others may outdate).
ForeignUntouched ==
  \A n \in Nets : ForeignOn(n) # {} =>
    /\ ForeignOn(n) \subseteq world'.att
    /\ world'.nets[n] = world.nets[n]

AtEnd == op # None /\ op.at > Len(StepsOf(op.mode)) /\ cfg = op.env

\* When up or apply is about to record its resources, through whatever
\* failures, crashes and resumes it got there, the host has them: networks
\* with the declared range, the declared attachments and, for apply, no
\* other one of ours, a bundle per VM that reflects its recreate, the CA in
\* the guests, the containers, and nothing left of what the plan deleted.
CommitConverges ==
  AtEnd /\ op.mode # "down" =>
    LET env == op.env IN
    /\ \A n \in DOMAIN env.nets : world.nets[n] = [cidr |-> env.nets[n], mine |-> TRUE]
    /\ {a \in world.att : a.mine} = DesiredAttachments(env)
    /\ \A v \in DOMAIN env.vms :
         /\ HasBundle(v)
         /\ v \in Planned(op.plan, "update", "vm") /\ op.force =>
              bundle_matches_vm(world.bundle[v], env.vms[v])
         /\ env.vms[v].ctrs \subseteq world.guest[v]
         /\ CertsEnabled(env) => "trust" \in world.guest[v]
    /\ \A v \in Planned(op.plan, "delete", "vm") : ~HasBundle(v)
    /\ \A n \in Planned(op.plan, "delete", "network") : world.nets[n] = None

\* A down --purge that is about to clear the records has left none of the
\* configuration's VMs, no network and no attachment of this stack: though
\* the errors of its kills are ignored, the attachment of a helper that runs
\* on stays and makes the deletion of its network fail.
PurgeLeavesNothing ==
  AtEnd /\ op.mode = "down" /\ op.purge =>
    /\ \A v \in DOMAIN op.env.vms : ~HasBundle(v) /\ Stopped(v, world)
    /\ \A n \in Nets : world.nets[n] # None => ~world.nets[n].mine
    /\ \A a \in world.att : ~a.mine

\* A VM is started only when what it depends on is up or starting, and a
\* down without --purge stops it only when what depends on it is not running,
\* also in a step that fails half way and in the down that follows it
\* (dependency_order, start_helpers, stop_helpers). With --purge the order
\* is only that of the calls: a helper that outlives its call runs on.
DependencyRespected ==
  [][ op # None =>
        \A v \in DOMAIN op.env.vms :
          /\ Stopped(v, world) /\ ~Stopped(v, world') =>
               \A d \in op.env.vms[v].deps : ~Stopped(d, world')
          /\ op.mode = "down" /\ ~op.purge /\ count' = count
             /\ ~Stopped(v, world) /\ Stopped(v, world') =>
               \A u \in DOMAIN op.env.vms : v \in op.env.vms[u].deps => Stopped(u, world')
    ]_stepVars

\* up replaces and deletes no VM, whatever changed in the configuration.
UpDestroysNothing ==
  op # None /\ op.mode = "up" =>
    \A v \in Vms : HasBundle(v) => world'.bundle[v] = world.bundle[v]

\* Every step of an apply --force can succeed as long as nobody else is on
\* our networks and no `vm create` was killed: the step that is next has an
\* outcome other than failure, waiting for agents apart. The documentation
\* promises that drift, recreates and deletes are corrected by --force.
ForceSuffices ==
  op # None /\ op.mode = "apply" /\ op.force /\ op.at <= Len(APPLY_STEPS)
    /\ APPLY_STEPS[op.at] # "await_agents"
    /\ (\A n \in Nets : ForeignOn(n) = {}) /\ world.foreign = {}
    /\ (\A v \in Vms : world.bundle[v] # Partial)
  => \E r \in execute_step(APPLY_STEPS[op.at], op, world) : r.ok

\* A stack destroys only what is its own and what its command may destroy.
DestroysOnlyOwn == [][ForeignUntouched /\ UpDestroysNothing]_stepVars
=============================================================================
