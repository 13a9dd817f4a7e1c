------------------------------ MODULE StackPlan ------------------------------
(***************************************************************************)
(* The pure part of the stack reconciler: the resources a configuration    *)
(* asks for, the plan that compares them with the recorded ones, and the   *)
(* order in which VMs are created and started.                             *)
(*                                                                         *)
(* An environment (the parsed hypernetwork.config.yaml) is a record        *)
(*   vms      partial function VM |-> VM spec                              *)
(*   nets     partial function network |-> CIDR                            *)
(*   features the optional sections that are present                       *)
(*   inputs   the content version of the referenced files                  *)
(* and a VM spec is                                                        *)
(*   disk     root disk and roles: what a recreate may be skipped on       *)
(*   tuning   CPUs, memory, cloud-init file, mounts                        *)
(*   net, ip  its network and its address there                            *)
(*   deps     dependsOn                                                    *)
(*   ctrs     its declared containers                                      *)
(*   binds    partial function container |-> the claims bound into it      *)
(*   compose  whether it also runs Compose files                           *)
(* VMs and networks are naturals: the code walks them in name order.       *)
(***************************************************************************)
EXTENDS Integers, Sequences, FiniteSets, SequencesExt, FiniteSetsExt

\* BTreeMap order.
InOrder(S) == SetToSortSeq(S, LAMBDA a, b : a < b)

Resource(spec, state) == [spec |-> spec, state |-> state]

\* Kinds whose declaration may vanish without the thing being deleted.
RetainedKinds == {"kubernetes", "service_claim", "service_provider"}

\* desired_resources with append_input_resources: a function from
\* <<kind, name>> to the spec and the state the resource should have.
desired_resources(env) ==
  LET vm  == [k \in {<<"vm", v>> : v \in DOMAIN env.vms} |->
                Resource(env.vms[k[2]], "running")]
      net == [k \in {<<"network", n>> : n \in DOMAIN env.nets} |->
                Resource(env.nets[k[2]], "active")]
      opt == [k \in {<<f, 0>> : f \in env.features} |-> Resource(k[1], "active")]
      bnd == [k \in UNION {{<<"container_binding", v, c>> : c \in DOMAIN env.vms[v].binds}
                              : v \in DOMAIN env.vms} |->
                Resource(env.vms[k[2]].binds[k[3]], "mounted")]
  IN  vm @@ net @@ opt @@ bnd

\* The fingerprints of the files the apply reads: cloud-init, Compose and
\* its includes, provider credentials, Kubernetes manifests, OIDC files.
append_input_resources(env, resources) ==
  resources @@ (<<"input", 0>> :> Resource(env.inputs, "active"))

Desired(env) == append_input_resources(env, desired_resources(env))

\* Every old container is kept as it is, at least one is new, and nothing
\* else of the VM changed.
only_new_containers_added(current, wanted) ==
  /\ current.ctrs \subseteq wanted.ctrs /\ current.ctrs # wanted.ctrs
  /\ [current EXCEPT !.ctrs = {}] = [wanted EXCEPT !.ctrs = {}]

\* A binding that is new in the plan may still belong to a container that
\* exists: the recorded VM declares it, or its Compose files may.
binding_consumer_may_exist(key, actual) ==
  LET vm == <<"vm", key[2]>>
  IN  /\ vm \in DOMAIN actual
      /\ key[3] \in actual[vm].spec.ctrs \/ actual[vm].spec.compose

PlanAction(action, key, breaking) == [action |-> action, key |-> key, breaking |-> breaking]

CreateActions(desired, actual) ==
  {LET again == k[1] = "container_binding" /\ binding_consumer_may_exist(k, actual)
   IN  PlanAction(IF again THEN "recreate" ELSE "create", k, again)
     : k \in DOMAIN desired \ DOMAIN actual}

UpdateActions(mode, desired, actual) ==
  LET common  == DOMAIN desired \cap DOMAIN actual
      changed == {k \in common : actual[k].spec # desired[k].spec /\ mode # "up"}
      stopped == {k \in common \ changed : k[1] = "vm" /\ actual[k].state = "stopped"
                                             /\ mode # "down"}
      Additive(k) == k[1] = "vm" /\ only_new_containers_added(actual[k].spec, desired[k].spec)
  IN  {PlanAction(IF k[1] = "container_binding" THEN "recreate" ELSE "update", k,
                  \/ k[1] \in {"network", "container_binding"}
                  \/ k[1] = "vm" /\ ~Additive(k)) : k \in changed}
      \cup {PlanAction("start", k, FALSE) : k \in stopped}

\* What is recorded and no longer declared; up and down never look at it.
DeleteActions(mode, desired, actual) ==
  {PlanAction(IF k[1] \in RetainedKinds THEN "retain"
              ELSE IF k[1] = "container_binding" THEN "recreate" ELSE "delete",
              k, k[1] \notin RetainedKinds)
     : k \in IF mode \in {"up", "down"} THEN {} ELSE DOMAIN actual \ DOMAIN desired}

StopActions(mode, desired) ==
  {PlanAction("stop", k, FALSE) : k \in {d \in DOMAIN desired : mode = "down" /\ d[1] = "vm"}}

build_plan(mode, desired, actual) ==
  CreateActions(desired, actual) \cup UpdateActions(mode, desired, actual)
    \cup DeleteActions(mode, desired, actual) \cup StopActions(mode, desired)

IsBreaking(plan) == \E a \in plan : a.breaking

Planned(plan, action, kind) == {a.key[2] : a \in {x \in plan : x.action = action /\ x.key[1] = kind}}

-----------------------------------------------------------------------------
\* The depth-first search of dependency_order. st carries the names on the
\* current path, the finished names, the result and whether a cycle was met.
RECURSIVE visit(_, _, _)
visit(st, vms, name) ==
  IF st.cycle \/ name \in st.visited THEN st
  ELSE IF name \in st.visiting THEN [st EXCEPT !.cycle = TRUE]
  ELSE LET after == FoldLeft(LAMBDA s, d : visit(s, vms, d),
                             [st EXCEPT !.visiting = @ \cup {name}],
                             InOrder(vms[name].deps))
       IN  IF after.cycle THEN after
           ELSE [after EXCEPT !.visiting = @ \ {name},
                              !.visited = @ \cup {name},
                              !.result = Append(@, name)]

NoOrder == <<"cycle">>

dependency_order(vms) ==
  LET done == FoldLeft(LAMBDA s, n : visit(s, vms, n),
                       [visiting |-> {}, visited |-> {}, result |-> <<>>, cycle |-> FALSE],
                       InOrder(DOMAIN vms))
  IN  IF done.cycle THEN NoOrder ELSE done.result

=============================================================================
