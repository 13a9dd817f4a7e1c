---------------------------- MODULE MCStackSteps ----------------------------
(* Small configurations for TLC. VM 1 depends on VM 2, so that name order  *)
(* and dependency order differ.                                            *)
EXTENDS StackSteps

MCVm(disk, tuning, ip, deps, ctrs) ==
  [disk |-> disk, tuning |-> tuning, net |-> 1, ip |-> ip, deps |-> deps, ctrs |-> ctrs,
   binds |-> <<>>, compose |-> FALSE]

MCEnv(vms, nets, features) == [vms |-> vms, nets |-> nets, features |-> features, inputs |-> 1]

MCBase  == MCEnv(1 :> MCVm(1, 1, 1, {2}, {}) @@ 2 :> MCVm(1, 1, 2, {}, {}), 1 :> 1, {})
MCSwap  == MCEnv(1 :> MCVm(1, 1, 2, {2}, {}) @@ 2 :> MCVm(2, 1, 1, {}, {}), 1 :> 1, {"certs"})
MCOne   == MCEnv(1 :> MCVm(1, 1, 1, {}, {"c"}), 1 :> 2, {"certs", "ingress"})
MCRing  == MCEnv(2 :> MCVm(1, 2, 2, {}, {}), 1 :> 1 @@ 2 :> 2, {})

MCConfigs == {MCBase, MCSwap, MCOne, MCRing}
=============================================================================
