---------------------------- MODULE HostServices ----------------------------
(***************************************************************************)
(* vzctl services: start, stop and restart of the launchd agents vz-net,   *)
(* vz-edge and vz-supervisor. launchd keeps a loaded agent running and      *)
(* unloads one that was booted out when its process has exited. Before      *)
(* vz-net is stopped all VM helpers are, by the control plane or, where it  *)
(* does not answer, by signal. VMs are started and end, and services crash, *)
(* at any time; the command itself may be killed at any step.               *)
(***************************************************************************)
EXTENDS Naturals, Sequences

CONSTANTS SvVms,       \* virtual machines
          MaxSvCmds,   \* bound: commands
          MaxSvCrash,  \* bound: crashes of services
          NoSv         \* no command

VARIABLE sv  \* [loaded, leaving, proc, sock, vm, child, listed, late, cut, cmd, cmds, crashes]

ALL_SERVICES == <<"net", "edge", "supervisor">>
SvIds == {"net", "edge", "supervisor"}
SvTargets == SvIds \cup {"all"}

\* The control plane's socket is not waited for; vz-net is never killed.
ServiceSpec == [net |-> [socket |-> TRUE, kickstart_kill |-> FALSE],
                edge |-> [socket |-> TRUE, kickstart_kill |-> TRUE],
                supervisor |-> [socket |-> FALSE, kickstart_kill |-> TRUE]]

\* A VM that runs may be of an earlier control plane.
SvInit ==
  \E on \in BOOLEAN, vms \in [SvVms -> {"off", "running"}], child \in [SvVms -> BOOLEAN] :
    /\ \A v \in SvVms : (child[v] => on /\ vms[v] = "running")
    /\ sv = [loaded |-> [s \in SvIds |-> on], leaving |-> [s \in SvIds |-> FALSE], proc |-> [s \in SvIds |-> IF on THEN "up" ELSE "down"],
             sock |-> [s \in SvIds |-> on], vm |-> vms, child |-> child, listed |-> [v \in SvVms |-> on /\ vms[v] = "running"],
             late |-> [v \in SvVms |-> FALSE], cut |-> {}, cmd |-> NoSv, cmds |-> 0, crashes |-> 0]

-----------------------------------------------------------------------------
(* launchd, the services and the VM helpers.                               *)

\* The control plane keeps its table of helpers in memory only.
SvDown(s, id) ==
  [s EXCEPT !.proc[id] = "down", !.child = [v \in SvVms |-> id # "supervisor" /\ @[v]], !.listed = [v \in SvVms |-> id # "supervisor" /\ @[v]]]

launchd_starts(id) ==
  sv.loaded[id] /\ ~sv.leaving[id] /\ sv.proc[id] = "down" /\ sv' = [sv EXCEPT !.proc[id] = "starting"]

service_ready(id) ==
  sv.proc[id] = "starting" /\ sv' = [sv EXCEPT !.proc[id] = "up", !.sock[id] = TRUE]

\* A crash leaves the socket file behind.
service_crashes(id) ==
  sv.proc[id] # "down" /\ sv.crashes < MaxSvCrash /\ sv' = [SvDown(sv, id) EXCEPT !.crashes = @ + 1]

\* The end of a service that was booted out: launchd forgets the agent.
service_exits(id) ==
  sv.leaving[id] /\ sv' = [SvDown(sv, id) EXCEPT !.leaving[id] = FALSE, !.loaded[id] = FALSE, !.sock[id] = FALSE]

\* late: after the running command looked at the helpers for the last time.
vm_starts(v) ==
  /\ sv.vm[v] = "off" /\ sv.proc["supervisor"] = "up" /\ sv.proc["net"] = "up"
  /\ sv' = [sv EXCEPT !.vm[v] = "running", !.child[v] = TRUE, !.listed[v] = TRUE,
                      !.late[v] = sv.cmd # NoSv /\ (sv.cmd.pc = "signalled" \/ \A i \in 1..Len(sv.cmd.todo) : sv.cmd.todo[i].op # "helpers")]

\* helper.hello and heartbeats put a helper on the list of any control plane.
helper_reports(v) ==
  sv.vm[v] # "off" /\ ~sv.listed[v] /\ sv.proc["supervisor"] = "up" /\ sv' = [sv EXCEPT !.listed[v] = TRUE]

helper_exits(v) ==
  sv.vm[v] = "stopping" /\ sv' = [sv EXCEPT !.vm[v] = "off", !.listed[v] = FALSE, !.child[v] = FALSE]

-----------------------------------------------------------------------------
(* Commands: the steps of an action on a target, in order.                 *)

SvStep(op, id) == [op |-> op, id |-> id]

specs_for_target(target) == IF target = "all" THEN ALL_SERVICES ELSE <<target>>
start_order(target) == specs_for_target(target)
stop_order(target) == IF target = "all" THEN <<"supervisor", "edge", "net">> ELSE <<target>>

SvEach(op, ids) == [i \in 1..Len(ids) |-> SvStep(op, ids[i])]

start_target(target) == SvEach("start", start_order(target))

\* Mutant: helpers are stopped for the whole stack only.
stop_targetAllOnly(target) ==
  (IF target = "all" THEN <<SvStep("helpers", "net")>> ELSE << >>) \o SvEach("stop", stop_order(target))

stop_target(target) ==
  (IF target \in {"all", "net"} THEN <<SvStep("helpers", "net")>> ELSE << >>) \o SvEach("stop", stop_order(target))

\* vz-net is stopped and started, never kicked; its users follow.
restart_target(target) ==
  CASE target = "all" -> stop_target("all") \o start_target("all")
    [] target = "net" -> <<SvStep("helpers", "net"), SvStep("stop", "net"), SvStep("start", "net"), SvStep("restart", "edge"), SvStep("restart", "supervisor")>>
    [] OTHER -> <<SvStep("restart", target)>>

SvPlan(action, target) ==
  CASE action = "start" -> start_target(target) [] action = "stop" -> stop_target(target) [] OTHER -> restart_target(target)

services_command ==
  /\ sv.cmd = NoSv /\ sv.cmds < MaxSvCmds
  /\ \E action \in {"start", "stop", "restart"}, target \in SvTargets :
       sv' = [sv EXCEPT !.cmds = @ + 1, !.late = [v \in SvVms |-> FALSE],
                        !.cmd = [todo |-> SvPlan(action, target), pc |-> "next", ask |-> {}, via |-> "rpc"]]

SvOp == Head(sv.cmd.todo)
SvAt(pc) == sv.cmd # NoSv /\ sv.cmd.pc = pc
SvGo(s, pc) == [s EXCEPT !.cmd.pc = pc]
SvNextStep(s) == [s EXCEPT !.cmd.todo = Tail(@), !.cmd.pc = "next"]
SvEnd(s) == [s EXCEPT !.cmd = NoSv]

\* Success after the last step, else the next step begins.
services_next ==
  /\ SvAt("next")
  /\ sv' = IF sv.cmd.todo = << >> THEN SvEnd(sv) ELSE SvGo(sv, SvOp.op)

command_killed == sv.cmd # NoSv /\ sv' = SvEnd(sv)

-----------------------------------------------------------------------------
(* VM helpers.                                                             *)

supervisor_reachable == sv.proc["supervisor"] = "up"

\* The control plane first; signals where it cannot be reached.
stop_vm_helpers ==
  /\ SvAt("helpers")
  /\ sv' = IF supervisor_reachable THEN [SvGo(sv, "rpc") EXCEPT !.cmd.ask = {v \in SvVms : sv.listed[v]}]
           ELSE SvGo(sv, "signal")

\* vm.stop: SIGTERM. A helper that is not its own child leaves the list at once.
vm_stop(v) ==
  [sv EXCEPT !.vm[v] = IF @ = "running" /\ sv.listed[v] THEN "stopping" ELSE @, !.listed[v] = @ /\ sv.child[v], !.cmd.ask = @ \ {v}]

\* vm.stop for each VM of the list, then vm.list until none is active. Every
\* failed call and the timeout fall back to signals.
stop_vm_helpers_via_supervisor ==
  /\ SvAt("rpc")
  /\ \/ ~supervisor_reachable /\ sv' = SvGo(sv, "signal")
     \/ supervisor_reachable /\ \E v \in sv.cmd.ask : sv' = vm_stop(v)
     \/ supervisor_reachable /\ sv.cmd.ask = {} /\ (\A v \in SvVms : ~sv.listed[v]) /\ sv' = SvNextStep(sv)
     \/ supervisor_reachable /\ sv.cmd.ask = {} /\ (\E v \in SvVms : sv.listed[v]) /\ sv' = SvGo(sv, "signal")

\* Every vz-helper process of the user; one that stays ends the command.
stop_vm_helpers_via_signal ==
  \/ /\ SvAt("signal")
     /\ LET pids == {v \in SvVms : sv.vm[v] # "off"}
        IN  sv' = [SvGo(sv, "signalled") EXCEPT !.vm = [v \in SvVms |-> IF v \in pids THEN "stopping" ELSE @[v]],
                     !.cmd.ask = pids, !.cmd.via = "signal"]
  \/ /\ SvAt("signalled")
     /\ IF \E v \in sv.cmd.ask : sv.vm[v] # "off" /\ ~sv.late[v] THEN sv' = SvEnd(sv) ELSE sv' = SvNextStep(sv)

-----------------------------------------------------------------------------
(* One service.                                                            *)

agent_loaded(id) == sv.loaded[id]

\* cut: the VMs that run when their network is taken away.
bootout(s, id) ==
  [s EXCEPT !.leaving[id] = TRUE,
     !.cut = @ \cup (IF id = "net" THEN {[late |-> s.late[v], child |-> s.child[v], via |-> s.cmd.via] : v \in {w \in SvVms : s.vm[w] # "off"}} ELSE {})]

\* Not loaded: its stale socket is removed. Else bootout, and wait; an agent
\* that stays, or a vz-net process that does, is an error and never killed.
stop_one ==
  \/ /\ SvAt("stop")
     /\ sv' = IF agent_loaded(SvOp.id) THEN SvGo(bootout(sv, SvOp.id), "gone")
              ELSE [SvNextStep(sv) EXCEPT !.sock[SvOp.id] = @ /\ ~ServiceSpec[SvOp.id].socket]
  \/ /\ SvAt("gone") /\ ~agent_loaded(SvOp.id)
     /\ sv' = [SvNextStep(sv) EXCEPT !.sock[SvOp.id] = @ /\ SvOp.id # "net"]
  \/ SvAt("gone") /\ agent_loaded(SvOp.id) /\ sv' = SvEnd(sv)

require_socket_ready(id) ==
  /\ id \in {"edge", "supervisor"} => sv.sock["net"]
  /\ id = "supervisor" => sv.sock["edge"]

\* kickstart starts the process; with -k it ends a running one first.
kickstart(s, id, kill) ==
  IF s.proc[id] # "down" /\ ~kill THEN s ELSE [SvDown(s, id) EXCEPT !.proc[id] = "starting"]

\* bootstrap fails for an agent that is still leaving.
bootstrap(s, id) == [s EXCEPT !.loaded[id] = TRUE]

wait_socket(id) == ServiceSpec[id].socket => sv.sock[id]

start_one ==
  \/ /\ SvAt("start")
     /\ LET id == SvOp.id
            s == IF agent_loaded(id) THEN sv ELSE bootstrap(sv, id)
        IN  sv' = IF ~require_socket_ready(id) \/ sv.leaving[id] THEN SvEnd(sv)
                  ELSE SvGo(kickstart(s, id, ServiceSpec[id].kickstart_kill), "socket")
  \/ SvAt("socket") /\ wait_socket(SvOp.id) /\ sv' = SvNextStep(sv)
  \/ SvAt("socket") /\ ~wait_socket(SvOp.id) /\ sv' = SvEnd(sv)

restart_one ==
  /\ SvAt("restart")
  /\ sv' = IF agent_loaded(SvOp.id) THEN SvGo(kickstart(sv, SvOp.id, TRUE), "socket") ELSE SvGo(sv, "start")

-----------------------------------------------------------------------------

SvNext ==
  \/ \E id \in SvIds : launchd_starts(id) \/ service_ready(id) \/ service_crashes(id) \/ service_exits(id)
  \/ \E v \in SvVms : vm_starts(v) \/ helper_reports(v) \/ helper_exits(v)
  \/ services_command \/ services_next \/ command_killed \/ stop_vm_helpers \/ stop_vm_helpers_via_supervisor
  \/ stop_vm_helpers_via_signal \/ stop_one \/ start_one \/ restart_one

SvSpec == SvInit /\ [][SvNext]_sv

-----------------------------------------------------------------------------
(* Correctness.                                                            *)

\* When a command takes vz-net away, a VM that still runs was started after
\* the command's last look at the helpers, or belongs to an earlier control
\* plane while the present one answered: no VM the control plane started and
\* none that had to be signalled loses its network, whatever crashed.
OwnVmsStopFirst == \A c \in sv.cut : c.late \/ (~c.child /\ c.via = "rpc")
=============================================================================
