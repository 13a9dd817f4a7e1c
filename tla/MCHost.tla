------------------------------- MODULE MCHost -------------------------------
(* The host's processes and the commands that act on them: the network       *)
(* registry with every fault, VM helpers, launchd services, event streams,    *)
(* the progress display and the desktop application.  `area` is chosen in     *)
(* the initial state; one of them runs and the others stay in one initial     *)
(* state, so the state graph is the disjoint union of their graphs.           *)
EXTENDS MCNetworkRegistry, VmCommands, HostServices, EventStreams, Progress, DesktopUi,
        DockerHosts

VARIABLE area

VmOp(cmd, force, arg) == [cmd |-> cmd, force |-> force, arg |-> arg]
MCVmOps ==
  {VmOp("create", FALSE, 1), VmOp("start", FALSE, 0), VmOp("stop", FALSE, 0), VmOp("restart", FALSE, 0),
   VmOp("delete", TRUE, 0), VmOp("delete", FALSE, 0), VmOp("modify", FALSE, 2)}
  \cup {VmOp(cmd, FALSE, [name |-> "a", target |-> "x"]) : cmd \in {"mount", "unmount"}}

DkCfg(on, name, rev, vol, compose, consumer) ==
  [vms |-> on, name |-> name, rev |-> rev, volume |-> vol, compose |-> compose, consumer |-> consumer]
MCDkConfigs ==
  {DkCfg({}, NoDk, 1, "data", FALSE, NoDk), DkCfg({1}, "web", 1, "data", FALSE, NoDk),
   DkCfg({1}, "web", 2, "binding", TRUE, "web"), DkCfg({1}, "svc", 1, "data", FALSE, "ghost"),
   DkCfg({1}, NoDk, 1, "data", TRUE, "db"), DkCfg({1, 2}, "web", 1, "data", FALSE, "web")}

MCInit ==
  /\ area \in {"net", "vm", "services", "events", "progress", "ui", "docker"}
  /\ Init /\ PgInit
  /\ VmInit /\ (area # "vm" => bundle = NoVm)
  /\ SvInit /\ (area # "services" => sv.proc["net"] = "down" /\ \A x \in SvVms : sv.vm[x] = "off")
  /\ EsInit /\ (area # "events" => es.kind = "watch" /\ es.filter = {})
  /\ UiInit /\ (area # "ui" => ~ui.incomplete)
  /\ DkInit /\ (area # "docker" => dk.cfg.vms = {})

MCNext ==
  /\ IF area = "net" THEN Next ELSE UNCHANGED vars
  /\ IF area = "vm" THEN VmNext ELSE UNCHANGED vmVars
  /\ IF area = "services" THEN SvNext ELSE UNCHANGED sv
  /\ IF area = "events" THEN EsNext ELSE UNCHANGED es
  /\ IF area = "progress" THEN PgNext ELSE UNCHANGED pg
  /\ IF area = "ui" THEN UiNext ELSE UNCHANGED ui
  /\ IF area = "docker" THEN DkNext ELSE UNCHANGED dk
  /\ UNCHANGED area

MCSpec == MCInit /\ [][MCNext]_<<vars, vmVars, sv, es, pg, ui, dk, area>>
=============================================================================
