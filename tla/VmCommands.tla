----------------------------- MODULE VmCommands -----------------------------
(***************************************************************************)
(* The life of one VM: `vzctl vm create|start|stop|restart|delete|modify|  *)
(* mount|unmount` as concurrent CLI processes, the control plane's helper  *)
(* tables, and the helper processes that hold the VM's lock and report.    *)
(*                                                                         *)
(* A CLI process performs one RPC or one file operation per step. Reports  *)
(* of a helper are messages of their own: one that was sent before its     *)
(* helper died may be handled afterwards.                                  *)
(***************************************************************************)
EXTENDS Naturals, FiniteSets, Sequences

CONSTANTS
  Clis,        \* CLI processes, each runs one command
  VmOps,       \* commands: [cmd, force, arg]
  MaxPid,      \* bound: helper processes ever started
  MaxRestarts, \* bound: restarts of the control plane
  NoVm,        \* no bundle, record, process or operation
  TornVm       \* a VM directory without vm.json

\* Resources and mounts that commands name, manifests and helper records.
VmSizes     == {1} \cup {o.arg : o \in {x \in VmOps : x.cmd \in {"create", "modify"}}}
VmMounts    == {o.arg : o \in {x \in VmOps : x.cmd \in {"mount", "unmount"}}}
VmManifests == [res : VmSizes, mounts : SUBSET VmMounts]
VmRecs      == [st : {"starting", "running", "stopped", "failed"}, pid : 1 .. MaxPid]

ASSUME VmAssumption ==
  /\ MaxPid \in Nat
  /\ NoVm \notin VmManifests /\ TornVm \notin VmManifests /\ NoVm # TornVm
  /\ NoVm \notin VmRecs /\ NoVm \notin 1 .. MaxPid /\ NoVm \notin VmOps
  /\ \A o \in VmOps : o.cmd \in {"create", "start", "stop", "restart", "delete", "modify", "mount", "unmount"}

VARIABLES
  bundle,  \* the VM directory: NoVm, TornVm, or the manifest [res, mounts]
  nic,     \* whether the registry has an attachment of the VM
  sup,     \* control plane tables: [rec, proc, expected, starting]
  helper,  \* helper processes by PID: [st, live, child], live being the shares it
           \* serves, child whether the control plane will notice its exit
  msgs,    \* reports under way: [pid, st]
  cli,     \* CLI processes: [op, pc, seen, pid]
  loose,   \* history: PIDs a delete cannot know or does not stop: alive through a
           \* restart of the control plane, started while a delete was under way, left
           \* running by a forced delete whose vm.purge and vm.stop both failed, or alive
           \* when a create that a delete and another create overtook cleans up
  restarts

vmVars == <<bundle, nic, sup, helper, msgs, cli, loose, restarts>>

Pids == 1 .. MaxPid
Live == {"spawned", "booting", "running", "stopping"}
VmActive == {"starting", "running"}
VmAlive(p) == p \in Pids /\ helper[p].st \in Live
\* The lock file of the VM is held from the claim until the process exits.
LockHolder == {p \in Pids : helper[p].st \in {"booting", "running", "stopping"}}
NewPid == {p \in Pids : helper[p].st = "unused" /\ \A q \in Pids : q < p => helper[q].st # "unused"}

HasManifest == bundle \notin {NoVm, TornVm}
read_manifest == HasManifest

CliOff == [op |-> NoVm, pc |-> "off", seen |-> {}, pid |-> 0]
\* A CLI that has succeeded or failed is gone with what it knew.
CliEnds == [CliOff EXCEPT !.pc = "exit"]
VmGoto(c, pc) == cli' = [cli EXCEPT ![c] = IF pc \in {"ok", "err"} THEN CliEnds ELSE [@ EXCEPT !.pc = pc]]
VmAt(c, pc) == cli[c].pc = pc
Is(c, cmd) == cli[c].op.cmd = cmd
Rec(st, p) == [st |-> st, pid |-> p]
\* A delete that has dealt with the helper, or gone on without.
Deleting(c) == cli[c].pc \in {"drain", "detach", "remove"}

Invoke(c) ==
  /\ VmAt(c, "off")
  /\ \E o \in VmOps :
       cli' = [cli EXCEPT ![c].op = o, ![c].pc = IF o.cmd = "restart" THEN "stop" ELSE o.cmd]
  /\ UNCHANGED <<bundle, nic, sup, helper, msgs, loose, restarts>>

\* Any RPC may fail to reach the control plane, and a CLI may be killed.
\* vm.start is served to its end without its client.
GivesUp(c) ==
  /\ cli[c].pc \in {"create", "disks", "start", "stop", "wait", "delete", "halt", "drain",
                    "detach", "remove", "modify", "save", "share"}
  /\ VmGoto(c, "err")
  /\ UNCHANGED <<bundle, nic, sup, helper, msgs, loose, restarts>>
-----------------------------------------------------------------------------
(* vm create                                                               *)

\* vm.network.ensure; then the directory is claimed, which an existing one refuses.
vm_create(c) ==
  /\ VmAt(c, "create")
  /\ \/ bundle = NoVm /\ bundle' = TornVm /\ nic' = TRUE
        /\ cli' = [cli EXCEPT ![c].pc = "disks", ![c].seen = nic]
     \/ bundle # NoVm /\ VmGoto(c, "err") /\ nic' \in {nic, TRUE} /\ UNCHANGED bundle
  /\ UNCHANGED <<sup, helper, msgs, loose, restarts>>

\* The clone, the seed and last the manifest; an error removes the directory,
\* whoever has put a manifest there meanwhile, and rolls back an attachment
\* this command made.
prepare_vm_disks(c) ==
  /\ VmAt(c, "disks")
  /\ \/ /\ bundle # NoVm /\ bundle' = [res |-> cli[c].op.arg, mounts |-> {}]
        /\ VmGoto(c, "ok") /\ UNCHANGED <<nic, loose>>
     \/ /\ bundle' = NoVm /\ nic' = (nic /\ cli[c].seen) /\ VmGoto(c, "err")
        /\ loose' = loose \cup {p \in Pids : HasManifest /\ helper[p].st \in Live}
  /\ UNCHANGED <<sup, helper, msgs, restarts>>
-----------------------------------------------------------------------------
(* vm start                                                                *)

\* The process handle, or the listed PID of a helper that was taken over.
Previous(p) == sup.proc = p \/ (sup.proc = NoVm /\ sup.rec # NoVm /\ sup.rec.pid = p)

\* A helper that is listed, alive and holds the lock is simply reported;
\* only one start per VM is under way.
start_vm(c) ==
  /\ VmAt(c, "start")
  /\ IF ~read_manifest \/ sup.starting THEN VmGoto(c, "err") /\ UNCHANGED sup
     ELSE IF sup.rec # NoVm /\ sup.rec.st \in VmActive /\ sup.rec.pid \in LockHolder
     THEN VmGoto(c, "ok") /\ UNCHANGED sup
     ELSE /\ sup' = [sup EXCEPT !.starting = TRUE]
          /\ cli' = [cli EXCEPT ![c].pc = "release",
               ![c].seen = {p \in Pids : Previous(p)}]
  /\ UNCHANGED <<bundle, nic, helper, msgs, loose, restarts>>

\* Wait for the lock and for the previous process, or time out; then the
\* tables are cleared and the process is run.
waitForRelease(c) ==
  /\ VmAt(c, "release")
  /\ IF LockHolder # {} \/ \E p \in cli[c].seen : VmAlive(p)
     THEN VmGoto(c, "err") /\ sup' = [sup EXCEPT !.starting = FALSE] /\ UNCHANGED helper
     ELSE \E p \in NewPid :
            /\ helper' = [helper EXCEPT ![p].st = "spawned", ![p].child = TRUE]
            /\ sup' = [sup EXCEPT !.rec = NoVm, !.proc = NoVm, !.expected = FALSE]
            /\ cli' = [cli EXCEPT ![c].pc = "record", ![c].pid = p]
  /\ loose' = loose \cup {p \in NewPid : \E d \in Clis : Deleting(d)}
  /\ UNCHANGED <<bundle, nic, msgs, restarts>>

\* The new process is listed unless its own hello was faster.
recordStart(c) ==
  /\ VmAt(c, "record")
  /\ sup' = [sup EXCEPT !.proc = cli[c].pid,
               !.rec = IF @ # NoVm /\ @.pid = cli[c].pid THEN @ ELSE Rec("starting", cli[c].pid)]
  /\ VmGoto(c, "claim")
  /\ UNCHANGED <<bundle, nic, helper, msgs, loose, restarts>>

\* The helper has the lock and is still the listed one; otherwise it is
\* terminated and, if still ours, listed as failed.
waitForClaim(c) ==
  /\ VmAt(c, "claim")
  /\ LET p  == cli[c].pid
         ok == p \in LockHolder /\ sup.proc = p /\ sup.rec # NoVm
               /\ sup.rec.pid = p /\ sup.rec.st \in VmActive
     IN  \/ ok /\ VmGoto(c, "ok") /\ sup' = [sup EXCEPT !.starting = FALSE] /\ UNCHANGED helper
         \/ /\ VmGoto(c, "err")
            /\ sup' = [sup EXCEPT !.starting = FALSE,
                                  !.rec = IF sup.proc = p THEN Rec("failed", p) ELSE @]
            /\ helper' = [helper EXCEPT ![p].st = IF @ = "spawned" THEN "dead"
                                                  ELSE IF @ \in Live THEN "stopping" ELSE @]
  /\ UNCHANGED <<bundle, nic, msgs, loose, restarts>>
-----------------------------------------------------------------------------
(* vm stop, vm restart, vm delete                                          *)

\* The process a stop or purge signals: the listed one while it is active,
\* else the child process that still runs.
Target == IF sup.rec # NoVm /\ sup.rec.st \in VmActive THEN {sup.rec.pid}
          ELSE {p \in Pids : sup.proc = p /\ VmAlive(p)}

\* The child process that still runs, or whose exit is not handled yet.
ChildMayRun == {p \in Pids : sup.proc = p /\ (VmAlive(p) \/ helper[p].child)}

\* vm.stop. SIGTERM: the helper stops its VM and exits; one that has not yet
\* installed its handler dies. The tables forget the VM when no child process
\* runs, so at once for a helper that outlived a restart, although it still
\* lives; and for a listed process whenever errno reads ESRCH, which a
\* successful kill does not reset.
StopHelper ==
  /\ helper' = [p \in Pids |-> IF p \in Target
                                 THEN [helper[p] EXCEPT !.st = CASE @ = "spawned" -> "dead"
                                          [] @ \in {"booting", "running"} -> "stopping" [] OTHER -> @]
                                 ELSE helper[p]]
  /\ \E forget \in BOOLEAN :
       /\ ChildMayRun = {} => forget
       /\ forget /\ Target # {} => sup.rec # NoVm /\ sup.rec.st \in VmActive
       /\ sup' = [sup EXCEPT !.expected = @ \/ Target # {} \/ ~forget,
                             !.rec = IF forget THEN NoVm ELSE @,
                             !.proc = IF forget THEN NoVm ELSE @]

stop_vm(c) ==
  /\ VmAt(c, "stop")
  /\ StopHelper
  /\ VmGoto(c, "wait")
  /\ UNCHANGED <<bundle, nic, msgs, loose, restarts>>

\* Polls vm.list until the VM is no longer active; the 30 s timeout is GivesUp.
wait_stopped(c) ==
  /\ VmAt(c, "wait")
  /\ sup.rec # NoVm => sup.rec.st \notin VmActive
  /\ VmGoto(c, IF Is(c, "restart") THEN "start" ELSE "ok")
  /\ UNCHANGED <<bundle, nic, sup, helper, msgs, loose, restarts>>

\* Helpers the tables do not hold: a start is under way and has not listed
\* its process, or will list one that is signalled already.
Unlisted == {p \in Pids : sup.starting /\ helper[p].st \in Live}

\* vm.purge: SIGKILL to the target, bookkeeping and attachments dropped.
\* Detaching or the edge may still fail, and the call may not be served at
\* all. That ends the command, or with --force makes it fall back to vm.stop;
\* so does a control plane that does not know vm.purge.
vm_purge(c) ==
  /\ VmAt(c, "delete")
  /\ \/ /\ ~read_manifest /\ ~cli[c].op.force
        /\ VmGoto(c, "err") /\ UNCHANGED <<sup, helper, nic, loose>>
     \/ /\ read_manifest \/ cli[c].op.force
        /\ helper' = [p \in Pids |-> IF p \in Target /\ VmAlive(p)
                                       THEN [helper[p] EXCEPT !.st = "dead"] ELSE helper[p]]
        /\ sup' = [sup EXCEPT !.rec = NoVm, !.proc = NoVm, !.expected = @ \/ Target # {}]
        /\ loose' = loose \cup Unlisted
        /\ \/ nic' = FALSE /\ VmGoto(c, "remove")
           \/ nic' \in {nic, FALSE} /\ VmGoto(c, IF cli[c].op.force THEN "halt" ELSE "err")
     \/ /\ read_manifest \/ cli[c].op.force
        /\ VmGoto(c, "halt") /\ UNCHANGED <<sup, helper, nic, loose>>
  /\ UNCHANGED <<bundle, msgs, restarts>>

\* The fallback's vm.stop; --force goes on without it, the helper running.
halt_vm(c) ==
  /\ VmAt(c, "halt")
  /\ \/ StopHelper /\ loose' = loose \cup Unlisted
     \/ /\ cli[c].op.force
        /\ loose' = loose \cup {p \in Pids : helper[p].st \in Live}
        /\ UNCHANGED <<sup, helper>>
  /\ VmGoto(c, "drain")
  /\ UNCHANGED <<bundle, nic, msgs, restarts>>

\* Then it waits as vm stop does; --force goes on after the 30 s.
drain_vm(c) ==
  /\ VmAt(c, "drain")
  /\ cli[c].op.force \/ (sup.rec # NoVm => sup.rec.st \notin VmActive)
  /\ VmGoto(c, "detach")
  /\ UNCHANGED <<bundle, nic, sup, helper, msgs, loose, restarts>>

\* net.detach, which a VM that is listed or holds its lock refuses; --force
\* goes on with the attachments there.
detach_vm(c) ==
  /\ VmAt(c, "detach")
  /\ \/ nic' = FALSE /\ LockHolder = {} /\ (sup.rec # NoVm => sup.rec.st \notin VmActive)
     \/ UNCHANGED nic /\ (cli[c].op.force \/ ~nic)
  /\ VmGoto(c, "remove")
  /\ UNCHANGED <<bundle, sup, helper, msgs, loose, restarts>>

delete_vm(c) ==
  /\ VmAt(c, "remove")
  /\ bundle' \in {NoVm} \cup (IF HasManifest THEN {TornVm} ELSE {})
  /\ VmGoto(c, IF bundle' = NoVm THEN "ok" ELSE "err")
  /\ UNCHANGED <<nic, sup, helper, msgs, loose, restarts>>
-----------------------------------------------------------------------------
(* vm modify, vm mount, vm unmount: read vm.json, write it back whole, and *)
(* for a running helper apply the shares live.                             *)

modify_vm(c) ==
  /\ VmAt(c, "modify")
  /\ IF read_manifest
     THEN cli' = [cli EXCEPT ![c].pc = "save", ![c].seen = [bundle EXCEPT !.res = cli[c].op.arg]]
     ELSE VmGoto(c, "err")
  /\ UNCHANGED <<bundle, nic, sup, helper, msgs, loose, restarts>>

\* A name keeps its target and a target its name; the same mount again
\* replaces itself.
mount_vm(c) ==
  /\ VmAt(c, "mount")
  /\ LET m == cli[c].op.arg
     IN  IF read_manifest /\ \A x \in bundle.mounts : (x.name = m.name) = (x.target = m.target)
         THEN cli' = [cli EXCEPT ![c].pc = "save", ![c].seen =
                        [bundle EXCEPT !.mounts = {x \in @ : x.name # m.name} \cup {m}]]
         ELSE VmGoto(c, "err")
  /\ UNCHANGED <<bundle, nic, sup, helper, msgs, loose, restarts>>

unmount_vm(c) ==
  /\ VmAt(c, "unmount")
  /\ LET m == cli[c].op.arg
     IN  IF read_manifest /\ \E x \in bundle.mounts : x.name = m.name \/ x.target = m.target
         THEN cli' = [cli EXCEPT ![c].pc = "save", ![c].seen =
                        [bundle EXCEPT !.mounts = {x \in @ : x.name # m.name /\ x.target # m.target}]]
         ELSE VmGoto(c, "err")
  /\ UNCHANGED <<bundle, nic, sup, helper, msgs, loose, restarts>>

\* fs::write over the whole file; the directory may be gone by now.
write_manifest(c) ==
  /\ VmAt(c, "save")
  /\ IF bundle = NoVm THEN VmGoto(c, "err") /\ UNCHANGED bundle
     ELSE bundle' = cli[c].seen /\ VmGoto(c, IF Is(c, "modify") THEN "ok" ELSE "share")
  /\ UNCHANGED <<nic, sup, helper, msgs, loose, restarts>>

helper_is_running == sup.rec # NoVm /\ sup.rec.st = "running"

\* On a running helper vm.mount.add or vm.mount.remove, then the guest's bind.
share_live(c) ==
  /\ VmAt(c, "share")
  /\ LET m == cli[c].op.arg
     IN  IF ~helper_is_running THEN VmGoto(c, "ok") /\ UNCHANGED helper
         ELSE IF helper[sup.rec.pid].st # "running" THEN VmGoto(c, "err") /\ UNCHANGED helper
         ELSE /\ helper' = [helper EXCEPT ![sup.rec.pid].live =
                   {x \in @ : x.name # m.name} \cup IF Is(c, "mount") THEN {m} ELSE {}]
              /\ VmGoto(c, "ok")
  /\ UNCHANGED <<bundle, nic, sup, msgs, loose, restarts>>
-----------------------------------------------------------------------------
(* Helper processes and the control plane.                                 *)

Say(p, st) == msgs' = msgs \cup {Rec(st, p)}

\* HelperLock: without the lock the process exits at once.
HelperClaim(p) ==
  /\ helper[p].st = "spawned"
  /\ IF LockHolder = {} THEN helper' = [helper EXCEPT ![p].st = "booting"] /\ Say(p, "starting")
     ELSE helper' = [helper EXCEPT ![p].st = "dead"] /\ UNCHANGED msgs
  /\ UNCHANGED <<bundle, nic, sup, cli, loose, restarts>>

\* Disks, token and shares come from the bundle; any error is an exit.
HelperBoot(p) ==
  /\ helper[p].st = "booting"
  /\ \/ /\ HasManifest
        /\ helper' = [helper EXCEPT ![p].st = "running", ![p].live = bundle.mounts]
        /\ Say(p, "running")
     \/ helper' = [helper EXCEPT ![p].st = "dead"] /\ UNCHANGED msgs
  /\ UNCHANGED <<bundle, nic, sup, cli, loose, restarts>>

HelperHeartbeat(p) ==
  /\ helper[p].st = "running" /\ Say(p, "running")
  /\ UNCHANGED <<bundle, nic, sup, helper, cli, loose, restarts>>

\* The VM shuts down by itself or fails, or the SIGTERM is obeyed; a
\* heartbeat sent just before may still be under way.
HelperExit(p) ==
  /\ helper[p].st \in {"running", "stopping"}
  /\ helper' = [helper EXCEPT ![p].st = "dead", ![p].live = {}]
  /\ \E st \in {"stopped", "failed"} : Say(p, st)
  /\ UNCHANGED <<bundle, nic, sup, cli, loose, restarts>>

\* Mutant: a report is accepted from whatever process it comes.
helper_stateAny(r) ==
  /\ msgs' = msgs \ {r}
  /\ sup' = [sup EXCEPT !.rec = r]
  /\ UNCHANGED <<bundle, nic, helper, cli, loose, restarts>>

\* A report of another process than the listed one is not accepted.
helper_state(r) ==
  /\ msgs' = msgs \ {r}
  /\ sup' = IF \/ sup.proc # NoVm /\ sup.proc # r.pid
               \/ sup.rec # NoVm /\ sup.rec.pid # r.pid
            THEN sup ELSE [sup EXCEPT !.rec = r]
  /\ UNCHANGED <<bundle, nic, helper, cli, loose, restarts>>

\* The exit of a child process is notified once; one of another process
\* than the listed one changes nothing.
helperTerminated(p) ==
  /\ helper[p].st = "dead" /\ helper[p].child
  /\ helper' = [helper EXCEPT ![p].child = FALSE]
  /\ \E st \in {"stopped", "failed"} :
       sup' = IF sup.proc # p THEN sup
              ELSE [sup EXCEPT !.proc = NoVm, !.expected = FALSE,
                      !.rec = IF sup.expected \/ st = "stopped" THEN NoVm ELSE Rec("failed", p)]
  /\ UNCHANGED <<bundle, nic, msgs, cli, loose, restarts>>

\* Helpers outlive the control plane; its tables do not, and commands that
\* wait for an answer of the old one fail.
SupervisorRestart ==
  /\ restarts < MaxRestarts
  /\ restarts' = restarts + 1
  /\ sup' = [rec |-> NoVm, proc |-> NoVm, expected |-> FALSE, starting |-> FALSE]
  /\ loose' = loose \cup {p \in Pids : helper[p].st \in Live}
  /\ cli' = [c \in Clis |-> IF cli[c].pc \in {"release", "record", "claim"}
                              THEN CliEnds ELSE cli[c]]
  /\ helper' = [p \in Pids |-> [helper[p] EXCEPT !.child = FALSE]]
  /\ msgs' = {}
  /\ UNCHANGED <<bundle, nic>>

VmInit ==
  /\ bundle \in {NoVm, [res |-> 1, mounts |-> {}]}
  /\ nic = (bundle # NoVm)
  /\ sup = [rec |-> NoVm, proc |-> NoVm, expected |-> FALSE, starting |-> FALSE]
  /\ helper = [p \in Pids |-> [st |-> "unused", live |-> {}, child |-> FALSE]]
  /\ msgs = {} /\ loose = {} /\ restarts = 0
  /\ cli = [c \in Clis |-> CliOff]

VmNext ==
  \/ \E c \in Clis :
       \/ Invoke(c) \/ GivesUp(c) \/ vm_create(c) \/ prepare_vm_disks(c)
       \/ start_vm(c) \/ waitForRelease(c) \/ recordStart(c) \/ waitForClaim(c)
       \/ stop_vm(c) \/ wait_stopped(c) \/ vm_purge(c) \/ halt_vm(c) \/ drain_vm(c)
       \/ detach_vm(c) \/ delete_vm(c)
       \/ modify_vm(c) \/ mount_vm(c) \/ unmount_vm(c) \/ write_manifest(c) \/ share_live(c)
  \/ \E p \in Pids :
       HelperClaim(p) \/ HelperBoot(p) \/ HelperHeartbeat(p) \/ HelperExit(p) \/ helperTerminated(p)
  \/ \E r \in msgs : helper_state(r)
  \/ SupervisorRestart

VmSpec == VmInit /\ [][VmNext]_vmVars
-----------------------------------------------------------------------------
(* Properties.                                                             *)

\* While the control plane holds the process handle of a helper, the record
\* it lists is that helper's: late reports and exits of older helpers never
\* replace or remove it, whatever start, stop and purge interleave.
ListedIsCurrent ==
  sup.proc # NoVm => sup.rec # NoVm /\ sup.rec.pid = sup.proc

\* A VM whose manifest is gone is not running, apart from a helper the
\* control plane forgot in a restart or started during the deletion, that a
\* forced delete left after vm.purge and vm.stop both failed, or whose
\* directory an overtaken create removed. One of the two calls that takes
\* effect is enough, whatever the other and the steps after it do.
DeletedVmIsDown ==
  ~HasManifest => \A p \in Pids : helper[p].st = "running" => p \in loose

\* The control plane's table follows the helpers: what it lists is the helper
\* it started last, and a deleted VM has none.
HelpersTracked == ListedIsCurrent /\ DeletedVmIsDown
=============================================================================
