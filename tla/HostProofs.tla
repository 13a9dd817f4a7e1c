----------------------------- MODULE HostProofs -----------------------------
(***************************************************************************)
(* Proofs about what runs on the host: VM helpers, the rollout to guests,   *)
(* the launchd services, the desktop application's recovery, the Docker     *)
(* VMs of a project and the resolver files of the host. For VM commands the *)
(* inductive invariant says who may know a helper: of those that run or may *)
(* yet run, each is the process the control plane holds, the one a start is *)
(* just about to list, or one a delete cannot know or could not stop.       *)
(***************************************************************************)
EXTENDS VmCommands, GuestUtils, HostServices, DesktopUi, DockerHosts, HostResolvers, SequenceTheorems, FiniteSetTheorems,
        WellFoundedInduction, TLAPS

-----------------------------------------------------------------------------
(* VM commands and helpers.                                                *)

VmPcs == {"off", "exit", "create", "disks", "start", "release", "record", "claim", "stop", "wait", "delete", "halt", "drain", "detach",
          "remove", "modify", "mount", "unmount", "save", "share"}
VmSeen == BOOLEAN \cup (SUBSET Pids) \cup VmManifests
VmClis == [op : VmOps \cup {NoVm}, pc : VmPcs, seen : VmSeen, pid : Nat]
VmSups == [rec : VmRecs \cup {NoVm}, proc : Pids \cup {NoVm}, expected : BOOLEAN, starting : BOOLEAN]
VmHelpers == [st : {"unused", "dead"} \cup Live, live : SUBSET VmMounts, child : BOOLEAN]

VmTypes ==
  /\ bundle \in VmManifests \cup {NoVm, TornVm} /\ nic \in BOOLEAN
  /\ sup \in VmSups
  /\ helper \in [Pids -> VmHelpers]
  /\ msgs \in SUBSET VmRecs
  /\ cli \in [Clis -> VmClis]
  /\ loose \in SUBSET Pids /\ restarts \in Nat

\* What a command is about to write is what its operation names.
IntentOf(c) ==
  /\ cli[c].pc \in {"create", "disks"} => cli[c].op \in VmOps /\ cli[c].op.cmd = "create"
  /\ cli[c].pc = "modify" => cli[c].op \in VmOps /\ cli[c].op.cmd = "modify"
  /\ cli[c].pc \in {"mount", "unmount", "share"} => cli[c].op \in VmOps /\ cli[c].op.cmd \in {"mount", "unmount"}
  /\ cli[c].pc = "save" => cli[c].op \in VmOps /\ cli[c].op.cmd \in {"modify", "mount", "unmount"} /\ cli[c].seen \in VmManifests
VmIntent == \A c \in Clis : IntentOf(c)

Launching(c) == cli[c].pc \in {"release", "record", "claim"}

\* One start at a time; it knows the process it waits for, and until it
\* lists the new one nothing else is listed.
OneStart ==
  /\ \A c \in Clis : Launching(c) => sup.starting
  /\ \A c, d \in Clis : Launching(c) /\ Launching(d) => c = d
  /\ \A c \in Clis : VmAt(c, "release") /\ sup.proc # NoVm => sup.proc \in cli[c].seen
  /\ \A c \in Clis : VmAt(c, "record") => sup.proc = NoVm
  /\ \A c \in Clis : VmAt(c, "record") \/ VmAt(c, "claim") => cli[c].pid \in Pids

\* A helper that runs or may yet run.
Upcoming(p) == helper[p].st \in {"spawned", "booting", "running"}

\* Such a helper is listed or about to be.
Known ==
  \A p \in Pids : (Upcoming(p) /\ p \notin loose) => sup.proc = p \/ \E c \in Clis : VmAt(c, "record") /\ cli[c].pid = p

\* Between a purge, or the stop in its place, and the removal of the
\* directory there is none.
Purged == \A c \in Clis, p \in Pids : (Deleting(c) /\ Upcoming(p)) => p \in loose

VmInv == VmTypes /\ VmIntent /\ OneStart /\ Known /\ Purged /\ HelpersTracked

\* Only process c moves.
CliMoves(c) == cli' \in [Clis -> VmClis] /\ \A d \in Clis : d # c => cli'[d] = cli[d]

LEMMA GotoMoves ==
  ASSUME VmTypes, NEW c \in Clis, NEW pc \in VmPcs \cup {"ok", "err"}, VmGoto(c, pc)
  PROVE  /\ CliMoves(c)
         /\ pc \in {"ok", "err"} => cli'[c].pc = "exit"
         /\ pc \notin {"ok", "err"} => cli'[c].pc = pc /\ cli'[c].op = cli[c].op /\ cli'[c].seen = cli[c].seen /\ cli'[c].pid = cli[c].pid
<1> DEFINE new == IF pc \in {"ok", "err"} THEN CliEnds ELSE [cli[c] EXCEPT !.pc = pc]
<1>1. cli[c] \in VmClis /\ cli \in [Clis -> VmClis]
  BY DEF VmTypes
<1>2. CliEnds \in VmClis /\ CliEnds.pc = "exit"
  <2>1. CliEnds = [op |-> NoVm, pc |-> "exit", seen |-> {}, pid |-> 0]
    BY DEF CliEnds, CliOff
  <2>2. {} \in VmSeen /\ "exit" \in VmPcs
    BY DEF VmSeen, VmPcs
  <2> QED BY <2>1, <2>2 DEF VmClis
<1>3. pc \notin {"ok", "err"} => /\ [cli[c] EXCEPT !.pc = pc] \in VmClis /\ [cli[c] EXCEPT !.pc = pc].pc = pc
                                 /\ [cli[c] EXCEPT !.pc = pc].op = cli[c].op /\ [cli[c] EXCEPT !.pc = pc].seen = cli[c].seen
                                 /\ [cli[c] EXCEPT !.pc = pc].pid = cli[c].pid
  BY <1>1 DEF VmClis
<1>4. new \in VmClis
  BY <1>2, <1>3
<1>5. cli' = [cli EXCEPT ![c] = new]
  BY DEF VmGoto
<1> HIDE DEF new
<1>6. cli' \in [Clis -> VmClis] /\ cli'[c] = new /\ \A d \in Clis : d # c => cli'[d] = cli[d]
  BY <1>1, <1>4, <1>5
<1> QED BY <1>2, <1>3, <1>6 DEF CliMoves, new

\* A process that neither starts the VM nor removes it says nothing of the
\* helpers.
LEMMA OtherMoves ==
  ASSUME VmInv, NEW c \in Clis, CliMoves(c), ~Launching(c), cli'[c].pc \notin {"release", "record", "claim"},
         IntentOf(c)', cli'[c].pc \in {"drain", "detach", "remove"} => Deleting(c),
         sup' = sup, \A p \in Pids : helper'[p].st = helper[p].st, loose \subseteq loose'
  PROVE  VmIntent' /\ OneStart' /\ Known' /\ Purged' /\ ListedIsCurrent'
<1>1. \A d \in Clis : d # c => cli'[d] = cli[d]
  BY DEF CliMoves
<1>2. VmIntent'
  BY <1>1 DEF VmInv, VmIntent, IntentOf
<1>3. \A d \in Clis : Launching(d)' => d # c /\ Launching(d)
  BY <1>1 DEF Launching
<1>4. OneStart'
  BY <1>1, <1>3 DEF VmInv, OneStart, Launching, VmAt
<1>5. \A p \in Pids : Upcoming(p)' = Upcoming(p)
  BY DEF Upcoming
<1>6. Known'
  <2> SUFFICES ASSUME NEW p \in Pids, Upcoming(p)', p \notin loose'
               PROVE  sup.proc = p \/ \E d \in Clis : VmAt(d, "record")' /\ cli'[d].pid = p
    BY DEF Known
  <2>1. sup.proc = p \/ \E d \in Clis : VmAt(d, "record") /\ cli[d].pid = p
    BY <1>5 DEF VmInv, Known
  <2>2. \A d \in Clis : VmAt(d, "record") => d # c
    BY DEF VmAt, Launching
  <2> QED BY <1>1, <2>1, <2>2 DEF VmAt
<1>7. Purged'
  BY <1>1, <1>5 DEF VmInv, Purged, Deleting
<1>8. ListedIsCurrent'
  BY DEF VmInv, HelpersTracked, ListedIsCurrent
<1> QED BY <1>2, <1>4, <1>6, <1>7, <1>8

\* The manifest stays.
LEMMA StaysDown ==
  ASSUME VmInv, HasManifest => HasManifest', \A p \in Pids : helper'[p].st = "running" => helper[p].st = "running", loose \subseteq loose'
  PROVE  DeletedVmIsDown'
BY DEF VmInv, HelpersTracked, DeletedVmIsDown

-----------------------------------------------------------------------------
(* Commands that leave the helpers alone.                                  *)

\* What every command of a process other than the steps of a start keeps.
LEMMA QuietStep ==
  ASSUME VmInv, NEW c \in Clis, CliMoves(c), ~Launching(c), cli'[c].pc \notin {"release", "record", "claim"},
         IntentOf(c)', cli'[c].pc \in {"drain", "detach", "remove"} => Deleting(c),
         bundle' \in VmManifests \cup {NoVm, TornVm}, nic' \in BOOLEAN, HasManifest => HasManifest',
         UNCHANGED <<sup, helper, msgs, loose, restarts>>
  PROVE  VmInv'
<1>1. VmTypes'
  BY DEF VmInv, VmTypes, CliMoves
<1>2. VmIntent' /\ OneStart' /\ Known' /\ Purged' /\ ListedIsCurrent'
  BY OtherMoves
<1>3. DeletedVmIsDown'
  BY StaysDown
<1> QED BY <1>1, <1>2, <1>3 DEF VmInv, HelpersTracked

LEMMA VmOpSizes == ASSUME NEW o \in VmOps, o.cmd \in {"create", "modify"} PROVE o.arg \in VmSizes
BY DEF VmSizes

LEMMA VmOpMounts == ASSUME NEW o \in VmOps, o.cmd \in {"mount", "unmount"} PROVE o.arg \in VmMounts
BY DEF VmMounts

LEMMA InvokeStep == ASSUME VmInv, NEW c \in Clis, Invoke(c) PROVE VmInv'
<1>1. PICK o \in VmOps : cli' = [cli EXCEPT ![c].op = o, ![c].pc = IF o.cmd = "restart" THEN "stop" ELSE o.cmd]
  BY DEF Invoke
<1> DEFINE pc == IF o.cmd = "restart" THEN "stop" ELSE o.cmd
<1>2. pc \in {"create", "start", "stop", "delete", "modify", "mount", "unmount"} /\ (o.cmd # "restart" => o.cmd = pc) /\ (o.cmd = "restart" => pc = "stop")
  BY VmAssumption
<1>3. cli' = [cli EXCEPT ![c].op = o, ![c].pc = pc]
  BY <1>1
<1> HIDE DEF pc
<1>4. CliMoves(c) /\ cli'[c].pc = pc /\ cli'[c].op = o
  <2>1. pc \in VmPcs /\ o \in VmOps \cup {NoVm} /\ cli[c] \in VmClis /\ cli \in [Clis -> VmClis]
    BY <1>2 DEF VmPcs, VmInv, VmTypes
  <2> DEFINE new == [cli[c] EXCEPT !.op = o, !.pc = pc]
  <2>2. new \in VmClis /\ new.pc = pc /\ new.op = o
    BY <2>1 DEF VmClis
  <2>3. cli' = [cli EXCEPT ![c] = new]
    BY <1>3, <2>1
  <2> HIDE DEF new
  <2> QED BY <2>1, <2>2, <2>3 DEF CliMoves
<1>5. IntentOf(c)'
  BY <1>2, <1>4 DEF IntentOf
<1>6. ~Launching(c) /\ UNCHANGED <<bundle, nic, sup, helper, msgs, loose, restarts>>
  BY DEF Invoke, VmAt, Launching
<1>7. bundle' \in VmManifests \cup {NoVm, TornVm} /\ nic' \in BOOLEAN /\ (HasManifest => HasManifest')
  BY <1>6 DEF VmInv, VmTypes, HasManifest
<1> QED BY <1>2, <1>4, <1>5, <1>6, <1>7, QuietStep

\* A process records what it has seen and goes on.
LEMMA SeenMoves ==
  ASSUME VmTypes, NEW c \in Clis, NEW pc \in VmPcs, NEW v \in VmSeen, cli' = [cli EXCEPT ![c].pc = pc, ![c].seen = v]
  PROVE  /\ CliMoves(c) /\ cli'[c].pc = pc /\ cli'[c].seen = v
         /\ cli'[c].op = cli[c].op /\ cli'[c].pid = cli[c].pid
<1> DEFINE new == [cli[c] EXCEPT !.pc = pc, !.seen = v]
<1>1. cli[c] \in VmClis /\ cli \in [Clis -> VmClis]
  BY DEF VmTypes
<1>2. new \in VmClis /\ new.pc = pc /\ new.seen = v /\ new.op = cli[c].op /\ new.pid = cli[c].pid
  BY <1>1 DEF VmClis
<1>3. cli' = [cli EXCEPT ![c] = new]
  BY <1>1
<1> HIDE DEF new
<1> QED BY <1>1, <1>2, <1>3 DEF CliMoves

LEMMA GivesUpStep == ASSUME VmInv, NEW c \in Clis, GivesUp(c) PROVE VmInv'
<1>1. VmTypes /\ VmGoto(c, "err") /\ ~Launching(c) /\ UNCHANGED <<bundle, nic, sup, helper, msgs, loose, restarts>>
  BY DEF GivesUp, VmInv, Launching
<1>2. CliMoves(c) /\ cli'[c].pc = "exit"
  BY <1>1, GotoMoves
<1>3. IntentOf(c)'
  BY <1>2 DEF IntentOf
<1>4. bundle' \in VmManifests \cup {NoVm, TornVm} /\ nic' \in BOOLEAN /\ (HasManifest => HasManifest')
  BY <1>1 DEF VmTypes, HasManifest
<1> QED BY <1>1, <1>2, <1>3, <1>4, QuietStep

\* A process that ends and changes nothing.
LEMMA JustEnds ==
  ASSUME VmInv, NEW c \in Clis, ~Launching(c), VmGoto(c, "err") \/ VmGoto(c, "ok"), UNCHANGED <<bundle, sup, helper, msgs, loose, restarts>>,
         nic' \in BOOLEAN
  PROVE  VmInv'
<1>1. VmTypes
  BY DEF VmInv
<1>2. CliMoves(c) /\ cli'[c].pc = "exit"
  BY <1>1, GotoMoves
<1>3. IntentOf(c)'
  BY <1>2 DEF IntentOf
<1>4. bundle' \in VmManifests \cup {NoVm, TornVm} /\ (HasManifest => HasManifest')
  BY <1>1 DEF VmTypes, HasManifest
<1> QED BY <1>2, <1>3, <1>4, QuietStep

LEMMA CreateStep == ASSUME VmInv, NEW c \in Clis, vm_create(c) PROVE VmInv'
<1>1. VmTypes /\ VmAt(c, "create") /\ ~Launching(c) /\ IntentOf(c) /\ UNCHANGED <<sup, helper, msgs, loose, restarts>>
  BY DEF vm_create, VmInv, VmIntent, Launching, VmAt
<1>2. CASE bundle = NoVm /\ bundle' = TornVm /\ nic' = TRUE /\ cli' = [cli EXCEPT ![c].pc = "disks", ![c].seen = nic]
  <2>1. nic \in VmSeen /\ "disks" \in VmPcs
    BY <1>1 DEF VmTypes, VmSeen, VmPcs
  <2>2. CliMoves(c) /\ cli'[c].pc = "disks" /\ cli'[c].op = cli[c].op
    BY <1>1, <1>2, <2>1, SeenMoves
  <2>3. IntentOf(c)'
    BY <1>1, <2>2 DEF IntentOf, VmAt
  <2>4. bundle' \in VmManifests \cup {NoVm, TornVm} /\ nic' \in BOOLEAN /\ ~HasManifest
    BY <1>2 DEF HasManifest
  <2> QED BY <1>1, <2>2, <2>3, <2>4, QuietStep
<1>3. CASE VmGoto(c, "err") /\ nic' \in {nic, TRUE} /\ UNCHANGED bundle
  <2>1. nic' \in BOOLEAN
    BY <1>1, <1>3 DEF VmTypes
  <2> QED BY <1>1, <1>3, <2>1, JustEnds
<1> QED BY <1>2, <1>3 DEF vm_create

\* The removal of a directory with another's manifest is counted as loose.
LEMMA DisksStep == ASSUME VmInv, NEW c \in Clis, prepare_vm_disks(c) PROVE VmInv'
<1>1. VmTypes /\ VmAt(c, "disks") /\ ~Launching(c) /\ IntentOf(c) /\ UNCHANGED <<sup, helper, msgs, restarts>>
  BY DEF prepare_vm_disks, VmInv, VmIntent, Launching, VmAt
<1>2. CASE /\ bundle # NoVm /\ bundle' = [res |-> cli[c].op.arg, mounts |-> {}] /\ VmGoto(c, "ok") /\ UNCHANGED <<nic, loose>>
  <2>1. cli[c].op.arg \in VmSizes
    BY <1>1, VmOpSizes DEF IntentOf, VmAt, VmInv
  <2>2. bundle' \in VmManifests
    BY <1>2, <2>1 DEF VmManifests
  <2>3. CliMoves(c) /\ cli'[c].pc = "exit"
    BY <1>1, <1>2, GotoMoves
  <2>4. IntentOf(c)'
    BY <2>3 DEF IntentOf
  <2>5. HasManifest' /\ nic' \in BOOLEAN
    BY <1>1, <1>2, <2>2, VmAssumption DEF HasManifest, VmTypes
  <2> QED BY <1>1, <1>2, <2>2, <2>3, <2>4, <2>5, QuietStep
<1>3. CASE /\ bundle' = NoVm /\ nic' = (nic /\ cli[c].seen) /\ VmGoto(c, "err")
           /\ loose' = loose \cup {p \in Pids : HasManifest /\ helper[p].st \in Live}
  <2>1. CliMoves(c) /\ cli'[c].pc = "exit"
    BY <1>1, <1>3, GotoMoves
  <2>2. IntentOf(c)'
    BY <2>1 DEF IntentOf
  <2>3. nic' \in BOOLEAN /\ loose \subseteq loose' /\ loose' \in SUBSET Pids
    BY <1>1, <1>3 DEF VmTypes
  <2>4. VmTypes'
    BY <1>1, <1>3, <2>1, <2>3 DEF VmTypes, CliMoves
  <2>5. VmIntent' /\ OneStart' /\ Known' /\ Purged' /\ ListedIsCurrent'
    BY <1>1, <2>1, <2>2, <2>3, OtherMoves
  <2>6. DeletedVmIsDown'
    BY <1>1, <1>3 DEF VmInv, HelpersTracked, DeletedVmIsDown, Live
  <2> QED BY <2>4, <2>5, <2>6 DEF VmInv, HelpersTracked
<1> QED BY <1>1, <1>2, <1>3 DEF prepare_vm_disks

LEMMA WaitStoppedStep == ASSUME VmInv, NEW c \in Clis, wait_stopped(c) PROVE VmInv'
<1>1. VmTypes /\ VmAt(c, "wait") /\ ~Launching(c) /\ UNCHANGED <<bundle, nic, sup, helper, msgs, loose, restarts>>
  BY DEF wait_stopped, VmInv, Launching, VmAt
<1>2. VmGoto(c, "start") \/ VmGoto(c, "ok")
  BY DEF wait_stopped
<1>3. CliMoves(c) /\ cli'[c].pc \in {"start", "exit"}
  <2>1. "start" \in VmPcs
    BY DEF VmPcs
  <2> QED BY <1>1, <1>2, <2>1, GotoMoves
<1>4. IntentOf(c)'
  BY <1>3 DEF IntentOf
<1>5. bundle' \in VmManifests \cup {NoVm, TornVm} /\ nic' \in BOOLEAN /\ (HasManifest => HasManifest')
  BY <1>1 DEF VmTypes, HasManifest
<1> QED BY <1>1, <1>3, <1>4, <1>5, QuietStep

\* A command that has read the manifest goes on to save its own version.
LEMMA GoesToSave ==
  ASSUME VmInv, NEW c \in Clis, ~Launching(c), NEW m \in VmManifests, cli[c].op \in VmOps,
         cli[c].op.cmd \in {"modify", "mount", "unmount"},
         cli' = [cli EXCEPT ![c].pc = "save", ![c].seen = m],
         UNCHANGED <<bundle, nic, sup, helper, msgs, loose, restarts>>
  PROVE  VmInv'
<1>1. VmTypes /\ "save" \in VmPcs /\ m \in VmSeen
  <2>1. VmTypes
    BY DEF VmInv
  <2>2. "save" \in VmPcs
    BY DEF VmPcs
  <2>3. m \in VmSeen
    BY DEF VmSeen
  <2> QED BY <2>1, <2>2, <2>3
<1>2. CliMoves(c) /\ cli'[c].pc = "save" /\ cli'[c].seen = m /\ cli'[c].op = cli[c].op
  BY ZenonT(40), <1>1, SeenMoves
<1>3. IntentOf(c)'
  BY <1>2 DEF IntentOf
<1>4. bundle' \in VmManifests \cup {NoVm, TornVm} /\ nic' \in BOOLEAN /\ (HasManifest => HasManifest')
  BY <1>1 DEF VmTypes, HasManifest
<1> QED BY <1>2, <1>3, <1>4, QuietStep

LEMMA ReadIsManifest == ASSUME VmTypes, read_manifest PROVE bundle \in VmManifests
BY DEF VmTypes, read_manifest, HasManifest

\* The commands of vm modify, mount and unmount as they read the manifest.
LEMMA EditIntent ==
  ASSUME VmInv, NEW c \in Clis, cli[c].pc \in {"modify", "mount", "unmount"}
  PROVE  /\ VmTypes /\ ~Launching(c) /\ cli[c].op \in VmOps /\ cli[c].op.cmd \in {"modify", "mount", "unmount"}
         /\ cli[c].pc = "modify" => cli[c].op.arg \in VmSizes
         /\ cli[c].pc # "modify" => cli[c].op.arg \in VmMounts /\ cli[c].op.cmd \in {"mount", "unmount"}
<1>1. IntentOf(c) /\ VmTypes
  BY DEF VmInv, VmIntent
<1> QED BY <1>1, VmOpSizes, VmOpMounts DEF IntentOf, Launching

LEMMA ModifyStep == ASSUME VmInv, NEW c \in Clis, modify_vm(c) PROVE VmInv'
<1>1. VmTypes /\ ~Launching(c) /\ cli[c].op \in VmOps /\ cli[c].op.cmd \in {"modify", "mount", "unmount"} /\ cli[c].op.arg \in VmSizes
  BY EditIntent DEF modify_vm, VmAt
<1>2. UNCHANGED <<bundle, nic, sup, helper, msgs, loose, restarts>>
  BY DEF modify_vm
<1>3. CASE read_manifest /\ cli' = [cli EXCEPT ![c].pc = "save", ![c].seen = [bundle EXCEPT !.res = cli[c].op.arg]]
  <2> DEFINE m == [bundle EXCEPT !.res = cli[c].op.arg]
  <2>1. bundle \in VmManifests
    BY <1>1, <1>3, ReadIsManifest
  <2>2. m \in VmManifests
    BY <1>1, <2>1 DEF VmManifests
  <2> HIDE DEF m
  <2>3. cli' = [cli EXCEPT ![c].pc = "save", ![c].seen = m]
    BY <1>3 DEF m
  <2> QED BY <1>1, <1>2, <2>2, <2>3, GoesToSave
<1>4. CASE VmGoto(c, "err")
  <2>1. nic' \in BOOLEAN
    BY <1>1, <1>2 DEF VmTypes
  <2> QED BY <1>1, <1>2, <1>4, <2>1, JustEnds
<1> QED BY <1>3, <1>4 DEF modify_vm

LEMMA MountStep == ASSUME VmInv, NEW c \in Clis, mount_vm(c) PROVE VmInv'
<1> DEFINE m == cli[c].op.arg
<1>1. VmTypes /\ ~Launching(c) /\ cli[c].op \in VmOps /\ cli[c].op.cmd \in {"modify", "mount", "unmount"} /\ m \in VmMounts
  BY EditIntent DEF mount_vm, VmAt
<1>2. UNCHANGED <<bundle, nic, sup, helper, msgs, loose, restarts>>
  BY DEF mount_vm
<1>3. CASE read_manifest /\ cli' = [cli EXCEPT ![c].pc = "save", ![c].seen = [bundle EXCEPT !.mounts = {x \in @ : x.name # m.name} \cup {m}]]
  <2> DEFINE s == {x \in bundle.mounts : x.name # m.name} \cup {m}
  <2>1. bundle \in VmManifests
    BY <1>1, <1>3, ReadIsManifest
  <2>2. bundle.mounts \in SUBSET VmMounts
    BY <2>1 DEF VmManifests
  <2>3. s \in SUBSET VmMounts
    BY <1>1, <2>2
  <2>4. cli' = [cli EXCEPT ![c].pc = "save", ![c].seen = [bundle EXCEPT !.mounts = s]]
    BY <1>3
  <2> HIDE DEF s
  <2> DEFINE b == [bundle EXCEPT !.mounts = s]
  <2>5. b \in VmManifests
    BY <2>1, <2>3 DEF VmManifests
  <2>6. cli' = [cli EXCEPT ![c].pc = "save", ![c].seen = b]
    BY <2>4
  <2> HIDE DEF b
  <2> QED BY <1>1, <1>2, <2>5, <2>6, GoesToSave
<1>4. CASE VmGoto(c, "err")
  <2>1. nic' \in BOOLEAN
    BY <1>1, <1>2 DEF VmTypes
  <2> QED BY <1>1, <1>2, <1>4, <2>1, JustEnds
<1> QED BY <1>3, <1>4 DEF mount_vm

LEMMA UnmountStep == ASSUME VmInv, NEW c \in Clis, unmount_vm(c) PROVE VmInv'
<1> DEFINE m == cli[c].op.arg
<1>1. VmTypes /\ ~Launching(c) /\ cli[c].op \in VmOps /\ cli[c].op.cmd \in {"modify", "mount", "unmount"}
  BY EditIntent DEF unmount_vm, VmAt
<1>2. UNCHANGED <<bundle, nic, sup, helper, msgs, loose, restarts>>
  BY DEF unmount_vm
<1>3. CASE read_manifest /\ cli' = [cli EXCEPT ![c].pc = "save", ![c].seen = [bundle EXCEPT !.mounts = {x \in @ : x.name # m.name /\ x.target # m.target}]]
  <2> DEFINE s == {x \in bundle.mounts : x.name # m.name /\ x.target # m.target}
  <2>1. bundle \in VmManifests
    BY <1>1, <1>3, ReadIsManifest
  <2>2. bundle.mounts \in SUBSET VmMounts
    BY <2>1 DEF VmManifests
  <2>3. s \in SUBSET VmMounts
    BY <2>2
  <2>4. cli' = [cli EXCEPT ![c].pc = "save", ![c].seen = [bundle EXCEPT !.mounts = s]]
    BY <1>3
  <2> HIDE DEF s
  <2> DEFINE b == [bundle EXCEPT !.mounts = s]
  <2>5. b \in VmManifests
    BY <2>1, <2>3 DEF VmManifests
  <2>6. cli' = [cli EXCEPT ![c].pc = "save", ![c].seen = b]
    BY <2>4
  <2> HIDE DEF b
  <2> QED BY <1>1, <1>2, <2>5, <2>6, GoesToSave
<1>4. CASE VmGoto(c, "err")
  <2>1. nic' \in BOOLEAN
    BY <1>1, <1>2 DEF VmTypes
  <2> QED BY <1>1, <1>2, <1>4, <2>1, JustEnds
<1> QED BY <1>3, <1>4 DEF unmount_vm

LEMMA WriteManifestStep == ASSUME VmInv, NEW c \in Clis, write_manifest(c) PROVE VmInv'
<1>1. VmTypes /\ VmAt(c, "save") /\ ~Launching(c) /\ IntentOf(c) /\ UNCHANGED <<nic, sup, helper, msgs, loose, restarts>>
  BY DEF write_manifest, VmInv, VmIntent, Launching, VmAt
<1>2. nic' \in BOOLEAN
  BY <1>1 DEF VmTypes
<1>3. CASE VmGoto(c, "err") /\ UNCHANGED bundle
  BY <1>1, <1>2, <1>3, JustEnds
<1>4. CASE bundle' = cli[c].seen /\ VmGoto(c, IF Is(c, "modify") THEN "ok" ELSE "share")
  <2>1. bundle' \in VmManifests /\ HasManifest'
    BY <1>1, <1>4, VmAssumption DEF IntentOf, VmAt, HasManifest
  <2>2. CliMoves(c) /\ cli'[c].pc \in {"exit", "share"} /\ (cli'[c].pc = "share" => cli'[c].op = cli[c].op /\ cli[c].op.cmd # "modify")
    <3>1. "share" \in VmPcs
      BY DEF VmPcs
    <3>2. CASE Is(c, "modify")
      BY <1>1, <1>4, <3>1, <3>2, GotoMoves
    <3>3. CASE ~Is(c, "modify")
      BY <1>1, <1>4, <3>1, <3>3, GotoMoves DEF Is
    <3> QED BY <3>2, <3>3
  <2>3. IntentOf(c)'
    BY <1>1, <2>2 DEF IntentOf, VmAt
  <2> QED BY <1>1, <1>2, <2>1, <2>2, <2>3, QuietStep
<1> QED BY <1>3, <1>4 DEF write_manifest

LEMMA ShareLiveStep == ASSUME VmInv, NEW c \in Clis, share_live(c) PROVE VmInv'
<1> DEFINE m == cli[c].op.arg
<1>1. VmTypes /\ VmAt(c, "share") /\ ~Launching(c) /\ IntentOf(c) /\ UNCHANGED <<bundle, nic, sup, msgs, loose, restarts>>
  BY DEF share_live, VmInv, VmIntent, Launching, VmAt
<1>2. nic' \in BOOLEAN
  BY <1>1 DEF VmTypes
<1>3. CASE (VmGoto(c, "ok") \/ VmGoto(c, "err")) /\ UNCHANGED helper
  BY <1>1, <1>2, <1>3, JustEnds
<1>4. CASE /\ helper_is_running
           /\ helper' = [helper EXCEPT ![sup.rec.pid].live = {x \in @ : x.name # m.name} \cup IF Is(c, "mount") THEN {m} ELSE {}]
           /\ VmGoto(c, "ok")
  <2> DEFINE q == sup.rec.pid
             s == {x \in helper[q].live : x.name # m.name} \cup IF Is(c, "mount") THEN {m} ELSE {}
  <2>1. q \in Pids
    <3>1. sup.rec \in VmRecs
      BY <1>1, <1>4 DEF helper_is_running, VmTypes, VmSups
    <3> QED BY <3>1 DEF VmRecs, Pids
  <2>2. m \in VmMounts
    BY <1>1, VmOpMounts DEF IntentOf, VmAt
  <2>3. helper \in [Pids -> VmHelpers] /\ helper[q] \in VmHelpers
    BY <1>1, <2>1 DEF VmTypes
  <2>4. helper[q].live \in SUBSET VmMounts
    BY <2>3 DEF VmHelpers
  <2>5. s \in SUBSET VmMounts
    BY <2>2, <2>4
  <2>6. helper' = [helper EXCEPT ![q] = [helper[q] EXCEPT !.live = s]]
    BY <1>4, <2>3
  <2> HIDE DEF s, q
  <2> DEFINE h == [helper[q] EXCEPT !.live = s]
  <2>7. h \in VmHelpers /\ h.st = helper[q].st
    BY <2>3, <2>5 DEF VmHelpers
  <2>8. helper' \in [Pids -> VmHelpers] /\ \A p \in Pids : helper'[p].st = helper[p].st
    <3> HIDE DEF h
    <3>1. helper' = [helper EXCEPT ![q] = h]
      BY <2>6 DEF h
    <3> QED BY <2>1, <2>3, <2>7, <3>1
  <2>9. CliMoves(c) /\ cli'[c].pc = "exit"
    BY <1>1, <1>4, GotoMoves
  <2>10. IntentOf(c)'
    BY <2>9 DEF IntentOf
  <2>11. VmTypes'
    BY <1>1, <1>2, <2>8, <2>9 DEF VmTypes, CliMoves
  <2>12. VmIntent' /\ OneStart' /\ Known' /\ Purged' /\ ListedIsCurrent'
    BY <1>1, <2>8, <2>9, <2>10, OtherMoves
  <2>13. DeletedVmIsDown'
    BY <1>1, <2>8, StaysDown DEF HasManifest
  <2> QED BY <2>11, <2>12, <2>13 DEF VmInv, HelpersTracked
<1> QED BY <1>3, <1>4 DEF share_live
-----------------------------------------------------------------------------
(* The steps of a start.                                                   *)

LEMMA StartVmStep == ASSUME VmInv, NEW c \in Clis, start_vm(c) PROVE VmInv'
<1>1. VmTypes /\ VmAt(c, "start") /\ ~Launching(c) /\ UNCHANGED <<bundle, nic, helper, msgs, loose, restarts>>
  BY DEF start_vm, VmInv, Launching, VmAt
<1>2. nic' \in BOOLEAN
  BY <1>1 DEF VmTypes
<1>3. CASE (VmGoto(c, "err") \/ VmGoto(c, "ok")) /\ UNCHANGED sup
  BY <1>1, <1>2, <1>3, JustEnds
<1>4. CASE /\ ~sup.starting
           /\ sup' = [sup EXCEPT !.starting = TRUE]
           /\ cli' = [cli EXCEPT ![c].pc = "release", ![c].seen = {p \in Pids : Previous(p)}]
  <2> DEFINE s == {p \in Pids : Previous(p)}
  <2>1. s \in VmSeen /\ "release" \in VmPcs
    BY DEF VmSeen, VmPcs
  <2>2. cli' = [cli EXCEPT ![c].pc = "release", ![c].seen = s]
    BY <1>4
  <2>3. sup.proc # NoVm => sup.proc \in s
    BY <1>1 DEF VmTypes, VmSups, Previous
  <2> HIDE DEF s
  <2>4. CliMoves(c) /\ cli'[c].pc = "release" /\ cli'[c].seen = s
    BY ZenonT(40), <1>1, <2>1, <2>2, SeenMoves
  <2>5. sup \in VmSups
    BY <1>1 DEF VmTypes
  <2>6. sup' \in VmSups /\ sup'.starting = TRUE
    BY <1>4, <2>5 DEF VmSups
  <2>7. sup'.rec = sup.rec /\ sup'.proc = sup.proc
    BY <1>4, <2>5 DEF VmSups
  <2>8. \A d \in Clis : ~Launching(d) /\ (d # c => cli'[d] = cli[d])
    BY <1>4, <2>4 DEF VmInv, OneStart, CliMoves
  <2>9. VmTypes'
    BY <1>1, <1>2, <2>4, <2>6 DEF VmTypes, CliMoves
  <2>10. VmIntent'
    BY <2>4, <2>8 DEF VmInv, VmIntent, IntentOf
  <2>11. OneStart'
    <3>1. \A d \in Clis : Launching(d)' => d = c
      BY <2>8 DEF Launching
    <3>2. \A d \in Clis : (VmAt(d, "record") \/ VmAt(d, "claim") \/ VmAt(d, "release"))' => d = c
      BY <3>1 DEF Launching, VmAt
    <3> QED BY <2>3, <2>4, <2>6, <2>7, <3>1, <3>2 DEF OneStart, VmAt
  <2>12. Known'
    <3>1. \A d \in Clis : ~VmAt(d, "record")
      BY <2>8 DEF Launching, VmAt
    <3> QED BY <1>1, <2>7, <3>1 DEF VmInv, Known, Upcoming
  <2>13. Purged'
    BY <1>1, <2>4, <2>8 DEF VmInv, Purged, Deleting, Upcoming, VmAt
  <2>14. ListedIsCurrent' /\ DeletedVmIsDown'
    BY <1>1, <2>7 DEF VmInv, HelpersTracked, ListedIsCurrent, DeletedVmIsDown, HasManifest
  <2> QED BY <2>9, <2>10, <2>11, <2>12, <2>13, <2>14 DEF VmInv, HelpersTracked
<1> QED BY <1>1, <1>3, <1>4 DEF start_vm

\* The start that is under way is the only one.
LEMMA OnlyStart ==
  ASSUME VmInv, NEW c \in Clis, Launching(c)
  PROVE  \A d \in Clis : d # c => ~Launching(d)
BY DEF VmInv, OneStart

\* A helper that gets a new state.
LEMMA HelperSets ==
  ASSUME VmTypes, NEW p \in Pids, NEW h \in VmHelpers, helper' = [helper EXCEPT ![p] = h]
  PROVE  helper' \in [Pids -> VmHelpers] /\ helper'[p] = h /\ \A q \in Pids : q # p => helper'[q] = helper[q]
BY DEF VmTypes

LEMMA ReleaseStep == ASSUME VmInv, NEW c \in Clis, waitForRelease(c) PROVE VmInv'
<1>1. VmTypes /\ VmAt(c, "release") /\ Launching(c) /\ UNCHANGED <<bundle, nic, msgs, restarts>>
  BY DEF waitForRelease, VmInv, Launching, VmAt
<1>2. loose' = loose \cup {p \in NewPid : \E d \in Clis : Deleting(d)}
  BY DEF waitForRelease
<1>3. loose' \in SUBSET Pids /\ loose \subseteq loose'
  BY <1>1, <1>2 DEF NewPid, VmTypes
<1>4. sup \in VmSups /\ helper \in [Pids -> VmHelpers] /\ cli \in [Clis -> VmClis] /\ cli[c] \in VmClis
  BY <1>1 DEF VmTypes
<1>5. \A d \in Clis : d # c => ~Launching(d)
  BY <1>1, OnlyStart
<1>6. CASE VmGoto(c, "err") /\ sup' = [sup EXCEPT !.starting = FALSE] /\ UNCHANGED helper
  <2>1. CliMoves(c) /\ cli'[c].pc = "exit"
    BY <1>1, <1>6, GotoMoves
  <2>2. \A d \in Clis : d # c => cli'[d] = cli[d]
    BY <2>1 DEF CliMoves
  <2>3. sup' \in VmSups /\ sup'.rec = sup.rec /\ sup'.proc = sup.proc
    BY <1>4, <1>6 DEF VmSups
  <2>4. VmTypes'
    BY <1>1, <1>3, <1>6, <2>1, <2>3 DEF VmTypes, CliMoves
  <2>5. VmIntent'
    BY <2>1, <2>2 DEF VmInv, VmIntent, IntentOf
  <2>6. \A d \in Clis : ~Launching(d)'
    BY <1>5, <2>1, <2>2 DEF Launching
  <2>7. OneStart'
    BY <2>6 DEF OneStart, Launching, VmAt
  <2>8. \A d \in Clis : ~VmAt(d, "record")
    BY <1>1, <1>5 DEF Launching, VmAt
  <2>9. Known'
    BY <1>3, <1>6, <2>3, <2>8 DEF VmInv, Known, Upcoming
  <2>10. Purged'
    BY <1>3, <1>6, <2>1, <2>2 DEF VmInv, Purged, Deleting, Upcoming, VmAt
  <2>11. ListedIsCurrent' /\ DeletedVmIsDown'
    BY <1>1, <1>3, <1>6, <2>3 DEF VmInv, HelpersTracked, ListedIsCurrent, DeletedVmIsDown, HasManifest
  <2> QED BY <2>4, <2>5, <2>7, <2>9, <2>10, <2>11 DEF VmInv, HelpersTracked
<1>7. ASSUME \A p \in cli[c].seen : ~VmAlive(p), NEW p \in NewPid,
             helper' = [helper EXCEPT ![p].st = "spawned", ![p].child = TRUE],
             sup' = [sup EXCEPT !.rec = NoVm, !.proc = NoVm, !.expected = FALSE],
             cli' = [cli EXCEPT ![c].pc = "record", ![c].pid = p]
      PROVE  VmInv'
  <2>1. p \in Pids /\ helper[p] \in VmHelpers /\ helper[p].st = "unused"
    BY <1>4 DEF NewPid
  <2> DEFINE h == [helper[p] EXCEPT !.st = "spawned", !.child = TRUE]
             k == [cli[c] EXCEPT !.pc = "record", !.pid = p]
  <2>2. h \in VmHelpers /\ h.st = "spawned"
    BY <2>1 DEF VmHelpers, Live
  <2>3. k \in VmClis /\ k.pc = "record" /\ k.pid = p
    <3>1. p \in Nat /\ "record" \in VmPcs
      BY <2>1, VmAssumption DEF VmPcs, Pids
    <3> QED BY <1>4, <3>1 DEF VmClis
  <2>4. helper' = [helper EXCEPT ![p] = h] /\ cli' = [cli EXCEPT ![c] = k]
    BY <1>4, <1>7, <2>1
  <2> HIDE DEF h, k
  <2>5. helper' \in [Pids -> VmHelpers] /\ helper'[p].st = "spawned" /\ \A q \in Pids : q # p => helper'[q] = helper[q]
    BY <1>1, <2>1, <2>2, <2>4, HelperSets
  <2>6. cli' \in [Clis -> VmClis] /\ cli'[c].pc = "record" /\ cli'[c].pid = p /\ \A d \in Clis : d # c => cli'[d] = cli[d]
    BY <1>4, <2>3, <2>4
  <2>7. sup' \in VmSups /\ sup'.rec = NoVm /\ sup'.proc = NoVm
    BY <1>4, <1>7 DEF VmSups
  <2>8. sup'.starting = sup.starting
    BY <1>4, <1>7 DEF VmSups
  <2>9. VmTypes'
    BY <1>1, <1>3, <2>5, <2>6, <2>7 DEF VmTypes
  <2>10. VmIntent'
    BY <2>6 DEF VmInv, VmIntent, IntentOf
  <2>11. OneStart'
    <3>1. \A d \in Clis : Launching(d)' => d = c
      BY <1>5, <2>6 DEF Launching
    <3>2. sup.starting
      BY <1>1 DEF VmInv, OneStart
    <3>3. \A d \in Clis : (VmAt(d, "record") \/ VmAt(d, "claim") \/ VmAt(d, "release"))' => d = c
      BY <3>1 DEF Launching, VmAt
    <3> QED BY <2>1, <2>6, <2>7, <2>8, <3>1, <3>2, <3>3 DEF OneStart, VmAt
  <2>12. \A q \in Pids : Upcoming(q) => q \in loose
    <3> SUFFICES ASSUME NEW q \in Pids, Upcoming(q), q \notin loose PROVE FALSE
      OBVIOUS
    <3>1. \A d \in Clis : ~VmAt(d, "record")
      BY <1>1, <1>5 DEF Launching, VmAt
    <3>2. sup.proc = q
      BY <3>1 DEF VmInv, Known
    <3>3. q \in cli[c].seen
      <4>1. q # NoVm
        BY VmAssumption DEF Pids
      <4> QED BY <1>1, <3>2, <4>1 DEF VmInv, OneStart
    <3>4. VmAlive(q)
      BY DEF Upcoming, VmAlive, Live
    <3> QED BY <1>7, <3>3, <3>4
  <2>13. Known'
    <3> SUFFICES ASSUME NEW q \in Pids, Upcoming(q)', q \notin loose'
                 PROVE  \E d \in Clis : VmAt(d, "record")' /\ cli'[d].pid = q
      BY DEF Known
    <3>1. q = p
      BY <1>3, <2>5, <2>12 DEF Upcoming
    <3> QED BY <2>6, <3>1 DEF VmAt
  <2>14. Purged'
    <3> SUFFICES ASSUME NEW d \in Clis, NEW q \in Pids, Deleting(d)', Upcoming(q)' PROVE q \in loose'
      BY DEF Purged
    <3>1. Deleting(d)
      BY <2>6 DEF Deleting
    <3> QED BY <1>2, <1>3, <2>5, <2>12, <3>1 DEF Upcoming
  <2>15. ListedIsCurrent' /\ DeletedVmIsDown'
    BY <1>1, <1>3, <2>5, <2>7 DEF VmInv, HelpersTracked, ListedIsCurrent, DeletedVmIsDown, HasManifest
  <2> QED BY <2>9, <2>10, <2>11, <2>13, <2>14, <2>15 DEF VmInv, HelpersTracked
<1> QED BY <1>6, <1>7 DEF waitForRelease

LEMMA RecordStartStep == ASSUME VmInv, NEW c \in Clis, recordStart(c) PROVE VmInv'
<1> DEFINE q == cli[c].pid
           r == IF sup.rec # NoVm /\ sup.rec.pid = q THEN sup.rec ELSE Rec("starting", q)
<1>1. VmTypes /\ VmAt(c, "record") /\ Launching(c) /\ VmGoto(c, "claim") /\ UNCHANGED <<bundle, nic, helper, msgs, loose, restarts>>
  BY DEF recordStart, VmInv, Launching, VmAt
<1>2. \A d \in Clis : d # c => ~Launching(d)
  BY <1>1, OnlyStart
<1>3. q \in Pids /\ sup.starting /\ sup.proc = NoVm
  BY <1>1 DEF VmInv, OneStart
<1>4. sup \in VmSups
  BY <1>1 DEF VmTypes
<1>5. sup' = [sup EXCEPT !.proc = q, !.rec = r]
  BY <1>4 DEF recordStart, VmSups
<1>6. r \in VmRecs /\ r.pid = q
  BY <1>3, <1>4 DEF VmSups, Rec, VmRecs, Pids
<1> HIDE DEF q, r
<1>7. sup' \in VmSups /\ sup'.proc = q /\ sup'.rec = r
  BY <1>3, <1>4, <1>5, <1>6 DEF VmSups
<1>8. sup'.starting = sup.starting
  BY <1>4, <1>5 DEF VmSups
<1>9. CliMoves(c) /\ cli'[c].pc = "claim" /\ cli'[c].pid = q
  <2>1. "claim" \in VmPcs
    BY DEF VmPcs
  <2> QED BY <1>1, <2>1, GotoMoves DEF q
<1>10. \A d \in Clis : d # c => cli'[d] = cli[d]
  BY <1>9 DEF CliMoves
<1>11. VmTypes'
  BY <1>1, <1>7, <1>9 DEF VmTypes, CliMoves
<1>12. VmIntent'
  BY <1>9, <1>10 DEF VmInv, VmIntent, IntentOf
<1>13. OneStart'
  <2>1. \A d \in Clis : Launching(d)' => d = c
    BY <1>2, <1>10 DEF Launching
  <2>2. \A d \in Clis : (VmAt(d, "record") \/ VmAt(d, "claim") \/ VmAt(d, "release"))' => d = c
    BY <2>1 DEF Launching, VmAt
  <2> QED BY <1>3, <1>8, <1>9, <2>1, <2>2 DEF OneStart, VmAt
<1>14. Known'
  <2> SUFFICES ASSUME NEW p \in Pids, Upcoming(p)', p \notin loose' PROVE sup'.proc = p
    BY DEF Known
  <2>1. sup.proc = p \/ \E d \in Clis : VmAt(d, "record") /\ cli[d].pid = p
    BY <1>1 DEF VmInv, Known, Upcoming
  <2>2. p # NoVm
    BY VmAssumption DEF Pids
  <2>3. PICK d \in Clis : VmAt(d, "record") /\ cli[d].pid = p
    BY <1>3, <2>1, <2>2
  <2>4. d = c
    BY <1>2, <2>3 DEF VmAt, Launching
  <2> QED BY <1>7, <2>3, <2>4 DEF q
<1>15. Purged'
  BY <1>1, <1>9, <1>10 DEF VmInv, Purged, Deleting, Upcoming, VmAt
<1>16. ListedIsCurrent'
  <2>1. NoVm # r
    BY <1>6, VmAssumption
  <2> QED BY <1>6, <1>7, <2>1 DEF ListedIsCurrent
<1>17. DeletedVmIsDown'
  BY <1>1 DEF VmInv, HelpersTracked, DeletedVmIsDown, HasManifest
<1> QED BY <1>11, <1>12, <1>13, <1>14, <1>15, <1>16, <1>17 DEF VmInv, HelpersTracked

LEMMA ClaimStep == ASSUME VmInv, NEW c \in Clis, waitForClaim(c) PROVE VmInv'
<1> DEFINE q == cli[c].pid
<1>1. VmTypes /\ VmAt(c, "claim") /\ Launching(c) /\ UNCHANGED <<bundle, nic, msgs, loose, restarts>>
  BY DEF waitForClaim, VmInv, Launching, VmAt
<1>2. VmGoto(c, "ok") \/ VmGoto(c, "err")
  BY DEF waitForClaim
<1>3. CliMoves(c) /\ cli'[c].pc = "exit"
  BY <1>1, <1>2, GotoMoves
<1>4. \A d \in Clis : d # c => ~Launching(d) /\ cli'[d] = cli[d]
  BY <1>1, <1>3, OnlyStart DEF CliMoves
<1>5. q \in Pids
  BY <1>1 DEF VmInv, OneStart
<1>6. sup \in VmSups /\ helper \in [Pids -> VmHelpers] /\ helper[q] \in VmHelpers
  BY <1>1, <1>5 DEF VmTypes
<1>7. /\ sup' \in VmSups /\ sup'.proc = sup.proc
      /\ (sup.proc = q /\ sup'.rec = Rec("failed", q)) \/ sup'.rec = sup.rec
  <2>1. CASE sup' = [sup EXCEPT !.starting = FALSE]
    BY <1>6, <2>1 DEF VmSups
  <2>2. CASE sup' = [sup EXCEPT !.starting = FALSE, !.rec = IF sup.proc = q THEN Rec("failed", q) ELSE @]
    <3> DEFINE r == IF sup.proc = q THEN Rec("failed", q) ELSE sup.rec
    <3>1. r \in VmRecs \cup {NoVm} /\ ((sup.proc = q /\ r = Rec("failed", q)) \/ r = sup.rec)
      BY <1>5, <1>6 DEF VmSups, Rec, VmRecs, Pids
    <3>2. sup' = [sup EXCEPT !.starting = FALSE, !.rec = r]
      BY <1>6, <2>2 DEF VmSups
    <3> HIDE DEF r
    <3> QED BY <1>6, <3>1, <3>2 DEF VmSups
  <2> QED BY <2>1, <2>2 DEF waitForClaim
<1>8. /\ helper' \in [Pids -> VmHelpers]
      /\ \A p \in Pids : helper'[p].st = helper[p].st \/ helper'[p].st \in {"dead", "stopping"}
  <2>1. CASE UNCHANGED helper
    BY <1>6, <2>1
  <2>2. CASE helper' = [helper EXCEPT ![q].st = IF @ = "spawned" THEN "dead" ELSE IF @ \in Live THEN "stopping" ELSE @]
    <3> DEFINE s == IF helper[q].st = "spawned" THEN "dead" ELSE IF helper[q].st \in Live THEN "stopping" ELSE helper[q].st
    <3>1. helper' = [helper EXCEPT ![q] = [helper[q] EXCEPT !.st = s]]
      BY <1>6, <2>2
    <3>2. s \in {"unused", "dead"} \cup Live /\ (s = helper[q].st \/ s \in {"dead", "stopping"})
      BY <1>6 DEF VmHelpers, Live
    <3> HIDE DEF s
    <3> DEFINE h == [helper[q] EXCEPT !.st = s]
    <3>3. h \in VmHelpers /\ h.st = s
      BY <1>6, <3>2 DEF VmHelpers
    <3>4. helper' = [helper EXCEPT ![q] = h]
      BY <3>1
    <3> HIDE DEF h
    <3> QED BY <1>1, <1>5, <3>2, <3>3, <3>4, HelperSets
  <2> QED BY <2>1, <2>2 DEF waitForClaim
<1> HIDE DEF q
<1>9. VmTypes'
  BY <1>1, <1>3, <1>7, <1>8 DEF VmTypes, CliMoves
<1>10. VmIntent'
  BY <1>3, <1>4 DEF VmInv, VmIntent, IntentOf
<1>11. \A d \in Clis : ~Launching(d)'
  BY <1>3, <1>4 DEF Launching
<1>12. OneStart'
  BY <1>11 DEF OneStart, Launching, VmAt
<1>13. \A d \in Clis : ~VmAt(d, "record")
  BY <1>1, <1>4 DEF Launching, VmAt
<1>14. \A p \in Pids : Upcoming(p)' => Upcoming(p)
  BY <1>8 DEF Upcoming
<1>15. Known'
  BY <1>1, <1>7, <1>13, <1>14 DEF VmInv, Known
<1>16. Purged'
  BY <1>1, <1>3, <1>4, <1>14 DEF VmInv, Purged, Deleting, VmAt
<1>17. ListedIsCurrent'
  <2>1. Rec("failed", q).pid = q /\ (q \in Pids => Rec("failed", q) \in VmRecs)
    BY DEF Rec, VmRecs, Pids
  <2>2. Rec("failed", q) # NoVm
    BY <1>5, <2>1, VmAssumption DEF q
  <2> QED BY <1>7, <2>1, <2>2 DEF VmInv, HelpersTracked, ListedIsCurrent, q
<1>18. DeletedVmIsDown'
  BY <1>1, <1>8 DEF VmInv, HelpersTracked, DeletedVmIsDown, HasManifest
<1> QED BY <1>9, <1>10, <1>12, <1>15, <1>16, <1>17, <1>18 DEF VmInv, HelpersTracked
-----------------------------------------------------------------------------
(* Stop and delete.                                                        *)

\* A helper that is listed and may yet run is the one a stop or purge signals.
LEMMA ListedIsTarget ==
  ASSUME VmInv, NEW p \in Pids, Upcoming(p), sup.proc = p
  PROVE  p \in Target
<1>1. p # NoVm
  BY VmAssumption DEF Pids
<1>2. sup.rec # NoVm /\ sup.rec.pid = p
  BY <1>1 DEF VmInv, HelpersTracked, ListedIsCurrent
<1>3. VmAlive(p)
  BY DEF VmAlive, Upcoming, Live
<1> QED BY <1>2, <1>3 DEF Target

\* What vm.stop does to the tables and the helpers: nothing that may yet run
\* is among those it signals, and what it forgets it forgets whole.
LEMMA StopHelperFacts ==
  ASSUME VmInv, StopHelper
  PROVE  /\ sup' \in VmSups /\ sup'.starting = sup.starting
         /\ (sup'.rec = NoVm /\ sup'.proc = NoVm) \/ (sup'.rec = sup.rec /\ sup'.proc = sup.proc)
         /\ helper' \in [Pids -> VmHelpers]
         /\ \A p \in Pids : Upcoming(p)' => p \notin Target /\ Upcoming(p)
         /\ \A p \in Pids : helper'[p].st = "running" => helper[p].st = "running"
<1>1. sup \in VmSups /\ helper \in [Pids -> VmHelpers]
  BY DEF VmInv, VmTypes
<1>2. PICK forget \in BOOLEAN :
        sup' = [sup EXCEPT !.expected = @ \/ Target # {} \/ ~forget,
                           !.rec = IF forget THEN NoVm ELSE @, !.proc = IF forget THEN NoVm ELSE @]
  BY Zenon DEF StopHelper
<1> DEFINE ex == sup.expected \/ Target # {} \/ ~forget
           r == IF forget THEN NoVm ELSE sup.rec
           k == IF forget THEN NoVm ELSE sup.proc
<1>3. sup' = [sup EXCEPT !.expected = ex, !.rec = r, !.proc = k]
  BY <1>1, <1>2 DEF VmSups
<1>4. ex \in BOOLEAN /\ r \in VmRecs \cup {NoVm} /\ k \in Pids \cup {NoVm}
  BY <1>1 DEF VmSups
<1>5. (r = NoVm /\ k = NoVm) \/ (r = sup.rec /\ k = sup.proc)
  OBVIOUS
<1> HIDE DEF ex, r, k
<1>6. sup' \in VmSups /\ sup'.rec = r /\ sup'.proc = k
  BY <1>1, <1>3, <1>4 DEF VmSups
<1>7. sup'.starting = sup.starting
  BY <1>1, <1>3, <1>4 DEF VmSups
<1>8. \A p \in Pids : /\ helper'[p] \in VmHelpers
                      /\ p \in Target => helper'[p].st \in {"unused", "dead", "stopping"}
                      /\ p \notin Target => helper'[p] = helper[p]
  <2> SUFFICES ASSUME NEW p \in Pids
               PROVE  /\ helper'[p] \in VmHelpers
                      /\ p \in Target => helper'[p].st \in {"unused", "dead", "stopping"}
                      /\ p \notin Target => helper'[p] = helper[p]
    OBVIOUS
  <2>1. helper[p] \in VmHelpers
    BY <1>1
  <2>2. CASE p \notin Target
    BY <2>1, <2>2 DEF StopHelper
  <2>3. CASE p \in Target
    <3> DEFINE s == CASE helper[p].st = "spawned" -> "dead" [] helper[p].st \in {"booting", "running"} -> "stopping" [] OTHER -> helper[p].st
    <3>1. helper'[p] = [helper[p] EXCEPT !.st = s]
      BY <2>1, <2>3 DEF StopHelper
    <3>2. s \in {"unused", "dead", "stopping"}
      <4>1. helper[p].st \in {"unused", "dead", "spawned", "booting", "running", "stopping"}
        BY <2>1 DEF VmHelpers, Live
      <4>2. CASE helper[p].st = "spawned"
        BY <4>2
      <4>3. CASE helper[p].st \in {"booting", "running"}
        BY <4>3
      <4>4. CASE helper[p].st \in {"unused", "dead", "stopping"}
        BY <4>4
      <4> QED BY <4>1, <4>2, <4>3, <4>4
    <3> HIDE DEF s
    <3>3. [helper[p] EXCEPT !.st = s] \in VmHelpers /\ [helper[p] EXCEPT !.st = s].st = s
      BY <2>1, <3>2 DEF VmHelpers, Live
    <3> QED BY <2>3, <3>1, <3>2, <3>3
  <2> QED BY <2>2, <2>3
<1>9. helper' \in [Pids -> VmHelpers]
  <2>1. helper' = [p \in Pids |-> helper'[p]]
    BY DEF StopHelper
  <2> QED BY <1>8, <2>1
<1>10. \A p \in Pids : Upcoming(p)' => p \notin Target /\ Upcoming(p)
  BY <1>8 DEF Upcoming
<1>11. \A p \in Pids : helper'[p].st = "running" => helper[p].st = "running"
  BY <1>8
<1> QED BY <1>5, <1>6, <1>7, <1>9, <1>10, <1>11

\* A command that starts nothing: helpers only end, and the tables stay or
\* forget the VM. A helper that may yet run is then listed still, or it was
\* signalled, or it is loose.
LEMMA EndingStep ==
  ASSUME VmInv, NEW c \in Clis, CliMoves(c), ~Launching(c), cli'[c].pc \notin {"release", "record", "claim"},
         IntentOf(c)', sup' \in VmSups, sup'.starting = sup.starting,
         (sup'.rec = NoVm /\ sup'.proc = NoVm) \/ (sup'.rec = sup.rec /\ sup'.proc = sup.proc),
         helper' \in [Pids -> VmHelpers], nic' \in BOOLEAN, loose' \in SUBSET Pids, loose \subseteq loose',
         \A p \in Pids : Upcoming(p)' => Upcoming(p),
         \A p \in Pids : helper'[p].st = "running" => helper[p].st = "running",
         \A p \in Pids : (Upcoming(p)' /\ p \notin loose' /\ sup'.proc # p) => sup.proc # p,
         Deleting(c)' => \A p \in Pids : Upcoming(p)' => p \in loose',
         UNCHANGED <<bundle, msgs, restarts>>
  PROVE  VmInv'
<1>1. \A d \in Clis : d # c => cli'[d] = cli[d]
  BY DEF CliMoves
<1>2. VmTypes'
  BY DEF VmInv, VmTypes, CliMoves
<1>3. VmIntent'
  BY <1>1 DEF VmInv, VmIntent, IntentOf
<1>4. \A d \in Clis : Launching(d)' => d # c /\ Launching(d)
  BY <1>1 DEF Launching
<1>5. OneStart'
  BY <1>1, <1>4 DEF VmInv, OneStart, Launching, VmAt
<1>6. Known'
  <2> SUFFICES ASSUME NEW p \in Pids, Upcoming(p)', p \notin loose', sup'.proc # p
               PROVE  \E d \in Clis : VmAt(d, "record")' /\ cli'[d].pid = p
    BY DEF Known
  <2>1. PICK d \in Clis : VmAt(d, "record") /\ cli[d].pid = p
    BY DEF VmInv, Known
  <2>2. d # c
    BY <2>1 DEF VmAt, Launching
  <2> QED BY <1>1, <2>1, <2>2 DEF VmAt
<1>7. Purged'
  <2> SUFFICES ASSUME NEW d \in Clis, NEW p \in Pids, Deleting(d)', Upcoming(p)' PROVE p \in loose'
    BY DEF Purged
  <2>1. CASE d = c
    BY <2>1
  <2>2. CASE d # c
    BY <1>1, <2>2 DEF VmInv, Purged, Deleting
  <2> QED BY <2>1, <2>2
<1>8. ListedIsCurrent'
  BY DEF VmInv, HelpersTracked, ListedIsCurrent
<1>9. DeletedVmIsDown'
  BY StaysDown DEF HasManifest
<1> QED BY <1>2, <1>3, <1>5, <1>6, <1>7, <1>8, <1>9 DEF VmInv, HelpersTracked

\* Whatever was listed and may yet run was signalled by vm.stop.
LEMMA StopForgets ==
  ASSUME VmInv, StopHelper
  PROVE  \A p \in Pids : Upcoming(p)' => sup.proc # p
BY StopHelperFacts, ListedIsTarget

LEMMA StopVmStep == ASSUME VmInv, NEW c \in Clis, stop_vm(c) PROVE VmInv'
<1>1. VmTypes /\ StopHelper /\ ~Launching(c) /\ VmGoto(c, "wait") /\ UNCHANGED <<bundle, nic, msgs, loose, restarts>>
  BY DEF stop_vm, VmInv, Launching, VmAt
<1>2. CliMoves(c) /\ cli'[c].pc = "wait"
  <2>1. "wait" \in VmPcs
    BY DEF VmPcs
  <2> QED BY <1>1, <2>1, GotoMoves
<1>3. IntentOf(c)' /\ ~Deleting(c)'
  BY <1>2 DEF IntentOf, Deleting
<1>4. nic' \in BOOLEAN /\ loose' \in SUBSET Pids /\ loose \subseteq loose'
  BY <1>1 DEF VmTypes
<1>5. /\ sup' \in VmSups /\ sup'.starting = sup.starting
      /\ (sup'.rec = NoVm /\ sup'.proc = NoVm) \/ (sup'.rec = sup.rec /\ sup'.proc = sup.proc)
      /\ helper' \in [Pids -> VmHelpers]
  BY <1>1, StopHelperFacts
<1>6. /\ \A p \in Pids : Upcoming(p)' => Upcoming(p)
      /\ \A p \in Pids : helper'[p].st = "running" => helper[p].st = "running"
      /\ \A p \in Pids : Upcoming(p)' => sup.proc # p
  BY <1>1, StopHelperFacts, StopForgets
<1> QED BY <1>1, <1>2, <1>3, <1>4, <1>5, <1>6, EndingStep

\* What no start is about to list and may yet run is signalled.
LEMMA SignalledOrLoose ==
  ASSUME VmInv, NEW p \in Pids, Upcoming(p), p \notin Target, loose' = loose \cup Unlisted
  PROVE  p \in loose'
<1> SUFFICES ASSUME p \notin loose' PROVE FALSE
  OBVIOUS
<1>1. ~sup.starting /\ p \notin loose
  BY DEF Unlisted, Upcoming, Live
<1>2. \A d \in Clis : ~VmAt(d, "record")
  BY <1>1 DEF VmInv, OneStart, Launching, VmAt
<1>3. sup.proc = p
  BY <1>1, <1>2 DEF VmInv, Known
<1> QED BY <1>3, ListedIsTarget

LEMMA PurgeStep == ASSUME VmInv, NEW c \in Clis, vm_purge(c) PROVE VmInv'
<1>1. VmTypes /\ VmAt(c, "delete") /\ ~Launching(c) /\ UNCHANGED <<bundle, msgs, restarts>>
  BY DEF vm_purge, VmInv, Launching, VmAt
<1>2. "remove" \in VmPcs /\ "halt" \in VmPcs
  BY DEF VmPcs
<1>3. CASE VmGoto(c, "err") /\ UNCHANGED <<sup, helper, nic, loose>>
  <2>1. nic' \in BOOLEAN
    BY <1>1, <1>3 DEF VmTypes
  <2> QED BY <1>1, <1>3, <2>1, JustEnds
<1>4. CASE VmGoto(c, "halt") /\ UNCHANGED <<sup, helper, nic, loose>>
  <2>1. CliMoves(c) /\ cli'[c].pc = "halt"
    BY <1>1, <1>2, <1>4, GotoMoves
  <2>2. IntentOf(c)'
    BY <2>1 DEF IntentOf
  <2>3. bundle' \in VmManifests \cup {NoVm, TornVm} /\ nic' \in BOOLEAN /\ (HasManifest => HasManifest')
    BY <1>1, <1>4 DEF VmTypes, HasManifest
  <2> QED BY <1>1, <1>4, <2>1, <2>2, <2>3, QuietStep
<1>5. CASE /\ helper' = [p \in Pids |-> IF p \in Target /\ VmAlive(p) THEN [helper[p] EXCEPT !.st = "dead"] ELSE helper[p]]
           /\ sup' = [sup EXCEPT !.rec = NoVm, !.proc = NoVm, !.expected = @ \/ Target # {}]
           /\ loose' = loose \cup Unlisted
           /\ nic' \in {nic, FALSE} /\ (VmGoto(c, "remove") \/ VmGoto(c, "halt") \/ VmGoto(c, "err"))
  <2>1. CliMoves(c) /\ cli'[c].pc \in {"remove", "halt", "exit"}
    BY <1>1, <1>2, <1>5, GotoMoves
  <2>2. sup \in VmSups /\ helper \in [Pids -> VmHelpers]
    BY <1>1 DEF VmTypes
  <2> DEFINE ex == sup.expected \/ Target # {}
  <2>3. sup' = [sup EXCEPT !.rec = NoVm, !.proc = NoVm, !.expected = ex] /\ ex \in BOOLEAN
    BY <1>5, <2>2 DEF VmSups
  <2> HIDE DEF ex
  <2>4. sup' \in VmSups /\ sup'.rec = NoVm /\ sup'.proc = NoVm
    BY <2>2, <2>3 DEF VmSups
  <2>5. sup'.starting = sup.starting
    BY <2>2, <2>3 DEF VmSups
  <2>6. \A p \in Pids : /\ helper'[p] \in VmHelpers
                        /\ helper'[p].st = helper[p].st \/ helper'[p].st = "dead"
                        /\ p \in Target /\ VmAlive(p) => helper'[p].st = "dead"
    <3> SUFFICES ASSUME NEW p \in Pids
                 PROVE  /\ helper'[p] \in VmHelpers
                        /\ helper'[p].st = helper[p].st \/ helper'[p].st = "dead"
                        /\ p \in Target /\ VmAlive(p) => helper'[p].st = "dead"
      OBVIOUS
    <3>1. helper[p] \in VmHelpers
      BY <2>2
    <3> DEFINE h == [helper[p] EXCEPT !.st = "dead"]
    <3>2. h \in VmHelpers /\ h.st = "dead"
      BY <3>1 DEF VmHelpers
    <3>3. helper'[p] = IF p \in Target /\ VmAlive(p) THEN h ELSE helper[p]
      BY <1>5
    <3> HIDE DEF h
    <3> QED BY <3>1, <3>2, <3>3
  <2>7. helper' \in [Pids -> VmHelpers]
    <3>1. helper' = [p \in Pids |-> helper'[p]]
      BY <1>5
    <3> QED BY <2>6, <3>1
  <2>8. loose' \in SUBSET Pids /\ loose \subseteq loose' /\ nic' \in BOOLEAN
    BY <1>1, <1>5 DEF VmTypes, Unlisted
  <2>9. \A p \in Pids : Upcoming(p)' => Upcoming(p) /\ VmAlive(p) /\ p \notin Target
    BY <2>6 DEF Upcoming, VmAlive, Live
  <2>10. \A p \in Pids : Upcoming(p)' => p \in loose'
    BY <1>5, <2>9, SignalledOrLoose
  <2>11. \A p \in Pids : helper'[p].st = "running" => helper[p].st = "running"
    BY <2>6
  <2>12. IntentOf(c)'
    BY <2>1 DEF IntentOf
  <2> QED BY <1>1, <2>1, <2>4, <2>5, <2>7, <2>8, <2>9, <2>10, <2>11, <2>12, EndingStep
<1> QED BY <1>3, <1>4, <1>5 DEF vm_purge

LEMMA HaltStep == ASSUME VmInv, NEW c \in Clis, halt_vm(c) PROVE VmInv'
<1>1. VmTypes /\ ~Launching(c) /\ VmGoto(c, "drain") /\ UNCHANGED <<bundle, nic, msgs, restarts>>
  BY DEF halt_vm, VmInv, Launching, VmAt
<1>2. CliMoves(c) /\ cli'[c].pc = "drain"
  <2>1. "drain" \in VmPcs
    BY DEF VmPcs
  <2> QED BY <1>1, <2>1, GotoMoves
<1>3. IntentOf(c)' /\ nic' \in BOOLEAN
  BY <1>1, <1>2 DEF IntentOf, VmTypes
<1>4. CASE StopHelper /\ loose' = loose \cup Unlisted
  <2>1. loose' \in SUBSET Pids /\ loose \subseteq loose'
    BY <1>1, <1>4 DEF VmTypes, Unlisted
  <2>2. /\ sup' \in VmSups /\ sup'.starting = sup.starting
        /\ (sup'.rec = NoVm /\ sup'.proc = NoVm) \/ (sup'.rec = sup.rec /\ sup'.proc = sup.proc)
        /\ helper' \in [Pids -> VmHelpers]
    BY <1>4, StopHelperFacts
  <2>3. /\ \A p \in Pids : Upcoming(p)' => p \notin Target /\ Upcoming(p)
        /\ \A p \in Pids : helper'[p].st = "running" => helper[p].st = "running"
    BY <1>4, StopHelperFacts
  <2>4. \A p \in Pids : Upcoming(p)' => p \in loose'
    BY <1>4, <2>3, SignalledOrLoose
  <2> QED BY <1>1, <1>2, <1>3, <2>1, <2>2, <2>3, <2>4, EndingStep
<1>5. CASE loose' = loose \cup {p \in Pids : helper[p].st \in Live} /\ UNCHANGED <<sup, helper>>
  <2>1. loose' \in SUBSET Pids /\ loose \subseteq loose'
    BY <1>1, <1>5 DEF VmTypes
  <2>2. /\ sup' \in VmSups /\ sup'.starting = sup.starting /\ sup'.rec = sup.rec /\ sup'.proc = sup.proc
        /\ helper' \in [Pids -> VmHelpers]
    BY <1>1, <1>5 DEF VmTypes
  <2>3. \A p \in Pids : (Upcoming(p)' => Upcoming(p)) /\ (helper'[p].st = "running" => helper[p].st = "running")
    BY <1>5 DEF Upcoming
  <2>4. \A p \in Pids : Upcoming(p)' => p \in loose'
    BY <1>5 DEF Upcoming, Live
  <2> QED BY <1>1, <1>2, <1>3, <2>1, <2>2, <2>3, <2>4, EndingStep
<1> QED BY <1>4, <1>5 DEF halt_vm

\* The rest of the fallback leaves the helpers alone.
LEMMA FallbackStep == ASSUME VmInv, NEW c \in Clis, drain_vm(c) \/ detach_vm(c) PROVE VmInv'
<1>1. VmTypes /\ ~Launching(c) /\ Deleting(c) /\ UNCHANGED <<bundle, sup, helper, msgs, loose, restarts>>
  BY DEF drain_vm, detach_vm, VmInv, Launching, Deleting, VmAt
<1>2. (VmGoto(c, "detach") \/ VmGoto(c, "remove")) /\ nic' \in {nic, FALSE}
  BY DEF drain_vm, detach_vm
<1>3. CliMoves(c) /\ cli'[c].pc \in {"detach", "remove"}
  <2>1. "detach" \in VmPcs /\ "remove" \in VmPcs
    BY DEF VmPcs
  <2> QED BY <1>1, <1>2, <2>1, GotoMoves
<1>4. IntentOf(c)'
  BY <1>3 DEF IntentOf
<1>5. bundle' \in VmManifests \cup {NoVm, TornVm} /\ nic' \in BOOLEAN /\ (HasManifest => HasManifest')
  BY <1>1, <1>2 DEF VmTypes, HasManifest
<1> QED BY <1>1, <1>3, <1>4, <1>5, QuietStep

LEMMA DeleteVmStep == ASSUME VmInv, NEW c \in Clis, delete_vm(c) PROVE VmInv'
<1>1. VmTypes /\ VmAt(c, "remove") /\ ~Launching(c) /\ UNCHANGED <<nic, sup, helper, msgs, loose, restarts>>
  BY DEF delete_vm, VmInv, Launching, VmAt
<1>2. VmGoto(c, "ok") \/ VmGoto(c, "err")
  BY DEF delete_vm
<1>3. CliMoves(c) /\ cli'[c].pc = "exit"
  BY <1>1, <1>2, GotoMoves
<1>4. IntentOf(c)'
  BY <1>3 DEF IntentOf
<1>5. bundle' \in {NoVm, TornVm}
  BY DEF delete_vm
<1>6. VmTypes'
  BY <1>1, <1>3, <1>5 DEF VmTypes, CliMoves
<1>7. VmIntent' /\ OneStart' /\ Known' /\ Purged' /\ ListedIsCurrent'
  BY <1>1, <1>3, <1>4, OtherMoves
<1>8. DeletedVmIsDown'
  BY <1>1 DEF VmInv, Purged, Deleting, VmAt, DeletedVmIsDown, Upcoming
<1> QED BY <1>6, <1>7, <1>8 DEF VmInv, HelpersTracked
-----------------------------------------------------------------------------
(* The helper processes and the control plane.                             *)

\* A step of a helper that starts nothing and changes no table.
LEMMA HelperMoves ==
  ASSUME VmInv, helper' \in [Pids -> VmHelpers], \A p \in Pids : Upcoming(p)' => Upcoming(p),
         msgs' \in SUBSET VmRecs,
         \A p \in Pids : helper'[p].st = "running" => helper[p].st = "running" \/ HasManifest,
         UNCHANGED <<bundle, nic, sup, cli, loose, restarts>>
  PROVE  VmInv'
<1>1. VmTypes'
  BY DEF VmInv, VmTypes
<1>2. VmIntent'
  BY DEF VmInv, VmIntent, IntentOf
<1>3. OneStart'
  BY DEF VmInv, OneStart, Launching, VmAt
<1>4. Known' /\ Purged'
  BY DEF VmInv, Known, Purged, Deleting, VmAt
<1>5. ListedIsCurrent' /\ DeletedVmIsDown'
  BY DEF VmInv, HelpersTracked, ListedIsCurrent, DeletedVmIsDown, HasManifest
<1> QED BY <1>1, <1>2, <1>3, <1>4, <1>5 DEF VmInv, HelpersTracked

LEMMA SayTypes ==
  ASSUME VmTypes, NEW p \in Pids, NEW st \in {"starting", "running", "stopped", "failed"}, Say(p, st)
  PROVE  msgs' \in SUBSET VmRecs
<1>1. Rec(st, p) \in VmRecs
  BY DEF Rec, VmRecs, Pids
<1> QED BY <1>1 DEF Say, VmTypes

\* A helper takes a new state and serves new shares.
LEMMA HelperTakes ==
  ASSUME VmTypes, NEW p \in Pids, NEW st \in {"unused", "dead"} \cup Live, NEW live \in SUBSET VmMounts,
         \/ helper' = [helper EXCEPT ![p].st = st, ![p].live = live]
         \/ helper' = [helper EXCEPT ![p].st = st]
  PROVE  helper' \in [Pids -> VmHelpers] /\ helper'[p].st = st /\ \A q \in Pids : q # p => helper'[q] = helper[q]
<1>1. helper \in [Pids -> VmHelpers] /\ helper[p] \in VmHelpers
  BY DEF VmTypes
<1>2. [helper[p] EXCEPT !.st = st, !.live = live] \in VmHelpers /\ [helper[p] EXCEPT !.st = st, !.live = live].st = st
  BY <1>1 DEF VmHelpers
<1>3. [helper[p] EXCEPT !.st = st] \in VmHelpers /\ [helper[p] EXCEPT !.st = st].st = st
  BY <1>1 DEF VmHelpers
<1>4. \/ helper' = [helper EXCEPT ![p] = [helper[p] EXCEPT !.st = st, !.live = live]]
      \/ helper' = [helper EXCEPT ![p] = [helper[p] EXCEPT !.st = st]]
  BY <1>1
<1> QED BY <1>2, <1>3, <1>4, HelperSets

LEMMA HelperClaimStep == ASSUME VmInv, NEW p \in Pids, HelperClaim(p) PROVE VmInv'
<1>1. VmTypes /\ helper[p].st = "spawned" /\ UNCHANGED <<bundle, nic, sup, cli, loose, restarts>>
  BY DEF HelperClaim, VmInv
<1>2. "booting" \in {"unused", "dead"} \cup Live /\ "dead" \in {"unused", "dead"} \cup Live /\ {} \in SUBSET VmMounts
  BY DEF Live
<1>3. CASE helper' = [helper EXCEPT ![p].st = "booting"] /\ Say(p, "starting")
  <2>1. helper' \in [Pids -> VmHelpers] /\ helper'[p].st = "booting" /\ \A q \in Pids : q # p => helper'[q] = helper[q]
    BY <1>1, <1>2, <1>3, HelperTakes
  <2>2. \A q \in Pids : (Upcoming(q)' => Upcoming(q)) /\ (helper'[q].st = "running" => helper[q].st = "running")
    BY <1>1, <2>1 DEF Upcoming
  <2>3. msgs' \in SUBSET VmRecs
    BY <1>1, <1>3, SayTypes
  <2> QED BY <1>1, <2>1, <2>2, <2>3, HelperMoves
<1>4. CASE helper' = [helper EXCEPT ![p].st = "dead"] /\ UNCHANGED msgs
  <2>1. helper' \in [Pids -> VmHelpers] /\ helper'[p].st = "dead" /\ \A q \in Pids : q # p => helper'[q] = helper[q]
    BY <1>1, <1>2, <1>4, HelperTakes
  <2>2. \A q \in Pids : (Upcoming(q)' => Upcoming(q)) /\ (helper'[q].st = "running" => helper[q].st = "running")
    BY <2>1 DEF Upcoming
  <2>3. msgs' \in SUBSET VmRecs
    BY <1>1, <1>4 DEF VmTypes
  <2> QED BY <1>1, <2>1, <2>2, <2>3, HelperMoves
<1> QED BY <1>3, <1>4 DEF HelperClaim

LEMMA HelperBootStep == ASSUME VmInv, NEW p \in Pids, HelperBoot(p) PROVE VmInv'
<1>1. VmTypes /\ helper[p].st = "booting" /\ UNCHANGED <<bundle, nic, sup, cli, loose, restarts>>
  BY DEF HelperBoot, VmInv
<1>2. "running" \in {"unused", "dead"} \cup Live /\ "dead" \in {"unused", "dead"} \cup Live /\ {} \in SUBSET VmMounts
  BY DEF Live
<1>3. CASE HasManifest /\ helper' = [helper EXCEPT ![p].st = "running", ![p].live = bundle.mounts] /\ Say(p, "running")
  <2>1. bundle.mounts \in SUBSET VmMounts
    <3>1. bundle \in VmManifests
      BY <1>1, <1>3 DEF VmTypes, HasManifest
    <3> QED BY <3>1 DEF VmManifests
  <2>2. helper' \in [Pids -> VmHelpers] /\ helper'[p].st = "running" /\ \A q \in Pids : q # p => helper'[q] = helper[q]
    BY <1>1, <1>2, <1>3, <2>1, HelperTakes
  <2>3. \A q \in Pids : Upcoming(q)' => Upcoming(q)
    BY <1>1, <2>2 DEF Upcoming
  <2>4. msgs' \in SUBSET VmRecs
    BY <1>1, <1>3, SayTypes
  <2> QED BY <1>1, <1>3, <2>2, <2>3, <2>4, HelperMoves
<1>4. CASE helper' = [helper EXCEPT ![p].st = "dead"] /\ UNCHANGED msgs
  <2>1. helper' \in [Pids -> VmHelpers] /\ helper'[p].st = "dead" /\ \A q \in Pids : q # p => helper'[q] = helper[q]
    BY <1>1, <1>2, <1>4, HelperTakes
  <2>2. \A q \in Pids : (Upcoming(q)' => Upcoming(q)) /\ (helper'[q].st = "running" => helper[q].st = "running")
    BY <2>1 DEF Upcoming
  <2>3. msgs' \in SUBSET VmRecs
    BY <1>1, <1>4 DEF VmTypes
  <2> QED BY <1>1, <2>1, <2>2, <2>3, HelperMoves
<1> QED BY <1>3, <1>4 DEF HelperBoot

LEMMA HelperHeartbeatStep == ASSUME VmInv, NEW p \in Pids, HelperHeartbeat(p) PROVE VmInv'
<1>1. VmTypes /\ Say(p, "running") /\ UNCHANGED <<bundle, nic, sup, helper, cli, loose, restarts>>
  BY DEF HelperHeartbeat, VmInv
<1>2. msgs' \in SUBSET VmRecs
  BY <1>1, SayTypes
<1>3. helper' \in [Pids -> VmHelpers]
  BY <1>1 DEF VmTypes
<1>4. \A q \in Pids : (Upcoming(q)' => Upcoming(q)) /\ (helper'[q].st = "running" => helper[q].st = "running")
  BY <1>1 DEF Upcoming
<1> QED BY <1>1, <1>2, <1>3, <1>4, HelperMoves

LEMMA HelperExitStep == ASSUME VmInv, NEW p \in Pids, HelperExit(p) PROVE VmInv'
<1>1. VmTypes /\ helper' = [helper EXCEPT ![p].st = "dead", ![p].live = {}] /\ UNCHANGED <<bundle, nic, sup, cli, loose, restarts>>
  BY DEF HelperExit, VmInv
<1>2. msgs' \in SUBSET VmRecs
  BY <1>1, SayTypes DEF HelperExit
<1>3. helper' \in [Pids -> VmHelpers] /\ helper'[p].st = "dead" /\ \A q \in Pids : q # p => helper'[q] = helper[q]
  <2>1. "dead" \in {"unused", "dead"} \cup Live /\ {} \in SUBSET VmMounts
    OBVIOUS
  <2> QED BY <1>1, <2>1, HelperTakes
<1>4. \A q \in Pids : (Upcoming(q)' => Upcoming(q)) /\ (helper'[q].st = "running" => helper[q].st = "running")
  BY <1>3 DEF Upcoming
<1> QED BY <1>1, <1>2, <1>3, <1>4, HelperMoves

\* A report changes the listed state and never the process.
LEMMA HelperStateStep == ASSUME VmInv, NEW r \in msgs, helper_state(r) PROVE VmInv'
<1>1. VmTypes /\ UNCHANGED <<bundle, nic, helper, cli, loose, restarts>> /\ msgs' = msgs \ {r}
  BY DEF helper_state, VmInv
<1>2. r \in VmRecs /\ msgs' \in SUBSET VmRecs /\ sup \in VmSups
  BY <1>1 DEF VmTypes
<1>3. \/ sup' = sup
      \/ (sup.proc # NoVm => sup.proc = r.pid) /\ sup' = [sup EXCEPT !.rec = r]
  BY DEF helper_state
<1>4. sup' \in VmSups /\ sup'.proc = sup.proc /\ (sup'.rec = sup.rec \/ ((sup.proc # NoVm => sup.proc = r.pid) /\ sup'.rec = r))
  BY <1>2, <1>3 DEF VmSups
<1>5. sup'.starting = sup.starting
  BY <1>2, <1>3 DEF VmSups
<1>6. VmTypes'
  BY <1>1, <1>2, <1>4 DEF VmTypes
<1>7. VmIntent'
  BY <1>1 DEF VmInv, VmIntent, IntentOf
<1>8. OneStart'
  BY <1>1, <1>4, <1>5 DEF VmInv, OneStart, Launching, VmAt
<1>9. Known' /\ Purged'
  BY <1>1, <1>4 DEF VmInv, Known, Purged, Deleting, Upcoming, VmAt
<1>10. ListedIsCurrent'
  BY <1>2, <1>4, VmAssumption DEF VmInv, HelpersTracked, ListedIsCurrent
<1>11. DeletedVmIsDown'
  BY <1>1 DEF VmInv, HelpersTracked, DeletedVmIsDown, HasManifest
<1> QED BY <1>6, <1>7, <1>8, <1>9, <1>10, <1>11 DEF VmInv, HelpersTracked

LEMMA HelperTerminatedStep == ASSUME VmInv, NEW p \in Pids, helperTerminated(p) PROVE VmInv'
<1>1. VmTypes /\ helper[p].st = "dead" /\ helper' = [helper EXCEPT ![p].child = FALSE] /\ UNCHANGED <<bundle, nic, msgs, cli, loose, restarts>>
  BY DEF helperTerminated, VmInv
<1>2. sup \in VmSups /\ helper \in [Pids -> VmHelpers] /\ helper[p] \in VmHelpers
  BY <1>1 DEF VmTypes
<1>3. helper' \in [Pids -> VmHelpers] /\ \A q \in Pids : helper'[q].st = helper[q].st
  <2> DEFINE h == [helper[p] EXCEPT !.child = FALSE]
  <2>1. h \in VmHelpers /\ h.st = helper[p].st
    BY <1>2 DEF VmHelpers
  <2>2. helper' = [helper EXCEPT ![p] = h]
    BY <1>1, <1>2
  <2> HIDE DEF h
  <2> QED BY <1>1, <2>1, <2>2, HelperSets
<1>4. \/ sup' \in VmSups /\ sup'.proc = NoVm /\ sup.proc = p
      \/ sup' = sup
  <2>1. PICK st \in {"stopped", "failed"} :
          sup' = IF sup.proc # p THEN sup
                 ELSE [sup EXCEPT !.proc = NoVm, !.expected = FALSE,
                         !.rec = IF sup.expected \/ st = "stopped" THEN NoVm ELSE Rec("failed", p)]
    BY DEF helperTerminated
  <2> DEFINE r == IF sup.expected \/ st = "stopped" THEN NoVm ELSE Rec("failed", p)
  <2>2. r \in VmRecs \cup {NoVm}
    BY DEF Rec, VmRecs, Pids
  <2>3. sup' = sup \/ (sup.proc = p /\ sup' = [sup EXCEPT !.proc = NoVm, !.expected = FALSE, !.rec = r])
    BY <2>1
  <2> HIDE DEF r
  <2> QED BY <1>2, <2>2, <2>3 DEF VmSups
<1>5. sup'.starting = sup.starting
  <2>1. PICK r : sup' = sup \/ sup' = [sup EXCEPT !.proc = NoVm, !.expected = FALSE, !.rec = r]
    BY DEF helperTerminated
  <2> QED BY <1>2, <2>1 DEF VmSups
<1>6. VmTypes'
  BY <1>1, <1>2, <1>3, <1>4 DEF VmTypes
<1>7. VmIntent'
  BY <1>1 DEF VmInv, VmIntent, IntentOf
<1>8. OneStart'
  BY <1>1, <1>4, <1>5 DEF VmInv, OneStart, Launching, VmAt
<1>9. Known'
  <2>1. \A q \in Pids : Upcoming(q)' => Upcoming(q) /\ q # p
    BY <1>1, <1>3 DEF Upcoming
  <2>2. \A q \in Pids : q # p /\ sup.proc = q => sup' = sup
    BY <1>4
  <2> QED BY <1>1, <2>1, <2>2 DEF VmInv, Known, VmAt
<1>10. Purged'
  BY <1>1, <1>3 DEF VmInv, Purged, Deleting, Upcoming, VmAt
<1>11. ListedIsCurrent' /\ DeletedVmIsDown'
  BY <1>1, <1>3, <1>4 DEF VmInv, HelpersTracked, ListedIsCurrent, DeletedVmIsDown, HasManifest
<1> QED BY <1>6, <1>7, <1>8, <1>9, <1>10, <1>11 DEF VmInv, HelpersTracked

LEMMA SupervisorRestartStep == ASSUME VmInv, SupervisorRestart PROVE VmInv'
<1>1. VmTypes /\ UNCHANGED <<bundle, nic>> /\ msgs' = {} /\ restarts' = restarts + 1
  BY DEF SupervisorRestart, VmInv
<1>2. sup' \in VmSups /\ sup'.proc = NoVm
  BY DEF SupervisorRestart, VmSups
<1>3. loose' = loose \cup {p \in Pids : helper[p].st \in Live} /\ loose' \in SUBSET Pids
  BY <1>1 DEF SupervisorRestart, VmTypes
<1>4. helper' \in [Pids -> VmHelpers] /\ \A p \in Pids : helper'[p].st = helper[p].st
  <2>1. \A p \in Pids : helper[p] \in VmHelpers
    BY <1>1 DEF VmTypes
  <2>2. \A p \in Pids : [helper[p] EXCEPT !.child = FALSE] \in VmHelpers /\ [helper[p] EXCEPT !.child = FALSE].st = helper[p].st
    BY <2>1 DEF VmHelpers
  <2>3. helper' = [p \in Pids |-> [helper[p] EXCEPT !.child = FALSE]]
    BY DEF SupervisorRestart
  <2> QED BY <2>2, <2>3
<1>5. CliEnds \in VmClis /\ CliEnds.pc = "exit"
  <2>1. CliEnds = [op |-> NoVm, pc |-> "exit", seen |-> {}, pid |-> 0]
    BY DEF CliEnds, CliOff
  <2>2. {} \in VmSeen /\ "exit" \in VmPcs
    BY DEF VmSeen, VmPcs
  <2> QED BY <2>1, <2>2 DEF VmClis
<1>6. /\ cli' \in [Clis -> VmClis]
      /\ \A c \in Clis : cli'[c].pc = "exit" \/ (cli'[c] = cli[c] /\ ~Launching(c))
  <2>1. cli' = [c \in Clis |-> IF cli[c].pc \in {"release", "record", "claim"} THEN CliEnds ELSE cli[c]]
    BY DEF SupervisorRestart
  <2>2. \A c \in Clis : cli[c] \in VmClis
    BY <1>1 DEF VmTypes
  <2> QED BY <1>5, <2>1, <2>2 DEF Launching
<1>7. VmTypes'
  BY <1>1, <1>2, <1>3, <1>4, <1>6 DEF VmTypes
<1>8. VmIntent'
  BY <1>6 DEF VmInv, VmIntent, IntentOf
<1>9. OneStart'
  BY <1>6 DEF OneStart, Launching, VmAt
<1>10. \A p \in Pids : Upcoming(p)' => p \in loose'
  BY <1>3, <1>4 DEF Upcoming, Live
<1>11. Known' /\ Purged' /\ DeletedVmIsDown'
  BY <1>10 DEF Known, Purged, Deleting, DeletedVmIsDown, Upcoming
<1>12. ListedIsCurrent'
  BY <1>2 DEF ListedIsCurrent
<1> QED BY <1>7, <1>8, <1>9, <1>11, <1>12 DEF VmInv, HelpersTracked

LEMMA VmInitInv == VmInit => VmInv
<1> SUFFICES ASSUME VmInit PROVE VmInv
  OBVIOUS
<1>1. VmTypes
  <2>1. [res |-> 1, mounts |-> {}] \in VmManifests
    BY DEF VmManifests, VmSizes
  <2>2. bundle \in VmManifests \cup {NoVm, TornVm} /\ nic \in BOOLEAN /\ msgs \in SUBSET VmRecs /\ loose \in SUBSET Pids /\ restarts \in Nat
    BY <2>1 DEF VmInit
  <2>3. sup \in VmSups
    BY DEF VmInit, VmSups
  <2>4. helper \in [Pids -> VmHelpers]
    <3>1. [st |-> "unused", live |-> {}, child |-> FALSE] \in VmHelpers
      BY DEF VmHelpers
    <3> QED BY <3>1 DEF VmInit
  <2>5. cli \in [Clis -> VmClis]
    <3>1. {} \in VmSeen /\ "off" \in VmPcs
      BY DEF VmSeen, VmPcs
    <3>2. CliOff \in VmClis
      BY <3>1 DEF CliOff, VmClis
    <3> QED BY <3>2 DEF VmInit
  <2> QED BY <2>2, <2>3, <2>4, <2>5 DEF VmTypes
<1>2. \A c \in Clis : cli[c].pc = "off"
  BY DEF VmInit, CliOff
<1>3. \A p \in Pids : helper[p].st = "unused"
  BY DEF VmInit
<1>4. VmIntent /\ OneStart /\ Purged
  BY <1>2 DEF VmIntent, IntentOf, OneStart, Launching, VmAt, Purged, Deleting
<1>5. Known /\ DeletedVmIsDown
  BY <1>3 DEF Known, Upcoming, DeletedVmIsDown
<1>6. ListedIsCurrent
  BY DEF VmInit, ListedIsCurrent
<1> QED BY <1>1, <1>4, <1>5, <1>6 DEF VmInv, HelpersTracked

LEMMA VmInvStep == VmInv /\ [VmNext]_vmVars => VmInv'
<1> SUFFICES ASSUME VmInv, [VmNext]_vmVars PROVE VmInv'
  OBVIOUS
<1>1. ASSUME NEW c \in Clis, \/ Invoke(c) \/ GivesUp(c) \/ vm_create(c) \/ prepare_vm_disks(c)
             \/ start_vm(c) \/ waitForRelease(c) \/ recordStart(c) \/ waitForClaim(c)
             \/ stop_vm(c) \/ wait_stopped(c) \/ vm_purge(c) \/ halt_vm(c) \/ drain_vm(c)
             \/ detach_vm(c) \/ delete_vm(c)
             \/ modify_vm(c) \/ mount_vm(c) \/ unmount_vm(c) \/ write_manifest(c) \/ share_live(c)
      PROVE  VmInv'
  BY <1>1, InvokeStep, GivesUpStep, CreateStep, DisksStep, StartVmStep, ReleaseStep, RecordStartStep, ClaimStep,
     StopVmStep, WaitStoppedStep, PurgeStep, HaltStep, FallbackStep, DeleteVmStep, ModifyStep, MountStep, UnmountStep, WriteManifestStep, ShareLiveStep
<1>2. ASSUME NEW p \in Pids, HelperClaim(p) \/ HelperBoot(p) \/ HelperHeartbeat(p) \/ HelperExit(p) \/ helperTerminated(p)
      PROVE  VmInv'
  BY <1>2, HelperClaimStep, HelperBootStep, HelperHeartbeatStep, HelperExitStep, HelperTerminatedStep
<1>3. ASSUME NEW r \in msgs, helper_state(r) PROVE VmInv'
  BY <1>3, HelperStateStep
<1>4. CASE SupervisorRestart
  BY <1>4, SupervisorRestartStep
<1>5. CASE UNCHANGED vmVars
  BY <1>5 DEF vmVars, VmInv, VmTypes, VmIntent, IntentOf, OneStart, Launching, VmAt, Known, Purged, Deleting, Upcoming, HelpersTracked,
     ListedIsCurrent, DeletedVmIsDown, HasManifest
<1> QED BY <1>1, <1>2, <1>3, <1>4, <1>5 DEF VmNext

\* Whatever start, stop, delete and create interleave, with any number of
\* commands, helpers and restarts of the control plane: what it lists is the
\* helper whose process it holds, and a VM without a manifest runs in no helper
\* that a delete could have known and had purged or stopped (vm.start, vm.stop
\* and vm.purge, and the fallback of `vzctl vm delete --force`).
THEOREM HelpersAreTracked == VmSpec => []HelpersTracked
<1>1. VmInv => HelpersTracked
  BY DEF VmInv
<1> QED BY VmInitInv, VmInvStep, <1>1, PTL DEF VmSpec

-----------------------------------------------------------------------------
(* The guest utils rollout.                                                *)

GuPcs == {"idle", "check", "files", "agent", "iwatch", "restart", "wait", "manifest"}
GuFiles == {"agent", "unit", "metadata", "iwatch"}
GuIds == GuBundles \cup {NoGu}
GuCaches == [GuBundles -> SUBSET GuFiles]
GuStates == [host : GuBundles, cache : GuCaches, pc : GuPcs, staging : GuIds, files : GuIds, agent : GuIds,
             iwatch : GuIds, running : GuIds, manifest : GuIds, mixed : BOOLEAN, switches : Nat]

\* The agent binary is the first file of a cached bundle and the metadata a
\* later one; a bundle once cached is never copied again.
AgentFirst == \A b \in GuBundles : "metadata" \in gu.cache[b] => "agent" \in gu.cache[b]

\* The manifest names a bundle that was cached.
NamedIsCached == gu.manifest # NoGu => "agent" \in gu.cache[gu.manifest]

\* A rollout that began over another bundle's manifest is marked.
BeganOver == gu.pc \notin {"idle", "check"} /\ gu.manifest # NoGu /\ ~gu.mixed => gu.manifest = gu.host

\* What each step of a rollout leaves for the next.
RolledOut ==
  /\ gu.pc \in {"agent", "iwatch", "restart", "wait", "manifest"} => gu.files = gu.host /\ "metadata" \in gu.cache[gu.host]
  /\ gu.pc \in {"iwatch", "restart", "wait", "manifest"} => gu.agent = gu.host
  /\ gu.pc \in {"restart", "wait", "manifest"} => ("iwatch" \in gu.cache[gu.host] => gu.iwatch = gu.host)

GuInv == gu \in GuStates /\ AgentFirst /\ NamedIsCached /\ BeganOver /\ RolledOut /\ ManifestNamesInstalled

LEMMA BinaryTypes ==
  ASSUME gu \in GuStates, NEW file \in {"agent", "iwatch"}, NEW next \in GuPcs, deploy_guest_binary(file, next)
  PROVE  gu' \in GuStates
<1>1. \/ gu' = [gu EXCEPT !.pc = "idle"]
      \/ gu' = [gu EXCEPT !.staging = gu.host, !.pc = "idle"]
      \/ gu' = [gu EXCEPT !.staging = NoGu, ![file] = gu.host, !.pc = next]
  BY DEF deploy_guest_binary
<1>2. gu.host \in GuIds /\ NoGu \in GuIds /\ "idle" \in GuPcs
  BY DEF GuStates, GuIds, GuPcs
<1>3. CASE file = "agent"
  BY <1>1, <1>2, <1>3 DEF GuStates
<1>4. CASE file = "iwatch"
  BY <1>1, <1>2, <1>4 DEF GuStates
<1> QED BY <1>3, <1>4

LEMMA GuTypes ==
  ASSUME GuInv, GuNext PROVE gu' \in GuStates
<1> USE DEF GuInv
<1>1. CASE ensure_cached_bundle
  <2>1. PICK k \in 0 .. 4 :
          LET copied == {CacheFiles[i] : i \in 1 .. k} \cap FilesOf(gu.host)
              after  == IF "agent" \in gu.cache[gu.host] THEN gu.cache[gu.host] ELSE gu.cache[gu.host] \cup copied
          IN  gu' = [gu EXCEPT !.cache[gu.host] = after,
                               !.pc = IF k = 4 \/ "agent" \in gu.cache[gu.host] THEN "check" ELSE "idle"]
    BY <1>1 DEF ensure_cached_bundle
  <2> DEFINE copied == {CacheFiles[i] : i \in 1 .. k} \cap FilesOf(gu.host)
             after == IF "agent" \in gu.cache[gu.host] THEN gu.cache[gu.host] ELSE gu.cache[gu.host] \cup copied
             cache2 == [gu.cache EXCEPT ![gu.host] = after]
  <2>2. copied \in SUBSET GuFiles
    BY DEF FilesOf, CacheFiles, GuFiles
  <2> HIDE DEF copied
  <2>3. gu.cache \in GuCaches /\ gu.host \in GuBundles
    BY DEF GuStates
  <2>4. cache2 \in GuCaches
    BY <2>2, <2>3 DEF GuCaches
  <2>5. gu' = [gu EXCEPT !.cache = cache2, !.pc = IF k = 4 \/ "agent" \in gu.cache[gu.host] THEN "check" ELSE "idle"]
    BY <2>1 DEF copied
  <2> HIDE DEF cache2
  <2>6. (IF k = 4 \/ "agent" \in gu.cache[gu.host] THEN "check" ELSE "idle") \in GuPcs
    BY DEF GuPcs
  <2> QED BY <2>4, <2>5, <2>6 DEF GuStates
<1>2. CASE read_guest_bundle_id
  BY <1>2 DEF read_guest_bundle_id, GuStates, GuPcs
<1>3. CASE deploy_guest_files
  <2>1. PICK kept \in {gu.files, NoGu} : \/ gu' = [gu EXCEPT !.files = gu.host, !.pc = "agent"]
                                         \/ gu' = [gu EXCEPT !.files = kept, !.pc = "idle"]
    BY <1>3 DEF deploy_guest_files
  <2>2. gu \in GuStates /\ gu.host \in GuIds /\ kept \in GuIds /\ {"agent", "idle"} \subseteq GuPcs
    BY DEF GuStates, GuIds, GuPcs
  <2> QED BY <2>1, <2>2 DEF GuStates
<1>4. CASE deploy_agent_binary
  BY <1>4, BinaryTypes DEF deploy_agent_binary, GuPcs
<1>5. CASE deploy_iwatch_binary
  <2>1. CASE deploy_guest_binary("iwatch", "restart")
    BY <2>1, BinaryTypes DEF GuPcs
  <2>2. CASE gu' = [gu EXCEPT !.pc = "restart"]
    BY <2>2 DEF GuStates, GuPcs
  <2> QED BY <1>5, <2>1, <2>2 DEF deploy_iwatch_binary
<1>6. CASE restart_agent
  BY <1>6 DEF restart_agent, GuStates, GuPcs
<1>7. CASE AgentRestarts
  BY <1>7 DEF AgentRestarts, GuStates, GuPcs
<1>8. CASE wait_for_agent
  BY <1>8 DEF wait_for_agent, GuStates, GuPcs
<1>9. CASE deploy_manifest
  BY ZenonT(40), <1>9 DEF deploy_manifest, GuStates, GuPcs, GuIds
<1>10. CASE SwitchVersion
  <2>1. PICK b \in GuBundles : gu' = [gu EXCEPT !.host = b, !.switches = gu.switches + 1]
    BY <1>10 DEF SwitchVersion
  <2>2. gu.switches + 1 \in Nat
    BY DEF GuStates
  <2> QED BY <2>1, <2>2 DEF GuStates
<1> QED BY <1>1, <1>2, <1>3, <1>4, <1>5, <1>6, <1>7, <1>8, <1>9, <1>10 DEF GuNext

\* The bundle cache: an interrupted copy leaves a prefix that begins with the agent.
LEMMA CacheKept ==
  ASSUME GuInv, ensure_cached_bundle
  PROVE  /\ gu'.pc \in {"idle", "check"} /\ gu'.host = gu.host /\ gu'.files = gu.files /\ gu'.agent = gu.agent
         /\ gu'.iwatch = gu.iwatch /\ gu'.manifest = gu.manifest /\ gu'.mixed = gu.mixed
         /\ \A b \in GuBundles : "agent" \in gu.cache[b] => gu'.cache[b] = gu.cache[b]
         /\ \A b \in GuBundles : "metadata" \in gu'.cache[b] => "agent" \in gu'.cache[b]
<1>1. PICK k \in 0 .. 4 :
        LET copied == {CacheFiles[i] : i \in 1 .. k} \cap FilesOf(gu.host)
            after  == IF "agent" \in gu.cache[gu.host] THEN gu.cache[gu.host] ELSE gu.cache[gu.host] \cup copied
        IN  gu' = [gu EXCEPT !.cache[gu.host] = after,
                             !.pc = IF k = 4 \/ "agent" \in gu.cache[gu.host] THEN "check" ELSE "idle"]
  BY DEF ensure_cached_bundle
<1> DEFINE copied == {CacheFiles[i] : i \in 1 .. k} \cap FilesOf(gu.host)
           after == IF "agent" \in gu.cache[gu.host] THEN gu.cache[gu.host] ELSE gu.cache[gu.host] \cup copied
           cache2 == [gu.cache EXCEPT ![gu.host] = after]
<1>2. "metadata" \in copied => "agent" \in copied
  BY DEF FilesOf, CacheFiles
<1> HIDE DEF copied
<1>3. gu \in GuStates /\ gu.cache \in GuCaches /\ gu.host \in GuBundles /\ AgentFirst
  BY DEF GuInv, GuStates
<1>4. \A b \in GuBundles : "agent" \in gu.cache[b] => cache2[b] = gu.cache[b]
  BY <1>3 DEF GuCaches
<1>5. \A b \in GuBundles : "metadata" \in cache2[b] => "agent" \in cache2[b]
  BY <1>2, <1>3 DEF GuCaches, AgentFirst
<1>6. gu' = [gu EXCEPT !.cache = cache2, !.pc = IF k = 4 \/ "agent" \in gu.cache[gu.host] THEN "check" ELSE "idle"]
  BY <1>1 DEF copied
<1> HIDE DEF cache2
<1> QED BY <1>3, <1>4, <1>5, <1>6 DEF GuStates

\* Every other step leaves the cache alone.
LEMMA RolloutKept ==
  ASSUME GuInv, GuNext, ~ensure_cached_bundle PROVE GuInv'
<1>1. gu' \in GuStates
  BY GuTypes
<1>2. NoGu \notin GuBundles /\ gu \in GuStates
  BY GuAssumption DEF GuInv
<1>a. ASSUME deploy_agent_binary
      PROVE  /\ gu'.host = gu.host /\ gu'.cache = gu.cache /\ gu'.files = gu.files /\ gu'.iwatch = gu.iwatch
             /\ gu'.manifest = gu.manifest /\ gu'.mixed = gu.mixed
             /\ (gu'.pc = "idle" /\ gu'.agent = gu.agent) \/ (gu'.pc = "iwatch" /\ gu'.agent = gu.host)
  BY <1>2, <1>a DEF deploy_agent_binary, deploy_guest_binary, GuStates
<1>b. ASSUME deploy_iwatch_binary
      PROVE  /\ gu'.host = gu.host /\ gu'.cache = gu.cache /\ gu'.files = gu.files /\ gu'.agent = gu.agent
             /\ gu'.manifest = gu.manifest /\ gu'.mixed = gu.mixed
             /\ \/ gu'.pc = "idle" /\ gu'.iwatch = gu.iwatch
                \/ gu'.pc = "restart" /\ gu'.iwatch = IF "iwatch" \in gu.cache[gu.host] THEN gu.host ELSE gu.iwatch
  <2>1. CASE "iwatch" \notin gu.cache[gu.host]
    BY <1>2, <1>b, <2>1 DEF deploy_iwatch_binary, GuStates
  <2>2. CASE "iwatch" \in gu.cache[gu.host]
    BY <1>2, <1>b, <2>2 DEF deploy_iwatch_binary, deploy_guest_binary, GuStates
  <2> QED BY <2>1, <2>2
<1>c. gu.pc = "agent" \/ ~deploy_agent_binary
  BY DEF deploy_agent_binary
<1>d. gu.pc = "iwatch" \/ ~deploy_iwatch_binary
  BY DEF deploy_iwatch_binary
<1> USE DEF GuInv, AgentFirst, NamedIsCached, BeganOver, RolledOut, ManifestNamesInstalled
<1>3. CASE read_guest_bundle_id
  BY <1>1, <1>2, <1>3 DEF read_guest_bundle_id, GuStates
<1>4. CASE deploy_guest_files
  BY <1>1, <1>2, <1>4 DEF deploy_guest_files, GuStates
<1>5. CASE deploy_agent_binary
  BY <1>1, <1>5, <1>a, <1>c
<1>6. CASE deploy_iwatch_binary
  BY <1>1, <1>6, <1>b, <1>d
<1>7. CASE restart_agent
  BY <1>1, <1>2, <1>7 DEF restart_agent, GuStates
<1>8. CASE AgentRestarts
  BY <1>1, <1>2, <1>8 DEF AgentRestarts, GuStates
<1>9. CASE wait_for_agent
  BY <1>1, <1>2, <1>9 DEF wait_for_agent, GuStates
<1>10. CASE deploy_manifest
  BY ZenonT(40), <1>1, <1>2, <1>10 DEF deploy_manifest, GuStates
<1>11. CASE SwitchVersion
  BY <1>1, <1>2, <1>11 DEF SwitchVersion, GuStates
<1> QED BY <1>3, <1>4, <1>5, <1>6, <1>7, <1>8, <1>9, <1>10, <1>11 DEF GuNext

\* What the guest's manifest names is what is installed, through any number
\* of failed rollouts and switches of the host's version, until a rollout of
\* another bundle began (guest_utils.rs: the manifest is the last file).
THEOREM ManifestIsLast == GuSpec => []ManifestNamesInstalled
<1>1. GuInit => GuInv
  BY GuAssumption DEF GuInit, GuInv, GuStates, GuCaches, GuPcs, GuIds, AgentFirst, NamedIsCached, BeganOver, RolledOut, ManifestNamesInstalled
<1>2. GuInv /\ [GuNext]_gu => GuInv'
  <2> SUFFICES ASSUME GuInv, [GuNext]_gu PROVE GuInv'
    OBVIOUS
  <2>1. CASE UNCHANGED gu
    BY <2>1 DEF GuInv, AgentFirst, NamedIsCached, BeganOver, RolledOut, ManifestNamesInstalled
  <2>2. CASE GuNext /\ ~ensure_cached_bundle
    BY <2>2, RolloutKept
  <2>3. CASE ensure_cached_bundle
    <3>1. gu' \in GuStates
      BY <2>3, GuTypes DEF GuNext
    <3> QED BY <2>3, <3>1, CacheKept, GuAssumption DEF GuInv, GuStates, GuIds, AgentFirst, NamedIsCached, BeganOver, RolledOut, ManifestNamesInstalled
  <2> QED BY <2>1, <2>2, <2>3
<1>3. GuInv => ManifestNamesInstalled
  BY DEF GuInv
<1> QED BY <1>1, <1>2, <1>3, PTL DEF GuSpec

-----------------------------------------------------------------------------
(* vzctl services.                                                         *)

SvSteps == [op : {"helpers", "stop", "start", "restart"}, id : SvIds]
SvVias == {"rpc", "signal"}
SvPcs == {"next", "helpers", "rpc", "signal", "signalled", "stop", "gone", "start", "socket", "restart"}
SvCmds == [todo : Seq(SvSteps), pc : SvPcs, ask : SUBSET SvVms, via : SvVias]
SvFlags == [SvIds -> BOOLEAN]
SvProcs == [SvIds -> {"down", "starting", "up"}]
SvVmFlags == [SvVms -> BOOLEAN]
SvVmStates == [SvVms -> {"off", "running", "stopping"}]
SvCuts == SUBSET [late : BOOLEAN, child : BOOLEAN, via : SvVias]
SvStates == [loaded : SvFlags, leaving : SvFlags, proc : SvProcs, sock : SvFlags, vm : SvVmStates, child : SvVmFlags,
             listed : SvVmFlags, late : SvVmFlags, cut : SvCuts, cmd : SvCmds \cup {NoSv}, cmds : Nat, crashes : Nat]

\* The steps still to do begin with the helpers; they take vz-net away.
HelpersPending(todo) == todo # << >> /\ todo[1].op = "helpers"
TakesNet(todo) == \E i \in 1 .. Len(todo) : todo[i] = SvStep("stop", "net")

\* The helpers come first or not at all; the program counter names the step
\* at the head; signals are sent last.
CmdOk(c) ==
  /\ \A i \in 1 .. Len(c.todo) : c.todo[i].op = "helpers" => i = 1
  /\ c.pc \in {"helpers", "rpc", "signal", "signalled"} => HelpersPending(c.todo)
  /\ c.pc \in {"stop", "gone"} => c.todo # << >> /\ c.todo[1].op = "stop"
  /\ c.pc \in {"start", "socket", "restart"} => c.todo # << >> /\ c.todo[1].op \in {"start", "restart"}
  /\ HelpersPending(c.todo) /\ c.pc # "signalled" => c.via = "rpc"

\* A VM that may run when vz-net goes.
MayLoseNet(s, v) == s.vm[v] # "off" => s.late[v] \/ (~s.child[v] /\ s.cmd.via = "rpc")

\* Children are on the list; after signals were sent every VM that runs got
\* one or came later; once the helpers are behind, what still runs is excused.
SvSound(s) ==
  /\ s \in SvStates
  /\ \A v \in SvVms : s.child[v] => s.listed[v]
  /\ s.cmd # NoSv => CmdOk(s.cmd)
  /\ s.cmd # NoSv /\ s.cmd.pc = "signalled" => \A v \in SvVms : s.vm[v] # "off" => v \in s.cmd.ask \/ s.late[v]
  /\ s.cmd # NoSv /\ ~HelpersPending(s.cmd.todo) /\ TakesNet(s.cmd.todo) => \A v \in SvVms : MayLoseNet(s, v)
  /\ \A c \in s.cut : c.late \/ (~c.child /\ c.via = "rpc")

\* Nothing the invariant speaks of changes.
SvKept(s, t) == t.vm = s.vm /\ t.child = s.child /\ t.listed = s.listed /\ t.late = s.late /\ t.cut = s.cut

LEMMA SvFrame ==
  ASSUME NEW s, NEW t, SvSound(s), t \in SvStates, t.cut = s.cut, t.late = s.late,
         \A v \in SvVms : t.vm[v] # "off" => s.vm[v] # "off",
         \A v \in SvVms : t.child[v] => s.child[v],
         \A v \in SvVms : t.child[v] => t.listed[v],
         \/ t.cmd = NoSv
         \/ t.cmd = s.cmd
         \/ s.cmd # NoSv /\ t.cmd.todo = s.cmd.todo /\ t.cmd.via = s.cmd.via /\ CmdOk(t.cmd) /\ t.cmd.pc # "signalled"
  PROVE  SvSound(t)
<1>1. t.cmd # NoSv => CmdOk(t.cmd)
  BY DEF SvSound
<1>2. t.cmd # NoSv /\ t.cmd.pc = "signalled" => \A v \in SvVms : t.vm[v] # "off" => v \in t.cmd.ask \/ t.late[v]
  BY DEF SvSound
<1>3. t.cmd # NoSv /\ ~HelpersPending(t.cmd.todo) /\ TakesNet(t.cmd.todo) => \A v \in SvVms : MayLoseNet(t, v)
  BY DEF SvSound, MayLoseNet
<1>4. \A c \in t.cut : c.late \/ (~c.child /\ c.via = "rpc")
  BY DEF SvSound
<1> QED BY <1>1, <1>2, <1>3, <1>4 DEF SvSound

\* A finished step: the next begins, and the helpers are behind.
LEMMA SvStepDone ==
  ASSUME NEW s, NEW t, SvSound(s), t \in SvStates, SvKept(s, t), s.cmd # NoSv, s.cmd.todo # << >>,
         t.cmd = [s.cmd EXCEPT !.todo = Tail(s.cmd.todo), !.pc = "next"],
         HelpersPending(s.cmd.todo) => \A v \in SvVms : MayLoseNet(s, v)
  PROVE  SvSound(t)
<1> DEFINE todo == s.cmd.todo
<1>1. s.cmd \in SvCmds /\ CmdOk(s.cmd) /\ todo \in Seq(SvSteps) /\ todo # << >>
  BY DEF SvSound, SvStates, SvCmds
<1>2. t.cmd.todo = Tail(todo) /\ t.cmd.via = s.cmd.via /\ t.cmd.pc = "next"
  BY <1>1 DEF SvCmds
<1>3. Len(Tail(todo)) = Len(todo) - 1 /\ (\A i \in 1 .. Len(todo) - 1 : Tail(todo)[i] = todo[i + 1]) /\ Len(todo) \in Nat
  BY <1>1
<1>4. \A i \in 1 .. Len(todo) : todo[i].op = "helpers" => i = 1
  BY <1>1 DEF CmdOk
<1>5. \A i \in 1 .. Len(Tail(todo)) : Tail(todo)[i].op # "helpers"
  <2> SUFFICES ASSUME NEW i \in 1 .. Len(Tail(todo)) PROVE Tail(todo)[i].op # "helpers"
    OBVIOUS
  <2>1. i + 1 \in 1 .. Len(todo) /\ i + 1 # 1 /\ Tail(todo)[i] = todo[i + 1]
    BY <1>3
  <2> QED BY <2>1, <1>4
<1>6. ~HelpersPending(t.cmd.todo)
  <2>1. SUFFICES ASSUME Tail(todo) # << >> PROVE Tail(todo)[1].op # "helpers"
    BY <1>2 DEF HelpersPending
  <2>2. Tail(todo) \in Seq(SvSteps) /\ 1 \in 1 .. Len(Tail(todo))
    BY <1>1, <2>1
  <2> QED BY <2>2, <1>5
<1>7. CmdOk(t.cmd)
  BY <1>2, <1>5, <1>6 DEF CmdOk
<1>8. TakesNet(t.cmd.todo) => TakesNet(todo)
  <2> SUFFICES ASSUME NEW i \in 1 .. Len(Tail(todo)), Tail(todo)[i] = SvStep("stop", "net") PROVE TakesNet(todo)
    BY <1>2 DEF TakesNet
  <2>1. i + 1 \in 1 .. Len(todo) /\ Tail(todo)[i] = todo[i + 1]
    BY <1>3
  <2> QED BY <2>1 DEF TakesNet
<1>9. TakesNet(t.cmd.todo) => \A v \in SvVms : MayLoseNet(s, v)
  BY <1>8 DEF SvSound
<1>10. TakesNet(t.cmd.todo) => \A v \in SvVms : MayLoseNet(t, v)
  BY <1>9, <1>2 DEF MayLoseNet, SvKept
<1> QED BY <1>2, <1>7, <1>10 DEF SvSound, SvKept

-----------------------------------------------------------------------------
\* The operators on states: what they change.
LEMMA SvGoes ==
  ASSUME NEW s \in SvStates, s.cmd # NoSv, NEW pc \in SvPcs
  PROVE  /\ SvGo(s, pc) \in SvStates /\ SvKept(s, SvGo(s, pc)) /\ SvGo(s, pc).cmd = [s.cmd EXCEPT !.pc = pc]
         /\ SvGo(s, pc).cmd.todo = s.cmd.todo /\ SvGo(s, pc).cmd.via = s.cmd.via /\ SvGo(s, pc).cmd.pc = pc
         /\ SvGo(s, pc).cmd.ask = s.cmd.ask
<1> DEFINE c == [s.cmd EXCEPT !.pc = pc]
<1>1. s.cmd \in SvCmds
  BY DEF SvStates
<1>2. c \in SvCmds /\ c.todo = s.cmd.todo /\ c.via = s.cmd.via /\ c.pc = pc /\ c.ask = s.cmd.ask
  BY <1>1 DEF SvCmds
<1>3. SvGo(s, pc) = [s EXCEPT !.cmd = c]
  BY DEF SvGo
<1> HIDE DEF c
<1>4. SvGo(s, pc) \in SvStates
  BY <1>2, <1>3 DEF SvStates
<1>5. SvKept(s, SvGo(s, pc)) /\ SvGo(s, pc).cmd = c
  BY <1>3 DEF SvStates, SvKept
<1> QED BY <1>2, <1>4, <1>5 DEF c

LEMMA SvAdvances ==
  ASSUME NEW s \in SvStates, s.cmd # NoSv, s.cmd.todo # << >>
  PROVE  /\ SvNextStep(s) \in SvStates /\ SvKept(s, SvNextStep(s))
         /\ SvNextStep(s).cmd = [s.cmd EXCEPT !.todo = Tail(s.cmd.todo), !.pc = "next"]
         /\ SvNextStep(s).sock = s.sock
<1> DEFINE c == [s.cmd EXCEPT !.todo = Tail(s.cmd.todo), !.pc = "next"]
<1>1. s.cmd \in SvCmds
  BY DEF SvStates
<1>2. Tail(s.cmd.todo) \in Seq(SvSteps) /\ "next" \in SvPcs
  BY <1>1 DEF SvCmds, SvPcs
<1>3. c \in SvCmds
  BY <1>1, <1>2 DEF SvCmds
<1>4. SvNextStep(s) = [s EXCEPT !.cmd = c]
  BY DEF SvNextStep
<1> HIDE DEF c
<1>5. SvNextStep(s) \in SvStates
  BY <1>3, <1>4 DEF SvStates
<1>6. SvKept(s, SvNextStep(s)) /\ SvNextStep(s).cmd = c /\ SvNextStep(s).sock = s.sock
  BY <1>4 DEF SvStates, SvKept
<1> QED BY <1>5, <1>6 DEF c

LEMMA SvEnds ==
  ASSUME NEW s, SvSound(s) PROVE SvSound(SvEnd(s))
<1>1. s \in SvStates
  BY DEF SvSound
<1>2. SvEnd(s) \in SvStates /\ SvEnd(s).cmd = NoSv /\ SvKept(s, SvEnd(s))
  BY <1>1 DEF SvEnd, SvStates, SvKept
<1> QED BY <1>1, <1>2, SvFrame DEF SvKept, SvSound

LEMMA SvDowns ==
  ASSUME NEW s \in SvStates, NEW id \in SvIds
  PROVE  /\ SvDown(s, id) \in SvStates
         /\ SvDown(s, id).vm = s.vm /\ SvDown(s, id).late = s.late /\ SvDown(s, id).cut = s.cut /\ SvDown(s, id).cmd = s.cmd
         /\ SvDown(s, id).crashes = s.crashes
         /\ \A v \in SvVms : SvDown(s, id).child[v] => s.child[v]
         /\ (\A v \in SvVms : s.child[v] => s.listed[v]) => \A v \in SvVms : SvDown(s, id).child[v] => SvDown(s, id).listed[v]
<1> DEFINE p == [s.proc EXCEPT ![id] = "down"]
           ch == [v \in SvVms |-> id # "supervisor" /\ s.child[v]]
           li == [v \in SvVms |-> id # "supervisor" /\ s.listed[v]]
<1>1. SvDown(s, id) = [s EXCEPT !.proc = p, !.child = ch, !.listed = li]
  BY DEF SvDown
<1>2. s.proc \in SvProcs
  BY DEF SvStates
<1>3. p \in SvProcs
  BY <1>2 DEF SvProcs
<1>4. ch \in SvVmFlags /\ li \in SvVmFlags
  BY DEF SvVmFlags
<1>5. \A v \in SvVms : ch[v] => s.child[v]
  OBVIOUS
<1>6. (\A v \in SvVms : s.child[v] => s.listed[v]) => \A v \in SvVms : ch[v] => li[v]
  OBVIOUS
<1> HIDE DEF p, ch, li
<1>7. SvDown(s, id) \in SvStates
  BY <1>1, <1>3, <1>4 DEF SvStates
<1>8. /\ SvDown(s, id).vm = s.vm /\ SvDown(s, id).late = s.late /\ SvDown(s, id).cut = s.cut /\ SvDown(s, id).cmd = s.cmd
      /\ SvDown(s, id).child = ch /\ SvDown(s, id).listed = li /\ SvDown(s, id).crashes = s.crashes
  BY <1>1 DEF SvStates
<1> QED BY <1>5, <1>6, <1>7, <1>8

-----------------------------------------------------------------------------
\* launchd, the services and the helpers.
LEMMA SvServices ==
  ASSUME SvSound(sv), NEW id \in SvIds, launchd_starts(id) \/ service_ready(id) \/ service_crashes(id) \/ service_exits(id)
  PROVE  SvSound(sv')
<1>1. sv \in SvStates /\ \A v \in SvVms : sv.child[v] => sv.listed[v]
  BY DEF SvSound
<1>2. CASE launchd_starts(id)
  <2> DEFINE p == [sv.proc EXCEPT ![id] = "starting"]
  <2>1. sv' = [sv EXCEPT !.proc = p]
    BY <1>2 DEF launchd_starts
  <2>2. p \in SvProcs
    BY <1>1 DEF SvStates, SvProcs
  <2> HIDE DEF p
  <2>3. sv' \in SvStates /\ SvKept(sv, sv') /\ sv'.cmd = sv.cmd
    BY <1>1, <2>1, <2>2 DEF SvStates, SvKept
  <2> QED BY <1>1, <2>3, SvFrame DEF SvKept
<1>3. CASE service_ready(id)
  <2> DEFINE p == [sv.proc EXCEPT ![id] = "up"]
             k == [sv.sock EXCEPT ![id] = TRUE]
  <2>1. sv' = [sv EXCEPT !.proc = p, !.sock = k]
    BY <1>3 DEF service_ready
  <2>2. p \in SvProcs /\ k \in SvFlags
    BY <1>1 DEF SvStates, SvProcs, SvFlags
  <2> HIDE DEF p, k
  <2>3. sv' \in SvStates /\ SvKept(sv, sv') /\ sv'.cmd = sv.cmd
    BY <1>1, <2>1, <2>2 DEF SvStates, SvKept
  <2> QED BY <1>1, <2>3, SvFrame DEF SvKept
<1> DEFINE d == SvDown(sv, id)
<1>4. /\ d \in SvStates /\ d.vm = sv.vm /\ d.late = sv.late /\ d.cut = sv.cut /\ d.cmd = sv.cmd
      /\ d.crashes = sv.crashes
      /\ \A v \in SvVms : d.child[v] => sv.child[v]
      /\ \A v \in SvVms : d.child[v] => d.listed[v]
  BY <1>1, SvDowns
<1> HIDE DEF d
<1>5. CASE service_crashes(id)
  <2>1. sv' = [d EXCEPT !.crashes = d.crashes + 1]
    BY <1>5 DEF service_crashes, d
  <2>2. d.crashes + 1 \in Nat
    BY <1>4 DEF SvStates
  <2>3. sv' \in SvStates /\ SvKept(d, sv') /\ sv'.cmd = d.cmd
    BY <1>4, <2>1, <2>2 DEF SvStates, SvKept
  <2> QED BY <1>4, <2>3, SvFrame DEF SvKept
<1>6. CASE service_exits(id)
  <2> DEFINE lv == [d.leaving EXCEPT ![id] = FALSE]
             lo == [d.loaded EXCEPT ![id] = FALSE]
             k == [d.sock EXCEPT ![id] = FALSE]
  <2>1. sv' = [d EXCEPT !.leaving = lv, !.loaded = lo, !.sock = k]
    BY <1>6 DEF service_exits, d
  <2>2. lv \in SvFlags /\ lo \in SvFlags /\ k \in SvFlags
    BY <1>4 DEF SvStates, SvFlags
  <2> HIDE DEF lv, lo, k
  <2>3. sv' \in SvStates /\ SvKept(d, sv') /\ sv'.cmd = d.cmd
    BY <1>4, <2>1, <2>2 DEF SvStates, SvKept
  <2> QED BY <1>4, <2>3, SvFrame DEF SvKept
<1> QED BY <1>2, <1>3, <1>5, <1>6

LEMMA SvHelpers ==
  ASSUME SvSound(sv), NEW v \in SvVms, helper_reports(v) \/ helper_exits(v)
  PROVE  SvSound(sv')
<1>1. sv \in SvStates /\ (\A w \in SvVms : sv.child[w] => sv.listed[w]) /\ sv.vm \in SvVmStates /\ sv.listed \in SvVmFlags /\ sv.child \in SvVmFlags
  BY DEF SvSound, SvStates
<1>2. CASE helper_reports(v)
  <2> DEFINE li == [sv.listed EXCEPT ![v] = TRUE]
  <2>1. sv' = [sv EXCEPT !.listed = li]
    BY <1>2 DEF helper_reports
  <2>2. li \in SvVmFlags /\ \A w \in SvVms : sv.child[w] => li[w]
    BY <1>1 DEF SvVmFlags
  <2> HIDE DEF li
  <2>3. sv' \in SvStates
    BY <1>1, <2>1, <2>2 DEF SvStates
  <2>4. sv'.cmd = sv.cmd /\ sv'.vm = sv.vm /\ sv'.child = sv.child /\ sv'.late = sv.late /\ sv'.cut = sv.cut /\ sv'.listed = li
    BY <1>1, <2>1 DEF SvStates
  <2> QED BY <1>1, <2>2, <2>3, <2>4, SvFrame
<1>3. CASE helper_exits(v)
  <2> DEFINE li == [sv.listed EXCEPT ![v] = FALSE]
             ch == [sv.child EXCEPT ![v] = FALSE]
             vm == [sv.vm EXCEPT ![v] = "off"]
  <2>1. sv' = [sv EXCEPT !.vm = vm, !.listed = li, !.child = ch]
    BY <1>3 DEF helper_exits
  <2>2. li \in SvVmFlags /\ ch \in SvVmFlags /\ vm \in SvVmStates
    BY <1>1 DEF SvVmFlags, SvVmStates
  <2>3. /\ \A w \in SvVms : ch[w] => sv.child[w]
        /\ \A w \in SvVms : ch[w] => li[w]
    BY <1>1 DEF SvVmFlags
  <2>4. \A w \in SvVms : vm[w] # "off" => sv.vm[w] # "off"
    BY <1>1 DEF SvVmStates
  <2> HIDE DEF li, ch, vm
  <2>5. sv' \in SvStates
    BY <1>1, <2>1, <2>2 DEF SvStates
  <2>6. sv'.cmd = sv.cmd /\ sv'.vm = vm /\ sv'.child = ch /\ sv'.late = sv.late /\ sv'.cut = sv.cut /\ sv'.listed = li
    BY <1>1, <2>1 DEF SvStates
  <2> QED BY <2>3, <2>4, <2>5, <2>6, SvFrame
<1> QED BY <1>2, <1>3

\* A VM that starts behind the command's back is marked.
LEMMA SvStarts ==
  ASSUME SvSound(sv), NEW v \in SvVms, vm_starts(v) PROVE SvSound(sv')
<1> DEFINE behind == sv.cmd # NoSv /\ (sv.cmd.pc = "signalled" \/ \A i \in 1 .. Len(sv.cmd.todo) : sv.cmd.todo[i].op # "helpers")
           vm == [sv.vm EXCEPT ![v] = "running"]
           ch == [sv.child EXCEPT ![v] = TRUE]
           li == [sv.listed EXCEPT ![v] = TRUE]
           la == [sv.late EXCEPT ![v] = behind]
<1>1. /\ sv \in SvStates /\ (\A w \in SvVms : sv.child[w] => sv.listed[w]) /\ sv.vm \in SvVmStates
      /\ sv.listed \in SvVmFlags /\ sv.child \in SvVmFlags /\ sv.late \in SvVmFlags
  BY DEF SvSound, SvStates
<1>2. sv' = [sv EXCEPT !.vm = vm, !.child = ch, !.listed = li, !.late = la]
  BY DEF vm_starts
<1>3. behind \in BOOLEAN
  OBVIOUS
<1>4. sv.cmd # NoSv /\ sv.cmd.pc = "signalled" => behind
  OBVIOUS
<1>5. sv.cmd # NoSv /\ ~HelpersPending(sv.cmd.todo) => behind
  <2> SUFFICES ASSUME sv.cmd # NoSv, ~HelpersPending(sv.cmd.todo), NEW i \in 1 .. Len(sv.cmd.todo), sv.cmd.todo[i].op = "helpers" PROVE FALSE
    OBVIOUS
  <2>1. sv.cmd.todo \in Seq(SvSteps) /\ CmdOk(sv.cmd)
    BY <1>1 DEF SvSound, SvStates, SvCmds
  <2>2. i = 1
    BY <2>1 DEF CmdOk
  <2>3. sv.cmd.todo # << >>
    BY <2>1, <2>2
  <2> QED BY <2>2, <2>3 DEF HelpersPending
<1> HIDE DEF behind
<1>6. vm \in SvVmStates /\ ch \in SvVmFlags /\ li \in SvVmFlags /\ la \in SvVmFlags
  BY <1>1, <1>3 DEF SvVmStates, SvVmFlags
<1>7. la[v] = behind /\ \A w \in SvVms \ {v} : vm[w] = sv.vm[w] /\ ch[w] = sv.child[w] /\ la[w] = sv.late[w]
  BY <1>1 DEF SvVmStates, SvVmFlags
<1>8. \A w \in SvVms : ch[w] => li[w]
  BY <1>1 DEF SvVmFlags
<1> HIDE DEF vm, ch, li, la
<1>9. sv' \in SvStates
  BY <1>1, <1>2, <1>6 DEF SvStates
<1>10. sv'.cmd = sv.cmd /\ sv'.vm = vm /\ sv'.child = ch /\ sv'.late = la /\ sv'.cut = sv.cut /\ sv'.listed = li
  BY <1>1, <1>2 DEF SvStates
<1>11. sv.cmd # NoSv /\ sv.cmd.pc = "signalled" => \A w \in SvVms : vm[w] # "off" => w \in sv.cmd.ask \/ la[w]
  BY <1>4, <1>7 DEF SvSound
<1>12. sv.cmd # NoSv /\ ~HelpersPending(sv.cmd.todo) /\ TakesNet(sv.cmd.todo) => \A w \in SvVms : MayLoseNet(sv', w)
  BY <1>5, <1>7, <1>10 DEF SvSound, MayLoseNet
<1> QED BY <1>8, <1>9, <1>10, <1>11, <1>12 DEF SvSound

-----------------------------------------------------------------------------
\* A plan: the helpers first or not at all, and first where vz-net goes.
PlanOk(todo) ==
  /\ todo \in Seq(SvSteps)
  /\ \A i \in 1 .. Len(todo) : todo[i].op = "helpers" => i = 1
  /\ TakesNet(todo) => HelpersPending(todo)

LEMMA EachIs ==
  ASSUME NEW op \in {"stop", "start", "restart"}, NEW ids \in Seq(SvIds)
  PROVE  /\ SvEach(op, ids) \in Seq(SvSteps) /\ Len(SvEach(op, ids)) = Len(ids)
         /\ \A i \in 1 .. Len(ids) : SvEach(op, ids)[i] = SvStep(op, ids[i]) /\ SvEach(op, ids)[i].op = op
<1>1. \A i \in 1 .. Len(ids) : ids[i] \in SvIds
  OBVIOUS
<1>2. \A i \in 1 .. Len(ids) : SvStep(op, ids[i]) \in SvSteps /\ SvStep(op, ids[i]).op = op
  BY <1>1 DEF SvStep, SvSteps
<1>3. Len(ids) \in Nat
  OBVIOUS
<1> QED BY <1>2, <1>3 DEF SvEach

LEMMA OrdersAre ==
  ASSUME NEW target \in SvTargets
  PROVE  /\ start_order(target) \in Seq(SvIds) /\ stop_order(target) \in Seq(SvIds)
         /\ target \notin {"all", "net"} => stop_order(target) = <<target>> /\ target # "net"
<1>1. ALL_SERVICES \in Seq(SvIds) /\ <<"supervisor", "edge", "net">> \in Seq(SvIds)
  BY DEF ALL_SERVICES, SvIds
<1>2. CASE target = "all"
  BY <1>1, <1>2 DEF start_order, specs_for_target, stop_order
<1>3. CASE target # "all"
  <2>1. target \in SvIds
    BY <1>3 DEF SvTargets
  <2> QED BY <1>3, <2>1 DEF start_order, specs_for_target, stop_order
<1> QED BY <1>2, <1>3

\* No helpers in a part of a plan.
Plain(part) == part \in Seq(SvSteps) /\ \A i \in 1 .. Len(part) : part[i].op # "helpers"

LEMMA PlainJoins ==
  ASSUME NEW a, NEW b, Plain(a), Plain(b) PROVE Plain(a \o b)
<1>1. a \in Seq(SvSteps) /\ b \in Seq(SvSteps)
  BY DEF Plain
<1>2. SUFFICES ASSUME NEW i \in 1 .. Len(a \o b) PROVE (a \o b)[i].op # "helpers"
  BY <1>1 DEF Plain
<1>3. CASE i <= Len(a)
  BY <1>1, <1>2, <1>3 DEF Plain
<1>4. CASE i > Len(a)
  <2>1. (a \o b)[i] = b[i - Len(a)] /\ i - Len(a) \in 1 .. Len(b)
    BY <1>1, <1>2, <1>4
  <2> QED BY <2>1 DEF Plain
<1> QED BY <1>1, <1>3, <1>4

LEMMA HelpersThenPlain ==
  ASSUME NEW part, Plain(part) PROVE PlanOk(<<SvStep("helpers", "net")>> \o part)
<1> DEFINE h == <<SvStep("helpers", "net")>>
           todo == h \o part
<1>1. part \in Seq(SvSteps) /\ SvStep("helpers", "net") \in SvSteps /\ SvStep("helpers", "net").op = "helpers"
  BY DEF Plain, SvStep, SvSteps, SvIds
<1>2. h \in Seq(SvSteps) /\ Len(h) = 1 /\ h[1] = SvStep("helpers", "net")
  BY <1>1
<1> HIDE DEF h
<1>3. todo \in Seq(SvSteps) /\ Len(todo) = Len(part) + 1 /\ todo[1] = h[1] /\ \A i \in 1 .. Len(todo) : i # 1 => todo[i] = part[i - 1]
  <2>1. todo \in Seq(SvSteps) /\ Len(todo) = Len(h) + Len(part)
    BY <1>1, <1>2, ConcatProperties
  <2>2. \A i \in 1 .. Len(h) + Len(part) : todo[i] = IF i <= Len(h) THEN h[i] ELSE part[i - Len(h)]
    BY <1>1, <1>2, ConcatProperties
  <2>3. Len(part) \in Nat
    BY <1>1
  <2> HIDE DEF todo
  <2> QED BY <1>2, <2>1, <2>2, <2>3
<1>4. Len(part) \in Nat
  BY <1>1
<1> HIDE DEF todo
<1>5. \A i \in 1 .. Len(todo) : todo[i].op = "helpers" => i = 1
  <2> SUFFICES ASSUME NEW i \in 1 .. Len(todo), i # 1 PROVE todo[i].op # "helpers"
    OBVIOUS
  <2>1. todo[i] = part[i - 1] /\ i - 1 \in 1 .. Len(part)
    BY <1>3, <1>4
  <2> QED BY <2>1 DEF Plain
<1>6. HelpersPending(todo)
  BY <1>1, <1>2, <1>3, <1>4 DEF HelpersPending
<1>7. PlanOk(todo)
  BY <1>3, <1>5, <1>6 DEF PlanOk
<1> QED BY <1>7 DEF todo, h

LEMMA PlansAre ==
  ASSUME NEW action \in {"start", "stop", "restart"}, NEW target \in SvTargets
  PROVE  PlanOk(SvPlan(action, target))
<1>1. \A op \in {"stop", "start", "restart"}, ids \in Seq(SvIds) : Plain(SvEach(op, ids))
  BY EachIs DEF Plain
<1>2. \A t \in SvTargets : Plain(SvEach("start", start_order(t))) /\ Plain(SvEach("stop", stop_order(t)))
  BY <1>1, OrdersAre
<1>3. \A t \in SvTargets : PlanOk(start_target(t))
  <2> SUFFICES ASSUME NEW t \in SvTargets PROVE PlanOk(start_target(t))
    OBVIOUS
  <2>1. start_target(t) = SvEach("start", start_order(t)) /\ start_order(t) \in Seq(SvIds)
    BY OrdersAre DEF start_target
  <2>2. ~TakesNet(start_target(t))
    <3>1. \A i \in 1 .. Len(start_target(t)) : start_target(t)[i].op = "start"
      BY <2>1, EachIs
    <3>2. SvStep("stop", "net").op = "stop"
      BY DEF SvStep
    <3> QED BY <3>1, <3>2 DEF TakesNet
  <2> QED BY <1>2, <2>1, <2>2 DEF PlanOk, Plain
<1>4. \A t \in SvTargets : PlanOk(stop_target(t))
  <2> SUFFICES ASSUME NEW t \in SvTargets PROVE PlanOk(stop_target(t))
    OBVIOUS
  <2>1. CASE t \in {"all", "net"}
    BY <2>1, <1>2, HelpersThenPlain DEF stop_target
  <2>2. CASE t \notin {"all", "net"}
    <3>1. stop_target(t) = SvEach("stop", <<t>>) /\ <<t>> \in Seq(SvIds) /\ t # "net" /\ Len(<<t>>) = 1 /\ <<t>>[1] = t
      <4>1. stop_target(t) = << >> \o SvEach("stop", stop_order(t)) /\ stop_order(t) = <<t>> /\ <<t>> \in Seq(SvIds) /\ t # "net"
        BY <2>2, OrdersAre DEF stop_target
      <4>2. SvEach("stop", <<t>>) \in Seq(SvSteps)
        BY <4>1, EachIs
      <4> QED BY <4>1, <4>2
    <3>2. ~TakesNet(stop_target(t))
      <4> SUFFICES ASSUME NEW i \in 1 .. Len(stop_target(t)), stop_target(t)[i] = SvStep("stop", "net") PROVE FALSE
        BY DEF TakesNet
      <4>1. Len(stop_target(t)) = 1 /\ \A j \in 1 .. 1 : stop_target(t)[j] = SvStep("stop", <<t>>[j])
        BY <3>1, EachIs
      <4>2. SvStep("stop", t) = SvStep("stop", "net")
        BY <3>1, <4>1
      <4>3. t = "net"
        BY <4>2 DEF SvStep
      <4> QED BY <3>1, <4>3
    <3>3. Plain(stop_target(t))
      BY <1>1, <3>1
    <3> QED BY <3>2, <3>3 DEF PlanOk, Plain
  <2> QED BY <2>1, <2>2
<1>5. PlanOk(restart_target("all"))
  <2> DEFINE stops == SvEach("stop", stop_order("all"))
             starts == SvEach("start", start_order("all"))
  <2>1. Plain(stops) /\ Plain(starts)
    BY <1>2 DEF SvTargets
  <2>2. PlanOk(<<SvStep("helpers", "net")>> \o (stops \o starts))
    BY <2>1, PlainJoins, HelpersThenPlain
  <2>3. (<<SvStep("helpers", "net")>> \o stops) \o starts = <<SvStep("helpers", "net")>> \o (stops \o starts)
    <3>1. stops \in Seq(SvSteps) /\ starts \in Seq(SvSteps) /\ <<SvStep("helpers", "net")>> \in Seq(SvSteps)
      BY <2>1 DEF Plain, SvStep, SvSteps, SvIds
    <3> HIDE DEF stops, starts
    <3> QED BY <3>1, ConcatAssociative
  <2>4. restart_target("all") = (<<SvStep("helpers", "net")>> \o stops) \o starts
    BY DEF restart_target, stop_target, start_target
  <2> QED BY <2>2, <2>3, <2>4
<1>6. PlanOk(restart_target("net"))
  <2> DEFINE part == <<SvStep("stop", "net"), SvStep("start", "net"), SvStep("restart", "edge"), SvStep("restart", "supervisor")>>
  <2>1. Plain(part)
    BY DEF Plain, SvStep, SvSteps, SvIds
  <2>2. restart_target("net") = <<SvStep("helpers", "net")>> \o part
    BY DEF restart_target
  <2> HIDE DEF part
  <2> QED BY <2>1, <2>2, HelpersThenPlain
<1>7. ASSUME target \notin {"all", "net"} PROVE PlanOk(restart_target(target))
  <2>1. restart_target(target) = <<SvStep("restart", target)>> /\ SvStep("restart", target) \in SvSteps
    BY <1>7 DEF restart_target, SvStep, SvSteps, SvTargets
  <2>2. SvStep("restart", target).op = "restart" /\ SvStep("stop", "net").op = "stop"
    BY DEF SvStep
  <2> QED BY <2>1, <2>2 DEF PlanOk, TakesNet
<1> QED BY <1>3, <1>4, <1>5, <1>6, <1>7 DEF SvPlan

-----------------------------------------------------------------------------
\* The command and its steps.
LEMMA SvCommands ==
  ASSUME SvSound(sv), services_command \/ services_next \/ command_killed PROVE SvSound(sv')
<1>1. sv \in SvStates
  BY DEF SvSound
<1>2. CASE services_command
  <2>1. PICK action \in {"start", "stop", "restart"}, target \in SvTargets :
          sv' = [sv EXCEPT !.cmds = @ + 1, !.late = [v \in SvVms |-> FALSE],
                           !.cmd = [todo |-> SvPlan(action, target), pc |-> "next", ask |-> {}, via |-> "rpc"]]
    BY <1>2 DEF services_command
  <2> DEFINE c == [todo |-> SvPlan(action, target), pc |-> "next", ask |-> {}, via |-> "rpc"]
             la == [v \in SvVms |-> FALSE]
             n == sv.cmds + 1
  <2>2. sv' = [sv EXCEPT !.cmds = n, !.late = la, !.cmd = c]
    BY <2>1
  <2>3. PlanOk(SvPlan(action, target))
    BY PlansAre
  <2>4. c \in SvCmds /\ CmdOk(c) /\ c.pc = "next" /\ (TakesNet(c.todo) => HelpersPending(c.todo))
    BY <2>3 DEF SvCmds, SvPcs, SvVias, CmdOk, PlanOk
  <2>5. la \in SvVmFlags
    BY DEF SvVmFlags
  <2>6. n \in Nat
    BY <1>1 DEF SvStates
  <2> HIDE DEF c, la, n
  <2>7. sv' \in SvStates
    BY <1>1, <2>2, <2>4, <2>5, <2>6 DEF SvStates
  <2>8. sv'.cmd = c /\ sv'.vm = sv.vm /\ sv'.child = sv.child /\ sv'.listed = sv.listed /\ sv'.cut = sv.cut
    BY <1>1, <2>2 DEF SvStates
  <2> QED BY <2>4, <2>7, <2>8 DEF SvSound
<1>3. CASE services_next
  <2>1. sv.cmd # NoSv /\ sv.cmd.pc = "next"
    BY <1>3 DEF services_next, SvAt
  <2>2. CASE sv.cmd.todo = << >>
    BY <1>3, <2>2, SvEnds DEF services_next
  <2>3. CASE sv.cmd.todo # << >>
    <3> DEFINE op == sv.cmd.todo[1].op
    <3>1. sv.cmd.todo \in Seq(SvSteps) /\ CmdOk(sv.cmd)
      BY <1>1, <2>1 DEF SvSound, SvStates, SvCmds
    <3>2. Head(sv.cmd.todo) = sv.cmd.todo[1] /\ sv.cmd.todo[1] \in SvSteps
      BY <3>1, <2>3
    <3>3. sv' = SvGo(sv, op) /\ op \in {"helpers", "stop", "start", "restart"} /\ op \in SvPcs
      BY <1>3, <2>3, <3>2 DEF services_next, SvOp, SvSteps, SvPcs
    <3>4. sv' \in SvStates /\ SvKept(sv, sv') /\ sv'.cmd.todo = sv.cmd.todo /\ sv'.cmd.via = sv.cmd.via /\ sv'.cmd.pc = op
      BY <1>1, <2>1, <3>3, SvGoes
    <3>5. CmdOk(sv'.cmd)
      BY <2>1, <2>3, <3>1, <3>3, <3>4 DEF CmdOk, HelpersPending
    <3> QED BY ZenonT(40), <2>1, <3>3, <3>4, <3>5, SvFrame DEF SvKept, SvSound
  <2> QED BY <2>2, <2>3
<1>4. CASE command_killed
  BY <1>4, SvEnds DEF command_killed
<1> QED BY <1>2, <1>3, <1>4

\* A move that leaves the step, and what it has done, as it is.
LEMMA SvMoves ==
  ASSUME NEW s, SvSound(s), s.cmd # NoSv, NEW pc \in SvPcs \ {"signalled"}, CmdOk([s.cmd EXCEPT !.pc = pc])
  PROVE  SvSound(SvGo(s, pc))
<1> DEFINE t == SvGo(s, pc)
<1>1. s \in SvStates /\ \A v \in SvVms : s.child[v] => s.listed[v]
  BY DEF SvSound
<1>2. t \in SvStates /\ SvKept(s, t) /\ CmdOk(t.cmd) /\ t.cmd.todo = s.cmd.todo /\ t.cmd.via = s.cmd.via /\ t.cmd.pc # "signalled"
  BY <1>1, SvGoes
<1> HIDE DEF t
<1>3. t.vm = s.vm /\ t.child = s.child /\ t.listed = s.listed /\ t.late = s.late /\ t.cut = s.cut
  BY <1>2 DEF SvKept
<1>4. SvSound(t)
  BY <1>1, <1>2, <1>3, SvFrame
<1> QED BY <1>4 DEF t

\* The same step under another program counter.
LEMMA SamePlace ==
  ASSUME NEW c \in SvCmds, CmdOk(c), NEW pc \in SvPcs,
         \/ c.pc \in {"helpers", "rpc", "signal"} /\ pc \in {"rpc", "signal"}
         \/ c.pc \in {"start", "socket", "restart"} /\ pc \in {"start", "socket", "restart"}
         \/ c.pc = "stop" /\ pc = "gone"
  PROVE  CmdOk([c EXCEPT !.pc = pc])
<1>1. LET d == [c EXCEPT !.pc = pc] IN d.todo = c.todo /\ d.via = c.via /\ d.pc = pc
  BY DEF SvCmds
<1> QED BY <1>1 DEF CmdOk

LEMMA SvRpc ==
  ASSUME SvSound(sv), stop_vm_helpers \/ stop_vm_helpers_via_supervisor PROVE SvSound(sv')
<1>1. sv \in SvStates /\ (\A v \in SvVms : sv.child[v] => sv.listed[v]) /\ sv.cmd # NoSv /\ sv.cmd \in SvCmds /\ CmdOk(sv.cmd)
  BY DEF SvSound, SvStates, stop_vm_helpers, stop_vm_helpers_via_supervisor, SvAt
<1>2. sv.vm \in SvVmStates /\ sv.listed \in SvVmFlags /\ sv.child \in SvVmFlags /\ sv.cmd.ask \in SUBSET SvVms
  BY <1>1 DEF SvStates, SvCmds
<1>3. ASSUME sv.cmd.pc \in {"helpers", "rpc"} PROVE SvSound(SvGo(sv, "signal"))
  BY <1>1, <1>3, SamePlace, SvMoves DEF SvPcs
<1>4. CASE stop_vm_helpers
  <2>1. sv.cmd.pc = "helpers"
    BY <1>4 DEF stop_vm_helpers, SvAt
  <2>2. CASE ~supervisor_reachable
    BY <1>3, <1>4, <2>1, <2>2 DEF stop_vm_helpers
  <2>3. CASE supervisor_reachable
    <3> DEFINE s == SvGo(sv, "rpc")
               all == {v \in SvVms : sv.listed[v]}
               c == [s.cmd EXCEPT !.ask = all]
    <3>1. s \in SvStates /\ SvKept(sv, s) /\ s.cmd = [sv.cmd EXCEPT !.pc = "rpc"]
      BY <1>1, SvGoes DEF SvPcs
    <3>2. s.cmd \in SvCmds /\ CmdOk(s.cmd) /\ s.cmd.todo = sv.cmd.todo /\ s.cmd.via = sv.cmd.via /\ s.cmd.pc = "rpc"
      BY <1>1, <2>1, <3>1, SamePlace DEF SvCmds, SvPcs
    <3>3. sv' = [s EXCEPT !.cmd.ask = all]
      BY <1>4, <2>3 DEF stop_vm_helpers
    <3> HIDE DEF s
    <3>4. sv' = [s EXCEPT !.cmd = c]
      BY <3>3
    <3>5. all \in SUBSET SvVms
      OBVIOUS
    <3> HIDE DEF all
    <3>6. c \in SvCmds /\ c.todo = s.cmd.todo /\ c.via = s.cmd.via /\ c.pc = s.cmd.pc
      BY <3>2, <3>5 DEF SvCmds
    <3> HIDE DEF c
    <3>7. CmdOk(c)
      BY <3>2, <3>6 DEF CmdOk
    <3>8. sv' \in SvStates /\ sv'.cmd = c
      BY <3>1, <3>4, <3>6 DEF SvStates
    <3>9. SvKept(s, sv')
      BY <3>1, <3>4 DEF SvStates, SvKept
    <3> QED BY <1>1, <3>1, <3>2, <3>6, <3>7, <3>8, <3>9, SvFrame DEF SvKept
  <2> QED BY <2>2, <2>3
<1>5. CASE stop_vm_helpers_via_supervisor
  <2>1. sv.cmd.pc = "rpc"
    BY <1>5 DEF stop_vm_helpers_via_supervisor, SvAt
  <2>2. CASE sv' = SvGo(sv, "signal")
    BY <1>3, <2>1, <2>2
  <2>3. ASSUME NEW v \in sv.cmd.ask, sv' = vm_stop(v) PROVE SvSound(sv')
    <3> DEFINE vm == [sv.vm EXCEPT ![v] = IF sv.vm[v] = "running" /\ sv.listed[v] THEN "stopping" ELSE sv.vm[v]]
               li == [sv.listed EXCEPT ![v] = sv.listed[v] /\ sv.child[v]]
               c == [sv.cmd EXCEPT !.ask = sv.cmd.ask \ {v}]
    <3>1. sv' = [sv EXCEPT !.vm = vm, !.listed = li, !.cmd = c]
      BY <2>3 DEF vm_stop
    <3>2. v \in SvVms
      BY <1>2, <2>3
    <3>3. vm \in SvVmStates /\ \A w \in SvVms : vm[w] # "off" => sv.vm[w] # "off"
      BY <1>2, <3>2 DEF SvVmStates
    <3>4. li \in SvVmFlags /\ \A w \in SvVms : sv.child[w] => li[w]
      BY <1>1, <1>2, <3>2 DEF SvVmFlags
    <3>5. c \in SvCmds /\ c.todo = sv.cmd.todo /\ c.via = sv.cmd.via /\ c.pc = sv.cmd.pc
      BY <1>1, <1>2 DEF SvCmds
    <3> HIDE DEF vm, li, c
    <3>6. CmdOk(c) /\ c.pc # "signalled"
      BY <1>1, <2>1, <3>5 DEF CmdOk
    <3>7. sv' \in SvStates
      BY <1>1, <3>1, <3>3, <3>4, <3>5 DEF SvStates
    <3>8. sv'.cmd = c /\ sv'.vm = vm /\ sv'.child = sv.child /\ sv'.late = sv.late /\ sv'.cut = sv.cut /\ sv'.listed = li
      BY <1>1, <3>1 DEF SvStates
    <3> QED BY <1>1, <3>3, <3>4, <3>5, <3>6, <3>7, <3>8, SvFrame
  <2>4. CASE (\A v \in SvVms : ~sv.listed[v]) /\ sv' = SvNextStep(sv)
    <3>1. HelpersPending(sv.cmd.todo) /\ sv.cmd.via = "rpc"
      BY <1>1, <2>1 DEF CmdOk
    <3>2. \A v \in SvVms : MayLoseNet(sv, v)
      BY <1>1, <2>4, <3>1 DEF MayLoseNet
    <3>3. sv.cmd.todo # << >>
      BY <3>1 DEF HelpersPending
    <3>4. sv' \in SvStates /\ SvKept(sv, sv') /\ sv'.cmd = [sv.cmd EXCEPT !.todo = Tail(sv.cmd.todo), !.pc = "next"]
      BY <1>1, <2>4, <3>3, SvAdvances
    <3> QED BY <1>1, <3>2, <3>3, <3>4, SvStepDone
  <2> QED BY <1>5, <2>2, <2>3, <2>4 DEF stop_vm_helpers_via_supervisor
<1> QED BY <1>4, <1>5

LEMMA SvSignal ==
  ASSUME SvSound(sv), stop_vm_helpers_via_signal PROVE SvSound(sv')
<1>1. sv \in SvStates /\ (\A v \in SvVms : sv.child[v] => sv.listed[v]) /\ sv.cmd # NoSv /\ sv.cmd \in SvCmds /\ CmdOk(sv.cmd)
  BY DEF SvSound, SvStates, stop_vm_helpers_via_signal, SvAt
<1>2. CASE SvAt("signal")
  <2> DEFINE s == SvGo(sv, "signalled")
             pids == {v \in SvVms : sv.vm[v] # "off"}
             vm == [v \in SvVms |-> IF v \in pids THEN "stopping" ELSE sv.vm[v]]
             c == [s.cmd EXCEPT !.ask = pids, !.via = "signal"]
  <2>1. sv.cmd.pc = "signal"
    BY <1>2 DEF SvAt
  <2>2. s \in SvStates /\ SvKept(sv, s) /\ s.cmd.todo = sv.cmd.todo /\ s.cmd.pc = "signalled" /\ s.cmd = [sv.cmd EXCEPT !.pc = "signalled"]
    BY <1>1, SvGoes DEF SvPcs
  <2>3. s.cmd \in SvCmds
    BY <1>1, <2>2 DEF SvCmds, SvPcs
  <2>4. s.vm = sv.vm
    BY <2>2 DEF SvKept
  <2>5. sv' = [s EXCEPT !.vm = [v \in SvVms |-> IF v \in pids THEN "stopping" ELSE s.vm[v]], !.cmd.ask = pids, !.cmd.via = "signal"]
    BY <1>2, <2>1 DEF stop_vm_helpers_via_signal, SvAt
  <2> HIDE DEF s
  <2>6. sv' = [s EXCEPT !.vm = vm, !.cmd = c]
    BY <2>4, <2>5
  <2>7. sv.vm \in SvVmStates
    BY <1>1 DEF SvStates
  <2>8. vm \in SvVmStates /\ (\A v \in SvVms : vm[v] # "off" => v \in pids) /\ \A v \in SvVms : v \in pids => sv.vm[v] # "off"
    BY <2>7 DEF SvVmStates
  <2>9. pids \in SUBSET SvVms
    OBVIOUS
  <2> HIDE DEF pids, vm
  <2>10. c \in SvCmds /\ c.todo = s.cmd.todo /\ c.via = "signal" /\ c.pc = s.cmd.pc /\ c.ask = pids
    BY <2>3, <2>9 DEF SvCmds, SvVias
  <2> HIDE DEF c
  <2>11. CmdOk(c) /\ HelpersPending(c.todo)
    BY <1>1, <2>1, <2>2, <2>10 DEF CmdOk
  <2>12. sv' \in SvStates
    BY <2>2, <2>6, <2>8, <2>10 DEF SvStates
  <2>13. sv'.cmd = c /\ sv'.vm = vm /\ sv'.child = s.child /\ sv'.late = s.late /\ sv'.cut = s.cut /\ sv'.listed = s.listed
    BY <2>2, <2>6 DEF SvStates
  <2>14. s.child = sv.child /\ s.listed = sv.listed /\ s.cut = sv.cut
    BY <2>2 DEF SvKept
  <2> QED BY <1>1, <2>8, <2>10, <2>11, <2>12, <2>13, <2>14 DEF SvSound
<1>3. CASE SvAt("signalled")
  <2>1. sv.cmd.pc = "signalled"
    BY <1>3 DEF SvAt
  <2>2. CASE sv' = SvEnd(sv)
    BY <2>2, SvEnds
  <2>3. CASE ~(\E v \in sv.cmd.ask : sv.vm[v] # "off" /\ ~sv.late[v]) /\ sv' = SvNextStep(sv)
    <3>1. \A v \in SvVms : MayLoseNet(sv, v)
      BY <1>1, <2>1, <2>3 DEF MayLoseNet, SvSound
    <3>2. sv.cmd.todo # << >>
      BY <1>1, <2>1 DEF CmdOk, HelpersPending
    <3>3. sv' \in SvStates /\ SvKept(sv, sv') /\ sv'.cmd = [sv.cmd EXCEPT !.todo = Tail(sv.cmd.todo), !.pc = "next"]
      BY <1>1, <2>3, <3>2, SvAdvances
    <3> QED BY <1>1, <3>1, <3>2, <3>3, SvStepDone
  <2> QED BY <1>3, <2>1, <2>2, <2>3 DEF stop_vm_helpers_via_signal, SvAt
<1> QED BY <1>2, <1>3 DEF stop_vm_helpers_via_signal

\* A step of one service that is done; its socket file may go.
LEMMA SvOneDone ==
  ASSUME SvSound(sv), sv.cmd # NoSv, sv.cmd.pc \in {"stop", "gone", "socket"}, NEW k \in SvFlags,
         sv' = [SvNextStep(sv) EXCEPT !.sock = k]
  PROVE  SvSound(sv')
<1>1. sv \in SvStates /\ CmdOk(sv.cmd)
  BY DEF SvSound
<1>2. sv.cmd.todo # << >> /\ ~HelpersPending(sv.cmd.todo)
  BY <1>1 DEF CmdOk, HelpersPending
<1> DEFINE s == SvNextStep(sv)
<1>3. s \in SvStates /\ SvKept(sv, s) /\ s.cmd = [sv.cmd EXCEPT !.todo = Tail(sv.cmd.todo), !.pc = "next"]
  BY <1>1, <1>2, SvAdvances
<1> HIDE DEF s
<1>4. sv' = [s EXCEPT !.sock = k]
  BY DEF s
<1>5. sv' \in SvStates /\ SvKept(s, sv') /\ sv'.cmd = s.cmd
  BY <1>3, <1>4 DEF SvStates, SvKept
<1>6. SvKept(sv, sv')
  BY <1>3, <1>5 DEF SvKept
<1> QED BY <1>2, <1>3, <1>5, <1>6, SvStepDone

\* Both flags of a service are Booleans.
LEMMA SpecFlags ==
  ASSUME NEW id \in SvIds PROVE ServiceSpec[id].socket \in BOOLEAN /\ ServiceSpec[id].kickstart_kill \in BOOLEAN
<1>1. CASE id = "net"
  BY <1>1 DEF ServiceSpec
<1>2. CASE id = "edge"
  BY <1>2 DEF ServiceSpec
<1>3. CASE id = "supervisor"
  BY <1>3 DEF ServiceSpec
<1> QED BY <1>1, <1>2, <1>3 DEF SvIds

LEMMA SvStops ==
  ASSUME SvSound(sv), stop_one PROVE SvSound(sv')
<1>1. sv \in SvStates /\ (\A v \in SvVms : sv.child[v] => sv.listed[v]) /\ sv.cmd # NoSv /\ sv.cmd \in SvCmds /\ CmdOk(sv.cmd)
  BY DEF SvSound, SvStates, stop_one, SvAt
<1>2. sv.cmd.pc \in {"stop", "gone"}
  BY DEF stop_one, SvAt
<1>3. sv.cmd.todo # << >> /\ sv.cmd.todo \in Seq(SvSteps) /\ sv.cmd.todo[1].op = "stop"
  BY <1>1, <1>2 DEF CmdOk, SvCmds
<1>4. SvOp = sv.cmd.todo[1] /\ sv.cmd.todo[1] \in SvSteps
  BY <1>3 DEF SvOp
<1>5. SvOp.id \in SvIds /\ SvOp = SvStep("stop", SvOp.id)
  BY <1>3, <1>4 DEF SvSteps, SvStep
<1> DEFINE id == SvOp.id
<1>6. sv.sock \in SvFlags /\ sv.leaving \in SvFlags
  BY <1>1 DEF SvStates
<1>7. ASSUME NEW keep \in BOOLEAN, sv' = [SvNextStep(sv) EXCEPT !.sock[id] = @ /\ keep] PROVE SvSound(sv')
  <2> DEFINE k == [sv.sock EXCEPT ![id] = sv.sock[id] /\ keep]
  <2>1. SvNextStep(sv).sock = sv.sock
    BY <1>1, <1>3, SvAdvances
  <2>2. sv' = [SvNextStep(sv) EXCEPT !.sock = k]
    BY <1>7, <2>1
  <2>3. k \in SvFlags
    BY <1>5, <1>6 DEF SvFlags
  <2> QED BY <1>1, <1>2, <2>2, <2>3, SvOneDone
<1>8. CASE sv' = SvEnd(sv)
  BY <1>8, SvEnds
<1>9. CASE sv.cmd.pc = "stop" /\ sv' = SvGo(bootout(sv, id), "gone")
  <2> DEFINE lv == [sv.leaving EXCEPT ![id] = TRUE]
             more == IF id = "net" THEN {[late |-> sv.late[v], child |-> sv.child[v], via |-> sv.cmd.via] : v \in {w \in SvVms : sv.vm[w] # "off"}} ELSE {}
             cut2 == sv.cut \cup more
             b == bootout(sv, id)
  <2>1. b = [sv EXCEPT !.leaving = lv, !.cut = cut2]
    BY DEF bootout
  <2>2. lv \in SvFlags
    BY <1>5, <1>6 DEF SvFlags
  <2>3. sv.late \in SvVmFlags /\ sv.child \in SvVmFlags /\ sv.cmd.via \in SvVias /\ sv.cut \in SvCuts
    BY <1>1 DEF SvStates, SvCmds
  <2>4. cut2 \in SvCuts
    BY <2>3 DEF SvCuts, SvVmFlags
  <2>5. id = "net" => \A v \in SvVms : MayLoseNet(sv, v)
    <3> SUFFICES ASSUME id = "net" PROVE \A v \in SvVms : MayLoseNet(sv, v)
      OBVIOUS
    <3>1. sv.cmd.todo[1] = SvStep("stop", "net") /\ 1 \in 1 .. Len(sv.cmd.todo)
      BY <1>3, <1>4, <1>5
    <3>2. TakesNet(sv.cmd.todo) /\ ~HelpersPending(sv.cmd.todo)
      BY <1>3, <3>1 DEF TakesNet, HelpersPending
    <3> QED BY <1>1, <3>2 DEF SvSound
  <2>6. \A c \in more : c.late \/ (~c.child /\ c.via = "rpc")
    BY <2>5 DEF MayLoseNet
  <2>7. \A c \in cut2 : c.late \/ (~c.child /\ c.via = "rpc")
    BY <2>6 DEF SvSound
  <2> HIDE DEF lv, cut2, b
  <2>8. b \in SvStates
    BY <1>1, <2>1, <2>2, <2>4 DEF SvStates
  <2>9. b.cut = cut2 /\ b.cmd = sv.cmd /\ b.vm = sv.vm /\ b.child = sv.child /\ b.listed = sv.listed /\ b.late = sv.late
    BY <1>1, <2>1 DEF SvStates
  <2>10. SvSound(b)
    BY <2>7, <2>8, <2>9 DEF SvSound, MayLoseNet
  <2>11. /\ sv' = SvGo(b, "gone") /\ "gone" \in SvPcs /\ b.cmd # NoSv
    BY <1>1, <1>9, <2>9 DEF b, SvPcs
  <2>12. /\ sv' \in SvStates /\ SvKept(b, sv') /\ sv'.cmd = [b.cmd EXCEPT !.pc = "gone"]
         /\ sv'.cmd.todo = b.cmd.todo /\ sv'.cmd.via = b.cmd.via /\ sv'.cmd.pc = "gone"
    BY <2>8, <2>11, SvGoes
  <2>13. CmdOk(sv'.cmd)
    BY <1>1, <1>9, <2>9, <2>11, <2>12, SamePlace
  <2>14. \A v \in SvVms : b.child[v] => b.listed[v]
    BY <1>1, <2>9
  <2> QED BY <2>10, <2>11, <2>12, <2>13, <2>14, SvFrame DEF SvKept
<1>10. ServiceSpec[id].socket \in BOOLEAN
  BY <1>5, SpecFlags
<1> QED
  <2>1. CASE SvAt("stop")
    <3>1. CASE agent_loaded(id)
      BY <1>8, <1>9, <2>1, <3>1 DEF stop_one, SvAt
    <3>2. CASE ~agent_loaded(id)
      <4>1. sv' = [SvNextStep(sv) EXCEPT !.sock[id] = @ /\ ~ServiceSpec[id].socket]
        BY <2>1, <3>2 DEF stop_one, SvAt
      <4> QED BY <1>7, <1>10, <4>1
    <3> QED BY <3>1, <3>2
  <2>2. CASE SvAt("gone") /\ ~agent_loaded(id)
    <3>1. sv' = [SvNextStep(sv) EXCEPT !.sock[id] = @ /\ id # "net"]
      BY <2>2 DEF stop_one, SvAt
    <3> QED BY <1>7, <3>1
  <2> QED BY <1>8, <2>1, <2>2 DEF stop_one

LEMMA SvKicks ==
  ASSUME NEW s, SvSound(s), NEW id \in SvIds, NEW kill \in BOOLEAN
  PROVE  SvSound(kickstart(s, id, kill)) /\ kickstart(s, id, kill).cmd = s.cmd
<1>1. s \in SvStates /\ \A v \in SvVms : s.child[v] => s.listed[v]
  BY DEF SvSound
<1>2. CASE s.proc[id] # "down" /\ ~kill
  BY <1>2 DEF kickstart
<1>3. CASE ~(s.proc[id] # "down" /\ ~kill)
  <2> DEFINE d == SvDown(s, id)
             p == [d.proc EXCEPT ![id] = "starting"]
             t == kickstart(s, id, kill)
  <2>1. /\ d \in SvStates /\ d.vm = s.vm /\ d.late = s.late /\ d.cut = s.cut /\ d.cmd = s.cmd
        /\ \A v \in SvVms : d.child[v] => s.child[v]
        /\ \A v \in SvVms : d.child[v] => d.listed[v]
    BY <1>1, SvDowns
  <2> HIDE DEF d
  <2>2. t = [d EXCEPT !.proc = p]
    BY <1>3 DEF kickstart, d
  <2>3. p \in SvProcs
    BY <2>1 DEF SvStates, SvProcs
  <2> HIDE DEF p, t
  <2>4. t \in SvStates /\ SvKept(d, t) /\ t.cmd = d.cmd
    BY <2>1, <2>2, <2>3 DEF SvStates, SvKept
  <2>5. SvSound(t)
    BY <2>1, <2>4, SvFrame DEF SvKept
  <2> QED BY <2>1, <2>4, <2>5 DEF t
<1> QED BY <1>2, <1>3

LEMMA SvBegins ==
  ASSUME SvSound(sv), start_one \/ restart_one PROVE SvSound(sv')
<1>1. sv \in SvStates /\ (\A v \in SvVms : sv.child[v] => sv.listed[v]) /\ sv.cmd # NoSv /\ sv.cmd \in SvCmds /\ CmdOk(sv.cmd)
  BY DEF SvSound, SvStates, start_one, restart_one, SvAt
<1>2. sv.cmd.pc \in {"start", "socket", "restart"}
  BY DEF start_one, restart_one, SvAt
<1>3. sv.cmd.todo # << >> /\ sv.cmd.todo \in Seq(SvSteps)
  BY <1>1, <1>2 DEF CmdOk, SvCmds
<1>4. SvOp \in SvSteps
  BY <1>3 DEF SvOp
<1> DEFINE id == SvOp.id
<1>5. id \in SvIds /\ "socket" \in SvPcs \ {"signalled"} /\ "start" \in SvPcs \ {"signalled"}
  BY <1>4 DEF SvSteps, SvPcs
<1>6. CmdOk([sv.cmd EXCEPT !.pc = "socket"]) /\ CmdOk([sv.cmd EXCEPT !.pc = "start"])
  BY <1>1, <1>2, <1>5, SamePlace
<1>7. ASSUME NEW s, SvSound(s), s.cmd = sv.cmd, NEW kill \in BOOLEAN, sv' = SvGo(kickstart(s, id, kill), "socket") PROVE SvSound(sv')
  <2> DEFINE t == kickstart(s, id, kill)
  <2>1. SvSound(t) /\ t.cmd = s.cmd
    BY <1>5, <1>7, SvKicks
  <2> HIDE DEF t
  <2>2. sv' = SvGo(t, "socket")
    BY <1>7 DEF t
  <2> QED BY <1>1, <1>5, <1>6, <1>7, <2>1, <2>2, SvMoves
<1>8. CASE sv' = SvEnd(sv)
  BY <1>8, SvEnds
<1>9. CASE sv' = SvGo(sv, "start")
  BY <1>1, <1>5, <1>6, <1>9, SvMoves
<1>10. CASE sv.cmd.pc = "socket" /\ sv' = SvNextStep(sv)
  <2>1. sv' \in SvStates /\ SvKept(sv, sv') /\ sv'.cmd = [sv.cmd EXCEPT !.todo = Tail(sv.cmd.todo), !.pc = "next"]
    BY <1>1, <1>3, <1>10, SvAdvances
  <2>2. ~HelpersPending(sv.cmd.todo)
    BY <1>1, <1>10 DEF CmdOk, HelpersPending
  <2> QED BY <1>1, <1>3, <2>1, <2>2, SvStepDone
<1>11. SvSound(bootstrap(sv, id)) /\ bootstrap(sv, id).cmd = sv.cmd
  <2> DEFINE lo == [sv.loaded EXCEPT ![id] = TRUE]
             t == bootstrap(sv, id)
  <2>1. t = [sv EXCEPT !.loaded = lo] /\ lo \in SvFlags
    BY <1>1, <1>5 DEF bootstrap, SvStates, SvFlags
  <2> HIDE DEF lo, t
  <2>2. t \in SvStates /\ SvKept(sv, t) /\ t.cmd = sv.cmd
    BY <1>1, <2>1 DEF SvStates, SvKept
  <2>3. SvSound(t)
    BY <1>1, <2>2, SvFrame DEF SvKept
  <2> QED BY <2>2, <2>3 DEF t
<1>12. ServiceSpec[id].kickstart_kill \in BOOLEAN
  BY <1>5, SpecFlags
<1>13. CASE SvAt("start")
  <2>1. \/ sv' = SvEnd(sv)
        \/ sv' = SvGo(kickstart(sv, id, ServiceSpec[id].kickstart_kill), "socket")
        \/ sv' = SvGo(kickstart(bootstrap(sv, id), id, ServiceSpec[id].kickstart_kill), "socket")
    BY <1>13 DEF start_one, restart_one, SvAt
  <2> QED BY <1>7, <1>8, <1>11, <1>12, <2>1
<1>14. CASE SvAt("socket")
  BY <1>8, <1>10, <1>14 DEF start_one, restart_one, SvAt
<1>15. CASE SvAt("restart")
  <2>1. sv' = SvGo(kickstart(sv, id, TRUE), "socket") \/ sv' = SvGo(sv, "start")
    BY <1>15 DEF start_one, restart_one, SvAt
  <2> QED BY <1>7, <1>9, <2>1
<1> QED BY <1>13, <1>14, <1>15 DEF start_one, restart_one

\* When vzctl services takes vz-net away, every VM that still runs came after
\* the command's last look at the helpers, or is of an earlier control plane
\* while the present one answered (services.rs: stop_vm_helpers before bootout).
THEOREM HelpersStopFirst == SvSpec => []OwnVmsStopFirst
<1> DEFINE Inv == SvSound(sv)
<1>1. SvInit => Inv
  BY DEF SvInit, SvSound, SvStates, SvFlags, SvProcs, SvVmStates, SvVmFlags, SvCuts
<1>2. Inv /\ [SvNext]_sv => Inv'
  <2> SUFFICES ASSUME SvSound(sv), [SvNext]_sv PROVE SvSound(sv')
    OBVIOUS
  <2>1. CASE UNCHANGED sv
    BY <2>1
  <2>2. CASE SvNext
    BY <2>2, SvServices, SvHelpers, SvStarts, SvCommands, SvRpc, SvSignal, SvStops, SvBegins DEF SvNext
  <2> QED BY <2>1, <2>2
<1>3. Inv => OwnVmsStopFirst
  BY DEF SvSound, OwnVmsStopFirst
<1> HIDE DEF Inv
<1> QED BY <1>1, <1>2, <1>3, PTL DEF SvSpec

-----------------------------------------------------------------------------
(* Stack commands of the desktop application.                              *)

\* Where a task is in its recovery: a run in flight counts for what follows
\* it, and so does the clearing of a lease.
UiStage(k) == IF k.pc \in {"protect", "wait", "abort", "reap", "abort2", "leaseWait", "abort3"} THEN k.after ELSE k.pc

\* The runs made so far, by stage and round.
Budgeted(k) ==
  /\ {"pc", "after", "depth", "runs", "cmd", "child", "out", "result"} \subseteq DOMAIN k
  /\ k.depth \in Nat /\ k.runs \in Nat /\ k.runs <= 4
  /\ UiStage(k) \in {"idle", "first", "recover", "resolver", "retry", "retried", "again", "last"}
  /\ UiStage(k) = "first" => k.runs <= 1 /\ k.depth = 0
  /\ UiStage(k) = "recover" => k.runs <= k.depth + 1 /\ k.depth <= 2
  /\ UiStage(k) \in {"resolver", "retry"} => k.runs <= k.depth + 1 /\ k.depth <= 1
  /\ UiStage(k) \in {"retried", "again"} => k.runs <= k.depth + 2 /\ k.depth <= 1

UiFields == {"proc", "lease", "incomplete", "shield", "task", "cmds", "others", "reaped", "dns", "asked"}
UiSound(s) == UiFields \subseteq DOMAIN s /\ DOMAIN s.task = UiTasks /\ \A t \in UiTasks : Budgeted(s.task[t])

\* A step that leaves stages, rounds and runs alone.
LEMMA UiFrame ==
  ASSUME NEW s, UiSound(s), NEW u, UiFields \subseteq DOMAIN u, u.task = s.task
  PROVE  UiSound(u)
BY DEF UiSound

\* One task moves.
LEMMA UiTaskMoves ==
  ASSUME NEW s, UiSound(s), NEW t \in UiTasks, NEW k, Budgeted(k), NEW u, UiFields \subseteq DOMAIN u, u.task = [s.task EXCEPT ![t] = k]
  PROVE  UiSound(u)
BY DEF UiSound

LEMMA UiGoes ==
  ASSUME NEW s, UiSound(s), NEW t \in UiTasks, NEW pc, Budgeted([s.task[t] EXCEPT !.pc = pc])
  PROVE  UiSound(UiGo(s, t, pc))
<1> DEFINE k == [s.task[t] EXCEPT !.pc = pc]
           u == UiGo(s, t, pc)
           ts == [s.task EXCEPT ![t] = k]
<1>1. u = [s EXCEPT !.task = ts]
  BY DEF UiGo
<1> HIDE DEF u, k, ts
<1>2. UiFields \subseteq DOMAIN u /\ u.task = ts
  BY <1>1 DEF UiSound, UiFields
<1>3. UiSound(u)
  BY <1>2, UiTaskMoves DEF k, ts
<1> QED BY <1>3 DEF u

\* A process that ends leaves its output with the task that waits for it.
LEMMA OutputKeepsBudget ==
  ASSUME NEW k, Budgeted(k), NEW o PROVE Budgeted([k EXCEPT !.out = o, !.child = NoUi])
<1> DEFINE j == [k EXCEPT !.out = o, !.child = NoUi]
<1>1. DOMAIN j = DOMAIN k /\ j.pc = k.pc /\ j.after = k.after /\ j.depth = k.depth /\ j.runs = k.runs
  BY DEF Budgeted
<1> HIDE DEF j
<1>2. UiStage(j) = UiStage(k)
  BY <1>1 DEF UiStage
<1>3. Budgeted(j)
  BY <1>1, <1>2 DEF Budgeted
<1> QED BY <1>3 DEF j

LEMMA UiOutputs ==
  ASSUME UiSound(ui), NEW u, UiFields \subseteq DOMAIN u, NEW W, NEW o,
         u.task = [t \in UiTasks |-> IF t \in W THEN [ui.task[t] EXCEPT !.out = o, !.child = NoUi] ELSE ui.task[t]]
  PROVE  UiSound(u)
<1>1. \A t \in UiTasks : Budgeted([ui.task[t] EXCEPT !.out = o, !.child = NoUi])
  BY OutputKeepsBudget DEF UiSound
<1> QED BY <1>1 DEF UiSound

LEMMA UiEndsSound ==
  ASSUME UiSound(ui), NEW p, NEW code, NEW holder
  PROVE  UiSound(Ends(p, code, holder)) /\ UiFields \subseteq DOMAIN Ends(p, code, holder)
<1> DEFINE o == UiOut(code, holder)
           W == {t \in UiTasks : ui.task[t].child = p}
           s == Gone(ui, p)
           ts == [t \in UiTasks |-> IF t \in W THEN [ui.task[t] EXCEPT !.out = o, !.child = NoUi] ELSE ui.task[t]]
           u == Ends(p, code, holder)
<1>1. UiFields \subseteq DOMAIN s /\ s.task = ui.task
  BY DEF Gone, UiSound, UiFields
<1>2. u = [s EXCEPT !.task = [t \in UiTasks |-> IF t \in W THEN [s.task[t] EXCEPT !.out = o, !.child = NoUi] ELSE s.task[t]]]
  BY DEF Ends
<1> HIDE DEF o, W, s, u
<1>3. u = [s EXCEPT !.task = ts]
  BY <1>1, <1>2
<1> HIDE DEF ts
<1>4. UiFields \subseteq DOMAIN u /\ u.task = ts
  BY <1>1, <1>3 DEF UiFields
<1>5. UiSound(u)
  BY ZenonT(40), <1>4, UiOutputs DEF ts
<1> QED BY <1>4, <1>5 DEF u

LEMMA UiKills ==
  ASSUME UiSound(ui), NEW ps
  PROVE  UiSound(Kill(ps)) /\ \A t \in UiTasks : Kill(ps).task[t].pc = ui.task[t].pc /\ Kill(ps).task[t].after = ui.task[t].after
<1> DEFINE o == UiOut(1, NoUi)
           W == {t \in UiTasks : ui.task[t].child \in ps}
           re == ui.reaped \cup {[cmd |-> ui.proc[p].cmd, hung |-> ui.proc[p].hung] : p \in ps}
           pr == [p \in UiPids |-> IF p \in ps THEN NoUi ELSE ui.proc[p]]
           ts == [t \in UiTasks |-> IF t \in W THEN [ui.task[t] EXCEPT !.out = o, !.child = NoUi] ELSE ui.task[t]]
           u == Kill(ps)
<1>1. u = [ui EXCEPT !.reaped = re, !.proc = pr,
             !.task = [t \in UiTasks |-> IF ui.task[t].child \in ps THEN [ui.task[t] EXCEPT !.out = o, !.child = NoUi] ELSE ui.task[t]]]
  BY DEF Kill
<1>2. u = [ui EXCEPT !.reaped = re, !.proc = pr, !.task = ts]
  BY <1>1
<1>3. \A t \in UiTasks : ts[t].pc = ui.task[t].pc /\ ts[t].after = ui.task[t].after
  BY DEF UiSound, Budgeted
<1> HIDE DEF o, W, re, pr, ts, u
<1>4. UiFields \subseteq DOMAIN u /\ u.task = ts
  BY <1>2 DEF UiSound, UiFields
<1>5. UiSound(u)
  BY ZenonT(40), <1>4, UiOutputs DEF ts
<1> QED BY <1>3, <1>4, <1>5 DEF u

LEMMA UiProcesses ==
  ASSUME UiSound(ui), NEW p \in UiPids, stack_begin(p) \/ stack_end(p) \/ other_hangs(p) \/ other_ends(p)
  PROVE  UiSound(ui')
<1>1. \A code, holder : UiSound(Ends(p, code, holder)) /\ UiFields \subseteq DOMAIN Ends(p, code, holder)
  BY UiEndsSound
<1>2. CASE stack_begin(p)
  <2>1. CASE \E code, holder : ui' = Ends(p, code, holder)
    BY <1>1, <2>1
  <2>2. CASE ui' = [ui EXCEPT !.proc[p].pc = "hold", !.lease = p, !.incomplete = TRUE]
    <3>1. UiFields \subseteq DOMAIN ui' /\ ui'.task = ui.task
      BY <2>2 DEF UiSound, UiFields
    <3> QED BY <3>1, UiFrame
  <2>3. \/ ui' = Ends(p, 6, ui.lease)
        \/ ui' = Ends(p, 5, NoUi)
        \/ ui' = [ui EXCEPT !.proc[p].pc = "hold", !.lease = p, !.incomplete = TRUE]
    BY <1>2 DEF stack_begin
  <2> QED BY <2>1, <2>2, <2>3
<1>3. CASE stack_end(p)
  <2>1. ASSUME NEW code PROVE UiSound([Ends(p, code, NoUi) EXCEPT !.lease = NoUi]) /\ UiSound([Ends(p, code, NoUi) EXCEPT !.lease = NoUi, !.incomplete = FALSE])
    <3> DEFINE e == Ends(p, code, NoUi)
               u == [e EXCEPT !.lease = NoUi]
               w == [e EXCEPT !.lease = NoUi, !.incomplete = FALSE]
    <3>1. UiSound(e) /\ UiFields \subseteq DOMAIN e
      BY <1>1
    <3> HIDE DEF e
    <3>2. UiFields \subseteq DOMAIN u /\ u.task = e.task /\ UiFields \subseteq DOMAIN w /\ w.task = e.task
      BY <3>1 DEF UiFields
    <3> HIDE DEF u, w
    <3>3. UiSound(u) /\ UiSound(w)
      BY <3>1, <3>2, UiFrame
    <3> QED BY <3>3 DEF u, w, e
  <2>2. \/ ui' = Ends(p, 1, NoUi)
        \/ ui' = [Ends(p, 0, NoUi) EXCEPT !.lease = NoUi, !.incomplete = FALSE]
        \/ \E code \in {1, 19, 35} : ui' = [Ends(p, code, NoUi) EXCEPT !.lease = NoUi]
    BY <1>3 DEF stack_end
  <2>3. CASE ui' = Ends(p, 1, NoUi)
    BY <1>1, <2>3
  <2>4. CASE ui' = [Ends(p, 0, NoUi) EXCEPT !.lease = NoUi, !.incomplete = FALSE]
    BY <2>1, <2>4
  <2>5. ASSUME NEW code \in {1, 19, 35}, ui' = [Ends(p, code, NoUi) EXCEPT !.lease = NoUi] PROVE UiSound(ui')
    BY <2>1, <2>5
  <2> QED BY <2>2, <2>3, <2>4, <2>5
<1>4. CASE other_hangs(p) \/ other_ends(p)
  <2>1. UiFields \subseteq DOMAIN ui' /\ ui'.task = ui.task
    BY <1>4 DEF other_hangs, other_ends, Gone, UiSound, UiFields
  <2> QED BY <2>1, UiFrame
<1> QED BY <1>2, <1>3, <1>4

\* A run of vzctl, and the stage it counts for.
LEMMA UiSpawns ==
  ASSUME NEW s, UiSound(s), NEW t \in UiTasks, NEW p, NEW after \in {"first", "retried", "last"}, s.task[t].runs + 1 <= 4,
         after = "first" => s.task[t].runs = 0 /\ s.task[t].depth = 0,
         after = "retried" => s.task[t].runs <= s.task[t].depth + 1 /\ s.task[t].depth <= 1
  PROVE  UiSound(Spawn(s, t, p, after))
<1> DEFINE k == s.task[t]
           u == Spawn(s, t, p, after)
           j == u.task[t]
<1>1. Budgeted(k) /\ UiFields \subseteq DOMAIN s /\ DOMAIN s.task = UiTasks
  BY DEF UiSound
<1>2. UiFields \subseteq DOMAIN u /\ DOMAIN u.task = UiTasks /\ \A o \in UiTasks \ {t} : u.task[o] = s.task[o]
  BY <1>1 DEF Spawn, UiFields
<1>3. DOMAIN j = DOMAIN k /\ j.pc = "protect" /\ j.after = after /\ j.depth = k.depth /\ j.runs = k.runs + 1
  BY ZenonT(40), <1>1 DEF Spawn, UiFields, Budgeted
<1> HIDE DEF j, u
<1>4. UiStage(j) = after
  BY <1>3 DEF UiStage
<1>5. Budgeted(j)
  BY <1>1, <1>3, <1>4 DEF Budgeted
<1>6. UiSound(u)
  BY <1>2, <1>5 DEF UiSound, j
<1> QED BY <1>6 DEF u

\* The task record of a new click and of a finished one.
LEMMA UiIdleIs ==
  /\ \A cmd : Budgeted([UiIdle EXCEPT !.cmd = cmd]) /\ [UiIdle EXCEPT !.cmd = cmd].runs = 0 /\ [UiIdle EXCEPT !.cmd = cmd].depth = 0
  /\ \A result, runs : runs \in Nat /\ runs <= 4 => Budgeted([UiIdle EXCEPT !.result = result, !.runs = runs])
BY DEF UiIdle, Budgeted, UiStage

LEMMA UiEndSound ==
  ASSUME UiSound(ui), NEW t \in UiTasks, NEW result PROVE UiSound(UiEnd(t, result)) /\ UiFields \subseteq DOMAIN UiEnd(t, result)
<1> DEFINE k == [UiIdle EXCEPT !.result = result, !.runs = ui.task[t].runs]
           ts == [ui.task EXCEPT ![t] = k]
           u == UiEnd(t, result)
<1>1. u = [ui EXCEPT !.task = ts]
  BY DEF UiEnd
<1>2. Budgeted(k)
  BY UiIdleIs DEF UiSound, Budgeted
<1> HIDE DEF k, ts, u
<1>3. UiFields \subseteq DOMAIN u /\ u.task = ts
  BY <1>1 DEF UiSound, UiFields
<1>4. UiSound(u)
  BY <1>2, <1>3, UiTaskMoves DEF ts
<1> QED BY <1>3, <1>4 DEF u

\* A change of the program counter to a stage with no smaller allowance.
LEMMA StageMoves ==
  ASSUME NEW k, Budgeted(k), NEW pc,
         \/ pc = UiStage(k)
         \/ pc \in {"wait", "protect", "abort", "reap", "abort2", "leaseWait", "abort3"} /\ UiStage(k) = k.after
         \/ pc = "recover" /\ UiStage(k) = "first"
         \/ pc = "resolver" /\ UiStage(k) = "recover" /\ k.depth <= 1
         \/ pc = "retry" /\ UiStage(k) = "resolver"
  PROVE  Budgeted([k EXCEPT !.pc = pc])
<1> DEFINE j == [k EXCEPT !.pc = pc]
<1>1. DOMAIN j = DOMAIN k /\ j.pc = pc /\ j.after = k.after /\ j.depth = k.depth /\ j.runs = k.runs
  BY DEF Budgeted
<1> HIDE DEF j
<1>2. UiStage(j) \in {UiStage(k), pc} /\ (UiStage(j) # UiStage(k) => pc \notin {"wait", "protect", "abort", "reap", "abort2", "leaseWait", "abort3"})
  BY <1>1 DEF UiStage, Budgeted
<1>3. Budgeted(j)
  BY <1>1, <1>2 DEF Budgeted
<1> QED BY <1>3 DEF j

\* A change of a task's program counter and of fields that do not count.
LEMMA UiGoesOn ==
  ASSUME NEW s, UiSound(s), NEW t \in UiTasks, NEW pc,
         LET k == s.task[t]
         IN  \/ pc = UiStage(k)
             \/ pc \in {"wait", "protect", "abort", "reap", "abort2", "leaseWait", "abort3"} /\ UiStage(k) = k.after
             \/ pc = "recover" /\ UiStage(k) = "first"
             \/ pc = "resolver" /\ UiStage(k) = "recover" /\ k.depth <= 1
             \/ pc = "retry" /\ UiStage(k) = "resolver"
  PROVE  UiSound(UiGo(s, t, pc)) /\ UiFields \subseteq DOMAIN UiGo(s, t, pc)
<1>1. Budgeted(s.task[t])
  BY DEF UiSound
<1>2. Budgeted([s.task[t] EXCEPT !.pc = pc])
  BY <1>1, StageMoves
<1>3. UiSound(UiGo(s, t, pc))
  BY <1>2, UiGoes
<1> QED BY <1>3 DEF UiSound

LEMMA UiRuns ==
  ASSUME UiSound(ui), NEW t \in UiTasks, run_vzctl_blocking(t) \/ protect_pid(t) \/ run_args_streaming(t) \/ run_vzctl_result(t) \/ retry(t)
  PROVE  UiSound(ui')
<1> DEFINE k == ui.task[t]
<1>1. Budgeted(k) /\ UiFields \subseteq DOMAIN ui /\ DOMAIN ui.task = UiTasks
  BY DEF UiSound
<1>2. CASE run_vzctl_blocking(t)
  <2>1. PICK p \in UiFree, cmd \in {"up", "down"} :
          ui' = Spawn([ui EXCEPT !.cmds = @ + 1, !.task[t] = [UiIdle EXCEPT !.cmd = cmd]], t, p, "first")
    BY <1>2 DEF run_vzctl_blocking
  <2> DEFINE j == [UiIdle EXCEPT !.cmd = cmd]
             ts == [ui.task EXCEPT ![t] = j]
             s == [ui EXCEPT !.cmds = ui.cmds + 1, !.task = ts]
  <2>2. Budgeted(j) /\ j.runs = 0 /\ j.depth = 0
    BY UiIdleIs
  <2>3. ui' = Spawn(s, t, p, "first")
    BY <2>1
  <2> HIDE DEF j
  <2>4. UiFields \subseteq DOMAIN s /\ s.task = ts /\ ts[t] = j
    BY <1>1 DEF UiFields
  <2> HIDE DEF s, ts
  <2>5. UiSound(s)
    BY <2>2, <2>4, UiTaskMoves DEF ts
  <2> QED BY <2>2, <2>3, <2>4, <2>5, UiSpawns
<1>3. CASE protect_pid(t)
  <2> DEFINE g == UiGo(ui, t, "wait")
             sh == g.shield \cup (IF ui.task[t].child = NoUi THEN {} ELSE {ui.task[t].child})
  <2>1. UiStage(k) = k.after
    BY <1>3 DEF protect_pid, UiStage
  <2>2. UiSound(g) /\ UiFields \subseteq DOMAIN g
    BY <2>1, UiGoesOn
  <2> HIDE DEF g
  <2>3. ui' = [g EXCEPT !.shield = sh]
    BY <1>3 DEF protect_pid, g
  <2>4. UiFields \subseteq DOMAIN ui' /\ ui'.task = g.task
    BY <2>2, <2>3 DEF UiFields
  <2> QED BY <2>2, <2>4, UiFrame
<1>4. CASE run_args_streaming(t)
  <2> DEFINE g == UiGo(ui, t, ui.task[t].after)
             sh == {p \in g.shield : \E o \in UiTasks : ui.task[o].child = p}
  <2>1. UiStage(k) = k.after
    BY <1>4 DEF run_args_streaming, UiStage
  <2>2. UiSound(g) /\ UiFields \subseteq DOMAIN g
    BY <2>1, UiGoesOn
  <2> HIDE DEF g
  <2>3. ui' = [g EXCEPT !.shield = sh]
    BY <1>4 DEF run_args_streaming, g
  <2>4. UiFields \subseteq DOMAIN ui' /\ ui'.task = g.task
    BY <2>2, <2>3 DEF UiFields
  <2> QED BY <2>2, <2>4, UiFrame
<1>5. CASE run_vzctl_result(t)
  <2>1. UiStage(k) = "first"
    BY <1>5 DEF run_vzctl_result, UiStage
  <2>2. ui' = UiEnd(t, "ok") \/ ui' = UiEnd(t, "fail") \/ ui' = UiGo(ui, t, "recover")
    BY <1>5 DEF run_vzctl_result
  <2> QED BY <2>1, <2>2, UiEndSound, UiGoesOn
<1>6. CASE retry(t)
  <2>1. UiStage(k) = "retry"
    BY <1>6 DEF retry, UiStage
  <2>2. k.runs \in Nat /\ k.depth \in Nat /\ k.runs <= k.depth + 1 /\ k.depth <= 1
    BY <1>1, <2>1 DEF Budgeted
  <2>3. PICK p \in UiFree : ui' = Spawn(ui, t, p, "retried")
    BY <1>6 DEF retry
  <2>4. k.runs + 1 <= 4
    BY <2>2
  <2> QED BY <2>2, <2>3, <2>4, UiSpawns
<1> QED BY <1>2, <1>3, <1>4, <1>5, <1>6

\* A task record with a new continuation: the stage of the lease is cleared for it.
LEMMA ClearsFor ==
  ASSUME NEW s, UiSound(s), NEW t \in UiTasks, NEW after,
         \/ UiStage(s.task[t]) = "recover" /\ s.task[t].depth <= 1 /\ after = "resolver"
         \/ UiStage(s.task[t]) = "retried" /\ after = "again"
  PROVE  UiSound(UiGo([s EXCEPT !.task[t].after = after], t, "abort"))
<1> DEFINE k == s.task[t]
           u == UiGo([s EXCEPT !.task[t].after = after], t, "abort")
           j == u.task[t]
<1>1. Budgeted(k) /\ UiFields \subseteq DOMAIN s /\ DOMAIN s.task = UiTasks
  BY DEF UiSound
<1>2. UiFields \subseteq DOMAIN u /\ DOMAIN u.task = UiTasks /\ \A o \in UiTasks \ {t} : u.task[o] = s.task[o]
  BY <1>1 DEF UiGo, UiFields
<1>3. DOMAIN j = DOMAIN k /\ j.pc = "abort" /\ j.after = after /\ j.depth = k.depth /\ j.runs = k.runs
  BY <1>1 DEF UiGo, UiFields, Budgeted
<1> HIDE DEF j, u
<1>4. UiStage(j) = after
  BY <1>3 DEF UiStage
<1>5. Budgeted(j)
  BY <1>1, <1>3, <1>4 DEF Budgeted
<1>6. UiSound(u)
  BY <1>2, <1>5 DEF UiSound, j
<1> QED BY <1>6 DEF u

LEMMA UiRecovers ==
  ASSUME UiSound(ui), NEW t \in UiTasks, recover_and_retry(t) \/ ensure_resolver(t) \/ retry_result(t)
  PROVE  UiSound(ui')
<1> DEFINE k == ui.task[t]
<1>1. Budgeted(k) /\ UiFields \subseteq DOMAIN ui /\ DOMAIN ui.task = UiTasks
  BY DEF UiSound
<1>2. CASE recover_and_retry(t)
  <2>1. UiStage(k) = "recover" /\ k.depth \in Nat
    BY <1>1, <1>2 DEF recover_and_retry, UiStage, Budgeted
  <2>2. CASE k.depth > 1
    <3>1. ui' = UiEnd(t, "fail")
      BY <1>2, <2>1, <2>2 DEF recover_and_retry
    <3> QED BY <3>1, UiEndSound
  <2>3. CASE k.depth <= 1
    <3>1. ui' = UiGo([ui EXCEPT !.task[t].after = "resolver"], t, "abort") \/ ui' = UiGo(ui, t, "resolver")
      BY <1>2, <2>1, <2>3 DEF recover_and_retry
    <3> QED BY <2>1, <2>3, <3>1, ClearsFor, UiGoesOn
  <2> QED BY <2>1, <2>2, <2>3
<1>3. CASE ensure_resolver(t)
  <2>1. UiStage(k) = "resolver"
    BY <1>3 DEF ensure_resolver, UiStage
  <2>2. /\ UiSound(UiGo(ui, t, "retry")) /\ UiFields \subseteq DOMAIN UiGo(ui, t, "retry")
        /\ UiSound(UiEnd(t, "fail")) /\ UiFields \subseteq DOMAIN UiEnd(t, "fail")
    BY <2>1, UiGoesOn, UiEndSound
  <2>3. \E s \in {UiGo(ui, t, "retry"), UiEnd(t, "fail")} : ui' = s \/ \E verb : ui' = [s EXCEPT !.asked = s.asked \cup {verb}]
    BY <1>3 DEF ensure_resolver
  <2>4. PICK s : /\ UiSound(s) /\ UiFields \subseteq DOMAIN s
                 /\ ui' = s \/ \E verb : ui' = [s EXCEPT !.asked = s.asked \cup {verb}]
    BY <2>2, <2>3
  <2>5. UiFields \subseteq DOMAIN ui' /\ ui'.task = s.task
    BY <2>4 DEF UiFields
  <2> QED BY <2>4, <2>5, UiFrame
<1>4. CASE retry_result(t) /\ k.pc = "retried"
  <2>1. UiStage(k) = "retried"
    BY <1>4 DEF UiStage
  <2>2. k.depth \in Nat /\ k.runs \in Nat /\ k.runs <= k.depth + 2 /\ k.depth <= 1
    BY <1>1, <2>1 DEF Budgeted
  <2>3. CASE ui' = UiGo([ui EXCEPT !.task[t].depth = k.depth + 1], t, "recover")
    <3> DEFINE u == UiGo([ui EXCEPT !.task[t].depth = k.depth + 1], t, "recover")
               j == u.task[t]
    <3>1. UiFields \subseteq DOMAIN u /\ DOMAIN u.task = UiTasks /\ \A o \in UiTasks \ {t} : u.task[o] = ui.task[o]
      BY <1>1 DEF UiGo, UiFields
    <3>2. DOMAIN j = DOMAIN k /\ j.pc = "recover" /\ j.after = k.after /\ j.depth = k.depth + 1 /\ j.runs = k.runs
      BY <1>1 DEF UiGo, UiFields, Budgeted
    <3> HIDE DEF j, u
    <3>3. UiStage(j) = "recover"
      BY <3>2 DEF UiStage
    <3>4. Budgeted(j)
      BY <1>1, <2>2, <3>2, <3>3 DEF Budgeted
    <3> QED BY <2>3, <3>1, <3>4 DEF UiSound, j, u
  <2>4. CASE ui' = UiGo([ui EXCEPT !.task[t].after = "again"], t, "abort")
    BY <2>1, <2>4, ClearsFor
  <2>5. CASE ui' = UiEnd(t, "ok") \/ ui' = UiEnd(t, "fail")
    BY <2>5, UiEndSound
  <2>6. \/ ui' = UiEnd(t, "ok") \/ ui' = UiEnd(t, "fail")
        \/ ui' = UiGo([ui EXCEPT !.task[t].after = "again"], t, "abort")
        \/ ui' = UiGo([ui EXCEPT !.task[t].depth = k.depth + 1], t, "recover")
    BY <1>4 DEF retry_result
  <2> QED BY <2>3, <2>4, <2>5, <2>6
<1>5. CASE retry_result(t) /\ k.pc = "again"
  <2>1. UiStage(k) = "again"
    BY <1>5 DEF UiStage
  <2>2. k.depth \in Nat /\ k.runs \in Nat /\ k.runs <= k.depth + 2 /\ k.depth <= 1
    BY <1>1, <2>1 DEF Budgeted
  <2>3. PICK p \in UiFree : ui' = Spawn(ui, t, p, "last")
    BY <1>5 DEF retry_result
  <2>4. k.runs + 1 <= 4
    BY <2>2
  <2> QED BY <2>3, <2>4, UiSpawns
<1>6. CASE retry_result(t) /\ k.pc = "last"
  BY <1>6, UiEndSound DEF retry_result
<1> QED BY <1>2, <1>3, <1>4, <1>5, <1>6 DEF retry_result

\* Clearing a lease: kills and aborts, and the way back to the continuation.
LEMMA UiClears ==
  ASSUME UiSound(ui), NEW t \in UiTasks, clear_lease(t) PROVE UiSound(ui')
<1> DEFINE k == ui.task[t]
<1>1. Budgeted(k) /\ UiFields \subseteq DOMAIN ui
  BY DEF UiSound
<1>2. k.pc \in {"abort", "reap", "abort2", "leaseWait", "abort3"} /\ UiStage(k) = k.after
  BY DEF clear_lease, UiStage
<1>3. PICK s, pc : /\ \/ s \in {ui, abort_journal(ui)}
                      \/ \E ps : s = Kill(ps)
                   /\ pc \in {k.after, "reap", "abort2", "leaseWait", "abort3"}
                   /\ ui' = UiGo(s, t, pc)
  <2>1. CASE k.pc = "abort"
    BY <2>1 DEF clear_lease
  <2>2. CASE k.pc = "reap"
    BY <2>2 DEF clear_lease
  <2>3. CASE k.pc = "abort2"
    BY <2>3 DEF clear_lease
  <2>4. CASE k.pc = "leaseWait"
    <3>1. CASE ui' = UiGo(ui, t, k.after)
      BY <3>1
    <3>2. CASE ui' = UiGo(ui, t, "abort3")
      BY <3>2
    <3>3. CASE ui' = UiGo(Kill({k.out.holder} \cup reap_orphaned_seals), t, "abort3")
      BY <3>3
    <3> QED BY <2>4, <3>1, <3>2, <3>3 DEF clear_lease
  <2>5. CASE k.pc = "abort3"
    BY <2>5 DEF clear_lease
  <2> QED BY <1>2, <2>1, <2>2, <2>3, <2>4, <2>5
<1>4. UiSound(s) /\ s.task[t].pc = k.pc /\ s.task[t].after = k.after
  <2>1. CASE s = ui
    BY <2>1
  <2>2. CASE s = abort_journal(ui)
    <3>1. UiFields \subseteq DOMAIN s /\ s.task = ui.task
      BY <1>1, <2>2 DEF abort_journal, UiFields
    <3> QED BY <3>1, UiFrame
  <2>3. ASSUME NEW ps, s = Kill(ps) PROVE UiSound(s) /\ s.task[t].pc = k.pc /\ s.task[t].after = k.after
    BY <2>3, UiKills
  <2> QED BY <1>3, <2>1, <2>2, <2>3
<1>5. UiStage(s.task[t]) = s.task[t].after /\ UiStage(s.task[t]) = k.after
  BY <1>2, <1>4 DEF UiStage
<1> QED BY <1>3, <1>4, <1>5, UiGoesOn

LEMMA UiOthers ==
  ASSUME UiSound(ui), other_process \/ run_vzctl_argv_blocking \/ maybe_elevate_privileged_dns PROVE UiSound(ui')
<1>1. UiFields \subseteq DOMAIN ui
  BY DEF UiSound
<1>2. CASE other_process
  <2>1. UiFields \subseteq DOMAIN ui' /\ ui'.task = ui.task
    BY <1>1, <1>2 DEF other_process, UiFields
  <2> QED BY <2>1, UiFrame
<1> DEFINE s == [ui EXCEPT !.cmds = ui.cmds + 1]
<1>3. UiFields \subseteq DOMAIN s /\ s.task = ui.task
  BY <1>1 DEF UiFields
<1>4. CASE run_vzctl_argv_blocking \/ maybe_elevate_privileged_dns
  <2>1. \E d, verb : ui' = [s EXCEPT !.dns = d] \/ ui' = [s EXCEPT !.dns = d, !.asked = s.asked \cup {verb}]
    <3>1. CASE run_vzctl_argv_blocking
      <4>1. PICK group \in DOMAIN UiGroups \cup {"doctor", "apply"}, sub \in {"status", "list", "ps"} \cup DnsVerbs, interactive \in BOOLEAN, code \in {0, 1, 19} :
              \/ ui' = [s EXCEPT !.dns = "refused"] \/ ui' = [s EXCEPT !.dns = code]
              \/ ui' = [s EXCEPT !.dns = bind_helper_elevated_args(sub), !.asked = s.asked \cup {sub}]
        BY <3>1 DEF run_vzctl_argv_blocking
      <4> QED BY <4>1
    <3>2. CASE maybe_elevate_privileged_dns
      <4>1. PICK method \in {"GET", "POST", "DELETE"}, path \in {"resolver", "bind-helper", "other"}, body, query \in {NoUi, "scope"}, code \in {0, 1, 19} :
              ui' = CASE ~is_privileged_dns_route(method, path) \/ ~api_response_needs_elevation(code) -> [s EXCEPT !.dns = code]
                      [] is_privileged_dns_route(method, path) /\ api_response_needs_elevation(code) /\ elevated_dns_args_from_rest(method, path, body, query) = NoUi -> [s EXCEPT !.dns = "refused"]
                      [] OTHER -> [s EXCEPT !.dns = elevated_dns_args_from_rest(method, path, body, query), !.asked = s.asked \cup {elevated_dns_args_from_rest(method, path, body, query).verb}]
        BY <3>2 DEF maybe_elevate_privileged_dns
      <4> QED BY <4>1
    <3> QED BY <1>4, <3>1, <3>2
  <2> HIDE DEF s
  <2>2. UiFields \subseteq DOMAIN ui' /\ ui'.task = s.task
    BY <1>3, <2>1 DEF UiFields
  <2> QED BY <1>3, <2>2, UiFrame
<1> QED BY <1>2, <1>4

\* Whatever the other processes do, one click makes at most four runs of
\* vzctl (recover_and_retry's depth and the single try after a lease was
\* held again).
THEOREM RecoveryIsBounded == UiSpec => []RetriesBounded
<1> DEFINE Inv == UiSound(ui)
<1>1. UiInit => Inv
  <2> SUFFICES ASSUME UiInit PROVE UiSound(ui)
    OBVIOUS
  <2>1. UiFields \subseteq DOMAIN ui /\ ui.task = [t \in UiTasks |-> UiIdle]
    BY DEF UiInit, UiFields
  <2>2. Budgeted(UiIdle)
    BY DEF UiIdle, Budgeted, UiStage
  <2> QED BY <2>1, <2>2 DEF UiSound
<1>2. Inv /\ [UiNext]_ui => Inv'
  <2> SUFFICES ASSUME UiSound(ui), [UiNext]_ui PROVE UiSound(ui')
    OBVIOUS
  <2>1. CASE UNCHANGED ui
    BY <2>1
  <2>2. CASE UiNext
    BY <2>2, UiProcesses, UiRuns, UiRecovers, UiClears, UiOthers DEF UiNext
  <2> QED BY <2>1, <2>2
<1>3. Inv => RetriesBounded
  BY DEF UiSound, Budgeted, RetriesBounded
<1> HIDE DEF Inv
<1> QED BY <1>1, <1>2, <1>3, PTL DEF UiSpec

-----------------------------------------------------------------------------
(* Docker hosts.                                                           *)

\* Every set of numbers has a least one, so the next VM is one of those left.
LEMMA LeastOf ==
  ASSUME NEW T \in SUBSET Nat, T # {} PROVE Min(T) \in T
<1> DEFINE R == {ss \in Nat \X Nat : ss[1] < ss[2]}
<1>1. IsWellFoundedOn(R, Nat)
  BY NatLessThanWellFounded DEF OpToRel
<1> HIDE DEF R
<1>2. PICK x \in T : \A y \in T : ~ (<<y, x>> \in R)
  BY <1>1, WFMin
<1>3. \A y \in T : ~(y < x)
  BY <1>2 DEF R
<1>4. \A y \in T : x <= y
  BY <1>3
<1> QED BY <1>4 DEF Min

DkVols    == (SUBSET {"data", "binding", "claim", "db"}) \cup {NoDk}
DkArgs    == [rev : Nat, vols : DkVols]
DkNames   == {"web", "svc", "db", NoDk}
DkConts   == [name : DkNames, owner : {"managed", "compose", "user"}, vm : DkVms \cup {NoDk}, hash : DkArgs \cup {NoDk},
              args : DkArgs, running : BOOLEAN, bridge : BOOLEAN]
DkShelves == SUBSET DkConts
DkHosts   == [DkVms -> DkShelves]
DkRecs    == [name : DkNames, vm : DkVms]
DkLinkPcs == {"key", "keygen", "ssh", "sshBody", "docker"}
DkSessPcs == {"context"} \cup DkLinkPcs
DkOnVmPcs == {"compose", "inspect", "run", "start", "rm", "ps", "bridge"}
DkPcs     == {"idle", "steps", "vms", "vm", "dns", "op"} \cup DkSessPcs \cup DkOnVmPcs
DkBacks   == {"idle", "steps", "compose", "inspect", "ps", "op"}
DkRuns    == [pc : DkPcs, want : DkVms \cup {NoDk}, vm : DkVms \cup {NoDk}, back : DkBacks, op : DockerOps \cup {NoDk},
              cfg : DkConfigs \cup {NoDk}, todo : SUBSET DkVms, seen : DkShelves, miss : SUBSET DkNames, recs : SUBSET DkRecs,
              exit : {NoDk, "ok"}]
DkTables  == [DkProcs -> DkRuns]
DkInvs    == [DkVms -> {"none", "stopped", "running", "ambiguous", "broken"}]
DkStates  == [cfg : DkConfigs, inv : DkInvs, host : DkHosts, key : {"none", "private", "pair"}, ssh : DkVms \cup {NoDk},
              ctx : BOOLEAN, dns : SUBSET DkRecs, p : DkTables, edits : Nat, calls : Nat, quiet : BOOLEAN]

\* An engine: names are unique, and the label tells what a container of ours
\* was created from.
NamedIn(h, n) == {o \in h : o.name = n}
PutIn(h, c)   == {o \in h : o.name # c.name} \cup {c}
Labelled(o)   == o.owner = "managed" => o.args = o.hash
Shelf(h)      == (\A o, x \in h : o.name = x.name => o = x) /\ \A o \in h : Labelled(o)

\* What apply is to leave on a VM, and of all VMs in V.
Wanted(c) == [rev |-> c.rev, vols |-> with_mounts(c, c.name)]
UpAsDeclared(h, c) == \E o \in NamedIn(h, c.name) : o.running /\ o.args = Wanted(c)
SkipsVms(c) == c.name = NoDk /\ ~c.compose
Published(host, c, V) == UNION {container_dns_from_inspect(host[v], c, v) : v \in IF SkipsVms(c) THEN {} ELSE V}
VmsDone(host, c, V, recs) ==
  /\ c.name # NoDk => \A v \in V : UpAsDeclared(host[v], c)
  /\ recs = Published(host, c, V)

\* Where apply is in its loop over the VMs.
InSession(r) == r.pc \in DkSessPcs
InLoop(r)    == r.pc \in {"vms", "vm", "dns"} \cup DkOnVmPcs \/ (InSession(r) /\ r.back # "steps")
OnVm(r)      == r.pc \in {"vm", "dns"} \cup DkOnVmPcs \/ (InSession(r) /\ r.back # "steps")
ApplyForm(r) ==
  /\ r.pc # "idle" => r.cfg \in DkConfigs /\ r.todo \subseteq r.cfg.vms /\ r.pc # "op"
  /\ OnVm(r) => r.todo # {} /\ (r.pc # "vm" => ~SkipsVms(r.cfg))
  /\ InSession(r) => r.back \in {"steps", "compose", "inspect", "ps"}
  /\ InSession(r) /\ r.back # "steps" => r.want = Min(r.todo)
  /\ r.pc \in DkLinkPcs /\ r.back # "steps" => r.vm = r.want
  /\ r.pc = "steps" \/ (InSession(r) /\ r.back = "steps") => r.recs = {}

\* While nobody else is about, apply's commands reach the VM it means.
Started(h, c) == NamedIn(h, c.name) # {} /\ (CHOOSE o \in NamedIn(h, c.name) : TRUE).args = Wanted(c)
SeenAsIs(h, c, v, seen) ==
  /\ container_dns_from_inspect(seen, c, v) = container_dns_from_inspect(h, c, v)
  /\ \A o \in h : o.running => \E x \in seen : x.name = o.name
ApplyQuiet(host, ssh, dns, r) ==
  /\ r.pc = "idle" /\ r.exit = "ok" => VmsDone(host, r.cfg, r.cfg.vms, dns)
  /\ InLoop(r) => VmsDone(host, r.cfg, r.cfg.vms \ r.todo, r.recs)
  /\ r.pc = "docker" => ssh = r.vm
  /\ r.pc \in DkOnVmPcs => ssh = Min(r.todo)
  /\ r.pc \in {"dns", "ps", "bridge"} \/ (InSession(r) /\ r.back = "ps") =>
       (r.cfg.name # NoDk => UpAsDeclared(host[Min(r.todo)], r.cfg))
  /\ r.pc = "start" => Started(host[Min(r.todo)], r.cfg)
  /\ r.pc = "bridge" => SeenAsIs(host[Min(r.todo)], r.cfg, Min(r.todo), r.seen)

DkGood(s) ==
  /\ s \in DkStates /\ \A v \in DkVms : Shelf(s.host[v])
  /\ s.quiet => s.p["user"].pc = "idle"
  /\ ApplyForm(s.p["apply"])
  /\ s.quiet => ApplyQuiet(s.host, s.ssh, s.dns, s.p["apply"])

LEMMA DkIdleFacts ==
  /\ DkIdle \in DkRuns /\ ApplyForm(DkIdle) /\ DkIdle.pc = "idle" /\ DkIdle.exit = NoDk
  /\ \A host, ssh, dns : ApplyQuiet(host, ssh, dns, DkIdle)
<1>0. {} \in DkShelves /\ "idle" \in DkPcs /\ "idle" \in DkBacks
  BY DEF DkShelves, DkPcs, DkBacks
<1>1. DkIdle \in DkRuns
  BY <1>0 DEF DkIdle, DkRuns
<1>2. DkIdle.pc = "idle" /\ DkIdle.exit = NoDk /\ NoDk # "ok"
  BY DockerHostsAssumption DEF DkIdle
<1>3. ~OnVm(DkIdle) /\ ~InSession(DkIdle) /\ ~InLoop(DkIdle) /\ "idle" \notin DkLinkPcs /\ "idle" \notin DkOnVmPcs
  BY <1>2 DEF OnVm, InSession, InLoop, DkSessPcs, DkOnVmPcs, DkLinkPcs
<1>4. ApplyForm(DkIdle)
  BY <1>2, <1>3 DEF ApplyForm
<1>5. ASSUME NEW host, NEW ssh, NEW dns PROVE ApplyQuiet(host, ssh, dns, DkIdle)
  BY <1>2, <1>3 DEF ApplyQuiet
<1> QED BY <1>1, <1>2, <1>4, <1>5

LEMMA DkInitGood == DkInit => DkGood(dk)
<1> SUFFICES ASSUME DkInit PROVE DkGood(dk)
  OBVIOUS
<1> DEFINE i == [v \in DkVms |-> IF v = 1 THEN "running" ELSE "none"]
           h == [v \in DkVms |-> {}]
           q == [x \in DkProcs |-> DkIdle]
<1>1. PICK c \in DkConfigs :
        dk = [cfg |-> c, inv |-> i, host |-> h, key |-> "none", ssh |-> NoDk, ctx |-> FALSE, dns |-> {}, p |-> q,
              edits |-> 0, calls |-> 0, quiet |-> TRUE]
  BY DEF DkInit
<1>2. i \in DkInvs /\ h \in DkHosts /\ q \in DkTables
  BY DkIdleFacts DEF DkInvs, DkHosts, DkShelves, DkTables
<1>3. q["user"] = DkIdle /\ q["apply"] = DkIdle /\ \A v \in DkVms : h[v] = {}
  BY DEF DkProcs
<1> HIDE DEF i, h, q
<1>4. dk \in DkStates
  BY <1>1, <1>2 DEF DkStates
<1>5. dk.host = h /\ dk.p = q
  BY <1>1
<1>6. \A v \in DkVms : Shelf(dk.host[v])
  BY <1>3, <1>5 DEF Shelf
<1> QED BY <1>3, <1>4, <1>5, <1>6, DkIdleFacts DEF DkGood

LEMMA DkTyped ==
  ASSUME NEW s \in DkStates
  PROVE  /\ s.p \in DkTables /\ s.p["apply"] \in DkRuns /\ s.p["user"] \in DkRuns /\ \A q \in DkProcs : s.p[q] \in DkRuns
         /\ s.host \in DkHosts /\ \A v \in DkVms : s.host[v] \in DkShelves
         /\ s.ssh \in DkVms \cup {NoDk} /\ s.quiet \in BOOLEAN /\ s.cfg \in DkConfigs
<1>1. s.p \in DkTables /\ s.host \in DkHosts /\ s.ssh \in DkVms \cup {NoDk} /\ s.quiet \in BOOLEAN /\ s.cfg \in DkConfigs
  BY DEF DkStates
<1> QED BY <1>1 DEF DkTables, DkHosts, DkProcs

\* A step of process q that leaves the engines alone.
Moved(s, x, q, r) ==
  /\ x \in DkStates /\ x.p[q] = r /\ \A o \in DkProcs \ {q} : x.p[o] = s.p[o]
  /\ x.host = s.host /\ x.quiet = s.quiet

LEMMA DkMove ==
  ASSUME NEW s \in DkStates, NEW q \in DkProcs, NEW r \in DkRuns
  PROVE  /\ Moved(s, [s EXCEPT !.p[q] = r], q, r)
         /\ [s EXCEPT !.p[q] = r].ssh = s.ssh /\ [s EXCEPT !.p[q] = r].dns = s.dns
<1> DEFINE t == [s.p EXCEPT ![q] = r]
           x == [s EXCEPT !.p[q] = r]
<1>1. s.p \in DkTables
  BY DkTyped
<1>2. t \in DkTables /\ t[q] = r /\ \A o \in DkProcs \ {q} : t[o] = s.p[o]
  BY <1>1 DEF DkTables
<1>3. x = [s EXCEPT !.p = t]
  BY DEF DkStates
<1> HIDE DEF t, x
<1>4. x \in DkStates
  BY <1>2, <1>3 DEF DkStates
<1>5. x.p = t /\ x.host = s.host /\ x.quiet = s.quiet /\ x.ssh = s.ssh /\ x.dns = s.dns
  BY <1>3 DEF DkStates
<1>6. Moved(s, x, q, r) /\ x.ssh = s.ssh /\ x.dns = s.dns
  BY <1>2, <1>4, <1>5 DEF Moved
<1> QED BY <1>6 DEF x

LEMMA DkMoveKey ==
  ASSUME NEW s, NEW x, NEW q, NEW r, Moved(s, x, q, r), NEW k \in {"none", "private", "pair"}
  PROVE  Moved(s, [x EXCEPT !.key = k], q, r) /\ [x EXCEPT !.key = k].ssh = x.ssh /\ [x EXCEPT !.key = k].dns = x.dns
<1>1. x \in DkStates
  BY DEF Moved
<1>2. [x EXCEPT !.key = k] \in DkStates
  BY <1>1 DEF DkStates
<1>3. [x EXCEPT !.key = k].p = x.p /\ [x EXCEPT !.key = k].host = x.host /\ [x EXCEPT !.key = k].quiet = x.quiet
      /\ [x EXCEPT !.key = k].ssh = x.ssh /\ [x EXCEPT !.key = k].dns = x.dns
  BY <1>1 DEF DkStates
<1> QED BY <1>2, <1>3 DEF Moved

LEMMA DkMoveSsh ==
  ASSUME NEW s, NEW x, NEW q, NEW r, Moved(s, x, q, r), NEW v \in DkVms \cup {NoDk}
  PROVE  Moved(s, [x EXCEPT !.ssh = v], q, r) /\ [x EXCEPT !.ssh = v].ssh = v /\ [x EXCEPT !.ssh = v].dns = x.dns
<1>1. x \in DkStates
  BY DEF Moved
<1>2. [x EXCEPT !.ssh = v] \in DkStates
  BY <1>1 DEF DkStates
<1>3. [x EXCEPT !.ssh = v].p = x.p /\ [x EXCEPT !.ssh = v].host = x.host /\ [x EXCEPT !.ssh = v].quiet = x.quiet
      /\ [x EXCEPT !.ssh = v].ssh = v /\ [x EXCEPT !.ssh = v].dns = x.dns
  BY <1>1 DEF DkStates
<1> QED BY <1>2, <1>3 DEF Moved

LEMMA DkMoveCtx ==
  ASSUME NEW s, NEW x, NEW q, NEW r, Moved(s, x, q, r), NEW b \in BOOLEAN
  PROVE  Moved(s, [x EXCEPT !.ctx = b], q, r) /\ [x EXCEPT !.ctx = b].ssh = x.ssh /\ [x EXCEPT !.ctx = b].dns = x.dns
<1>1. x \in DkStates
  BY DEF Moved
<1>2. [x EXCEPT !.ctx = b] \in DkStates
  BY <1>1 DEF DkStates
<1>3. [x EXCEPT !.ctx = b].p = x.p /\ [x EXCEPT !.ctx = b].host = x.host /\ [x EXCEPT !.ctx = b].quiet = x.quiet
      /\ [x EXCEPT !.ctx = b].ssh = x.ssh /\ [x EXCEPT !.ctx = b].dns = x.dns
  BY <1>1 DEF DkStates
<1> QED BY <1>2, <1>3 DEF Moved

LEMMA DkMoveDns ==
  ASSUME NEW s, NEW x, NEW q, NEW r, Moved(s, x, q, r), NEW d \in SUBSET DkRecs
  PROVE  Moved(s, [x EXCEPT !.dns = d], q, r) /\ [x EXCEPT !.dns = d].ssh = x.ssh /\ [x EXCEPT !.dns = d].dns = d
<1>1. x \in DkStates
  BY DEF Moved
<1>2. [x EXCEPT !.dns = d] \in DkStates
  BY <1>1 DEF DkStates
<1>3. [x EXCEPT !.dns = d].p = x.p /\ [x EXCEPT !.dns = d].host = x.host /\ [x EXCEPT !.dns = d].quiet = x.quiet
      /\ [x EXCEPT !.dns = d].ssh = x.ssh /\ [x EXCEPT !.dns = d].dns = d
  BY <1>1 DEF DkStates
<1> QED BY <1>2, <1>3 DEF Moved

\* A step of apply, and a step of a docker command: the latter is only about
\* when the run of apply is not undisturbed.
LEMMA ApplyMoves ==
  ASSUME DkGood(dk), NEW r, Moved(dk, dk', "apply", r), ApplyForm(r),
         dk.quiet => ApplyQuiet(dk.host, dk'.ssh, dk'.dns, r)
  PROVE  DkGood(dk')
<1>1. dk'.p["user"] = dk.p["user"] /\ dk'.p["apply"] = r /\ dk' \in DkStates /\ dk'.host = dk.host /\ dk'.quiet = dk.quiet
  BY DEF Moved, DkProcs
<1> QED BY <1>1 DEF DkGood

LEMMA UserMoves ==
  ASSUME DkGood(dk), NEW r, Moved(dk, dk', "user", r), dk.p["user"].pc # "idle"
  PROVE  DkGood(dk')
<1>1. dk'.p["apply"] = dk.p["apply"] /\ dk' \in DkStates /\ dk'.host = dk.host /\ dk'.quiet = dk.quiet
  BY DEF Moved, DkProcs
<1> QED BY <1>1 DEF DkGood

\* The shape of the forms a move is written in.
LEMMA DkGoForm ==
  ASSUME NEW s \in DkStates, NEW q \in DkProcs, NEW pc
  PROVE  DkGo(s, q, pc) = [s EXCEPT !.p[q] = [s.p[q] EXCEPT !.pc = pc]]
BY DEF DkGo

LEMMA DkExitForm ==
  ASSUME NEW q \in DkProcs, NEW code
  PROVE  /\ [DkIdle EXCEPT !.exit = IF q = "apply" /\ code = "ok" THEN "ok" ELSE NoDk] \in DkRuns
         /\ [DkIdle EXCEPT !.exit = IF q = "apply" /\ code = "ok" THEN "ok" ELSE NoDk].pc = "idle"
         /\ code = "fail" => [DkIdle EXCEPT !.exit = IF q = "apply" /\ code = "ok" THEN "ok" ELSE NoDk] = DkIdle
<1>1. DkIdle \in DkRuns /\ DkIdle.exit = NoDk /\ DkIdle.pc = "idle"
  BY DkIdleFacts
<1> DEFINE e == IF q = "apply" /\ code = "ok" THEN "ok" ELSE NoDk
<1>2. e \in {NoDk, "ok"} /\ (code = "fail" => e = NoDk)
  OBVIOUS
<1> HIDE DEF e
<1>3. [DkIdle EXCEPT !.exit = e] \in DkRuns /\ [DkIdle EXCEPT !.exit = e].pc = "idle"
  BY <1>1, <1>2 DEF DkRuns
<1>4. e = NoDk => [DkIdle EXCEPT !.exit = e] = DkIdle
  BY <1>1, <1>2 DEF DkRuns
<1> QED BY <1>2, <1>3, <1>4 DEF e

\* Giving up is always safe.
LEMMA DkFailMoves ==
  ASSUME NEW q \in DkProcs, dk \in DkStates
  PROVE  Moved(dk, DkFail(q), q, DkIdle) /\ DkFail(q).ssh = dk.ssh /\ DkFail(q).dns = dk.dns
<1>1. DkIdle \in DkRuns /\ DkFail(q) = [dk EXCEPT !.p[q] = DkIdle]
  BY DkIdleFacts, DkExitForm DEF DkFail, DkExit
<1> QED BY <1>1, DkMove

LEMMA DkFails ==
  ASSUME DkGood(dk), NEW q \in DkProcs, dk' = DkFail(q) \/ dk' = [DkFail(q) EXCEPT !.ctx = FALSE], dk.p[q].pc # "idle"
  PROVE  DkGood(dk')
<1>1. dk \in DkStates
  BY DEF DkGood
<1>2. Moved(dk, dk', q, DkIdle)
  <2>1. Moved(dk, DkFail(q), q, DkIdle)
    BY <1>1, DkFailMoves
  <2>2. Moved(dk, [DkFail(q) EXCEPT !.ctx = FALSE], q, DkIdle)
    BY <1>1, <2>1, DkMoveCtx
  <2> QED BY <2>1, <2>2
<1>3. CASE q = "apply"
  BY <1>2, <1>3, ApplyMoves, DkIdleFacts
<1>4. CASE q = "user"
  BY <1>2, <1>4, UserMoves
<1> QED BY <1>3, <1>4 DEF DkProcs

\* Within a session apply keeps what it is about.
SameJob(r, t) ==
  t.cfg = r.cfg /\ t.todo = r.todo /\ t.back = r.back /\ t.want = r.want /\ t.recs = r.recs /\ t.exit = r.exit

LEMMA SessionForm ==
  ASSUME NEW r, NEW t, ApplyForm(r), r.pc \in DkSessPcs, SameJob(r, t), t.pc \in DkSessPcs,
         t.pc \in DkLinkPcs /\ r.back # "steps" => t.vm = r.want
  PROVE  /\ ApplyForm(t)
         /\ \A host, ssh, x, dns : ApplyQuiet(host, ssh, dns, r) /\ (t.pc = "docker" => x = t.vm) => ApplyQuiet(host, x, dns, t)
<1>1. r.pc # "idle" /\ t.pc # "idle" /\ t.pc # "op" /\ r.pc # "vm" /\ t.pc # "vm" /\ t.pc # "steps" /\ InSession(r) /\ InSession(t)
      /\ t.pc # "start" /\ t.pc \notin {"dns", "ps", "bridge"} /\ t.pc # "bridge" /\ t.pc \notin DkOnVmPcs
      /\ t.pc \notin {"vms", "vm", "dns"} \cup DkOnVmPcs /\ r.pc \notin {"vms", "vm", "dns"} \cup DkOnVmPcs
  BY DEF InSession, DkSessPcs, DkLinkPcs, DkOnVmPcs
<1>2. (OnVm(r) <=> r.back # "steps") /\ (OnVm(t) <=> r.back # "steps") /\ (InLoop(r) <=> r.back # "steps") /\ (InLoop(t) <=> r.back # "steps")
  BY <1>1 DEF OnVm, InLoop, SameJob
<1>3. ApplyForm(t)
  BY <1>1, <1>2 DEF ApplyForm, SameJob
<1>4. ASSUME NEW host, NEW ssh, NEW x, NEW dns, ApplyQuiet(host, ssh, dns, r), t.pc = "docker" => x = t.vm
      PROVE  ApplyQuiet(host, x, dns, t)
  BY <1>1, <1>2, <1>4 DEF ApplyQuiet, SameJob
<1> QED BY <1>3, <1>4

LEMMA SelectsAsked ==
  ASSUME dk \in DkStates, NEW w \in DkVms \cup {NoDk}
  PROVE  /\ select_address(select_vm(w)) \in DkVms \cup {NoDk}
         /\ w # NoDk /\ select_address(select_vm(w)) # NoDk => select_address(select_vm(w)) = w
<1> DEFINE found == {v \in DkVms : dk.inv[v] # "none" /\ w \in {NoDk, v}}
<1>1. ASSUME Cardinality(found) = 1 PROVE (CHOOSE v \in found : TRUE) \in found
  <2>1. found # {}
    BY <1>1, FS_EmptySet
  <2> QED BY <2>1
<1> HIDE DEF found
<1>2. \A v \in found : v \in DkVms /\ (w # NoDk => v = w)
  BY DEF found
<1>3. select_vm(w) \in DkVms \cup {NoDk} /\ (select_vm(w) # NoDk => select_vm(w) \in found)
  <2>1. select_vm(w) = IF (\E v \in found : dk.inv[v] = "broken") \/ Cardinality(found) # 1 THEN NoDk
                       ELSE IF dk.inv[CHOOSE v \in found : TRUE] = "stopped" THEN NoDk ELSE CHOOSE v \in found : TRUE
    BY DEF select_vm, found
  <2> DEFINE c == CHOOSE v \in found : TRUE
  <2>2. Cardinality(found) = 1 => c \in found
    BY <1>1
  <2> HIDE DEF c
  <2>3. select_vm(w) = NoDk \/ (Cardinality(found) = 1 /\ select_vm(w) = c)
    BY <2>1 DEF c
  <2> QED BY <1>2, <2>2, <2>3
<1> QED BY <1>2, <1>3 DEF select_address

LEMMA ManagementAddressStep ==
  ASSUME DkGood(dk), NEW q \in DkProcs, management_address(q) PROVE DkGood(dk')
<1> DEFINE v == select_address(select_vm(dk.p[q].want))
           r == [dk.p[q] EXCEPT !.pc = "key", !.vm = v]
<1>1. dk \in DkStates /\ dk.p[q] \in DkRuns /\ dk.p[q].pc = "context" /\ dk.p[q].want \in DkVms \cup {NoDk}
  <2>1. dk \in DkStates /\ dk.p[q] \in DkRuns /\ dk.p[q].pc = "context"
    BY DkTyped DEF DkGood, management_address, DkAt
  <2> QED BY <2>1 DEF DkRuns
<1>2. v \in DkVms \cup {NoDk} /\ (dk.p[q].want # NoDk /\ v # NoDk => v = dk.p[q].want)
  BY <1>1, SelectsAsked
<1>3. v = NoDk => DkGood(dk')
  BY <1>1, DkFails DEF management_address
<1> SUFFICES ASSUME v # NoDk PROVE DkGood(dk')
  BY <1>3
<1>4. dk' = [dk EXCEPT !.p[q] = r]
  <2>1. dk' = [DkGo(dk, q, "key") EXCEPT !.p[q].vm = v]
    BY DEF management_address
  <2>2. dk.p \in DkTables
    BY <1>1, DkTyped
  <2> QED BY <1>1, <2>1, <2>2 DEF DkGo, DkStates, DkTables
<1> HIDE DEF v
<1>5. r \in DkRuns /\ r.pc = "key" /\ r.vm = v /\ SameJob(dk.p[q], r)
  <2>1. r \in DkRuns
    BY <1>1, <1>2 DEF DkRuns, DkPcs, DkSessPcs, DkLinkPcs
  <2>2. r.pc = "key" /\ r.vm = v
    BY <1>1 DEF DkRuns
  <2>3. SameJob(dk.p[q], r)
    BY <1>1 DEF DkRuns, SameJob
  <2> QED BY <2>1, <2>2, <2>3
<1> HIDE DEF r
<1>6. Moved(dk, dk', q, r) /\ dk'.ssh = dk.ssh /\ dk'.dns = dk.dns
  BY <1>1, <1>4, <1>5, DkMove
<1>7. CASE q = "user"
  BY <1>1, <1>6, <1>7, UserMoves
<1>8. CASE q = "apply"
  <2>1. ApplyForm(dk.p["apply"]) /\ (dk.quiet => ApplyQuiet(dk.host, dk.ssh, dk.dns, dk.p["apply"]))
    BY DEF DkGood
  <2>2. dk.p["apply"].pc \in DkSessPcs /\ r.pc \in DkSessPcs /\ r.pc # "docker"
    BY <1>1, <1>5, <1>8 DEF DkSessPcs, DkLinkPcs
  <2>3. dk.p["apply"].back # "steps" => dk.p["apply"].want # NoDk
    <3> SUFFICES ASSUME dk.p["apply"].back # "steps" PROVE dk.p["apply"].want # NoDk
      OBVIOUS
    <3>1. dk.p["apply"].want = Min(dk.p["apply"].todo) /\ dk.p["apply"].todo # {}
      BY <2>1, <2>2 DEF ApplyForm, InSession, OnVm
    <3>2. dk.p["apply"].todo \in SUBSET Nat
      BY <1>1, <1>8, DockerHostsAssumption DEF DkRuns
    <3> QED BY <3>1, <3>2, LeastOf, DockerHostsAssumption
  <2>4. r.pc \in DkLinkPcs /\ dk.p["apply"].back # "steps" => r.vm = dk.p["apply"].want
    BY <1>2, <1>5, <1>8, <2>3
  <2>5. ApplyForm(r) /\ (dk.quiet => ApplyQuiet(dk.host, dk.ssh, dk.dns, r))
    BY <1>5, <1>8, <2>1, <2>2, <2>4, SessionForm
  <2> QED BY <1>6, <1>8, <2>5, ApplyMoves
<1> QED BY <1>7, <1>8 DEF DkProcs

\* A move of the program counter alone.
LEMMA DkGoMoves ==
  ASSUME NEW s \in DkStates, NEW q \in DkProcs, NEW pc \in DkPcs
  PROVE  /\ Moved(s, DkGo(s, q, pc), q, [s.p[q] EXCEPT !.pc = pc])
         /\ DkGo(s, q, pc).ssh = s.ssh /\ DkGo(s, q, pc).dns = s.dns
         /\ [s.p[q] EXCEPT !.pc = pc] \in DkRuns /\ [s.p[q] EXCEPT !.pc = pc].pc = pc
         /\ [s.p[q] EXCEPT !.pc = pc].vm = s.p[q].vm /\ [s.p[q] EXCEPT !.pc = pc].seen = s.p[q].seen
         /\ SameJob(s.p[q], [s.p[q] EXCEPT !.pc = pc])
<1>1. s.p[q] \in DkRuns
  BY DkTyped
<1> DEFINE r == [s.p[q] EXCEPT !.pc = pc]
<1>2. r \in DkRuns
  BY <1>1 DEF DkRuns
<1>3. r.pc = pc /\ r.vm = s.p[q].vm /\ r.seen = s.p[q].seen
  BY <1>1 DEF DkRuns
<1>4. SameJob(s.p[q], r)
  BY <1>1 DEF DkRuns, SameJob
<1> HIDE DEF r
<1>5. Moved(s, [s EXCEPT !.p[q] = r], q, r) /\ [s EXCEPT !.p[q] = r].ssh = s.ssh /\ [s EXCEPT !.p[q] = r].dns = s.dns
  BY <1>2, DkMove
<1>6. DkGo(s, q, pc) = [s EXCEPT !.p[q] = r]
  BY DkGoForm DEF r
<1>7. Moved(s, DkGo(s, q, pc), q, r) /\ DkGo(s, q, pc).ssh = s.ssh /\ DkGo(s, q, pc).dns = s.dns
  BY <1>5, <1>6
<1> QED BY <1>2, <1>3, <1>4, <1>7 DEF r

\* The transport is brought up link by link.
LEMMA LinkStep ==
  ASSUME DkGood(dk), NEW q \in DkProcs, NEW pc \in DkLinkPcs, dk.p[q].pc \in DkLinkPcs,
         Moved(dk, dk', q, [dk.p[q] EXCEPT !.pc = pc]), dk'.dns = dk.dns, pc = "docker" => dk'.ssh = dk.p[q].vm
  PROVE  DkGood(dk')
<1> DEFINE r == [dk.p[q] EXCEPT !.pc = pc]
<1>1. dk \in DkStates /\ pc \in DkPcs /\ pc \in DkSessPcs /\ dk.p[q].pc \in DkSessPcs /\ dk.p[q].pc # "idle"
  BY DEF DkGood, DkPcs, DkSessPcs, DkLinkPcs
<1>2. r.pc = pc /\ r.vm = dk.p[q].vm /\ SameJob(dk.p[q], r)
  BY <1>1, DkGoMoves
<1> HIDE DEF r
<1>3. Moved(dk, dk', q, r)
  BY DEF r
<1>4. CASE q = "user"
  BY <1>1, <1>3, <1>4, UserMoves
<1>5. CASE q = "apply"
  <2>1. ApplyForm(dk.p["apply"]) /\ (dk.quiet => ApplyQuiet(dk.host, dk.ssh, dk.dns, dk.p["apply"]))
    BY DEF DkGood
  <2>2. dk.p["apply"].back # "steps" => dk.p["apply"].vm = dk.p["apply"].want
    BY <1>5, <2>1 DEF ApplyForm
  <2>3. ApplyForm(r) /\ (dk.quiet => ApplyQuiet(dk.host, dk'.ssh, dk'.dns, r))
    BY <1>1, <1>2, <1>5, <2>1, <2>2, SessionForm
  <2> QED BY <1>3, <1>5, <2>3, ApplyMoves
<1> QED BY <1>4, <1>5 DEF DkProcs

LEMMA KeypairStep ==
  ASSUME DkGood(dk), NEW q \in DkProcs, ensure_ssh_keypair(q) PROVE DkGood(dk')
<1>1. dk \in DkStates /\ {"key", "keygen", "ssh"} \subseteq DkLinkPcs /\ {"key", "keygen", "ssh"} \subseteq DkPcs
  BY DEF DkGood, DkLinkPcs, DkPcs, DkSessPcs
<1>2. \A pc \in {"key", "keygen", "ssh"} :
        Moved(dk, DkGo(dk, q, pc), q, [dk.p[q] EXCEPT !.pc = pc]) /\ DkGo(dk, q, pc).dns = dk.dns
  BY <1>1, DkGoMoves
<1>3. CASE DkAt(q, "key") /\ dk.key = "none" /\ dk' = [DkGo(dk, q, "keygen") EXCEPT !.key = "private"]
  <2>1. Moved(dk, dk', q, [dk.p[q] EXCEPT !.pc = "keygen"]) /\ dk'.dns = dk.dns
    BY <1>1, <1>2, <1>3, DkMoveKey
  <2> QED BY <1>1, <1>3, <2>1, LinkStep DEF DkAt
<1>4. CASE DkAt(q, "keygen") /\ dk' = [DkGo(dk, q, "ssh") EXCEPT !.key = "pair"]
  <2>1. Moved(dk, dk', q, [dk.p[q] EXCEPT !.pc = "ssh"]) /\ dk'.dns = dk.dns
    BY <1>1, <1>2, <1>4, DkMoveKey
  <2> QED BY <1>1, <1>4, <2>1, LinkStep DEF DkAt
<1>5. CASE DkAt(q, "key") /\ dk' = DkGo(dk, q, "ssh")
  BY <1>1, <1>2, <1>5, LinkStep DEF DkAt
<1>6. CASE DkAt(q, "key") /\ dk' = DkFail(q)
  BY <1>6, DkFails DEF DkAt
<1> QED BY <1>3, <1>4, <1>5, <1>6 DEF ensure_ssh_keypair

LEMMA SshConfigStep ==
  ASSUME DkGood(dk), NEW q \in DkProcs, write_ssh_config(q) PROVE DkGood(dk')
<1>1. dk \in DkStates /\ {"ssh", "sshBody", "docker"} \subseteq DkLinkPcs /\ {"sshBody", "docker"} \subseteq DkPcs
  BY DEF DkGood, DkLinkPcs, DkPcs, DkSessPcs
<1>2. \A pc \in {"sshBody", "docker"} :
        Moved(dk, DkGo(dk, q, pc), q, [dk.p[q] EXCEPT !.pc = pc]) /\ DkGo(dk, q, pc).dns = dk.dns
  BY <1>1, DkGoMoves
<1>3. dk.p[q].vm \in DkVms \cup {NoDk}
  <2>1. dk.p[q] \in DkRuns
    BY <1>1, DkTyped
  <2> QED BY <2>1 DEF DkRuns
<1>4. CASE DkAt(q, "ssh") /\ dk' = [DkGo(dk, q, "sshBody") EXCEPT !.ssh = NoDk]
  <2> DEFINE x == DkGo(dk, q, "sshBody")
             r == [dk.p[q] EXCEPT !.pc = "sshBody"]
             v == NoDk
  <2>1. Moved(dk, x, q, r) /\ x.dns = dk.dns /\ dk' = [x EXCEPT !.ssh = v] /\ v \in DkVms \cup {NoDk}
    BY <1>2, <1>3, <1>4
  <2> HIDE DEF x, r, v
  <2>2. Moved(dk, dk', q, r) /\ dk'.dns = dk.dns
    BY <1>1, <2>1, DkMoveSsh
  <2> QED BY <1>1, <1>4, <2>2, LinkStep DEF DkAt, r, v
<1>5. CASE DkAt(q, "sshBody") /\ dk' = [DkGo(dk, q, "docker") EXCEPT !.ssh = dk.p[q].vm]
  <2> DEFINE x == DkGo(dk, q, "docker")
             r == [dk.p[q] EXCEPT !.pc = "docker"]
             v == dk.p[q].vm
  <2>1. Moved(dk, x, q, r) /\ x.dns = dk.dns /\ dk' = [x EXCEPT !.ssh = v] /\ v \in DkVms \cup {NoDk}
    BY <1>2, <1>3, <1>5
  <2> HIDE DEF x, r, v
  <2>2. Moved(dk, dk', q, r) /\ dk'.dns = dk.dns /\ dk'.ssh = v
    BY <1>1, <2>1, DkMoveSsh
  <2> QED BY <1>1, <1>5, <2>2, LinkStep DEF DkAt, r, v
<1> QED BY <1>4, <1>5 DEF write_ssh_config

\* Back from a session: the transport leads to the VM that was asked for.
LEMMA ContextStep ==
  ASSUME DkGood(dk), NEW q \in DkProcs, ensure_context(q) PROVE DkGood(dk')
<1> DEFINE b == dk.p[q].back
           r == [dk.p[q] EXCEPT !.pc = b]
<1>1. dk \in DkStates /\ dk.p[q] \in DkRuns /\ dk.p[q].pc = "docker"
  BY DkTyped DEF DkGood, ensure_context, DkAt
<1>2. b \in DkBacks /\ b \in DkPcs
  BY <1>1 DEF DkRuns, DkBacks, DkPcs, DkOnVmPcs
<1>3. CASE dk' = [DkFail(q) EXCEPT !.ctx = FALSE]
  BY <1>1, <1>3, DkFails
<1>4. CASE dk' = [DkGo(dk, q, b) EXCEPT !.ctx = TRUE]
  <2>1. Moved(dk, DkGo(dk, q, b), q, r) /\ DkGo(dk, q, b).dns = dk.dns /\ DkGo(dk, q, b).ssh = dk.ssh
        /\ r.pc = b /\ r.vm = dk.p[q].vm /\ SameJob(dk.p[q], r)
    BY <1>1, <1>2, DkGoMoves
  <2> HIDE DEF r
  <2>2. Moved(dk, dk', q, r) /\ dk'.dns = dk.dns /\ dk'.ssh = dk.ssh
    BY <1>1, <1>4, <2>1, DkMoveCtx
  <2>3. CASE q = "user"
    BY <1>1, <2>2, <2>3, UserMoves
  <2>4. CASE q = "apply"
    <3> DEFINE a == dk.p["apply"]
    <3>1. ApplyForm(a) /\ (dk.quiet => ApplyQuiet(dk.host, dk.ssh, dk.dns, a)) /\ a.pc = "docker"
      BY <1>1, <2>4 DEF DkGood
    <3>2. r.pc = a.back /\ SameJob(a, r) /\ r.vm = a.vm
      BY <2>1, <2>4
    <3> HIDE DEF a
    <3>3. InSession(a) /\ a.pc \in DkLinkPcs /\ (OnVm(a) <=> a.back # "steps") /\ (InLoop(a) <=> a.back # "steps")
      BY <3>1 DEF InSession, DkSessPcs, DkLinkPcs, OnVm, InLoop, DkOnVmPcs
    <3>4. a.back \in {"steps", "compose", "inspect", "ps"} /\ (a.back # "steps" => a.vm = a.want /\ a.want = Min(a.todo) /\ a.todo # {})
      BY <3>1, <3>3 DEF ApplyForm
    <3>5. r.pc \notin {"idle", "op", "vm", "vms", "dns", "start", "bridge", "docker"} /\ ~InSession(r) /\ r.pc \notin DkLinkPcs
          /\ (r.pc \in DkOnVmPcs <=> a.back # "steps") /\ (OnVm(r) <=> a.back # "steps") /\ (InLoop(r) <=> a.back # "steps")
      BY <3>2, <3>4 DEF InSession, DkSessPcs, DkLinkPcs, DkOnVmPcs, OnVm, InLoop
    <3>6. ApplyForm(r)
      BY <3>1, <3>2, <3>3, <3>4, <3>5 DEF ApplyForm, SameJob
    <3>7. dk.quiet => ApplyQuiet(dk.host, dk.ssh, dk.dns, r)
      BY <3>1, <3>2, <3>3, <3>4, <3>5 DEF ApplyQuiet, SameJob
    <3> QED BY <2>2, <2>4, <3>6, <3>7, ApplyMoves
  <2> QED BY <2>3, <2>4 DEF DkProcs
<1> QED BY <1>3, <1>4 DEF ensure_context

\* Engines.
LEMMA ShelfPut ==
  ASSUME NEW h \in DkShelves, Shelf(h), NEW c \in DkConts, Labelled(c)
  PROVE  PutIn(h, c) \in DkShelves /\ Shelf(PutIn(h, c))
<1>1. PutIn(h, c) \in DkShelves
  BY DEF PutIn, DkShelves
<1>2. \A o \in PutIn(h, c) : Labelled(o)
  BY DEF PutIn, Shelf
<1>3. \A o, x \in PutIn(h, c) : o.name = x.name => o = x
  BY DEF PutIn, Shelf
<1> QED BY <1>1, <1>2, <1>3 DEF Shelf

LEMMA ShelfLess ==
  ASSUME NEW h \in DkShelves, Shelf(h), NEW g \in SUBSET h PROVE g \in DkShelves /\ Shelf(g)
BY DEF Shelf, DkShelves

RunSet(o, b)    == [o EXCEPT !.running = b]
BridgeSet(o, b) == [o EXCEPT !.bridge = b]
LEMMA ContainerSwitched ==
  ASSUME NEW o \in DkConts, Labelled(o), NEW b \in BOOLEAN
  PROVE  /\ RunSet(o, b) \in DkConts /\ Labelled(RunSet(o, b)) /\ RunSet(o, b).name = o.name /\ RunSet(o, b).args = o.args
         /\ RunSet(o, b).running = b
         /\ BridgeSet(o, b) \in DkConts /\ Labelled(BridgeSet(o, b))
         /\ BridgeSet(o, b).name = o.name /\ BridgeSet(o, b).args = o.args /\ BridgeSet(o, b).running = o.running
         /\ BridgeSet(o, b).owner = o.owner /\ BridgeSet(o, b).vm = o.vm
<1>1. RunSet(o, b) \in DkConts /\ BridgeSet(o, b) \in DkConts
  BY DEF DkConts, RunSet, BridgeSet
<1>2. /\ RunSet(o, b).name = o.name /\ RunSet(o, b).args = o.args /\ RunSet(o, b).hash = o.hash /\ RunSet(o, b).owner = o.owner
      /\ RunSet(o, b).running = b
  BY DEF DkConts, RunSet
<1>3. /\ BridgeSet(o, b).name = o.name /\ BridgeSet(o, b).args = o.args /\ BridgeSet(o, b).hash = o.hash
      /\ BridgeSet(o, b).owner = o.owner /\ BridgeSet(o, b).running = o.running /\ BridgeSet(o, b).vm = o.vm
  BY DEF DkConts, BridgeSet
<1> QED BY <1>1, <1>2, <1>3 DEF Labelled

LEMMA NamedOne ==
  ASSUME NEW h \in DkShelves, Shelf(h), NEW n, NamedIn(h, n) # {}
  PROVE  /\ (CHOOSE o \in NamedIn(h, n) : TRUE) \in h /\ (CHOOSE o \in NamedIn(h, n) : TRUE).name = n
         /\ (CHOOSE o \in NamedIn(h, n) : TRUE) \in DkConts /\ Labelled(CHOOSE o \in NamedIn(h, n) : TRUE)
<1>1. (CHOOSE o \in NamedIn(h, n) : TRUE) \in NamedIn(h, n)
  OBVIOUS
<1> QED BY <1>1 DEF NamedIn, DkShelves, Shelf

EngineSet(s, v, h) == [s EXCEPT !.host[v] = h]
LEMMA EngineWrite ==
  ASSUME NEW s \in DkStates, NEW v \in DkVms, NEW h \in DkShelves
  PROVE  /\ EngineSet(s, v, h) \in DkStates /\ EngineSet(s, v, h).p = s.p /\ EngineSet(s, v, h).quiet = s.quiet
         /\ EngineSet(s, v, h).ssh = s.ssh /\ EngineSet(s, v, h).dns = s.dns
         /\ EngineSet(s, v, h).host[v] = h /\ \A w \in DkVms \ {v} : EngineSet(s, v, h).host[w] = s.host[w]
<1> DEFINE g == [s.host EXCEPT ![v] = h]
           x == [s EXCEPT !.host[v] = h]
<1>1. s.host \in DkHosts
  BY DkTyped
<1>2. g \in DkHosts /\ g[v] = h /\ \A w \in DkVms \ {v} : g[w] = s.host[w]
  BY <1>1 DEF DkHosts
<1>3. x = [s EXCEPT !.host = g]
  BY DEF DkStates
<1> HIDE DEF g, x
<1>4. x \in DkStates
  BY <1>2, <1>3 DEF DkStates
<1>5. x.host = g /\ x.p = s.p /\ x.quiet = s.quiet /\ x.ssh = s.ssh /\ x.dns = s.dns
  BY <1>3 DEF DkStates
<1>6. x = EngineSet(s, v, h)
  BY DEF x, EngineSet
<1> QED BY <1>2, <1>4, <1>5, <1>6

LEMMA PutForm ==
  ASSUME NEW s \in DkStates, NEW v \in DkVms, NEW c
  PROVE  Put(s, v, c) = EngineSet(s, v, PutIn(s.host[v], c))
BY DEF Put, PutIn, EngineSet

\* After a step of somebody else apply's run is no longer undisturbed.
LEMMA Disturbed ==
  ASSUME DkGood(dk), dk' \in DkStates, \A v \in DkVms : Shelf(dk'.host[v]), dk'.p["apply"] = dk.p["apply"], ~dk'.quiet
  PROVE  DkGood(dk')
BY DEF DkGood

\* A docker command changes one engine and ends.
LEMMA UserWrites ==
  ASSUME DkGood(dk), dk.p["user"].pc # "idle", NEW r \in DkRuns, NEW v \in DkVms, NEW h \in DkShelves, Shelf(h), NEW s,
         Moved(dk, s, "user", r), dk' = EngineSet(s, v, h)
  PROVE  DkGood(dk')
<1>1. dk \in DkStates /\ "user" \in DkProcs /\ ~dk.quiet /\ \A w \in DkVms : Shelf(dk.host[w])
  BY DEF DkGood, DkProcs
<1>3. s \in DkStates /\ s.host = dk.host /\ s.quiet = dk.quiet /\ s.p["apply"] = dk.p["apply"]
  BY DEF Moved, DkProcs
<1>4. dk' \in DkStates /\ dk'.p = s.p /\ dk'.quiet = s.quiet /\ dk'.host[v] = h /\ \A w \in DkVms \ {v} : dk'.host[w] = s.host[w]
  BY <1>3, EngineWrite
<1>5. \A w \in DkVms : Shelf(dk'.host[w])
  BY <1>1, <1>3, <1>4
<1> QED BY <1>1, <1>3, <1>4, <1>5, Disturbed

LEMMA OutputVm ==
  ASSUME dk \in DkStates
  PROVE  docker_output \in DkVms \cup {NoDk} /\ (docker_output # NoDk => docker_output \in DkVms /\ docker_output = dk.ssh)
<1>1. dk.ssh \in DkVms \cup {NoDk}
  BY DkTyped
<1> QED BY <1>1 DEF docker_output

LEMMA RunOpStep ==
  ASSUME DkGood(dk), run_structured_op PROVE DkGood(dk')
<1> DEFINE t == docker_output
           op == dk.p["user"].op
           r == [DkIdle EXCEPT !.exit = IF "user" = "apply" /\ "ok" = "ok" THEN "ok" ELSE NoDk]
           ok == [dk EXCEPT !.p["user"] = r]
           own(n) == [name |-> n, owner |-> "user", vm |-> NoDk, hash |-> NoDk, args |-> [rev |-> 0, vols |-> {}],
                      running |-> TRUE, bridge |-> TRUE]
<1>1. dk \in DkStates /\ "user" \in DkProcs /\ dk.p["user"].pc = "op" /\ \A w \in DkVms : Shelf(dk.host[w]) /\ dk.host[w] \in DkShelves
  BY DkTyped DEF DkGood, DkProcs, run_structured_op, DkAt
<1>2. r \in DkRuns /\ DkExit(dk, "user", "ok") = ok
  BY <1>1, DkExitForm DEF DkExit
<1>3. Moved(dk, ok, "user", r)
  BY <1>1, <1>2, DkMove
<1>4. dk' = ok \/ dk' = DkFail("user") => DkGood(dk')
  <2>1. dk' = ok => DkGood(dk')
    BY <1>1, <1>3, UserMoves
  <2>2. dk' = DkFail("user") => DkGood(dk')
    BY <1>1, DkFails
  <2> QED BY <2>1, <2>2
<1>5. CASE t = NoDk \/ op = "ps"
  BY <1>2, <1>4, <1>5 DEF run_structured_op, DkFail
<1>6. CASE ~(t = NoDk \/ op = "ps")
  <2>1. t \in DkVms
    BY <1>1, <1>6, OutputVm
  <2>2. PICK n \in {"web", "db"} :
          IF (op = "run") = (Named(t, n) # {}) THEN dk' = DkFail("user")
          ELSE CASE op = "run" -> dk' = Put(ok, t, own(n))
                 [] op = "rm" -> dk' = [ok EXCEPT !.host[t] = @ \ Named(t, n)]
                 [] OTHER -> dk' = Put(ok, t, [(CHOOSE o \in Named(t, n) : TRUE) EXCEPT !.running = (op # "stop")])
    BY <1>2, <1>6 DEF run_structured_op
  <2>3. ok \in DkStates /\ ok.host = dk.host
    BY <1>3 DEF Moved
  <2>4. Named(t, n) = NamedIn(dk.host[t], n)
    BY DEF Named, NamedIn
  <2>5. own(n) \in DkConts /\ Labelled(own(n))
    BY DEF DkConts, DkArgs, DkVols, DkNames, Labelled
  <2> DEFINE b == (op # "stop")
             o == CHOOSE x \in NamedIn(dk.host[t], n) : TRUE
             z == RunSet(o, b)
             m == own(n)
             g == dk.host[t]
  <2>6. b \in BOOLEAN
    OBVIOUS
  <2> HIDE DEF t, ok, own, r, b
  <2>7. CASE dk' = Put(ok, t, m)
    <3>1. PutIn(g, m) \in DkShelves /\ Shelf(PutIn(g, m))
      BY <1>1, <2>1, <2>5, ShelfPut
    <3>2. dk' = EngineSet(ok, t, PutIn(g, m))
      BY <2>1, <2>3, <2>7, PutForm
    <3> HIDE DEF m, g
    <3> QED BY <1>1, <1>2, <1>3, <2>1, <3>1, <3>2, UserWrites
  <2>8. CASE dk' = [ok EXCEPT !.host[t] = @ \ Named(t, n)]
    <3> DEFINE h == g \ Named(t, n)
    <3>1. h \in DkShelves /\ Shelf(h)
      BY <1>1, <2>1, ShelfLess
    <3>2. dk' = EngineSet(ok, t, h)
      BY <2>3, <2>8 DEF EngineSet
    <3> HIDE DEF h
    <3> QED BY <1>1, <1>2, <1>3, <2>1, <3>1, <3>2, UserWrites
  <2>9. CASE NamedIn(g, n) # {} /\ dk' = Put(ok, t, [(CHOOSE x \in NamedIn(g, n) : TRUE) EXCEPT !.running = b])
    <3>1. o \in DkConts /\ Labelled(o)
      BY <1>1, <2>1, <2>9, NamedOne
    <3> HIDE DEF o
    <3>2. z \in DkConts /\ Labelled(z)
      BY <2>6, <3>1, ContainerSwitched
    <3>3. dk' = Put(ok, t, z)
      BY <2>9 DEF o, RunSet
    <3> HIDE DEF z
    <3>4. PutIn(g, z) \in DkShelves /\ Shelf(PutIn(g, z))
      BY <1>1, <2>1, <3>2, ShelfPut
    <3>5. dk' = EngineSet(ok, t, PutIn(g, z))
      BY <2>1, <2>3, <3>3, PutForm
    <3> HIDE DEF g
    <3> QED BY <1>1, <1>2, <1>3, <2>1, <3>4, <3>5, UserWrites
  <2>10. \/ dk' = DkFail("user") \/ dk' = Put(ok, t, m) \/ dk' = [ok EXCEPT !.host[t] = @ \ Named(t, n)]
         \/ Named(t, n) # {} /\ dk' = Put(ok, t, [(CHOOSE x \in Named(t, n) : TRUE) EXCEPT !.running = b])
    BY <2>2 DEF b
  <2> QED BY <1>4, <2>4, <2>7, <2>8, <2>9, <2>10
<1> QED BY <1>5, <1>6

\* Counters and other fields the invariant does not speak of.
LEMMA DkBeside ==
  ASSUME DkGood(dk), dk' \in DkStates, dk'.host = dk.host, dk'.p = dk.p, dk'.quiet = dk.quiet, dk'.ssh = dk.ssh, dk'.dns = dk.dns
  PROVE  DkGood(dk')
BY DEF DkGood

LEMMA EditStep ==
  ASSUME DkGood(dk), dk_edit PROVE DkGood(dk')
<1> DEFINE k == dk.edits + 1
<1>1. PICK c \in DkConfigs : dk' = [dk EXCEPT !.cfg = c, !.edits = k]
  BY DEF dk_edit
<1>2. dk \in DkStates /\ k \in Nat
  BY DEF DkGood, DkStates
<1> HIDE DEF k
<1>3. dk' \in DkStates
  BY <1>1, <1>2 DEF DkStates
<1>4. dk'.host = dk.host /\ dk'.p = dk.p /\ dk'.quiet = dk.quiet /\ dk'.ssh = dk.ssh /\ dk'.dns = dk.dns
  BY <1>1, <1>2 DEF DkStates
<1> QED BY <1>3, <1>4, DkBeside

LEMMA DoctorStep ==
  ASSUME DkGood(dk), doctor_check PROVE DkGood(dk')
<1> DEFINE k == dk.calls + 1
           s == [dk EXCEPT !.calls = k]
           code == IF dk.key = "none" \/ docker_output # NoDk THEN "ok" ELSE "fail"
           r == [DkIdle EXCEPT !.exit = IF "user" = "apply" /\ code = "ok" THEN "ok" ELSE NoDk]
<1>1. dk \in DkStates /\ k \in Nat /\ "user" \in DkProcs
  BY DEF DkGood, DkStates, DkProcs
<1>2. dk' = [s EXCEPT !.p["user"] = r]
  BY DEF doctor_check, DkExit
<1>3. r \in DkRuns /\ r.pc = "idle"
  BY <1>1, DkExitForm
<1> HIDE DEF k, r
<1>4. s \in DkStates
  BY <1>1 DEF DkStates
<1>5. s.host = dk.host /\ s.p = dk.p /\ s.quiet = dk.quiet /\ s.ssh = dk.ssh /\ s.dns = dk.dns
  BY <1>1 DEF DkStates
<1> HIDE DEF s
<1>6. Moved(s, dk', "user", r) /\ dk'.ssh = s.ssh /\ dk'.dns = s.dns
  BY <1>1, <1>2, <1>3, <1>4, DkMove
<1>7. dk' \in DkStates /\ dk'.host = dk.host /\ dk'.quiet = dk.quiet /\ dk'.p["apply"] = dk.p["apply"] /\ dk'.p["user"].pc = "idle"
  BY <1>3, <1>5, <1>6 DEF Moved, DkProcs
<1> QED BY <1>5, <1>6, <1>7 DEF DkGood

SessionRow(r, want, back) == [r EXCEPT !.pc = "context", !.want = want, !.back = back]
LEMMA SessionBegins ==
  ASSUME NEW s \in DkStates, NEW q \in DkProcs, NEW want \in DkVms \cup {NoDk}, NEW back \in DkBacks, NEW r, r = s.p[q]
  PROVE  /\ Moved(s, docker_session(s, q, want, back), q, SessionRow(r, want, back))
         /\ docker_session(s, q, want, back).ssh = s.ssh /\ docker_session(s, q, want, back).dns = s.dns
         /\ SessionRow(r, want, back).pc = "context" /\ SessionRow(r, want, back).want = want
         /\ SessionRow(r, want, back).back = back /\ SessionRow(r, want, back).cfg = r.cfg
         /\ SessionRow(r, want, back).todo = r.todo /\ SessionRow(r, want, back).recs = r.recs
<1> DEFINE t == SessionRow(r, want, back)
<1>1. s.p \in DkTables /\ r \in DkRuns
  BY DkTyped
<1>2. t \in DkRuns
  <2>1. "context" \in DkPcs
    BY DEF DkPcs, DkSessPcs
  <2> QED BY <1>1, <2>1 DEF SessionRow, DkRuns
<1>3. t.pc = "context" /\ t.want = want /\ t.back = back /\ t.cfg = r.cfg /\ t.todo = r.todo /\ t.recs = r.recs
  BY <1>1 DEF SessionRow, DkRuns
<1>4. docker_session(s, q, want, back) = [s EXCEPT !.p[q] = t]
  BY <1>1 DEF docker_session, SessionRow, DkStates, DkTables
<1> HIDE DEF t
<1>5. Moved(s, [s EXCEPT !.p[q] = t], q, t) /\ [s EXCEPT !.p[q] = t].ssh = s.ssh /\ [s EXCEPT !.p[q] = t].dns = s.dns
  BY <1>2, DkMove
<1>6. Moved(s, docker_session(s, q, want, back), q, t) /\ docker_session(s, q, want, back).ssh = s.ssh /\ docker_session(s, q, want, back).dns = s.dns
  BY <1>4, <1>5
<1> QED BY <1>3, <1>6 DEF t

LEMMA CommandStep ==
  ASSUME DkGood(dk), docker_command PROVE DkGood(dk')
<1> DEFINE k == dk.calls + 1
           d == [dk EXCEPT !.calls = k, !.quiet = FALSE]
<1>1. dk \in DkStates /\ k \in Nat /\ "user" \in DkProcs /\ dk.p \in DkTables
  BY DkTyped DEF DkGood, DkStates, DkProcs
<1>2. PICK op \in DockerOps :
        LET s == [dk EXCEPT !.calls = @ + 1, !.quiet = FALSE, !.p["user"] = [DkIdle EXCEPT !.op = op]]
        IN  dk' = IF infer_project THEN docker_session(s, "user", NoDk, "op") ELSE DkExit(s, "user", "fail")
  BY DEF docker_command
<1> DEFINE i == [DkIdle EXCEPT !.op = op]
           s == [d EXCEPT !.p["user"] = i]
<1>3. dk' = docker_session(s, "user", NoDk, "op") \/ dk' = DkExit(s, "user", "fail")
  <2>1. s = [dk EXCEPT !.calls = @ + 1, !.quiet = FALSE, !.p["user"] = [DkIdle EXCEPT !.op = op]]
    BY <1>1 DEF DkStates, DkTables
  <2> QED BY <1>2, <2>1
<1> HIDE DEF k
<1>4. d \in DkStates
  BY <1>1 DEF DkStates
<1>5. d.host = dk.host /\ d.p = dk.p /\ d.quiet = FALSE
  BY <1>1 DEF DkStates
<1> HIDE DEF d
<1>6. i \in DkRuns
  BY DkIdleFacts DEF DkRuns
<1> HIDE DEF i
<1>8. Moved(d, s, "user", i)
  BY <1>1, <1>4, <1>6, DkMove
<1>9. s \in DkStates /\ s.p["user"] = i /\ s.host = d.host /\ s.quiet = d.quiet /\ s.p["apply"] = d.p["apply"]
  BY <1>8 DEF Moved, DkProcs
<1> HIDE DEF s
<1>10. \E x : Moved(s, dk', "user", x)
  <2>1. CASE dk' = docker_session(s, "user", NoDk, "op")
    <3>1. "op" \in DkBacks /\ NoDk \in DkVms \cup {NoDk}
      BY DEF DkBacks
    <3> QED BY <1>1, <1>9, <2>1, <3>1, SessionBegins
  <2>2. CASE dk' = DkExit(s, "user", "fail")
    <3> DEFINE x == [DkIdle EXCEPT !.exit = IF "user" = "apply" /\ "fail" = "ok" THEN "ok" ELSE NoDk]
    <3>1. x \in DkRuns /\ dk' = [s EXCEPT !.p["user"] = x]
      BY <1>1, <2>2, DkExitForm DEF DkExit
    <3> HIDE DEF x
    <3> QED BY <1>1, <1>9, <3>1, DkMove
  <2> QED BY <1>3, <2>1, <2>2
<1>11. PICK x : Moved(s, dk', "user", x)
  BY <1>10
<1>13. dk' \in DkStates /\ dk'.host = dk.host /\ ~dk'.quiet /\ dk'.p["apply"] = dk.p["apply"]
  BY <1>5, <1>9, <1>11 DEF Moved, DkProcs
<1> QED BY <1>13, Disturbed DEF DkGood

LEMMA PowerStep ==
  ASSUME DkGood(dk), dk_power PROVE DkGood(dk')
<1> DEFINE k == dk.calls + 1
<1>1. PICK v \in DkVms, i \in {"none", "stopped", "running", "ambiguous", "broken"} :
        dk' = [dk EXCEPT !.inv[v] = i, !.calls = @ + 1, !.quiet = FALSE,
                 !.host[v] = IF i = "none" THEN {} ELSE {[o EXCEPT !.running = @ /\ i # "stopped"] : o \in dk.host[v]}]
  BY DEF dk_power
<1> DEFINE off(o) == [o EXCEPT !.running = o.running /\ i # "stopped"]
           h == IF i = "none" THEN {} ELSE {off(o) : o \in dk.host[v]}
           n == [dk.inv EXCEPT ![v] = i]
           d == [dk EXCEPT !.inv = n, !.calls = k, !.quiet = FALSE]
<1>2. dk \in DkStates /\ k \in Nat /\ dk.inv \in DkInvs /\ \A w \in DkVms : Shelf(dk.host[w]) /\ dk.host[w] \in DkShelves
  BY DkTyped DEF DkGood, DkStates
<1>3. n \in DkInvs
  BY <1>2 DEF DkInvs
<1>4. h \in DkShelves /\ Shelf(h)
  <2>1. \A o \in dk.host[v] : o \in DkConts /\ Labelled(o)
    BY <1>2 DEF DkShelves, Shelf
  <2>2. ASSUME NEW o \in dk.host[v] PROVE off(o) \in DkConts /\ Labelled(off(o)) /\ off(o).name = o.name
    <3> DEFINE b == o.running /\ i # "stopped"
    <3>0. o \in DkConts /\ Labelled(o)
      BY <2>1
    <3>1. b \in BOOLEAN
      OBVIOUS
    <3> HIDE DEF b
    <3>2. RunSet(o, b) \in DkConts /\ Labelled(RunSet(o, b)) /\ RunSet(o, b).name = o.name
      BY <3>0, <3>1, ContainerSwitched
    <3> QED BY <3>2 DEF b, RunSet
  <2>3. \A o, x \in dk.host[v] : o.name = x.name => o = x
    BY <1>2 DEF Shelf
  <2> HIDE DEF off
  <2>4. h \in DkShelves
    BY <2>2 DEF DkShelves
  <2>5. \A x \in h : \E o \in dk.host[v] : x = off(o)
    OBVIOUS
  <2> HIDE DEF h
  <2> QED BY <2>2, <2>3, <2>4, <2>5 DEF Shelf
<1>5. dk' = EngineSet(d, v, h)
  BY <1>1, <1>2 DEF DkStates, DkInvs, EngineSet
<1> HIDE DEF h, n, k
<1>6. d \in DkStates
  BY <1>2, <1>3 DEF DkStates
<1>7. d.host = dk.host /\ d.p = dk.p /\ d.quiet = FALSE
  BY <1>2 DEF DkStates
<1> HIDE DEF d
<1>8. dk' \in DkStates /\ dk'.p = d.p /\ dk'.quiet = d.quiet /\ dk'.host[v] = h /\ \A w \in DkVms \ {v} : dk'.host[w] = d.host[w]
  BY <1>4, <1>5, <1>6, EngineWrite
<1>9. \A w \in DkVms : Shelf(dk'.host[w])
  BY <1>2, <1>4, <1>7, <1>8
<1> QED BY <1>7, <1>8, <1>9, Disturbed

LEMMA KilledStep ==
  ASSUME DkGood(dk), dk_killed PROVE DkGood(dk')
<1>1. PICK q \in DkProcs : ~DkAt(q, "idle") /\ dk' = [dk EXCEPT !.p[q] = DkIdle]
  BY DEF dk_killed
<1>2. dk \in DkStates /\ DkIdle \in DkRuns /\ dk.p[q].pc # "idle"
  BY <1>1, DkIdleFacts DEF DkGood, DkAt
<1>3. Moved(dk, dk', q, DkIdle) /\ dk'.ssh = dk.ssh /\ dk'.dns = dk.dns
  BY <1>1, <1>2, DkMove
<1>4. CASE q = "apply"
  BY <1>3, <1>4, ApplyMoves, DkIdleFacts
<1>5. CASE q = "user"
  BY <1>2, <1>3, <1>5, UserMoves
<1> QED BY <1>4, <1>5 DEF DkProcs

LEMMA NextVm ==
  ASSUME NEW r \in DkRuns, r.todo # {}
  PROVE  Min(r.todo) \in r.todo /\ Min(r.todo) \in DkVms /\ Min(r.todo) # NoDk
<1>1. r.todo \in SUBSET DkVms
  BY DEF DkRuns
<1>2. r.todo \in SUBSET Nat
  BY <1>1, DockerHostsAssumption
<1> QED BY <1>1, <1>2, LeastOf, DockerHostsAssumption

LEMMA ConfigTyped ==
  ASSUME NEW c \in DkConfigs
  PROVE  /\ c.vms \in SUBSET DkVms /\ c.name \in {"web", "svc", NoDk} /\ c.rev \in Nat
         /\ c.volume \in {"data", "binding"} /\ c.compose \in BOOLEAN /\ c.consumer \in {NoDk, "web", "db", "ghost"}
<1> DEFINE T == [vms : SUBSET DkVms, name : {"web", "svc", NoDk}, rev : Nat, volume : {"data", "binding"},
                 compose : BOOLEAN, consumer : {NoDk, "web", "db", "ghost"}]
<1>1. c \in T
  BY DockerHostsAssumption
<1> QED BY <1>1

LEMMA NothingDone ==
  ASSUME NEW host, NEW c PROVE VmsDone(host, c, {}, {})
BY DEF VmsDone, Published

LEMMA SkippedDone ==
  ASSUME NEW host, NEW c, NEW V, NEW W, NEW recs, SkipsVms(c), VmsDone(host, c, V, recs) PROVE VmsDone(host, c, W, recs)
BY DEF VmsDone, Published, SkipsVms

\* The first step of a run sees whether a docker command is about.
LEMMA DockerContextStep ==
  ASSUME DkGood(dk), ensure_docker_context PROVE DkGood(dk')
<1> DEFINE u == DkAt("user", "idle")
           i == [DkIdle EXCEPT !.cfg = dk.cfg]
           d == [dk EXCEPT !.quiet = u]
           s == [d EXCEPT !.p["apply"] = i]
<1>1. dk \in DkStates /\ dk.p \in DkTables /\ "apply" \in DkProcs /\ dk.cfg \in DkConfigs /\ (u <=> dk.p["user"].pc = "idle") /\ u \in BOOLEAN
  BY DkTyped DEF DkGood, DkProcs, DkAt
<1>2. dk' = IF dk.cfg.vms = {} THEN DkGo(s, "apply", "vms") ELSE docker_session(s, "apply", NoDk, "steps")
  <2>1. s = [dk EXCEPT !.quiet = DkAt("user", "idle"), !.p["apply"] = [DkIdle EXCEPT !.cfg = dk.cfg]]
    BY <1>1 DEF DkStates, DkTables
  <2> QED BY <2>1 DEF ensure_docker_context
<1> HIDE DEF u
<1>3. d \in DkStates
  BY <1>1 DEF DkStates
<1>4. d.host = dk.host /\ d.p = dk.p /\ d.quiet = u
  BY <1>1 DEF DkStates
<1> HIDE DEF d
<1>5. i \in DkRuns /\ i.cfg = dk.cfg /\ i.todo = {} /\ i.recs = {}
  <2>1. DkIdle \in DkRuns /\ DkIdle.todo = {} /\ DkIdle.recs = {}
    BY DkIdleFacts DEF DkIdle
  <2>2. i \in DkRuns
    BY <1>1, <2>1 DEF DkRuns
  <2>3. i.cfg = dk.cfg /\ i.todo = DkIdle.todo /\ i.recs = DkIdle.recs
    BY <2>1 DEF DkRuns
  <2> QED BY <2>1, <2>2, <2>3
<1> HIDE DEF i
<1>6. Moved(d, s, "apply", i)
  BY <1>1, <1>3, <1>5, DkMove
<1>7. s \in DkStates /\ s.p["apply"] = i /\ s.host = d.host /\ s.quiet = u /\ s.p["user"] = d.p["user"]
  BY <1>4, <1>6 DEF Moved, DkProcs
<1> HIDE DEF s
<1> SUFFICES ASSUME NEW r, Moved(s, dk', "apply", r), ApplyForm(r), ApplyQuiet(dk.host, dk'.ssh, dk'.dns, r) PROVE DkGood(dk')
  <2>1. CASE dk.cfg.vms = {}
    <3> DEFINE r == [s.p["apply"] EXCEPT !.pc = "vms"]
    <3>1. "vms" \in DkPcs
      BY DEF DkPcs
    <3>2. Moved(s, dk', "apply", r) /\ r.pc = "vms" /\ SameJob(i, r)
      BY <1>1, <1>2, <1>7, <2>1, <3>1, DkGoMoves
    <3> HIDE DEF r
    <3>3. r.cfg = dk.cfg /\ r.todo = {} /\ r.recs = {}
      BY <1>5, <3>2 DEF SameJob
    <3>4. ~OnVm(r) /\ ~InSession(r) /\ r.pc \notin DkLinkPcs /\ r.pc \notin DkOnVmPcs
      BY <3>2 DEF OnVm, InSession, DkSessPcs, DkLinkPcs, DkOnVmPcs
    <3>5. ApplyForm(r)
      BY <1>1, <3>2, <3>3, <3>4 DEF ApplyForm
    <3>6. r.cfg.vms \ r.todo = {}
      BY <2>1, <3>3
    <3>7. VmsDone(dk.host, r.cfg, r.cfg.vms \ r.todo, r.recs)
      BY <3>3, <3>6, NothingDone
    <3>8. ApplyQuiet(dk.host, dk'.ssh, dk'.dns, r)
      BY <3>2, <3>4, <3>7 DEF ApplyQuiet
    <3> QED BY <3>2, <3>5, <3>8
  <2>2. CASE dk.cfg.vms # {}
    <3> DEFINE r == SessionRow(i, NoDk, "steps")
    <3>1. "steps" \in DkBacks /\ NoDk \in DkVms \cup {NoDk}
      BY DEF DkBacks
    <3>2. Moved(s, dk', "apply", r) /\ r.pc = "context" /\ r.back = "steps" /\ r.cfg = dk.cfg /\ r.todo = {} /\ r.recs = {}
      BY <1>1, <1>2, <1>5, <1>7, <2>2, <3>1, SessionBegins
    <3> HIDE DEF r
    <3>4. ~OnVm(r) /\ InSession(r) /\ r.pc \notin DkLinkPcs /\ r.pc \notin DkOnVmPcs /\ ~InLoop(r)
      BY <3>2 DEF OnVm, InSession, InLoop, DkSessPcs, DkLinkPcs, DkOnVmPcs
    <3>5. ApplyForm(r)
      BY <1>1, <3>2, <3>4 DEF ApplyForm
    <3>6. ApplyQuiet(dk.host, dk'.ssh, dk'.dns, r)
      BY <3>2, <3>4 DEF ApplyQuiet
    <3> QED BY <3>2, <3>5, <3>6
  <2> QED BY <2>1, <2>2
<1>8. dk' \in DkStates /\ dk'.p["apply"] = r /\ dk'.p["user"] = dk.p["user"] /\ dk'.host = dk.host /\ dk'.quiet = u
  BY <1>4, <1>7 DEF Moved, DkProcs
<1> QED BY <1>1, <1>8 DEF DkGood

LEMMA PurgeContextStep ==
  ASSUME DkGood(dk), purge_docker_context PROVE DkGood(dk')
<1> DEFINE s == [dk EXCEPT !.p["apply"] = DkIdle]
<1>1. dk \in DkStates /\ "apply" \in DkProcs /\ DkIdle \in DkRuns
  BY DkIdleFacts DEF DkGood, DkProcs
<1>2. dk' = [s EXCEPT !.ctx = FALSE]
  BY <1>1 DEF purge_docker_context, DkStates
<1>3. Moved(dk, s, "apply", DkIdle)
  BY <1>1, DkMove
<1> HIDE DEF s
<1>4. Moved(dk, dk', "apply", DkIdle)
  BY <1>2, <1>3, DkMoveCtx
<1> QED BY <1>4, ApplyMoves, DkIdleFacts

LEMMA ContainersStep ==
  ASSUME DkGood(dk), ensure_containers PROVE DkGood(dk')
<1> DEFINE a == dk.p["apply"]
<1>1. dk \in DkStates /\ a \in DkRuns /\ "apply" \in DkProcs /\ ApplyForm(a) /\ (dk.quiet => ApplyQuiet(dk.host, dk.ssh, dk.dns, a))
  BY DkTyped DEF DkGood, DkProcs
<1>2. a.pc # "idle" => a.cfg \in DkConfigs /\ a.todo \subseteq a.cfg.vms
  BY <1>1 DEF ApplyForm
<1>3. CASE a.pc = "steps" /\ dk' = [DkGo(dk, "apply", "vms") EXCEPT !.p["apply"].todo = a.cfg.vms]
  <2> DEFINE r == [a EXCEPT !.pc = "vms", !.todo = a.cfg.vms]
  <2>1. dk' = [dk EXCEPT !.p["apply"] = r]
    <3>1. dk.p \in DkTables
      BY <1>1, DkTyped
    <3> QED BY <1>1, <1>3, <3>1 DEF DkGo, DkStates, DkTables
  <2>2. a.cfg.vms \in SUBSET DkVms /\ a.recs = {} /\ a.cfg \in DkConfigs
    BY <1>1, <1>2, <1>3, ConfigTyped DEF ApplyForm
  <2>3. r \in DkRuns
    BY <1>1, <2>2 DEF DkRuns, DkPcs
  <2>4. r.pc = "vms" /\ r.cfg = a.cfg /\ r.todo = a.cfg.vms /\ r.recs = a.recs
    BY <1>1 DEF DkRuns
  <2> HIDE DEF r, a
  <2>5. Moved(dk, dk', "apply", r)
    BY <1>1, <2>1, <2>3, DkMove
  <2>6. ~OnVm(r) /\ ~InSession(r) /\ r.pc \notin DkLinkPcs /\ r.pc \notin DkOnVmPcs
    BY <2>4 DEF OnVm, InSession, DkSessPcs, DkLinkPcs, DkOnVmPcs
  <2>7. ApplyForm(r)
    BY <2>2, <2>4, <2>6 DEF ApplyForm
  <2>8. VmsDone(dk.host, r.cfg, r.cfg.vms \ r.todo, r.recs)
    <3>1. r.cfg.vms \ r.todo = {}
      BY <2>4
    <3> QED BY <2>2, <2>4, <3>1, NothingDone
  <2>9. ApplyQuiet(dk.host, dk'.ssh, dk'.dns, r)
    BY <2>4, <2>6, <2>8 DEF ApplyQuiet
  <2> QED BY <2>5, <2>7, <2>9, ApplyMoves
<1>4. CASE a.pc = "vms" /\ a.todo # {} /\ dk' = DkGo(dk, "apply", "vm")
  <2> DEFINE r == [a EXCEPT !.pc = "vm"]
  <2>1. "vm" \in DkPcs
    BY DEF DkPcs
  <2>2. Moved(dk, dk', "apply", r) /\ r.pc = "vm" /\ SameJob(a, r)
    BY <1>1, <1>4, <2>1, DkGoMoves
  <2> HIDE DEF r, a
  <2>3. ~InSession(r) /\ r.pc \notin DkLinkPcs /\ r.pc \notin DkOnVmPcs /\ InLoop(a)
    BY <1>4, <2>2 DEF InLoop, InSession, DkSessPcs, DkLinkPcs, DkOnVmPcs
  <2>4. ApplyForm(r)
    BY <1>2, <1>4, <2>2, <2>3 DEF ApplyForm, SameJob
  <2>5. dk.quiet => ApplyQuiet(dk.host, dk'.ssh, dk'.dns, r)
    BY <1>1, <1>4, <2>2, <2>3 DEF ApplyQuiet, SameJob
  <2> QED BY <2>2, <2>4, <2>5, ApplyMoves
<1>5. CASE a.pc = "dns" /\ dk' = docker_session(dk, "apply", Min(a.todo), "ps")
  <2> DEFINE v == Min(a.todo)
             r == SessionRow(a, v, "ps")
  <2>1. OnVm(a) /\ InLoop(a) /\ a.pc # "vm" /\ a.pc # "idle"
    BY <1>5 DEF OnVm, InLoop
  <2>2. a.todo # {} /\ ~SkipsVms(a.cfg)
    BY <1>1, <2>1 DEF ApplyForm
  <2>3. v \in DkVms \cup {NoDk} /\ "ps" \in DkBacks
    BY <1>1, <2>2, NextVm DEF DkBacks
  <2>4. Moved(dk, dk', "apply", r) /\ dk'.ssh = dk.ssh /\ dk'.dns = dk.dns
        /\ r.pc = "context" /\ r.want = v /\ r.back = "ps" /\ r.cfg = a.cfg /\ r.todo = a.todo /\ r.recs = a.recs
    BY <1>1, <1>5, <2>3, SessionBegins
  <2> HIDE DEF r, a
  <2>5. InSession(r) /\ r.pc \notin DkLinkPcs /\ r.pc \notin DkOnVmPcs
    BY <2>4 DEF InSession, DkSessPcs, DkLinkPcs, DkOnVmPcs
  <2>6. ApplyForm(r)
    BY <1>2, <2>1, <2>2, <2>4, <2>5 DEF ApplyForm
  <2>7. dk.quiet => ApplyQuiet(dk.host, dk'.ssh, dk'.dns, r)
    BY <1>1, <1>5, <2>1, <2>4, <2>5 DEF ApplyQuiet
  <2> QED BY <2>4, <2>6, <2>7, ApplyMoves
<1>6. CASE a.pc = "vms" /\ a.todo = {} /\ dk' = [DkExit(dk, "apply", "ok") EXCEPT !.dns = a.recs, !.p["apply"].cfg = a.cfg]
  <2> DEFINE e == [DkIdle EXCEPT !.exit = "ok"]
             r == [e EXCEPT !.cfg = a.cfg]
             s == [dk EXCEPT !.p["apply"] = r]
  <2>1. dk' = [s EXCEPT !.dns = a.recs]
    <3>1. dk.p \in DkTables
      BY <1>1, DkTyped
    <3>2. DkExit(dk, "apply", "ok") = [dk EXCEPT !.p["apply"] = e]
      BY DEF DkExit
    <3> HIDE DEF e
    <3> DEFINE x == [dk EXCEPT !.p["apply"] = e]
               t == [dk.p EXCEPT !["apply"] = r]
               k == a.recs
               c == a.cfg
    <3>3. dk' = [x EXCEPT !.dns = k, !.p["apply"].cfg = c]
      BY <1>6, <3>2
    <3>4. x.p = [dk.p EXCEPT !["apply"] = e]
      BY <1>1 DEF DkStates
    <3>5. [x.p EXCEPT !["apply"].cfg = c] = t
      BY <1>1, <3>1, <3>4 DEF DkTables
    <3> HIDE DEF k, c, a
    <3>6. [x EXCEPT !.dns = k, !.p["apply"].cfg = c] = [x EXCEPT !.dns = k, !.p = [x.p EXCEPT !["apply"].cfg = c]]
      BY <1>1 DEF DkStates
    <3>7. [x EXCEPT !.dns = k, !.p = t] = [[dk EXCEPT !.p = t] EXCEPT !.dns = k]
      BY <1>1 DEF DkStates
    <3>8. [dk EXCEPT !.p = t] = s
      BY <1>1 DEF DkStates
    <3> QED BY <3>3, <3>5, <3>6, <3>7, <3>8 DEF k
  <2>2. r \in DkRuns /\ r.pc = "idle" /\ r.cfg = a.cfg
    <3>1. DkIdle \in DkRuns /\ DkIdle.pc = "idle"
      BY DkIdleFacts
    <3>2. a.cfg \in DkConfigs
      BY <1>2, <1>6
    <3>3. r \in DkRuns
      BY <3>1, <3>2 DEF DkRuns
    <3> QED BY <3>1, <3>3 DEF DkRuns
  <2> HIDE DEF r
  <2>3. Moved(dk, s, "apply", r)
    BY <1>1, <2>2, DkMove
  <2>4. a.recs \in SUBSET DkRecs
    BY <1>1 DEF DkRuns
  <2> HIDE DEF s, a
  <2>5. Moved(dk, dk', "apply", r) /\ dk'.dns = a.recs
    BY <2>1, <2>3, <2>4, DkMoveDns
  <2>6. ~InSession(r) /\ r.pc \notin DkLinkPcs /\ r.pc \notin DkOnVmPcs /\ ~InLoop(r) /\ ~OnVm(r) /\ InLoop(a)
    BY <1>6, <2>2 DEF OnVm, InLoop, InSession, DkSessPcs, DkLinkPcs, DkOnVmPcs
  <2>7. ApplyForm(r)
    BY <2>2, <2>6 DEF ApplyForm
  <2>8. dk.quiet => VmsDone(dk.host, r.cfg, r.cfg.vms, a.recs)
    <3>1. a.cfg.vms \ a.todo = a.cfg.vms
      BY <1>6
    <3> QED BY <1>1, <2>2, <2>6, <3>1 DEF ApplyQuiet
  <2>9. dk.quiet => ApplyQuiet(dk.host, dk'.ssh, dk'.dns, r)
    BY <2>2, <2>5, <2>6, <2>8 DEF ApplyQuiet
  <2> QED BY <2>5, <2>7, <2>9, ApplyMoves
<1> QED BY <1>3, <1>4, <1>5, <1>6 DEF ensure_containers, DkAt

\* The VMs that are done stay done while apply works on another one.
LEMMA DoneSame ==
  ASSUME NEW host, NEW g, NEW c, NEW V, NEW recs, VmsDone(host, c, V, recs), \A v \in V : g[v] = host[v]
  PROVE  VmsDone(g, c, V, recs)
<1>1. \A v \in V : container_dns_from_inspect(g[v], c, v) = container_dns_from_inspect(host[v], c, v)
  OBVIOUS
<1>2. Published(g, c, V) = Published(host, c, V)
  BY <1>1 DEF Published
<1>3. c.name # NoDk => \A v \in V : UpAsDeclared(g[v], c)
  BY DEF VmsDone
<1> QED BY <1>2, <1>3 DEF VmsDone

\* A step of apply that replaces the contents of one engine.
Acted(s, x, v, h, r) ==
  /\ x \in DkStates /\ x.p["apply"] = r /\ x.p["user"] = s.p["user"] /\ x.quiet = s.quiet /\ x.ssh = s.ssh /\ x.dns = s.dns
  /\ x.host[v] = h /\ \A w \in DkVms \ {v} : x.host[w] = s.host[w]

LEMMA ActGo ==
  ASSUME NEW s \in DkStates, NEW v \in DkVms, NEW h \in DkShelves, NEW pc \in DkPcs
  PROVE  /\ Acted(s, DkGo(EngineSet(s, v, h), "apply", pc), v, h, [s.p["apply"] EXCEPT !.pc = pc])
         /\ [s.p["apply"] EXCEPT !.pc = pc].pc = pc /\ SameJob(s.p["apply"], [s.p["apply"] EXCEPT !.pc = pc])
<1> DEFINE e == EngineSet(s, v, h)
           x == DkGo(e, "apply", pc)
           r == [s.p["apply"] EXCEPT !.pc = pc]
<1>1. e \in DkStates /\ e.p = s.p /\ e.quiet = s.quiet /\ e.ssh = s.ssh /\ e.dns = s.dns /\ e.host[v] = h
      /\ \A w \in DkVms \ {v} : e.host[w] = s.host[w]
  BY EngineWrite
<1> HIDE DEF e
<1>2. "apply" \in DkProcs /\ [e.p["apply"] EXCEPT !.pc = pc] = r
  BY <1>1 DEF DkProcs
<1>3. Moved(e, x, "apply", r) /\ x.ssh = e.ssh /\ x.dns = e.dns
  BY <1>1, <1>2, DkGoMoves
<1>4. r.pc = pc /\ SameJob(s.p["apply"], r)
  BY <1>2, DkGoMoves
<1> HIDE DEF x, r
<1>5. Acted(s, x, v, h, r)
  BY <1>1, <1>3 DEF Moved, DkProcs, Acted
<1> QED BY <1>4, <1>5 DEF e, x, r

LEMMA ActFail ==
  ASSUME dk \in DkStates, NEW v \in DkVms, NEW h \in DkShelves
  PROVE  Acted(dk, EngineSet(DkFail("apply"), v, h), v, h, DkIdle)
<1> DEFINE f == DkFail("apply")
           x == EngineSet(f, v, h)
<1>1. Moved(dk, f, "apply", DkIdle) /\ f.ssh = dk.ssh /\ f.dns = dk.dns
  BY DkFailMoves DEF DkProcs
<1> HIDE DEF f
<1>2. f \in DkStates /\ f.p["apply"] = DkIdle /\ f.p["user"] = dk.p["user"] /\ f.host = dk.host /\ f.quiet = dk.quiet
  BY <1>1 DEF Moved, DkProcs
<1>3. x \in DkStates /\ x.p = f.p /\ x.quiet = f.quiet /\ x.ssh = f.ssh /\ x.dns = f.dns /\ x.host[v] = h
      /\ \A w \in DkVms \ {v} : x.host[w] = f.host[w]
  BY <1>2, EngineWrite
<1> HIDE DEF x
<1>4. Acted(dk, x, v, h, DkIdle)
  BY <1>1, <1>2, <1>3 DEF Acted
<1> QED BY <1>4 DEF x, f

LEMMA ApplyActs ==
  ASSUME DkGood(dk), NEW v \in DkVms, NEW h, Shelf(h), NEW r, Acted(dk, dk', v, h, r), ApplyForm(r),
         dk.quiet => ApplyQuiet(dk'.host, dk.ssh, dk.dns, r)
  PROVE  DkGood(dk')
<1>1. \A w \in DkVms : Shelf(dk'.host[w])
  BY DEF DkGood, Acted
<1> QED BY <1>1 DEF DkGood, Acted

\* What apply knows while it works on a VM.
LEMMA OnVmFacts ==
  ASSUME DkGood(dk), NEW a, a = dk.p["apply"], a.pc \in DkOnVmPcs
  PROVE  /\ dk \in DkStates /\ a \in DkRuns /\ a.pc # "idle" /\ ApplyForm(a)
         /\ a.todo # {} /\ Min(a.todo) \in a.todo /\ Min(a.todo) \in DkVms
         /\ a.cfg \in DkConfigs /\ a.todo \subseteq a.cfg.vms /\ a.cfg.vms \subseteq DkVms /\ ~SkipsVms(a.cfg)
         /\ dk.quiet => ApplyQuiet(dk.host, dk.ssh, dk.dns, a) /\ VmsDone(dk.host, a.cfg, a.cfg.vms \ a.todo, a.recs)
                        /\ dk.ssh = Min(a.todo) /\ (docker_output # NoDk => docker_output = Min(a.todo))
         /\ \A v \in DkVms : Shelf(dk.host[v]) /\ dk.host[v] \in DkShelves
<1>1. dk \in DkStates /\ a \in DkRuns /\ ApplyForm(a) /\ (dk.quiet => ApplyQuiet(dk.host, dk.ssh, dk.dns, a))
      /\ \A v \in DkVms : Shelf(dk.host[v]) /\ dk.host[v] \in DkShelves
  BY DkTyped DEF DkGood
<1>2. a.pc # "idle" /\ a.pc # "vm" /\ OnVm(a) /\ InLoop(a)
  BY DEF DkOnVmPcs, OnVm, InLoop
<1>3. a.todo # {} /\ a.cfg \in DkConfigs /\ a.todo \subseteq a.cfg.vms /\ ~SkipsVms(a.cfg)
  BY <1>1, <1>2 DEF ApplyForm
<1>4. Min(a.todo) \in a.todo /\ Min(a.todo) \in DkVms
  BY <1>1, <1>3, NextVm
<1>5. a.cfg.vms \subseteq DkVms
  BY <1>3, ConfigTyped
<1>6. dk.quiet => VmsDone(dk.host, a.cfg, a.cfg.vms \ a.todo, a.recs) /\ dk.ssh = Min(a.todo)
  BY <1>1, <1>2 DEF ApplyQuiet
<1>7. dk.quiet => (docker_output # NoDk => docker_output = Min(a.todo))
  BY <1>1, <1>6, OutputVm
<1> QED BY <1>1, <1>2, <1>3, <1>4, <1>5, <1>6, <1>7

\* Where the work on a VM goes on.
LEMMA OnVmForm ==
  ASSUME NEW a, NEW r, ApplyForm(a), a.pc \in DkOnVmPcs, SameJob(a, r), r.pc \in {"inspect", "run", "start", "rm", "dns"}
  PROVE  /\ ApplyForm(r)
         /\ \A host, ssh, dns :
              /\ VmsDone(host, a.cfg, a.cfg.vms \ a.todo, a.recs) /\ ssh = Min(a.todo)
              /\ r.pc = "dns" => (a.cfg.name # NoDk => UpAsDeclared(host[Min(a.todo)], a.cfg))
              /\ r.pc = "start" => Started(host[Min(a.todo)], a.cfg)
              => ApplyQuiet(host, ssh, dns, r)
<1>1. a.pc # "idle" /\ a.pc # "vm" /\ OnVm(a)
  BY DEF DkOnVmPcs, OnVm
<1>2. r.pc \notin {"idle", "vm", "op", "steps", "docker", "ps", "bridge"} /\ ~InSession(r) /\ r.pc \notin DkLinkPcs
  BY DEF InSession, DkSessPcs, DkLinkPcs
<1>3. ApplyForm(r)
  BY <1>1, <1>2 DEF ApplyForm, SameJob
<1>4. ASSUME NEW host, NEW ssh, NEW dns, VmsDone(host, a.cfg, a.cfg.vms \ a.todo, a.recs), ssh = Min(a.todo),
             r.pc = "dns" => (a.cfg.name # NoDk => UpAsDeclared(host[Min(a.todo)], a.cfg)),
             r.pc = "start" => Started(host[Min(a.todo)], a.cfg)
      PROVE  ApplyQuiet(host, ssh, dns, r)
  BY <1>2, <1>4 DEF ApplyQuiet, SameJob
<1> QED BY <1>3, <1>4

\* A write on the engine the transport leads to, and the next step.
LEMMA OnVmActs ==
  ASSUME DkGood(dk), NEW a, a = dk.p["apply"], a.pc \in DkOnVmPcs, NEW t, t = docker_output, t # NoDk,
         NEW h \in DkShelves, Shelf(h), NEW pc \in {"inspect", "run", "dns"},
         dk' = DkGo(EngineSet(dk, t, h), "apply", pc),
         dk.quiet /\ pc = "dns" => (a.cfg.name # NoDk => UpAsDeclared(h, a.cfg))
  PROVE  DkGood(dk')
<1> DEFINE r == [a EXCEPT !.pc = pc]
           v == Min(a.todo)
<1>1. /\ dk \in DkStates /\ ApplyForm(a) /\ v \in a.todo /\ v \in DkVms /\ a.cfg.vms \subseteq DkVms
      /\ dk.quiet => VmsDone(dk.host, a.cfg, a.cfg.vms \ a.todo, a.recs) /\ dk.ssh = v /\ t = v
  BY OnVmFacts
<1>2. t \in DkVms /\ pc \in DkPcs
  BY <1>1, OutputVm DEF DkPcs, DkOnVmPcs
<1>3. Acted(dk, dk', t, h, r) /\ r.pc = pc /\ SameJob(a, r)
  BY <1>1, <1>2, ActGo
<1> HIDE DEF r, v
<1>4. dk'.host[t] = h /\ \A w \in DkVms \ {t} : dk'.host[w] = dk.host[w]
  BY <1>3 DEF Acted
<1>5. ASSUME dk.quiet PROVE ApplyQuiet(dk'.host, dk.ssh, dk.dns, r)
  <2>1. \A w \in a.cfg.vms \ a.todo : dk'.host[w] = dk.host[w]
    BY <1>1, <1>4, <1>5
  <2>2. VmsDone(dk'.host, a.cfg, a.cfg.vms \ a.todo, a.recs)
    BY <1>1, <1>5, <2>1, DoneSame
  <2>3. r.pc = "dns" => (a.cfg.name # NoDk => UpAsDeclared(dk'.host[v], a.cfg))
    BY <1>1, <1>3, <1>4, <1>5
  <2> QED BY <1>1, <1>3, <1>5, <2>2, <2>3, OnVmForm DEF v
<1>6. ApplyForm(r)
  BY <1>1, <1>3, OnVmForm
<1> QED BY <1>2, <1>3, <1>5, <1>6, ApplyActs

LEMMA OnVmGoes ==
  ASSUME DkGood(dk), NEW a, a = dk.p["apply"], a.pc \in DkOnVmPcs, NEW pc \in {"run", "start", "rm", "dns"},
         dk' = DkGo(dk, "apply", pc),
         dk.quiet /\ pc = "dns" => (a.cfg.name # NoDk => UpAsDeclared(dk.host[Min(a.todo)], a.cfg)),
         dk.quiet /\ pc = "start" => Started(dk.host[Min(a.todo)], a.cfg)
  PROVE  DkGood(dk')
<1> DEFINE r == [a EXCEPT !.pc = pc]
<1>1. /\ dk \in DkStates /\ ApplyForm(a) /\ "apply" \in DkProcs
      /\ dk.quiet => VmsDone(dk.host, a.cfg, a.cfg.vms \ a.todo, a.recs) /\ dk.ssh = Min(a.todo)
  BY OnVmFacts DEF DkProcs
<1>2. pc \in DkPcs
  BY DEF DkPcs, DkOnVmPcs
<1>3. Moved(dk, dk', "apply", r) /\ dk'.ssh = dk.ssh /\ dk'.dns = dk.dns /\ r.pc = pc /\ SameJob(a, r)
  BY <1>1, <1>2, DkGoMoves
<1> HIDE DEF r
<1>4. ApplyForm(r) /\ (dk.quiet => ApplyQuiet(dk.host, dk'.ssh, dk'.dns, r))
  BY <1>1, <1>3, OnVmForm
<1> QED BY <1>3, <1>4, ApplyMoves

LEMMA VmContainersStep ==
  ASSUME DkGood(dk), ensure_vm_containers PROVE DkGood(dk')
<1> DEFINE a == dk.p["apply"]
           c == a.cfg
           v == Min(a.todo)
           b == IF c.compose THEN "compose" ELSE "inspect"
<1>1. dk \in DkStates /\ a \in DkRuns /\ "apply" \in DkProcs /\ ApplyForm(a) /\ (dk.quiet => ApplyQuiet(dk.host, dk.ssh, dk.dns, a))
      /\ a.pc = "vm"
  BY DkTyped DEF DkGood, DkProcs, ensure_vm_containers, DkAt
<1>2. OnVm(a) /\ InLoop(a)
  BY <1>1 DEF OnVm, InLoop
<1>3. a.todo # {} /\ c \in DkConfigs /\ a.todo \subseteq c.vms
  BY <1>1, <1>2 DEF ApplyForm
<1>4. v \in a.todo /\ v \in DkVms
  BY <1>1, <1>3, NextVm
<1>5. CASE ~c.compose /\ c.name = NoDk
  <2> DEFINE m == a.todo \ {v}
             r == [a EXCEPT !.todo = m, !.pc = "vms"]
  <2>1. dk' = [dk EXCEPT !.p["apply"] = r]
    <3>1. dk' = [dk EXCEPT !.p["apply"].todo = @ \ {v}, !.p["apply"].pc = "vms"]
      BY <1>5 DEF ensure_vm_containers
    <3>2. dk.p \in DkTables
      BY <1>1, DkTyped
    <3> QED BY <1>1, <3>1, <3>2 DEF DkStates, DkTables
  <2>2. m \in SUBSET DkVms /\ m \subseteq c.vms
    BY <1>1, <1>3 DEF DkRuns
  <2> HIDE DEF m
  <2>3. r \in DkRuns
    BY <1>1, <2>2 DEF DkRuns, DkPcs
  <2>4. r.pc = "vms" /\ r.cfg = a.cfg /\ r.todo = m /\ r.recs = a.recs
    BY <1>1 DEF DkRuns
  <2> HIDE DEF r, a, v
  <2>5. Moved(dk, dk', "apply", r)
    BY <1>1, <2>1, <2>3, DkMove
  <2>6. ~OnVm(r) /\ ~InSession(r) /\ r.pc \notin DkLinkPcs /\ r.pc \notin DkOnVmPcs
    BY <2>4 DEF OnVm, InSession, DkSessPcs, DkLinkPcs, DkOnVmPcs
  <2>7. ApplyForm(r)
    BY <1>3, <2>2, <2>4, <2>6 DEF ApplyForm
  <2>8. dk.quiet => VmsDone(dk.host, r.cfg, r.cfg.vms \ r.todo, r.recs)
    <3>1. SkipsVms(a.cfg)
      BY <1>5 DEF SkipsVms
    <3>2. dk.quiet => VmsDone(dk.host, a.cfg, a.cfg.vms \ a.todo, a.recs)
      BY <1>1, <1>2 DEF ApplyQuiet
    <3> QED BY <2>4, <3>1, <3>2, SkippedDone
  <2>9. dk.quiet => ApplyQuiet(dk.host, dk'.ssh, dk'.dns, r)
    BY <2>4, <2>6, <2>8 DEF ApplyQuiet
  <2> QED BY <2>5, <2>7, <2>9, ApplyMoves
<1>6. CASE ~(~c.compose /\ c.name = NoDk)
  <2>1. CASE dk' = DkFail("apply")
    BY <1>1, <2>1, DkFails
  <2>2. CASE dk' = docker_session(dk, "apply", v, b)
    <3> DEFINE r == SessionRow(a, v, b)
    <3>1. v \in DkVms \cup {NoDk} /\ b \in DkBacks /\ b \in {"compose", "inspect"}
      BY <1>4 DEF DkBacks
    <3> HIDE DEF b
    <3>2. Moved(dk, dk', "apply", r) /\ dk'.ssh = dk.ssh /\ dk'.dns = dk.dns
          /\ r.pc = "context" /\ r.want = v /\ r.back = b /\ r.cfg = a.cfg /\ r.todo = a.todo /\ r.recs = a.recs
      BY <1>1, <2>2, <3>1, SessionBegins
    <3> HIDE DEF r, a
    <3>3. InSession(r) /\ r.pc \notin DkLinkPcs /\ r.pc \notin DkOnVmPcs /\ ~SkipsVms(a.cfg)
      BY <1>6, <3>2 DEF InSession, DkSessPcs, DkLinkPcs, DkOnVmPcs, SkipsVms
    <3>4. ApplyForm(r)
      BY <1>3, <3>1, <3>2, <3>3 DEF ApplyForm
    <3>5. dk.quiet => ApplyQuiet(dk.host, dk'.ssh, dk'.dns, r)
      BY <1>1, <1>2, <3>1, <3>2, <3>3 DEF ApplyQuiet
    <3> QED BY <3>2, <3>4, <3>5, ApplyMoves
  <2> QED BY <1>6, <2>1, <2>2 DEF ensure_vm_containers
<1> QED BY <1>5, <1>6

LEMMA ComposeStep ==
  ASSUME DkGood(dk), ensure_compose_file PROVE DkGood(dk')
<1> DEFINE a == dk.p["apply"]
           t == docker_output
           w == for_vm(a.cfg) \cap {"db"}
           new == [name |-> "db", owner |-> "compose", vm |-> Min(a.todo), hash |-> NoDk, args |-> [rev |-> 0, vols |-> w],
                   running |-> TRUE, bridge |-> FALSE]
           same == {o \in Named(t, "db") : o.args = new.args}
           z == IF same # {} THEN [(CHOOSE o \in same : TRUE) EXCEPT !.running = TRUE] ELSE new
<1>1. a.pc = "compose" /\ a.pc \in DkOnVmPcs
  BY DEF ensure_compose_file, DkAt, DkOnVmPcs
<1>2. dk \in DkStates /\ Min(a.todo) \in DkVms /\ a.pc # "idle" /\ \A v \in DkVms : Shelf(dk.host[v]) /\ dk.host[v] \in DkShelves
  BY <1>1, OnVmFacts
<1>3. CASE t = NoDk
  BY <1>1, <1>2, <1>3, DkFails DEF ensure_compose_file, DkProcs
<1>4. CASE t # NoDk
  <2>1. dk' = DkGo(Put(dk, t, z), "apply", "inspect")
    BY <1>4 DEF ensure_compose_file
  <2>2. t \in DkVms
    BY <1>2, <1>4, OutputVm
  <2>3. new \in DkConts /\ Labelled(new)
    <3>1. w \in SUBSET {"data", "binding", "claim", "db"}
      OBVIOUS
    <3> HIDE DEF w
    <3>2. [rev |-> 0, vols |-> w] \in DkArgs
      BY <3>1 DEF DkArgs, DkVols
    <3> QED BY <1>2, <3>2 DEF DkConts, DkNames, Labelled
  <2> HIDE DEF new, t
  <2>4. z \in DkConts /\ Labelled(z)
    <3>1. CASE same = {}
      BY <2>3, <3>1
    <3>2. CASE same # {}
      <4> DEFINE o == CHOOSE x \in same : TRUE
      <4>1. o \in dk.host[t]
        BY <3>2 DEF Named
      <4>2. o \in DkConts /\ Labelled(o)
        BY <1>2, <2>2, <4>1 DEF Shelf, DkShelves
      <4>3. z = RunSet(o, TRUE)
        BY <3>2 DEF RunSet
      <4> HIDE DEF o, z
      <4> QED BY <4>2, <4>3, ContainerSwitched
    <3> QED BY <3>1, <3>2
  <2> HIDE DEF z
  <2>5. PutIn(dk.host[t], z) \in DkShelves /\ Shelf(PutIn(dk.host[t], z))
    BY <1>2, <2>2, <2>4, ShelfPut
  <2>6. dk' = DkGo(EngineSet(dk, t, PutIn(dk.host[t], z)), "apply", "inspect")
    BY <1>2, <2>1, <2>2, PutForm
  <2> HIDE DEF a
  <2> QED BY <1>1, <1>4, <2>5, <2>6, OnVmActs DEF a, t
<1> QED BY <1>3, <1>4

LEMMA NamedIs ==
  ASSUME NEW v, NEW n PROVE Named(v, n) = NamedIn(dk.host[v], n)
BY DEF Named, NamedIn

LEMMA InspectStep ==
  ASSUME DkGood(dk), inspect_container PROVE DkGood(dk')
<1> DEFINE a == dk.p["apply"]
           c == a.cfg
           t == docker_output
           vols == with_mounts(c, c.name)
           o == CHOOSE x \in Named(t, c.name) : TRUE
<1>1. a.pc = "inspect" /\ a.pc \in DkOnVmPcs
  BY DEF inspect_container, DkAt, DkOnVmPcs
<1>2. dk \in DkStates /\ a.pc # "idle" /\ "apply" \in DkProcs /\ Min(a.todo) \in DkVms
      /\ (dk.quiet => (t # NoDk => t = Min(a.todo))) /\ \A v \in DkVms : Shelf(dk.host[v]) /\ dk.host[v] \in DkShelves
  BY <1>1, OnVmFacts DEF DkProcs
<1>3. \/ dk' = DkFail("apply")
      \/ c.name = NoDk /\ dk' = DkGo(dk, "apply", "dns")
      \/ dk' = DkGo(dk, "apply", "run") \/ dk' = DkGo(dk, "apply", "rm")
      \/ t # NoDk /\ Named(t, c.name) # {} /\ o.owner = "managed" /\ o.hash = container_config_hash(c, vols)
         /\ dk' = DkGo(dk, "apply", IF o.running THEN "dns" ELSE "start")
  BY DEF inspect_container
<1>4. CASE dk' = DkFail("apply")
  BY <1>2, <1>4, DkFails
<1>5. CASE c.name = NoDk /\ dk' = DkGo(dk, "apply", "dns")
  BY <1>1, <1>5, OnVmGoes
<1>6. CASE dk' = DkGo(dk, "apply", "run") \/ dk' = DkGo(dk, "apply", "rm")
  BY <1>1, <1>6, OnVmGoes
<1>7. CASE t # NoDk /\ Named(t, c.name) # {} /\ o.owner = "managed" /\ o.hash = container_config_hash(c, vols)
           /\ dk' = DkGo(dk, "apply", IF o.running THEN "dns" ELSE "start")
  <2> DEFINE h == dk.host[t]
  <2>1. t \in DkVms
    BY <1>2, <1>7, OutputVm
  <2>2. o = CHOOSE x \in NamedIn(h, c.name) : TRUE
    BY NamedIs
  <2>3. NamedIn(h, c.name) # {}
    BY <1>7, NamedIs
  <2>4. o \in h /\ o.name = c.name /\ Labelled(o)
    BY <1>2, <2>1, <2>2, <2>3, NamedOne
  <2>5. o.args = Wanted(c)
    BY <1>7, <2>4 DEF Labelled, Wanted, container_config_hash
  <2>6. Started(h, c)
    BY <2>2, <2>3, <2>5 DEF Started
  <2>7. o.running => UpAsDeclared(h, c)
    BY <2>4, <2>5 DEF UpAsDeclared, NamedIn
  <2>8. dk.quiet => h = dk.host[Min(a.todo)]
    BY <1>2, <1>7
  <2>9. PICK pc \in {"dns", "start"} : dk' = DkGo(dk, "apply", pc) /\ (pc = "dns" => o.running)
    BY <1>7
  <2> HIDE DEF o, h, t, vols
  <2>10. dk.quiet /\ pc = "dns" => (c.name # NoDk => UpAsDeclared(dk.host[Min(a.todo)], c))
    BY <2>7, <2>8, <2>9
  <2>11. dk.quiet /\ pc = "start" => Started(dk.host[Min(a.todo)], c)
    BY <2>6, <2>8
  <2>12. pc \in {"run", "start", "rm", "dns"}
    OBVIOUS
  <2> QED BY <1>1, <2>9, <2>10, <2>11, <2>12, OnVmGoes
<1> QED BY <1>3, <1>4, <1>5, <1>6, <1>7

LEMMA WantedTyped ==
  ASSUME NEW c \in DkConfigs, NEW v \in DkVms
  PROVE  build_run_args(c, v) \in DkConts /\ Labelled(build_run_args(c, v)) /\ build_run_args(c, v).name = c.name
         /\ build_run_args(c, v).running /\ build_run_args(c, v).args = Wanted(c)
<1> DEFINE w == with_mounts(c, c.name)
<1>1. c.volume \in {"data", "binding"} /\ c.name \in {"web", "svc", NoDk} /\ c.rev \in Nat
  BY ConfigTyped
<1>2. w \in DkVols
  BY <1>1 DEF with_mounts, DkVols
<1> HIDE DEF w
<1>3. build_run_args(c, v) = [name |-> c.name, owner |-> "managed", vm |-> v, hash |-> [rev |-> c.rev, vols |-> w],
                              args |-> [rev |-> c.rev, vols |-> w], running |-> TRUE, bridge |-> TRUE]
  BY DEF build_run_args, container_config_hash, w
<1>4. [rev |-> c.rev, vols |-> w] \in DkArgs /\ Wanted(c) = [rev |-> c.rev, vols |-> w]
  BY <1>1, <1>2 DEF DkArgs, Wanted, w
<1> QED BY <1>1, <1>3, <1>4 DEF DkConts, DkNames, Labelled

LEMMA OneContainerStep ==
  ASSUME DkGood(dk), ensure_one_container PROVE DkGood(dk')
<1> DEFINE a == dk.p["apply"]
           c == a.cfg
           n == c.name
           t == docker_output
           h == dk.host[t]
           o == CHOOSE x \in NamedIn(h, n) : TRUE
           z == RunSet(o, TRUE)
<1>1. a.pc \in {"start", "rm"} /\ a.pc \in DkOnVmPcs
  BY DEF ensure_one_container, DkAt, DkOnVmPcs
<1>2. /\ dk \in DkStates /\ a.pc # "idle" /\ "apply" \in DkProcs /\ Min(a.todo) \in DkVms
      /\ dk.quiet => (t # NoDk => t = Min(a.todo)) /\ ApplyQuiet(dk.host, dk.ssh, dk.dns, a)
      /\ \A v \in DkVms : Shelf(dk.host[v]) /\ dk.host[v] \in DkShelves
  BY <1>1, OnVmFacts DEF DkProcs
<1>3. \/ dk' = DkFail("apply")
      \/ a.pc = "start" /\ t # NoDk /\ NamedIn(h, n) # {} /\ dk' = DkGo(Put(dk, t, z), "apply", "dns")
      \/ t # NoDk /\ dk' = DkGo(EngineSet(dk, t, h \ Named(t, n)), "apply", "run")
  BY NamedIs DEF ensure_one_container, DkAt, RunSet, EngineSet
<1>4. t # NoDk => t \in DkVms
  BY <1>2, OutputVm
<1>5. CASE dk' = DkFail("apply")
  BY <1>2, <1>5, DkFails
<1>6. CASE a.pc = "start" /\ t # NoDk /\ NamedIn(h, n) # {} /\ dk' = DkGo(Put(dk, t, z), "apply", "dns")
  <2>1. o \in h /\ o.name = n /\ o \in DkConts /\ Labelled(o)
    BY <1>2, <1>4, <1>6, NamedOne
  <2>2. dk.quiet => o.args = Wanted(c)
    BY <1>2, <1>6 DEF ApplyQuiet, Started
  <2> HIDE DEF o
  <2>3. z \in DkConts /\ Labelled(z) /\ z.name = n /\ z.args = o.args /\ z.running
    BY <2>1, ContainerSwitched
  <2> HIDE DEF z
  <2>4. PutIn(h, z) \in DkShelves /\ Shelf(PutIn(h, z))
    BY <1>2, <1>4, <1>6, <2>3, ShelfPut
  <2>5. dk' = DkGo(EngineSet(dk, t, PutIn(h, z)), "apply", "dns")
    BY <1>2, <1>4, <1>6, PutForm
  <2>6. dk.quiet => UpAsDeclared(PutIn(h, z), c)
    BY <2>2, <2>3 DEF UpAsDeclared, NamedIn, PutIn
  <2> HIDE DEF h, t
  <2> QED BY <1>1, <1>6, <2>4, <2>5, <2>6, OnVmActs DEF t
<1>7. CASE t # NoDk /\ dk' = DkGo(EngineSet(dk, t, h \ Named(t, n)), "apply", "run")
  <2> DEFINE g == h \ Named(t, n)
  <2>1. g \in DkShelves /\ Shelf(g)
    BY <1>2, <1>4, <1>7, ShelfLess
  <2> HIDE DEF g, t
  <2> QED BY <1>1, <1>7, <2>1, OnVmActs DEF g, t
<1> QED BY <1>3, <1>5, <1>6, <1>7

LEMMA DockerRunStep ==
  ASSUME DkGood(dk), create_container PROVE DkGood(dk')
<1> DEFINE a == dk.p["apply"]
           c == a.cfg
           v == Min(a.todo)
           t == docker_output
           h == dk.host[t]
           new == build_run_args(c, v)
           off == RunSet(new, FALSE)
<1>1. a.pc = "run" /\ a.pc \in DkOnVmPcs
  BY DEF create_container, DkAt, DkOnVmPcs
<1>2. /\ dk \in DkStates /\ a.pc # "idle" /\ "apply" \in DkProcs /\ v \in DkVms /\ c \in DkConfigs
      /\ \A w \in DkVms : Shelf(dk.host[w]) /\ dk.host[w] \in DkShelves
  BY <1>1, OnVmFacts DEF DkProcs
<1>3. \/ dk' = DkFail("apply")
      \/ t # NoDk /\ dk' = DkGo(Put(dk, t, new), "apply", "dns")
      \/ t # NoDk /\ dk' = Put(DkFail("apply"), t, off)
  BY DEF create_container, RunSet
<1>4. t # NoDk => t \in DkVms
  BY <1>2, OutputVm
<1>5. new \in DkConts /\ Labelled(new) /\ new.name = c.name /\ new.running /\ new.args = Wanted(c)
  BY <1>2, WantedTyped
<1> HIDE DEF new
<1>6. off \in DkConts /\ Labelled(off)
  BY <1>5, ContainerSwitched
<1> HIDE DEF off
<1>7. CASE dk' = DkFail("apply")
  BY <1>2, <1>7, DkFails
<1>8. CASE t # NoDk /\ dk' = DkGo(Put(dk, t, new), "apply", "dns")
  <2>1. PutIn(h, new) \in DkShelves /\ Shelf(PutIn(h, new))
    BY <1>2, <1>4, <1>5, <1>8, ShelfPut
  <2>2. dk' = DkGo(EngineSet(dk, t, PutIn(h, new)), "apply", "dns")
    BY <1>2, <1>4, <1>8, PutForm
  <2>3. UpAsDeclared(PutIn(h, new), c)
    BY <1>5 DEF UpAsDeclared, NamedIn, PutIn
  <2> HIDE DEF h, t
  <2> QED BY <1>1, <1>8, <2>1, <2>2, <2>3, OnVmActs DEF t
<1>9. CASE t # NoDk /\ dk' = Put(DkFail("apply"), t, off)
  <2> DEFINE f == DkFail("apply")
  <2>1. f \in DkStates /\ f.host = dk.host
    BY <1>2, DkFailMoves DEF Moved
  <2>2. PutIn(h, off) \in DkShelves /\ Shelf(PutIn(h, off))
    BY <1>2, <1>4, <1>6, <1>9, ShelfPut
  <2>3. dk' = EngineSet(f, t, PutIn(h, off))
    BY <1>4, <1>9, <2>1, PutForm
  <2>4. Acted(dk, dk', t, PutIn(h, off), DkIdle)
    BY <1>2, <1>4, <1>9, <2>2, <2>3, ActFail
  <2> QED BY <1>4, <1>9, <2>2, <2>4, ApplyActs, DkIdleFacts
<1> QED BY <1>3, <1>7, <1>8, <1>9

\* Names in DNS.
LEMMA RunningNames ==
  ASSUME NEW h, NEW c, NEW v
  PROVE  /\ container_dns_from_inspect({o \in h : o.running}, c, v) = container_dns_from_inspect(h, c, v)
         /\ SeenAsIs(h, c, v, {o \in h : o.running})
<1>1. container_dns_from_inspect({o \in h : o.running}, c, v) = container_dns_from_inspect(h, c, v)
  <2>1. {x \in {o \in h : o.running} : owned_running_container(x, c, v)} = {x \in h : owned_running_container(x, c, v)}
    BY DEF owned_running_container
  <2> QED BY <2>1 DEF container_dns_from_inspect
<1> QED BY <1>1 DEF SeenAsIs

LEMMA NamesTyped ==
  ASSUME NEW h \in DkShelves, NEW c, NEW v \in DkVms PROVE container_dns_from_inspect(h, c, v) \in SUBSET DkRecs
<1>1. \A o \in h : o.name \in DkNames
  BY DEF DkShelves, DkConts
<1> QED BY <1>1 DEF container_dns_from_inspect, DkRecs

LEMMA DnsInspectStep ==
  ASSUME DkGood(dk), dns_inspect PROVE DkGood(dk')
<1> DEFINE a == dk.p["apply"]
           v == Min(a.todo)
           t == docker_output
           seen == {o \in dk.host[t] : o.running}
           miss == {o.name : o \in containers_missing_dns_bridge(seen, a.cfg, v)}
           r == [a EXCEPT !.pc = "bridge", !.seen = seen, !.miss = miss]
<1>1. a.pc = "ps" /\ a.pc \in DkOnVmPcs
  BY DEF dns_inspect, DkAt, DkOnVmPcs
<1>2. /\ dk \in DkStates /\ a \in DkRuns /\ a.pc # "idle" /\ "apply" \in DkProcs /\ v \in DkVms /\ ApplyForm(a)
      /\ dk.quiet => (t # NoDk => t = v) /\ ApplyQuiet(dk.host, dk.ssh, dk.dns, a)
      /\ \A w \in DkVms : Shelf(dk.host[w]) /\ dk.host[w] \in DkShelves
  BY <1>1, OnVmFacts DEF DkProcs
<1>3. CASE dk' = DkFail("apply")
  BY <1>2, <1>3, DkFails
<1>4. CASE t # NoDk /\ dk' = [DkGo(dk, "apply", "bridge") EXCEPT !.p["apply"].seen = seen, !.p["apply"].miss = miss]
  <2>1. t \in DkVms
    BY <1>2, <1>4, OutputVm
  <2>2. seen \in DkShelves
    BY <1>2, <2>1 DEF DkShelves
  <2>3. miss \in SUBSET DkNames
    <3>1. \A o \in seen : o.name \in DkNames
      BY <2>2 DEF DkShelves, DkConts
    <3> HIDE DEF seen
    <3> QED BY <3>1 DEF containers_missing_dns_bridge
  <2>4. dk.quiet => SeenAsIs(dk.host[v], a.cfg, v, seen)
    BY <1>2, <1>4, RunningNames
  <2> HIDE DEF seen, miss
  <2>5. dk' = [dk EXCEPT !.p["apply"] = r]
    <3>1. dk.p \in DkTables
      BY <1>2, DkTyped
    <3> QED BY <1>2, <1>4, <3>1 DEF DkGo, DkStates, DkTables
  <2>6. r \in DkRuns
    BY <1>2, <2>2, <2>3 DEF DkRuns, DkPcs, DkOnVmPcs
  <2>7. r.pc = "bridge" /\ r.seen = seen /\ SameJob(a, r)
    BY <1>2 DEF DkRuns, SameJob
  <2> HIDE DEF r, a, v
  <2>8. Moved(dk, dk', "apply", r) /\ dk'.ssh = dk.ssh /\ dk'.dns = dk.dns
    BY <1>2, <2>5, <2>6, DkMove
  <2>9. /\ ~InSession(r) /\ r.pc \notin DkLinkPcs /\ r.pc \in DkOnVmPcs /\ OnVm(a) /\ InLoop(a) /\ a.pc # "vm"
    BY <1>1, <2>7 DEF OnVm, InLoop, InSession, DkSessPcs, DkLinkPcs, DkOnVmPcs
  <2>10. ApplyForm(r)
    BY <1>2, <2>7, <2>9 DEF ApplyForm, SameJob
  <2>11. dk.quiet => ApplyQuiet(dk.host, dk'.ssh, dk'.dns, r)
    BY <1>1, <1>2, <2>4, <2>7, <2>8, <2>9 DEF ApplyQuiet, SameJob, v
  <2> QED BY <2>8, <2>10, <2>11, ApplyMoves
<1> QED BY <1>3, <1>4 DEF dns_inspect

\* A container that is connected to the bridge is the same to DNS and to the
\* configuration.
Alike(o, x) == x.name = o.name /\ x.running = o.running /\ x.owner = o.owner /\ x.vm = o.vm /\ x.args = o.args

LEMMA AlikeShelves ==
  ASSUME NEW h, NEW g, NEW c, NEW v, \A o \in h : \E x \in g : Alike(o, x), \A x \in g : \E o \in h : Alike(x, o)
  PROVE  /\ container_dns_from_inspect(g, c, v) = container_dns_from_inspect(h, c, v)
         /\ UpAsDeclared(h, c) => UpAsDeclared(g, c)
         /\ \A seen : SeenAsIs(h, c, v, seen) => SeenAsIs(g, c, v, seen)
<1>1. \A o, x : Alike(o, x) => (owned_running_container(o, c, v) <=> owned_running_container(x, c, v))
  BY DEF Alike, owned_running_container
<1>2. container_dns_from_inspect(g, c, v) \subseteq container_dns_from_inspect(h, c, v)
  BY <1>1 DEF container_dns_from_inspect, Alike
<1>3. container_dns_from_inspect(h, c, v) \subseteq container_dns_from_inspect(g, c, v)
  BY <1>1 DEF container_dns_from_inspect, Alike
<1>4. UpAsDeclared(h, c) => UpAsDeclared(g, c)
  BY DEF UpAsDeclared, NamedIn, Alike
<1>5. ASSUME NEW seen, SeenAsIs(h, c, v, seen) PROVE SeenAsIs(g, c, v, seen)
  <2>1. \A o \in g : o.running => \E x \in seen : x.name = o.name
    BY <1>5 DEF SeenAsIs, Alike
  <2> QED BY <1>2, <1>3, <1>5, <2>1 DEF SeenAsIs
<1> QED BY <1>2, <1>3, <1>4, <1>5

LEMMA DnsConnectStep ==
  ASSUME DkGood(dk), dns_connect PROVE DkGood(dk')
<1> DEFINE a == dk.p["apply"]
           v == Min(a.todo)
           t == docker_output
           h == dk.host[t]
           n == CHOOSE x \in a.miss : TRUE
           o == CHOOSE x \in NamedIn(h, n) : TRUE
           z == BridgeSet(o, TRUE)
           m == a.miss \ {n}
           r == [a EXCEPT !.miss = m]
           g == PutIn(h, z)
           e == EngineSet(dk, t, g)
<1>1. a.pc = "bridge" /\ a.pc \in DkOnVmPcs
  BY DEF dns_connect, DkAt, DkOnVmPcs
<1>2. /\ dk \in DkStates /\ a \in DkRuns /\ a.pc # "idle" /\ "apply" \in DkProcs /\ v \in DkVms /\ v \in a.todo /\ ApplyForm(a)
      /\ a.cfg.vms \subseteq DkVms
      /\ dk.quiet => (t # NoDk => t = v) /\ ApplyQuiet(dk.host, dk.ssh, dk.dns, a) /\ VmsDone(dk.host, a.cfg, a.cfg.vms \ a.todo, a.recs)
                     /\ dk.ssh = v
      /\ \A w \in DkVms : Shelf(dk.host[w]) /\ dk.host[w] \in DkShelves
  BY <1>1, OnVmFacts DEF DkProcs
<1>3. \/ dk' = DkFail("apply")
      \/ t # NoDk /\ NamedIn(h, n) # {} /\ dk' = [Put(dk, t, z) EXCEPT !.p["apply"].miss = @ \ {n}]
  BY NamedIs DEF dns_connect, BridgeSet
<1>4. CASE dk' = DkFail("apply")
  BY <1>2, <1>4, DkFails
<1>5. CASE t # NoDk /\ NamedIn(h, n) # {} /\ dk' = [Put(dk, t, z) EXCEPT !.p["apply"].miss = @ \ {n}]
  <2>1. t \in DkVms
    BY <1>2, <1>5, OutputVm
  <2>3. Shelf(h) /\ h \in DkShelves
    BY <1>2, <2>1
  <2> HIDE DEF n, h
  <2>2. o \in h /\ o.name = n /\ o \in DkConts /\ Labelled(o)
    BY <1>5, <2>3, NamedOne
  <2> HIDE DEF o
  <2>4. z \in DkConts /\ Labelled(z) /\ Alike(o, z) /\ Alike(z, o)
    BY <2>2, ContainerSwitched DEF Alike
  <2> HIDE DEF z
  <2>5. g \in DkShelves /\ Shelf(g)
    BY <2>3, <2>4, ShelfPut
  <2>6. (\A y \in h : \E x \in g : Alike(y, x)) /\ (\A x \in g : \E y \in h : Alike(x, y))
    <3>1. \A y : Alike(y, y)
      BY DEF Alike
    <3>2. \A y \in h : y.name = z.name => y = o
      BY <2>2, <2>3, <2>4 DEF Shelf, Alike
    <3>3. \A y \in h : \E x \in g : Alike(y, x)
      BY <2>4, <3>1, <3>2 DEF PutIn
    <3>4. \A x \in g : \E y \in h : Alike(x, y)
      BY <2>2, <2>4, <3>1 DEF PutIn
    <3> QED BY <3>3, <3>4
  <2>7. dk' = [e EXCEPT !.p["apply"].miss = @ \ {n}]
    BY <1>2, <1>5, <2>1, PutForm DEF h
  <2>8. e \in DkStates /\ e.p = dk.p /\ e.quiet = dk.quiet /\ e.ssh = dk.ssh /\ e.dns = dk.dns /\ e.host[t] = g
        /\ \A w \in DkVms \ {t} : e.host[w] = dk.host[w]
    BY <1>2, <2>1, <2>5, EngineWrite
  <2> HIDE DEF e, g
  <2>9. dk' = [e EXCEPT !.p["apply"] = r]
    <3>1. dk.p \in DkTables
      BY <1>2, DkTyped
    <3> QED BY <1>2, <2>7, <2>8, <3>1 DEF DkStates, DkTables
  <2>10. m \in SUBSET DkNames
    BY <1>2 DEF DkRuns
  <2> HIDE DEF m
  <2>11. r \in DkRuns
    BY <1>2, <2>10 DEF DkRuns
  <2>12. r.pc = a.pc /\ r.seen = a.seen /\ SameJob(a, r)
    BY <1>2 DEF DkRuns, SameJob
  <2> HIDE DEF r, a, v, t
  <2>13. Moved(e, dk', "apply", r) /\ dk'.ssh = e.ssh /\ dk'.dns = e.dns
    BY <1>2, <2>8, <2>9, <2>11, DkMove
  <2>14. Acted(dk, dk', t, g, r)
    BY <2>8, <2>13 DEF Moved, Acted, DkProcs
  <2>15. ~InSession(r) /\ r.pc \notin DkLinkPcs /\ r.pc \in DkOnVmPcs /\ OnVm(a) /\ InLoop(a) /\ a.pc # "vm"
    BY <1>1, <2>12 DEF OnVm, InLoop, InSession, DkSessPcs, DkLinkPcs, DkOnVmPcs
  <2>16. ApplyForm(r)
    BY <1>1, <1>2, <2>12, <2>15 DEF ApplyForm, SameJob
  <2>17. ASSUME dk.quiet PROVE ApplyQuiet(dk'.host, dk.ssh, dk.dns, r)
    <3>1. t = v /\ dk'.host[v] = g /\ h = dk.host[v] /\ \A w \in DkVms \ {v} : dk'.host[w] = dk.host[w]
      BY <1>2, <1>5, <2>14, <2>17 DEF Acted, h
    <3>2. \A w \in a.cfg.vms \ a.todo : dk'.host[w] = dk.host[w]
      BY <1>2, <3>1
    <3>3. VmsDone(dk'.host, a.cfg, a.cfg.vms \ a.todo, a.recs)
      BY <1>2, <2>17, <3>2, DoneSame
    <3>4. (a.cfg.name # NoDk => UpAsDeclared(h, a.cfg)) /\ SeenAsIs(h, a.cfg, v, a.seen)
      BY <1>1, <1>2, <2>17, <3>1 DEF ApplyQuiet, v
    <3>5. (a.cfg.name # NoDk => UpAsDeclared(g, a.cfg)) /\ SeenAsIs(g, a.cfg, v, a.seen)
      BY <2>6, <3>4, AlikeShelves
    <3> QED BY <1>1, <1>2, <2>12, <2>15, <2>17, <3>1, <3>3, <3>5 DEF ApplyQuiet, SameJob, v
  <2> QED BY <2>1, <2>5, <2>14, <2>16, <2>17, ApplyActs
<1> QED BY <1>3, <1>4, <1>5

\* A VM whose containers run and whose names are taken down is done.
LEMMA DoneMore ==
  ASSUME NEW host, NEW c, NEW V, NEW recs, NEW v, VmsDone(host, c, V, recs), ~SkipsVms(c), c.name # NoDk => UpAsDeclared(host[v], c)
  PROVE  VmsDone(host, c, V \cup {v}, recs \cup container_dns_from_inspect(host[v], c, v))
<1>1. c.name # NoDk => \A w \in V \cup {v} : UpAsDeclared(host[w], c)
  BY DEF VmsDone
<1>2. Published(host, c, V \cup {v}) = Published(host, c, V) \cup container_dns_from_inspect(host[v], c, v)
  BY DEF Published
<1> QED BY <1>1, <1>2 DEF VmsDone

LEMMA CollectStep ==
  ASSUME DkGood(dk), collect_vm_container_dns PROVE DkGood(dk')
<1> DEFINE a == dk.p["apply"]
           c == a.cfg
           v == Min(a.todo)
           t == docker_output
           again == containers_missing_dns_bridge(a.seen, c, v) # {}
           gone == again /\ (t = NoDk \/ ~({o.name : o \in a.seen} \subseteq {o.name : o \in dk.host[t]}))
           seen == IF again THEN {o \in dk.host[t] : o.name \in {x.name : x \in a.seen}} ELSE a.seen
           new == container_dns_from_inspect(seen, c, v)
           m == a.todo \ {v}
           recs == a.recs \cup new
           r == [a EXCEPT !.pc = "vms", !.todo = m, !.seen = {}, !.recs = recs]
<1>1. a.pc = "bridge" /\ a.pc \in DkOnVmPcs
  BY DEF collect_vm_container_dns, DkAt, DkOnVmPcs
<1>2. /\ dk \in DkStates /\ a \in DkRuns /\ a.pc # "idle" /\ "apply" \in DkProcs /\ v \in DkVms /\ v \in a.todo /\ ApplyForm(a)
      /\ c \in DkConfigs /\ a.todo \subseteq c.vms /\ ~SkipsVms(c)
      /\ dk.quiet => (t # NoDk => t = v) /\ ApplyQuiet(dk.host, dk.ssh, dk.dns, a) /\ VmsDone(dk.host, c, c.vms \ a.todo, a.recs)
      /\ \A w \in DkVms : Shelf(dk.host[w]) /\ dk.host[w] \in DkShelves
  BY <1>1, OnVmFacts DEF DkProcs
<1>3. \/ dk' = DkFail("apply")
      \/ ~gone /\ dk' = [DkGo(dk, "apply", "vms") EXCEPT !.p["apply"].todo = @ \ {v}, !.p["apply"].seen = {},
                           !.p["apply"].recs = @ \cup new]
  BY DEF collect_vm_container_dns
<1>4. CASE dk' = DkFail("apply")
  BY <1>2, <1>4, DkFails
<1>5. CASE ~gone /\ dk' = [DkGo(dk, "apply", "vms") EXCEPT !.p["apply"].todo = @ \ {v}, !.p["apply"].seen = {},
                             !.p["apply"].recs = @ \cup new]
  <2>1. again => t # NoDk /\ t \in DkVms
    BY <1>2, <1>5, OutputVm
  <2>2. a.seen \in DkShelves /\ a.todo \in SUBSET DkVms /\ a.recs \in SUBSET DkRecs
    BY <1>2 DEF DkRuns
  <2>3. seen \in DkShelves
    <3>1. CASE again
      BY <1>2, <2>1, <3>1 DEF DkShelves
    <3>2. CASE ~again
      BY <2>2, <3>2
    <3> QED BY <3>1, <3>2
  <2>4. dk.quiet => new = container_dns_from_inspect(dk.host[v], c, v)
    <3> SUFFICES ASSUME dk.quiet PROVE new = container_dns_from_inspect(dk.host[v], c, v)
      OBVIOUS
    <3>1. SeenAsIs(dk.host[v], c, v, a.seen)
      BY <1>1, <1>2 DEF ApplyQuiet
    <3>2. CASE ~again
      BY <3>1, <3>2 DEF SeenAsIs
    <3>3. CASE again
      <4>1. seen = {o \in dk.host[v] : o.name \in {x.name : x \in a.seen}}
        BY <1>2, <2>1, <3>3
      <4>2. {x \in seen : owned_running_container(x, c, v)} = {x \in dk.host[v] : owned_running_container(x, c, v)}
        BY <3>1, <4>1 DEF SeenAsIs, owned_running_container
      <4> QED BY <4>2 DEF container_dns_from_inspect
    <3> QED BY <3>2, <3>3
  <2> HIDE DEF seen
  <2>5. new \in SUBSET DkRecs
    BY <1>2, <2>3, NamesTyped
  <2> HIDE DEF new
  <2>6. dk' = [dk EXCEPT !.p["apply"] = r]
    <3>1. dk.p \in DkTables
      BY <1>2, DkTyped
    <3> DEFINE b == [a EXCEPT !.pc = "vms"]
               s == [dk EXCEPT !.p["apply"] = b]
    <3>2. b.todo = a.todo /\ b.recs = a.recs
      BY <1>2 DEF DkRuns
    <3>3. s.p["apply"] = b /\ s = DkGo(dk, "apply", "vms")
      BY <1>2, <3>1 DEF DkGo, DkStates, DkTables
    <3>4. dk' = [s EXCEPT !.p["apply"].todo = m, !.p["apply"].seen = {}, !.p["apply"].recs = recs]
      <4> HIDE DEF b, s
      <4> QED BY <1>5, <3>2, <3>3
    <3> DEFINE b1 == [b EXCEPT !.todo = m]
               b2 == [b1 EXCEPT !.seen = {}]
               s1 == [dk EXCEPT !.p["apply"] = b1]
               s2 == [dk EXCEPT !.p["apply"] = b2]
    <3>5. s = [dk EXCEPT !.p["apply"] = b] /\ b1 = [b EXCEPT !.todo = m] /\ b2 = [b1 EXCEPT !.seen = {}]
      OBVIOUS
    <3>6. r = [b2 EXCEPT !.recs = recs]
      <4> HIDE DEF m, recs
      <4> QED BY <1>2 DEF DkRuns
    <3> HIDE DEF m, recs, r, b, b1, b2, s
    <3>7. [s EXCEPT !.p["apply"].todo = m] = s1
      BY <1>2, <3>1, <3>3, <3>5 DEF DkStates, DkTables
    <3>8. s1.p["apply"] = b1
      BY <1>2, <3>1 DEF DkStates, DkTables
    <3>9. [s1 EXCEPT !.p["apply"].seen = {}] = s2
      BY <1>2, <3>1, <3>5, <3>8 DEF DkStates, DkTables
    <3>10. s2.p["apply"] = b2
      BY <1>2, <3>1 DEF DkStates, DkTables
    <3>11. [s2 EXCEPT !.p["apply"].recs = recs] = [dk EXCEPT !.p["apply"] = r]
      BY <1>2, <3>1, <3>6, <3>10 DEF DkStates, DkTables
    <3> HIDE DEF s1, s2
    <3>12. dk' = [[[s EXCEPT !.p["apply"].todo = m] EXCEPT !.p["apply"].seen = {}] EXCEPT !.p["apply"].recs = recs]
      BY <3>4, Zenon
    <3> QED BY <3>7, <3>9, <3>11, <3>12, Zenon
  <2>7. m \in SUBSET DkVms /\ m \subseteq c.vms /\ recs \in SUBSET DkRecs /\ {} \in DkShelves /\ "vms" \in DkPcs
        /\ c.vms \ m = (c.vms \ a.todo) \cup {v}
    BY <1>2, <2>2, <2>5 DEF DkShelves, DkPcs
  <2>8. dk.quiet => VmsDone(dk.host, c, c.vms \ m, recs)
    <3>1. dk.quiet => (c.name # NoDk => UpAsDeclared(dk.host[v], c))
      BY <1>1, <1>2 DEF ApplyQuiet
    <3>2. dk.quiet => VmsDone(dk.host, c, (c.vms \ a.todo) \cup {v}, a.recs \cup container_dns_from_inspect(dk.host[v], c, v))
      BY <1>2, <3>1, DoneMore
    <3> QED BY <2>4, <2>7, <3>2
  <2> HIDE DEF m, recs
  <2>9. r \in DkRuns
    BY <1>2, <2>7 DEF DkRuns
  <2>10. r.pc = "vms" /\ r.cfg = c /\ r.todo = m /\ r.recs = recs
    BY <1>2 DEF DkRuns
  <2> HIDE DEF r, a
  <2>11. Moved(dk, dk', "apply", r)
    BY <1>2, <2>6, <2>9, DkMove
  <2>12. ~OnVm(r) /\ ~InSession(r) /\ r.pc \notin DkLinkPcs /\ r.pc \notin DkOnVmPcs
    BY <2>10 DEF OnVm, InSession, DkSessPcs, DkLinkPcs, DkOnVmPcs
  <2>13. ApplyForm(r)
    BY <1>2, <2>7, <2>10, <2>12 DEF ApplyForm
  <2>14. dk.quiet => ApplyQuiet(dk.host, dk'.ssh, dk'.dns, r)
    BY <2>8, <2>10, <2>12 DEF ApplyQuiet
  <2> QED BY <2>11, <2>13, <2>14, ApplyMoves
<1> QED BY <1>3, <1>4, <1>5

LEMMA DkStep ==
  ASSUME DkGood(dk), DkNext PROVE DkGood(dk')
<1>1. CASE \E q \in DkProcs : management_address(q) \/ ensure_ssh_keypair(q) \/ write_ssh_config(q) \/ ensure_context(q)
  BY <1>1, ManagementAddressStep, KeypairStep, SshConfigStep, ContextStep
<1>2. CASE ensure_docker_context \/ ensure_containers \/ purge_docker_context \/ ensure_vm_containers
  BY <1>2, DockerContextStep, ContainersStep, PurgeContextStep, VmContainersStep
<1>3. CASE ensure_compose_file \/ inspect_container \/ ensure_one_container \/ create_container
  BY <1>3, ComposeStep, InspectStep, OneContainerStep, DockerRunStep
<1>4. CASE dns_inspect \/ dns_connect \/ collect_vm_container_dns
  BY <1>4, DnsInspectStep, DnsConnectStep, CollectStep
<1>5. CASE docker_command \/ run_structured_op \/ doctor_check \/ dk_edit \/ dk_power \/ dk_killed
  BY <1>5, CommandStep, RunOpStep, DoctorStep, EditStep, PowerStep, KilledStep
<1> QED BY <1>1, <1>2, <1>3, <1>4, <1>5 DEF DkNext

LEMMA DkGoodMeans == DkGood(dk) => ContainersAsDeclared
<1> SUFFICES ASSUME DkGood(dk), dk.p["apply"].exit = "ok", dk.p["apply"].pc = "idle", dk.quiet PROVE ContainersAsDeclared
  BY DEF ContainersAsDeclared
<1> DEFINE c == dk.p["apply"].cfg
<1>1. VmsDone(dk.host, c, c.vms, dk.dns)
  BY DEF DkGood, ApplyQuiet
<1> HIDE DEF c
<1>2. c.name # NoDk => \A v \in c.vms : \E o \in Named(v, c.name) :
        o.running /\ o.args = [rev |-> c.rev, vols |-> with_mounts(c, c.name)]
  BY <1>1, NamedIs DEF VmsDone, UpAsDeclared, Wanted
<1>3. dk.dns = UNION {container_dns_from_inspect(dk.host[v], c, v) : v \in IF c.name = NoDk /\ ~c.compose THEN {} ELSE c.vms}
  BY <1>1 DEF VmsDone, Published, SkipsVms
<1> QED BY <1>2, <1>3 DEF ContainersAsDeclared, c

\* For any VMs and configurations: when apply's container step succeeds and
\* nobody else was about, every declared container runs on its own VM as
\* declared, and DNS names exactly the stack's running containers, whatever
\* earlier runs, killed anywhere, left on the engines and in the shared SSH
\* files (docker.rs, ensure_containers).
THEOREM ContainersRunAsDeclared == DkSpec => []ContainersAsDeclared
<1>1. DkInit => DkGood(dk)
  BY DkInitGood
<1>2. DkGood(dk) /\ [DkNext]_dk => DkGood(dk')
  <2> SUFFICES ASSUME DkGood(dk), [DkNext]_dk PROVE DkGood(dk')
    OBVIOUS
  <2>1. CASE DkNext
    BY <2>1, DkStep
  <2>2. CASE UNCHANGED dk
    BY <2>2
  <2> QED BY <2>1, <2>2
<1>3. DkGood(dk) => ContainersAsDeclared
  BY DkGoodMeans
<1> DEFINE Inv == DkGood(dk)
<1>4. DkInit => Inv
  BY <1>1
<1>5. Inv /\ [DkNext]_dk => Inv'
  BY <1>2
<1>6. Inv => ContainersAsDeclared
  BY <1>3
<1> HIDE DEF Inv
<1> QED BY <1>4, <1>5, <1>6, PTL DEF DkSpec
-----------------------------------------------------------------------------
(* The resolver files of the host.                                         *)

\* A sequence of a finite set names each of its members.
LEMMA ZonesInOrder == ASSUME NEW S, IsFiniteSet(S) PROVE /\ SetToSeq(S) \in Seq(S) /\ \A x \in S : \E i \in 1 .. Len(SetToSeq(S)) : SetToSeq(S)[i] = x
<1> DEFINE n == Cardinality(S)
<1>1. n \in Nat /\ ExistsBijection(1 .. n, S) BY FS_CardinalityType
<1>2. PICK f \in Bijection(1 .. n, S) : TRUE BY <1>1 DEF ExistsBijection
<1>3. f \in [1 .. n -> S] /\ IsInjective(f) BY <1>2 DEF Bijection, Injection, IsInjective
<1>4. \E g \in [1 .. n -> S] : IsInjective(g) BY <1>3
<1>5. SetToSeq(S) \in [1 .. n -> S] /\ IsInjective(SetToSeq(S)) BY <1>4, Zenon DEF SetToSeq
<1>6. SetToSeq(S) \in Injection(1 .. n, S) BY <1>5 DEF Injection
<1>7. IsFiniteSet(1 .. n) /\ Cardinality(1 .. n) = n BY <1>1, FS_Interval
<1>8. SetToSeq(S) \in Surjection(1 .. n, S) BY <1>6, <1>7, FS_Injection
<1>9. SetToSeq(S) \in Seq(S) BY <1>5, <1>1
<1>10. Len(SetToSeq(S)) = n BY <1>5, <1>1, <1>9
<1>q. QED BY <1>8, <1>9, <1>10 DEF Surjection

\* A zone has at least one octet.
LEMMA ZoneHasOctet ==
  ASSUME NEW net \in Seq(0 .. 255), Len(net) = 4, NEW k \in 1 .. 3, NEW i \in Nat
  PROVE  SubSeq(net, 1, k - 1) \o <<net[k] + i>> # << >>
<1> DEFINE s == SubSeq(net, 1, k - 1)
<1>0. \A v \in 0 .. 255, n \in Nat : v \in Int /\ v + n \in Int OBVIOUS
<1>1. \A j \in 1 .. 4 : net[j] \in 0 .. 255 BY ElementOfSeq
<1>2. ASSUME NEW j \in 1 .. k - 1 PROVE net[j] \in Int
  <2>1. j \in 1 .. 4 OBVIOUS
  <2>2. net[j] \in 0 .. 255 BY <2>1, <1>1, Zenon
  <2>q. QED BY <2>2, <1>0, Zenon
<1>3. s \in Seq(Int) BY <1>2, SubSeqProperties
<1>4. net[k] + i \in Int
  <2>1. k \in 1 .. 4 OBVIOUS
  <2>2. net[k] \in 0 .. 255 BY <2>1, <1>1, Zenon
  <2>q. QED BY <2>2, <1>0, Zenon
<1>5. <<net[k] + i>> \in Seq(Int) /\ Len(<<net[k] + i>>) = 1 BY <1>4
<1> HIDE DEF s
<1>6. Len(s \o <<net[k] + i>>) = Len(s) + 1 BY <1>3, <1>5, ConcatProperties
<1>7. Len(s) \in Nat BY <1>3
<1>q. QED BY <1>6, <1>7 DEF s

\* A prefix ends at most seven bits before the next octet does.
LEMMA OctetsOfPrefix ==
  ASSUME NEW p \in 8 .. 30, NEW octets, octets = IF (p + 7) \div 8 > 3 THEN 3 ELSE (p + 7) \div 8
  PROVE  octets \in 1 .. 3 /\ (p >= octets * 8 \/ octets * 8 - p \in 1 .. 7)
<1> DEFINE ceil == (p + 7) \div 8
<1>1. ceil \in Int /\ 8 * ceil <= p + 7 /\ p + 7 < 8 * ceil + 8 OBVIOUS
<1>2. octets = IF ceil > 3 THEN 3 ELSE ceil OBVIOUS
<1> HIDE DEF ceil
<1>3. CASE ceil > 3 BY <1>1, <1>2, <1>3
<1>4. CASE ~(ceil > 3) BY <1>1, <1>2, <1>4
<1>q. QED BY <1>3, <1>4

\* A network has finitely many reverse zones, none of them the catch-all.
LEMMA ZonesOfCidr ==
  ASSUME NEW c \in [net : Seq(0 .. 255), prefix : Nat], ValidCidr(c)
  PROVE  IsFiniteSet(reverse_zones_for_cidr(c)) /\ Legacy \notin reverse_zones_for_cidr(c)
<1> DEFINE ceil == (c.prefix + 7) \div 8
           octets == IF ceil > 3 THEN 3 ELSE ceil
           e == octets * 8 - c.prefix
           count == IF c.prefix >= octets * 8 THEN 1 ELSE 2 ^ e
           zone(i) == SubSeq(c.net, 1, octets - 1) \o <<c.net[octets] + i>>
<1>1. c.prefix \in 8 .. 30 /\ Len(c.net) = 4 /\ c.net \in Seq(0 .. 255) BY DEF ValidCidr
<1>2. octets \in 1 .. 3 /\ (c.prefix >= octets * 8 \/ e \in 1 .. 7) BY <1>1, OctetsOfPrefix
<1>4. count \in Nat
  <2>1. 2 ^ 1 \in Nat /\ 2 ^ 2 \in Nat /\ 2 ^ 3 \in Nat /\ 2 ^ 4 \in Nat /\ 2 ^ 5 \in Nat /\ 2 ^ 6 \in Nat /\ 2 ^ 7 \in Nat
    <3>1. 2 ^ 1 \in Nat OBVIOUS
    <3>2. 2 ^ 2 \in Nat OBVIOUS
    <3>3. 2 ^ 3 \in Nat OBVIOUS
    <3>4. 2 ^ 4 \in Nat OBVIOUS
    <3>5. 2 ^ 5 \in Nat OBVIOUS
    <3>6. 2 ^ 6 \in Nat OBVIOUS
    <3>7. 2 ^ 7 \in Nat OBVIOUS
    <3>q. QED BY <3>1, <3>2, <3>3, <3>4, <3>5, <3>6, <3>7
  <2> HIDE DEF octets
  <2>2. CASE c.prefix >= octets * 8 BY <2>2
  <2>3. CASE ~(c.prefix >= octets * 8)
    <3>1. e \in {1, 2, 3, 4, 5, 6, 7} BY <1>2, <2>3
    <3> HIDE DEF e
    <3>2. e = 1 \/ e = 2 \/ e = 3 \/ e = 4 \/ e = 5 \/ e = 6 \/ e = 7 BY <3>1
    <3>3. 2 ^ e \in Nat BY <3>2, <2>1, Zenon
    <3>q. QED BY <3>3, <2>3
  <2>q. QED BY <2>2, <2>3
<1>5. reverse_zones_for_cidr(c) = {zone(i) : i \in 0 .. count - 1} BY DEF reverse_zones_for_cidr
<1> HIDE DEF octets, e, count
<1>9. \A i \in Nat : zone(i) # Legacy BY <1>1, <1>2, ZoneHasOctet DEF Legacy
<1>6. IsFiniteSet(0 .. count - 1) BY <1>4, FS_Interval
<1> HIDE DEF zone
<1> DEFINE D == 0 .. count - 1
           Z == {zone(i) : i \in D}
           f == [i \in D |-> zone(i)]
<1> HIDE DEF D
<1>7. f \in Surjection(D, Z) BY DEF Surjection
<1> HIDE DEF f
<1>8. IsFiniteSet(Z) BY <1>6, <1>7, FS_Surjection, Zenon DEF D
<1>a. \A i \in D : i \in Nat BY <1>4 DEF D
<1>q. QED BY <1>5, <1>8, <1>9, <1>a DEF D

\* No zone is the catch-all.
LEMMA LegacyIsNoZone == Legacy \notin HrZones
<1> SUFFICES ASSUME NEW c \in HrNetworks, ValidCidr(c) PROVE Legacy \notin reverse_zones_for_cidr(c)
    BY DEF HrZones
<1>1. c \in [net : Seq(0 .. 255), prefix : Nat] BY HostResolversAssumption
<1>q. QED BY <1>1, ZonesOfCidr

\* What a command asks for: a project, and zones of its configuration.
LEMMA ScopeNamesProject ==
  ASSUME NEW o \in HrOptions, resolve_scope(o) # NoHr
  PROVE  resolve_scope(o).project \in HrProjects /\ resolve_scope(o).owner \in {"config", "project"}
<1>1. o.project \in HrProjects \cup {NoHr} /\ o.config \in HrProjects \cup {NoHr} BY DEF HrOptions
<1>2. ~(o.project = NoHr /\ o.config = NoHr) BY DEF resolve_scope
<1>3. ~(o.project # NoHr /\ o.config # NoHr /\ o.project # o.config)
  <2> SUFFICES ASSUME o.project # NoHr /\ o.config # NoHr /\ o.project # o.config PROVE FALSE OBVIOUS
  <2>q. QED BY DEF resolve_scope
<1>4. resolve_scope(o).project = IF o.project # NoHr THEN o.project ELSE o.config BY <1>2, <1>3 DEF resolve_scope
<1>5. resolve_scope(o).owner = IF o.config # NoHr THEN "config" ELSE "project" BY <1>2, <1>3 DEF resolve_scope
<1>q. QED BY <1>1, <1>2, <1>4, <1>5

LEMMA ZonesAreFinite ==
  ASSUME NEW o \in HrOptions, NEW asked \in SUBSET HrNetworks, hr.cfg \in [HrProjects -> SUBSET HrNetworks], resolve_reverse_zones(o, asked) # NoHr
  PROVE  resolve_reverse_zones(o, asked) \subseteq HrZones /\ IsFiniteSet(resolve_reverse_zones(o, asked))
<1> DEFINE cidrs == asked \cup (IF o.config = NoHr THEN {} ELSE hr.cfg[o.config])
           zones == [c \in cidrs |-> reverse_zones_for_cidr(c)]
           Z == {reverse_zones_for_cidr(c) : c \in cidrs}
<1>1. IsFiniteSet(cidrs) /\ cidrs \subseteq HrNetworks
  <2>1. o.config = NoHr \/ o.config \in HrProjects BY DEF HrOptions
  <2>2. cidrs \subseteq HrNetworks BY <2>1
  <2>q. QED BY <2>2, HostResolversAssumption, FS_Subset
<1>2. cidrs \subseteq [net : Seq(0 .. 255), prefix : Nat] BY <1>1, HostResolversAssumption
<1>3. resolve_reverse_zones(o, asked) = IF \A c \in cidrs : ValidCidr(c) THEN UNION Z ELSE NoHr BY DEF resolve_reverse_zones
<1> HIDE DEF cidrs
<1>4. (\A c \in cidrs : ValidCidr(c)) /\ resolve_reverse_zones(o, asked) = UNION Z BY <1>3
<1>5. zones \in Surjection(cidrs, Z) BY DEF Surjection
<1> HIDE DEF zones
<1>6. IsFiniteSet(Z) BY <1>1, <1>5, FS_Surjection, Zenon
<1>7. \A T \in Z : IsFiniteSet(T) BY <1>2, <1>4, ZonesOfCidr
<1>8. IsFiniteSet(UNION Z) BY <1>6, <1>7, FS_UNION
<1>q. QED BY <1>1, <1>4, <1>8 DEF HrZones

-----------------------------------------------------------------------------
ByVzctl(f) == f # NoHr /\ f.by = "vzctl"
AllManaged(zone, zones) == \A z \in zones : is_managed_reverse(zone[z])

\* What a command has established before its next step: the zones that are
\* not there yet are the ones to come, a file that need not be written is
\* there, nothing is removed before the last project is gone.
HrRunOk(s, q) ==
  /\ q = [pc |-> q.pc, scope |-> q.scope, port |-> q.port, zones |-> q.zones, todo |-> q.todo, change |-> q.change]
  /\ q.pc # "idle" => q.scope.project \in HrProjects /\ q.scope.owner \in {"config", "project"} /\ q.port \in 1 .. 2 /\ q.zones \subseteq HrZones /\ IsFiniteSet(q.zones)
  /\ q.pc = "zones" =>
       /\ q.todo \in Seq(HrZones)
       /\ \A z \in q.zones : is_managed_reverse(s.zone[z]) \/ \E i \in 1 .. Len(q.todo) : q.todo[i] = z
  /\ q.pc = "forward" => AllManaged(s.zone, q.zones)
  /\ q.pc = "zones" \/ q.pc = "forward" => q.change \/ ByVzctl(s.file[q.scope.project])
  /\ q.pc = "others" => ~ByVzctl(s.file[q.scope.project])
  /\ q.pc = "remove" => \A p \in HrProjects : ~ByVzctl(s.file[p])

HrShaped(s) ==
  /\ s = [file |-> s.file, zone |-> s.zone, run |-> s.run, cmds |-> s.cmds, cfg |-> s.cfg, needs |-> s.needs, mixed |-> s.mixed]
  /\ s.file = [p \in HrProjects |-> s.file[p]]
  /\ s.zone = [z \in HrZones \cup {Legacy} |-> s.zone[z]]
  /\ s.run = [r \in HrRuns |-> s.run[r]]
  /\ s.needs \in [HrProjects -> SUBSET HrZones]
  /\ s.cfg \in [HrProjects -> SUBSET HrNetworks]

\* A file of a project is vzctl's only as the project's resolver, and then its
\* zones are there; without it none is called for.
HrFileOk(s, p) ==
  /\ ByVzctl(s.file[p]) => s.file[p].kind = "project" /\ AllManaged(s.zone, s.needs[p])
  /\ ~ByVzctl(s.file[p]) => s.needs[p] = {}

\* Installs are in flight, or removals, not both.
HrApart(s) == \A x, y \in HrRuns : ~(s.run[x].pc \in Installing /\ s.run[y].pc \in Removing)

HrGood(s) ==
  /\ HrShaped(s)
  /\ \A p \in HrProjects : HrFileOk(s, p)
  /\ \A r \in HrRuns : HrRunOk(s, s.run[r])
  /\ HrApart(s)

\* The invariant: nothing is said once an install and a removal have met.
HrHas(s) ==
  /\ s = [file |-> s.file, zone |-> s.zone, run |-> s.run, cmds |-> s.cmds, cfg |-> s.cfg, needs |-> s.needs, mixed |-> s.mixed]
  /\ s.mixed \in BOOLEAN
HrInv(s) == HrHas(s) /\ (s.mixed = FALSE => HrGood(s))

\* Command r moves to q and takes the state from s to t.
HrMoves(s, t, r, q) ==
  /\ HrShaped(t) /\ t.run = [s.run EXCEPT ![r] = q]
  /\ (\A p \in HrProjects : HrFileOk(t, p)) /\ HrRunOk(t, q)
  /\ \A x \in HrRuns \ {r} : HrRunOk(t, s.run[x])
  /\ q.pc \in Installing => \A x \in HrRuns \ {r} : s.run[x].pc \notin Removing
  /\ q.pc \in Removing => \A x \in HrRuns \ {r} : s.run[x].pc \notin Installing

LEMMA HrMovesKeeps == ASSUME NEW s, HrGood(s), NEW r \in HrRuns, NEW q, NEW t, HrMoves(s, t, r, q) PROVE HrGood(t)
<1> USE DEF HrMoves
<1>0. HrShaped(s) /\ HrApart(s) BY DEF HrGood
<1>1. t.run = [x \in HrRuns |-> t.run[x]] /\ t.run[r] = q /\ \A x \in HrRuns \ {r} : t.run[x] = s.run[x] BY <1>0 DEF HrShaped
<1>2. HrShaped(t) OBVIOUS
<1>3. \A x \in HrRuns : HrRunOk(t, t.run[x])
  <2> SUFFICES ASSUME NEW x \in HrRuns PROVE HrRunOk(t, t.run[x]) OBVIOUS
  <2>1. CASE x = r BY <2>1, <1>1
  <2>2. CASE x # r BY <2>2, <1>1
  <2>q. QED BY <2>1, <2>2
<1>4. HrApart(t)
  <2> SUFFICES ASSUME NEW x \in HrRuns, NEW y \in HrRuns, t.run[x].pc \in Installing, t.run[y].pc \in Removing PROVE FALSE BY DEF HrApart
  <2>1. CASE x = r /\ y = r BY <2>1 DEF Installing, Removing
  <2>2. CASE x = r /\ y # r BY <2>2, <1>1
  <2>3. CASE x # r /\ y = r BY <2>3, <1>1
  <2>4. CASE x # r /\ y # r BY <2>4, <1>0, <1>1 DEF HrApart
  <2>q. QED BY <2>1, <2>2, <2>3, <2>4
<1>q. QED BY <1>2, <1>3, <1>4 DEF HrGood

LEMMA HrStateIs ==
  ASSUME NEW s, HrGood(s), NEW r \in HrRuns, NEW F, NEW Z, NEW N \in [HrProjects -> SUBSET HrZones], NEW q, NEW n, NEW m, NEW t,
         t = [file |-> F, zone |-> Z, run |-> [s.run EXCEPT ![r] = q], cmds |-> n, cfg |-> s.cfg, needs |-> N, mixed |-> m],
         F = [p \in HrProjects |-> F[p]], Z = [z \in HrZones \cup {Legacy} |-> Z[z]],
         \A p \in HrProjects : HrFileOk(t, p), HrRunOk(t, q),
         \A x \in HrRuns \ {r} : HrRunOk(t, s.run[x]),
         q.pc \in Installing => \A x \in HrRuns \ {r} : s.run[x].pc \notin Removing,
         q.pc \in Removing => \A x \in HrRuns \ {r} : s.run[x].pc \notin Installing
  PROVE  HrGood(t)
<1>0. HrShaped(s) BY DEF HrGood
<1>1. HrShaped(t) BY <1>0 DEF HrShaped
<1>2. HrMoves(s, t, r, q) BY <1>1 DEF HrMoves
<1>q. QED BY <1>2, HrMovesKeeps

\* A run that ends leaves what holds for the files and for the other runs.
LEMMA HrIdleIsOk == ASSUME NEW s PROVE HrRunOk(s, HrIdle)
BY DEF HrRunOk, HrIdle

LEMMA HrIdleIsNeither == HrIdle.pc \notin Installing /\ HrIdle.pc \notin Removing
BY DEF HrIdle, Installing, Removing

LEMMA HrSameFiles ==
  ASSUME NEW s, NEW t, NEW q, HrRunOk(s, q), t.file = s.file, t.zone = s.zone
  PROVE  HrRunOk(t, q)
BY DEF HrRunOk

LEMMA HrEndKeeps == ASSUME NEW s, HrGood(s), NEW r \in HrRuns PROVE HrGood(HrEnd(s, r))
<1>0. HrShaped(s) /\ (\A p \in HrProjects : HrFileOk(s, p)) /\ \A x \in HrRuns : HrRunOk(s, s.run[x]) BY DEF HrGood
<1>1. HrEnd(s, r) = [file |-> s.file, zone |-> s.zone, run |-> [s.run EXCEPT ![r] = HrIdle], cmds |-> s.cmds, cfg |-> s.cfg, needs |-> s.needs, mixed |-> s.mixed]
      BY <1>0 DEF HrEnd, HrShaped
<1>2. s.file = [p \in HrProjects |-> s.file[p]] /\ s.zone = [z \in HrZones \cup {Legacy} |-> s.zone[z]] /\ s.needs \in [HrProjects -> SUBSET HrZones]
      BY <1>0 DEF HrShaped
<1> DEFINE t == HrEnd(s, r)
<1>3. t.file = s.file /\ t.zone = s.zone /\ t.needs = s.needs BY <1>1
<1> HIDE DEF t
<1>4. \A p \in HrProjects : HrFileOk(t, p) BY <1>0, <1>3 DEF HrFileOk
<1>5. HrRunOk(t, HrIdle) BY HrIdleIsOk
<1>6. t = [file |-> s.file, zone |-> s.zone, run |-> [s.run EXCEPT ![r] = HrIdle], cmds |-> s.cmds, cfg |-> s.cfg, needs |-> s.needs, mixed |-> s.mixed] BY <1>1 DEF t
<1>8. \A x \in HrRuns : HrRunOk(t, s.run[x]) BY <1>0, <1>3, HrSameFiles
<1>7. HrGood(t) BY <1>2, <1>4, <1>5, <1>6, <1>8, HrIdleIsNeither, HrStateIs
<1>q. QED BY <1>7 DEF t

\* An install that goes on: zones and files only come into being.
LEMMA HrInstallGoesOn ==
  ASSUME HrGood(hr), NEW r \in HrRuns, NEW F, NEW Z, NEW N \in [HrProjects -> SUBSET HrZones], NEW q,
         hr' = [file |-> F, zone |-> Z, run |-> [hr.run EXCEPT ![r] = q], cmds |-> hr.cmds, cfg |-> hr.cfg, needs |-> N, mixed |-> hr.mixed],
         F = [p \in HrProjects |-> F[p]], Z = [z \in HrZones \cup {Legacy} |-> Z[z]],
         \A p \in HrProjects : HrFileOk(hr', p), HrRunOk(hr', q),
         hr.run[r].pc \in Installing, q.pc \notin Removing,
         \A z \in HrZones : is_managed_reverse(hr.zone[z]) => is_managed_reverse(Z[z]),
         \A p \in HrProjects : ByVzctl(hr.file[p]) => ByVzctl(F[p])
  PROVE  HrGood(hr')
<1>0. HrShaped(hr) BY DEF HrGood
<1>1. \A x \in HrRuns : hr.run[x].pc \notin Removing BY DEF HrGood, HrApart
<1>2. \A x \in HrRuns : HrRunOk(hr', hr.run[x])
  <2> SUFFICES ASSUME NEW x \in HrRuns PROVE HrRunOk(hr', hr.run[x]) OBVIOUS
  <2> DEFINE k == hr.run[x]
  <2>1. HrRunOk(hr, k) /\ k.pc # "others" /\ k.pc # "remove" BY <1>1 DEF HrGood, Removing
  <2> HIDE DEF k
  <2>2. hr'.file = F /\ hr'.zone = Z OBVIOUS
  <2>3. k.pc = "zones" => \A z \in k.zones : is_managed_reverse(hr'.zone[z]) \/ \E i \in 1 .. Len(k.todo) : k.todo[i] = z
        BY <2>1, <2>2 DEF HrRunOk
  <2>4. k.pc = "forward" => AllManaged(hr'.zone, k.zones) BY <2>1, <2>2 DEF HrRunOk, AllManaged
  <2>5. k.pc = "zones" \/ k.pc = "forward" => k.change \/ ByVzctl(hr'.file[k.scope.project]) BY <2>1, <2>2 DEF HrRunOk
  <2>6. HrRunOk(hr', k) BY <2>1, <2>3, <2>4, <2>5 DEF HrRunOk
  <2>q. QED BY <2>6 DEF k
<1>3. q.pc \in Installing => \A x \in HrRuns \ {r} : hr.run[x].pc \notin Removing BY <1>1
<1>4. q.pc \in Removing => \A x \in HrRuns \ {r} : hr.run[x].pc \notin Installing OBVIOUS
<1> DEFINE n == hr.cmds  m == hr.mixed  t == hr'
<1>5. t = [file |-> F, zone |-> Z, run |-> [hr.run EXCEPT ![r] = q], cmds |-> n, cfg |-> hr.cfg, needs |-> N, mixed |-> m] OBVIOUS
<1>6. (\A p \in HrProjects : HrFileOk(t, p)) /\ HrRunOk(t, q) OBVIOUS
<1>7. \A x \in HrRuns \ {r} : HrRunOk(t, hr.run[x]) BY <1>2
<1> HIDE DEF n, m, t
<1>9. HrShaped(t) BY <1>0, <1>5 DEF HrShaped
<1>10. HrMoves(hr, t, r, q) BY <1>3, <1>4, <1>5, <1>6, <1>7, <1>9 DEF HrMoves
<1>8. HrGood(t) BY <1>10, HrMovesKeeps
<1>q. QED BY <1>8 DEF t

\* A removal that goes on: files only go.
LEMMA HrRemovalGoesOn ==
  ASSUME HrGood(hr), NEW r \in HrRuns, NEW F, NEW Z, NEW N \in [HrProjects -> SUBSET HrZones], NEW q,
         hr' = [file |-> F, zone |-> Z, run |-> [hr.run EXCEPT ![r] = q], cmds |-> hr.cmds, cfg |-> hr.cfg, needs |-> N, mixed |-> hr.mixed],
         F = [p \in HrProjects |-> F[p]], Z = [z \in HrZones \cup {Legacy} |-> Z[z]],
         \A p \in HrProjects : HrFileOk(hr', p), HrRunOk(hr', q),
         hr.run[r].pc \in Removing, q.pc \notin Installing,
         \A p \in HrProjects : ByVzctl(F[p]) => ByVzctl(hr.file[p])
  PROVE  HrGood(hr')
<1>0. HrShaped(hr) BY DEF HrGood
<1>1. \A x \in HrRuns : hr.run[x].pc \notin Installing BY DEF HrGood, HrApart
<1>2. \A x \in HrRuns : HrRunOk(hr', hr.run[x])
  <2> SUFFICES ASSUME NEW x \in HrRuns PROVE HrRunOk(hr', hr.run[x]) OBVIOUS
  <2> DEFINE k == hr.run[x]
  <2>1. HrRunOk(hr, k) /\ k.pc # "zones" /\ k.pc # "forward" BY <1>1 DEF HrGood, Installing
  <2> HIDE DEF k
  <2>2. hr'.file = F OBVIOUS
  <2>3. k.pc = "others" => ~ByVzctl(hr'.file[k.scope.project]) BY <2>1, <2>2 DEF HrRunOk
  <2>4. k.pc = "remove" => \A p \in HrProjects : ~ByVzctl(hr'.file[p]) BY <2>1, <2>2 DEF HrRunOk
  <2>6. HrRunOk(hr', k) BY <2>1, <2>3, <2>4 DEF HrRunOk
  <2>q. QED BY <2>6 DEF k
<1>3. q.pc \in Installing => \A x \in HrRuns \ {r} : hr.run[x].pc \notin Removing OBVIOUS
<1>4. q.pc \in Removing => \A x \in HrRuns \ {r} : hr.run[x].pc \notin Installing BY <1>1
<1> DEFINE n == hr.cmds  m == hr.mixed  t == hr'
<1>5. t = [file |-> F, zone |-> Z, run |-> [hr.run EXCEPT ![r] = q], cmds |-> n, cfg |-> hr.cfg, needs |-> N, mixed |-> m] OBVIOUS
<1>6. (\A p \in HrProjects : HrFileOk(t, p)) /\ HrRunOk(t, q) OBVIOUS
<1>7. \A x \in HrRuns \ {r} : HrRunOk(t, hr.run[x]) BY <1>2
<1> HIDE DEF n, m, t
<1>9. HrShaped(t) BY <1>0, <1>5 DEF HrShaped
<1>10. HrMoves(hr, t, r, q) BY <1>3, <1>4, <1>5, <1>6, <1>7, <1>9 DEF HrMoves
<1>8. HrGood(t) BY <1>10, HrMovesKeeps
<1>q. QED BY <1>8 DEF t

LEMMA HrEndStep == ASSUME HrGood(hr), NEW r \in HrRuns, hr' = HrEnd(hr, r) PROVE HrGood(hr')
BY HrEndKeeps

LEMMA HrGoShape ==
  ASSUME NEW s, HrShaped(s), NEW r \in HrRuns, NEW pc, NEW g, g = HrGo(s, r, pc)
  PROVE  /\ HrShaped(g) /\ g.run[r] = [s.run[r] EXCEPT !.pc = pc] /\ g.file = s.file /\ g.zone = s.zone /\ g.cmds = s.cmds /\ g.cfg = s.cfg /\ g.needs = s.needs /\ g.mixed = s.mixed
         /\ g.run = [s.run EXCEPT ![r] = [s.run[r] EXCEPT !.pc = pc]]
<1>1. s = [file |-> s.file, zone |-> s.zone, run |-> s.run, cmds |-> s.cmds, cfg |-> s.cfg, needs |-> s.needs, mixed |-> s.mixed] /\ s.run = [x \in HrRuns |-> s.run[x]]
      BY DEF HrShaped
<1> DEFINE m == [s.run[r] EXCEPT !.pc = pc]
<1>2. g = [file |-> s.file, zone |-> s.zone, run |-> [s.run EXCEPT ![r] = m], cmds |-> s.cmds, cfg |-> s.cfg, needs |-> s.needs, mixed |-> s.mixed] BY <1>1 DEF HrGo
<1> HIDE DEF m
<1>3. [s.run EXCEPT ![r] = m][r] = m /\ [s.run EXCEPT ![r] = m] = [x \in HrRuns |-> [s.run EXCEPT ![r] = m][x]] BY <1>1
<1>q. QED BY <1>2, <1>3 DEF HrShaped, m

LEMMA HrToZones ==
  ASSUME NEW m, m = [pc |-> m.pc, scope |-> m.scope, port |-> m.port, zones |-> m.zones, todo |-> m.todo, change |-> m.change], NEW c, NEW todo
  PROVE  [[[m EXCEPT !.pc = "zones"] EXCEPT !.change = c] EXCEPT !.todo = todo] =
         [pc |-> "zones", scope |-> m.scope, port |-> m.port, zones |-> m.zones, todo |-> todo, change |-> c]
<1> DEFINE m1 == [m EXCEPT !.pc = "zones"]
           m2 == [m1 EXCEPT !.change = c]
<1>1. m1 = [pc |-> "zones", scope |-> m.scope, port |-> m.port, zones |-> m.zones, todo |-> m.todo, change |-> m.change] OBVIOUS
<1> HIDE DEF m1
<1>2. m2 = [pc |-> "zones", scope |-> m.scope, port |-> m.port, zones |-> m.zones, todo |-> m.todo, change |-> c] BY <1>1
<1> HIDE DEF m2
<1>3. [m2 EXCEPT !.todo = todo] = [pc |-> "zones", scope |-> m.scope, port |-> m.port, zones |-> m.zones, todo |-> todo, change |-> c] BY <1>2
<1>q. QED BY <1>3 DEF m1, m2

LEMMA DnsCommandStep == ASSUME HrGood(hr), NEW r \in HrRuns, dns_command(r), hr'.mixed = FALSE PROVE HrGood(hr')
<1>0. PICK o \in HrOptions, cidrs \in SUBSET HrNetworks, port0 \in 1 .. 2, verb \in {"install", "uninstall"} :
        LET scope == resolve_scope(o)
            zones == IF verb = "install" THEN resolve_reverse_zones(o, cidrs) ELSE {}
        IN  /\ scope # NoHr /\ zones # NoHr
            /\ hr' = [hr EXCEPT !.cmds = @ + 1, !.mixed = IF HrMeets(verb) THEN TRUE ELSE @,
                        !.run[r] = [HrIdle EXCEPT !.pc = verb, !.scope = scope, !.port = IF verb = "install" THEN port0 ELSE @, !.zones = zones]]
      BY DEF dns_command
<1> DEFINE port == IF verb = "install" THEN port0 ELSE HrIdle.port
           met == IF HrMeets(verb) THEN TRUE ELSE hr.mixed
<1>b. port \in 1 .. 2 BY DEF HrIdle
<1> DEFINE scope == resolve_scope(o)
           zones == IF verb = "install" THEN resolve_reverse_zones(o, cidrs) ELSE {}
           q == [pc |-> verb, scope |-> scope, port |-> port, zones |-> zones, todo |-> HrIdle.todo, change |-> HrIdle.change]
<1>1. /\ scope # NoHr /\ zones # NoHr
      /\ hr' = [hr EXCEPT !.cmds = @ + 1, !.mixed = met,
                  !.run[r] = [HrIdle EXCEPT !.pc = verb, !.scope = scope, !.port = port, !.zones = zones]]
  BY <1>0
<1> HIDE DEF port, met
<1>2. scope.project \in HrProjects /\ scope.owner \in {"config", "project"} BY <1>1, ScopeNamesProject
<1>3. zones \subseteq HrZones /\ IsFiniteSet(zones)
  <2>1. CASE verb = "install"
    <3>1. zones = resolve_reverse_zones(o, cidrs) BY <2>1
    <3>2. hr.cfg \in [HrProjects -> SUBSET HrNetworks] BY DEF HrGood, HrShaped
    <3>q. QED BY <1>1, <3>1, <3>2, ZonesAreFinite
  <2>2. CASE verb # "install" BY <2>2, FS_EmptySet
  <2>q. QED BY <2>1, <2>2
<1>4. [HrIdle EXCEPT !.pc = verb, !.scope = scope, !.port = port, !.zones = zones] = q
  <2> HIDE DEF scope, zones
  <2> DEFINE t == HrIdle.todo
             n == HrIdle.change
             m1 == [HrIdle EXCEPT !.pc = verb]
             m2 == [m1 EXCEPT !.scope = scope]
             m3 == [m2 EXCEPT !.port = port]
             m4 == [m3 EXCEPT !.zones = zones]
  <2> HIDE DEF q
  <2>0. HrIdle = [pc |-> HrIdle.pc, scope |-> HrIdle.scope, port |-> HrIdle.port, zones |-> HrIdle.zones, todo |-> t, change |-> n] BY DEF HrIdle
  <2>1. m1 = [pc |-> verb, scope |-> HrIdle.scope, port |-> HrIdle.port, zones |-> HrIdle.zones, todo |-> t, change |-> n] BY <2>0
  <2> HIDE DEF m1, t, n
  <2>2. m2 = [pc |-> verb, scope |-> scope, port |-> HrIdle.port, zones |-> HrIdle.zones, todo |-> t, change |-> n] BY <2>1
  <2> HIDE DEF m2
  <2>3. m3 = [pc |-> verb, scope |-> scope, port |-> port, zones |-> HrIdle.zones, todo |-> t, change |-> n] BY <2>2
  <2> HIDE DEF m3
  <2>4. m4 = [pc |-> verb, scope |-> scope, port |-> port, zones |-> zones, todo |-> t, change |-> n] BY <2>3
  <2>5. [HrIdle EXCEPT !.pc = verb, !.scope = scope, !.port = port, !.zones = zones] = m4 BY DEF m1, m2, m3, m4
  <2>q. QED BY <2>4, <2>5 DEF t, n, q
<1>5. hr' = [hr EXCEPT !.cmds = @ + 1, !.mixed = met, !.run[r] = q] BY <1>1, <1>4
<1> HIDE DEF scope, zones
<1>6. HrShaped(hr) BY DEF HrGood
<1>7. hr' = [file |-> hr.file, zone |-> hr.zone, run |-> [hr.run EXCEPT ![r] = q], cmds |-> hr.cmds + 1, cfg |-> hr.cfg, needs |-> hr.needs, mixed |-> met]
      BY <1>5, <1>6 DEF HrShaped
<1>8. HrRunOk(hr', q) BY <1>2, <1>3, <1>b DEF HrRunOk
<1>c. q.pc = verb OBVIOUS
<1> HIDE DEF q
<1>9. \A p \in HrProjects : HrFileOk(hr', p) BY <1>7 DEF HrGood, HrFileOk
<1>d. \A x \in HrRuns : HrRunOk(hr', hr.run[x]) BY <1>7, HrSameFiles DEF HrGood
<1>e. ~HrMeets(verb)
  <2>1. met = FALSE BY <1>7
  <2>q. QED BY <2>1 DEF met
<1>f. (q.pc \in Installing => \A x \in HrRuns : hr.run[x].pc \notin Removing) /\ (q.pc \in Removing => \A x \in HrRuns : hr.run[x].pc \notin Installing)
  <2>1. CASE verb = "install" BY <2>1, <1>c, <1>e DEF HrMeets, Removing
  <2>2. CASE verb = "uninstall" BY <2>2, <1>c, <1>e DEF HrMeets, Installing
  <2>q. QED BY <2>1, <2>2
<1> HIDE DEF met
<1>g. /\ hr.file = [p \in HrProjects |-> hr.file[p]] /\ hr.zone = [z \in HrZones \cup {Legacy} |-> hr.zone[z]]
      /\ hr.needs \in [HrProjects -> SUBSET HrZones]
      BY <1>6 DEF HrShaped
<1>q. QED BY <1>7, <1>8, <1>9, <1>d, <1>f, <1>g, HrStateIs

LEMMA ContentIsVzctls ==
  ASSUME NEW scope, scope.project \in HrProjects, scope.owner \in {"config", "project"}, NEW port \in 1 .. 2
  PROVE  ByVzctl(resolver_content(scope, port))
<1>1. resolver_content(scope, port).by = "vzctl" BY DEF resolver_content
<1>2. resolver_content(scope, port) \in [by : {"vzctl"}, kind : {"project", "reverse"}, project : HrProjects \cup {NoHr},
                                         owner : {"config", "project", NoHr}, port : 1 .. 2]
      BY DEF resolver_content
<1>q. QED BY <1>1, <1>2, HostResolversAssumption DEF ByVzctl

LEMMA InstallStep == ASSUME HrGood(hr), NEW r \in HrRuns, install(r) PROVE HrGood(hr')
<1> DEFINE me == hr.run[r]
           old == hr.file[me.scope.project]
           new == resolver_content(me.scope, me.port)
<1>1. HrShaped(hr) /\ HrRunOk(hr, me) /\ \A p \in HrProjects : HrFileOk(hr, p) BY DEF HrGood
<1>2. CASE me.pc = "install"
  <2>1. me.zones \subseteq HrZones /\ IsFiniteSet(me.zones) /\ me.scope.project \in HrProjects /\ me.scope.owner \in {"config", "project"} /\ me.port \in 1 .. 2 BY <1>1, <1>2 DEF HrRunOk
  <2> DEFINE todo == SetToSeq(me.zones)
             c == (old # new)
             q == [pc |-> "zones", scope |-> me.scope, port |-> me.port, zones |-> me.zones, todo |-> todo, change |-> c]
  <2>2. hr' = HrEnd(hr, r) \/ hr' = [HrGo(hr, r, "zones") EXCEPT !.run[r].change = c, !.run[r].todo = todo] BY <1>2 DEF install
  <2> HIDE DEF c
  <2>3. todo \in Seq(me.zones) /\ \A z \in me.zones : \E i \in 1 .. Len(todo) : todo[i] = z BY <2>1, ZonesInOrder
  <2> HIDE DEF todo
  <2>4. todo \in Seq(HrZones) BY <2>1, <2>3
  <2>5. CASE hr' = [HrGo(hr, r, "zones") EXCEPT !.run[r].change = c, !.run[r].todo = todo]
    <3>1. hr' = [file |-> hr.file, zone |-> hr.zone, run |-> [hr.run EXCEPT ![r] = q], cmds |-> hr.cmds, cfg |-> hr.cfg, needs |-> hr.needs, mixed |-> hr.mixed]
      <4>1. me = [pc |-> me.pc, scope |-> me.scope, port |-> me.port, zones |-> me.zones, todo |-> me.todo, change |-> me.change] BY <1>1 DEF HrRunOk
      <4> DEFINE g == HrGo(hr, r, "zones")
                 me1 == [me EXCEPT !.pc = "zones"]
      <4>2. HrShaped(g) /\ g.run[r] = me1 /\ g.file = hr.file /\ g.zone = hr.zone /\ g.cmds = hr.cmds /\ g.cfg = hr.cfg /\ g.needs = hr.needs /\ g.mixed = hr.mixed
            /\ g.run = [hr.run EXCEPT ![r] = me1]
            BY <1>1, HrGoShape
      <4>3. [[me1 EXCEPT !.change = c] EXCEPT !.todo = todo] = q
        <5> HIDE DEF me
        <5>q. QED BY <4>1, HrToZones
      <4> HIDE DEF g, me1, q
      <4>4. hr' = [file |-> hr.file, zone |-> hr.zone, run |-> [g.run EXCEPT ![r] = q], cmds |-> hr.cmds, cfg |-> hr.cfg, needs |-> hr.needs, mixed |-> hr.mixed]
        <5>1. hr' = [file |-> g.file, zone |-> g.zone, run |-> [g.run EXCEPT ![r] = [[g.run[r] EXCEPT !.change = c] EXCEPT !.todo = todo]],
                     cmds |-> g.cmds, cfg |-> g.cfg, needs |-> g.needs, mixed |-> g.mixed]
          <6> HIDE DEF me
          <6>1. hr' = [g EXCEPT !.run[r].change = c, !.run[r].todo = todo] BY <2>5 DEF g
          <6>2. g = [file |-> g.file, zone |-> g.zone, run |-> g.run, cmds |-> g.cmds, cfg |-> g.cfg, needs |-> g.needs, mixed |-> g.mixed] /\ g.run = [x \in HrRuns |-> g.run[x]]
                BY <4>2 DEF HrShaped
          <6> DEFINE k == [g.run[r] EXCEPT !.change = c]
                     n == [k EXCEPT !.todo = todo]
                     t == [g EXCEPT !.run[r].change = c]
          <6>3. t = [file |-> g.file, zone |-> g.zone, run |-> [g.run EXCEPT ![r] = k], cmds |-> g.cmds, cfg |-> g.cfg, needs |-> g.needs, mixed |-> g.mixed] BY <6>2
          <6>4. hr' = [t EXCEPT !.run[r].todo = todo] BY <6>1
          <6> HIDE DEF t, k
          <6>5. t.run[r] = k BY <6>2, <6>3
          <6>6. hr' = [file |-> g.file, zone |-> g.zone, run |-> [t.run EXCEPT ![r] = n], cmds |-> g.cmds, cfg |-> g.cfg, needs |-> g.needs, mixed |-> g.mixed]
                BY <6>3, <6>4, <6>5
          <6> HIDE DEF n
          <6>7. [t.run EXCEPT ![r] = n] = [g.run EXCEPT ![r] = n] BY <6>2, <6>3
          <6>q. QED BY <6>6, <6>7 DEF k, n
        <5>q. QED BY <5>1, <4>2, <4>3
      <4>5. [g.run EXCEPT ![r] = q] = [hr.run EXCEPT ![r] = q] BY <4>2, <1>1 DEF HrShaped
      <4>q. QED BY <4>4, <4>5
    <3>4. c \/ ByVzctl(hr'.file[me.scope.project])
      <4>1. hr'.file = hr.file BY <3>1
      <4>2. ~c => old = new BY DEF c
      <4>q. QED BY <2>1, <4>1, <4>2, ContentIsVzctls
    <3>2. HrRunOk(hr', q) BY <2>1, <2>3, <2>4, <3>4 DEF HrRunOk
    <3>5. q.pc \notin Removing /\ me.pc \in Installing BY <1>2 DEF Removing, Installing
    <3> HIDE DEF q
    <3>3. \A p \in HrProjects : HrFileOk(hr', p) BY <3>1, <1>1 DEF HrFileOk
    <3>q. QED BY <1>1, <3>1, <3>2, <3>3, <3>5, HrInstallGoesOn DEF HrShaped
  <2>q. QED BY <2>2, <2>5, HrEndStep
<1>3. CASE me.pc = "forward"
  <2>1. me.zones \subseteq HrZones /\ me.scope.project \in HrProjects /\ me.scope.owner \in {"config", "project"} /\ me.port \in 1 .. 2 /\ AllManaged(hr.zone, me.zones)
        /\ (me.change \/ ByVzctl(hr.file[me.scope.project]))
        BY <1>1, <1>3 DEF HrRunOk
  <2> DEFINE w == me.scope.project
             v == IF me.change THEN new ELSE hr.file[w]
             F == [hr.file EXCEPT ![w] = v]
             N == [hr.needs EXCEPT ![w] = @ \cup me.zones]
  <2>2. hr' = [HrEnd(hr, r) EXCEPT !.needs[w] = @ \cup me.zones, !.file[w] = IF me.change THEN new ELSE @] BY <1>3 DEF install
  <2>3. hr' = [file |-> F, zone |-> hr.zone, run |-> [hr.run EXCEPT ![r] = HrIdle], cmds |-> hr.cmds, cfg |-> hr.cfg, needs |-> N, mixed |-> hr.mixed]
        BY <2>2, <1>1 DEF HrShaped, HrEnd
  <2>4. N \in [HrProjects -> SUBSET HrZones] /\ F = [p \in HrProjects |-> F[p]] BY <1>1, <2>1 DEF HrShaped
  <2>5. new.kind = "project" /\ ByVzctl(new) BY <2>1, ContentIsVzctls DEF resolver_content
  <2>6. ByVzctl(v) /\ v.kind = "project"
    <3>1. CASE me.change BY <3>1, <2>5
    <3>2. CASE ~me.change BY <3>2, <2>1, <1>1 DEF HrFileOk
    <3>q. QED BY <3>1, <3>2
  <2>7. F[w] = v /\ N[w] = hr.needs[w] \cup me.zones /\ \A p \in HrProjects \ {w} : F[p] = hr.file[p] /\ N[p] = hr.needs[p]
        BY <2>1, <1>1 DEF HrShaped
  <2> HIDE DEF F, N, v
  <2>8. AllManaged(hr.zone, hr.needs[w])
    <3>1. CASE ByVzctl(hr.file[w]) BY <3>1, <2>1, <1>1 DEF HrFileOk
    <3>2. CASE ~ByVzctl(hr.file[w])
      <4>1. hr.needs[w] = {} BY <3>2, <2>1, <1>1 DEF HrFileOk
      <4>q. QED BY <4>1 DEF AllManaged
    <3>q. QED BY <3>1, <3>2
  <2>9. HrFileOk(hr', w)
    <3>1. AllManaged(hr.zone, N[w]) BY <2>1, <2>7, <2>8 DEF AllManaged
    <3>q. QED BY <2>3, <2>6, <2>7, <3>1 DEF HrFileOk
  <2>10. \A p \in HrProjects \ {w} : HrFileOk(hr', p) BY <2>3, <2>7, <1>1 DEF HrFileOk
  <2>11. \A p \in HrProjects : HrFileOk(hr', p) BY <2>9, <2>10
  <2>12. HrRunOk(hr', HrIdle) BY HrIdleIsOk
  <2>13. \A p \in HrProjects : ByVzctl(hr.file[p]) => ByVzctl(F[p]) BY <2>6, <2>7
  <2>14. me.pc \in Installing BY <1>3 DEF Installing
  <2>q. QED BY <1>1, <2>3, <2>4, <2>11, <2>12, <2>13, <2>14, HrIdleIsNeither, HrInstallGoesOn DEF HrShaped
<1>q. QED BY <1>2, <1>3 DEF install

LEMMA PortZone == ASSUME NEW port \in 1 .. 2 PROVE is_managed_reverse(reverse_resolver_content(port))
<1>1. reverse_resolver_content(port) \in [by : {"vzctl"}, kind : {"project", "reverse"}, project : HrProjects \cup {NoHr},
                                          owner : {"config", "project", NoHr}, port : 1 .. 2]
      BY DEF reverse_resolver_content
<1>q. QED BY <1>1, HostResolversAssumption DEF is_managed_reverse, reverse_resolver_content

LEMMA InstallZoneStep == ASSUME HrGood(hr), NEW r \in HrRuns, install_zone(r) PROVE HrGood(hr')
<1> DEFINE me == hr.run[r]
           z == Head(me.todo)
           new == reverse_resolver_content(me.port)
           Z == [hr.zone EXCEPT ![z] = new]
           rest == Tail(me.todo)
           q == [pc |-> "zones", scope |-> me.scope, port |-> me.port, zones |-> me.zones, todo |-> rest, change |-> me.change]
<1>1. HrShaped(hr) /\ HrRunOk(hr, me) /\ \A p \in HrProjects : HrFileOk(hr, p) BY DEF HrGood
<1>2. me.pc = "zones" /\ me.todo # <<>> BY DEF install_zone
<1>3. hr' = HrEnd(hr, r) \/ hr' = [hr EXCEPT !.zone[z] = new, !.run[r].todo = Tail(@)] BY DEF install_zone
<1>4. CASE hr' = [hr EXCEPT !.zone[z] = new, !.run[r].todo = Tail(@)]
  <2>1. me = [pc |-> "zones", scope |-> me.scope, port |-> me.port, zones |-> me.zones, todo |-> me.todo, change |-> me.change]
        /\ me.scope.project \in HrProjects /\ me.scope.owner \in {"config", "project"} /\ me.port \in 1 .. 2 /\ me.zones \subseteq HrZones /\ IsFiniteSet(me.zones) /\ me.todo \in Seq(HrZones)
        /\ (\A y \in me.zones : is_managed_reverse(hr.zone[y]) \/ \E i \in 1 .. Len(me.todo) : me.todo[i] = y)
        /\ (me.change \/ ByVzctl(hr.file[me.scope.project]))
        BY <1>1, <1>2 DEF HrRunOk
  <2>2. z \in HrZones /\ rest \in Seq(HrZones) /\ Len(rest) = Len(me.todo) - 1 /\ (\A i \in 1 .. Len(rest) : rest[i] = me.todo[i + 1]) /\ z = me.todo[1]
        BY <2>1, <1>2, HeadTailProperties
  <2>3. is_managed_reverse(new) BY <2>1, PortZone
  <2>4. hr' = [file |-> hr.file, zone |-> Z, run |-> [hr.run EXCEPT ![r] = q], cmds |-> hr.cmds, cfg |-> hr.cfg, needs |-> hr.needs, mixed |-> hr.mixed]
    <3> HIDE DEF rest
    <3>1. [me EXCEPT !.todo = rest] = q BY <2>1
    <3> HIDE DEF q, z, new
    <3>2. hr' = [file |-> hr.file, zone |-> Z, run |-> [hr.run EXCEPT ![r] = [me EXCEPT !.todo = rest]], cmds |-> hr.cmds, cfg |-> hr.cfg, needs |-> hr.needs, mixed |-> hr.mixed]
          BY <1>4, <1>1 DEF HrShaped, rest
    <3>q. QED BY <3>1, <3>2
  <2>5. Z = [y \in HrZones \cup {Legacy} |-> Z[y]] /\ \A y \in HrZones : Z[y] = IF y = z THEN new ELSE hr.zone[y] BY <2>2, <1>1 DEF HrShaped
  <2> HIDE DEF Z, new
  <2>6. \A y \in HrZones : is_managed_reverse(hr.zone[y]) => is_managed_reverse(Z[y]) BY <2>3, <2>5
  <2>7. \A p \in HrProjects : HrFileOk(hr', p)
    <3>1. \A p \in HrProjects : hr.needs[p] \subseteq HrZones BY <1>1 DEF HrShaped
    <3>q. QED BY <2>4, <2>6, <1>1, <3>1 DEF HrFileOk, AllManaged
  <2>8. ASSUME NEW y \in me.zones PROVE is_managed_reverse(Z[y]) \/ \E i \in 1 .. Len(rest) : rest[i] = y
    <3>1. CASE is_managed_reverse(hr.zone[y]) BY <3>1, <2>1, <2>6
    <3>2. CASE y = z BY <3>2, <2>3, <2>5, <2>2
    <3>3. CASE y # z /\ \E i \in 1 .. Len(me.todo) : me.todo[i] = y
      <4>1. PICK i \in 1 .. Len(me.todo) : me.todo[i] = y BY <3>3
      <4>2. i # 1 /\ Len(me.todo) \in Nat BY <4>1, <3>3, <2>2, <2>1, LenProperties
      <4>3. i - 1 \in 1 .. Len(rest) BY <4>2, <2>2
      <4>4. rest[i - 1] = me.todo[i] BY <4>3, <2>2
      <4>q. QED BY <4>1, <4>3, <4>4
    <3>q. QED BY <2>1, <3>1, <3>2, <3>3
  <2>9. HrRunOk(hr', q) BY <2>1, <2>2, <2>4, <2>8 DEF HrRunOk
  <2>10. me.pc \in Installing /\ q.pc \notin Removing BY <1>2 DEF Installing, Removing
  <2> HIDE DEF q
  <2>q. QED BY <1>1, <2>4, <2>5, <2>6, <2>7, <2>9, <2>10, HrInstallGoesOn DEF HrShaped
<1>q. QED BY <1>3, <1>4, HrEndStep

LEMMA InstallLegacyStep == ASSUME HrGood(hr), NEW r \in HrRuns, install_legacy(r) PROVE HrGood(hr')
<1> DEFINE me == hr.run[r]
           v == IF me.zones # {} /\ is_managed_reverse(hr.zone[Legacy]) THEN NoHr ELSE hr.zone[Legacy]
           Z == [hr.zone EXCEPT ![Legacy] = v]
           q == [pc |-> "forward", scope |-> me.scope, port |-> me.port, zones |-> me.zones, todo |-> me.todo, change |-> me.change]
<1>1. HrShaped(hr) /\ HrRunOk(hr, me) /\ \A p \in HrProjects : HrFileOk(hr, p) BY DEF HrGood
<1>2. me.pc = "zones" /\ me.todo = <<>> BY DEF install_legacy
<1>3. hr' = [HrGo(hr, r, "forward") EXCEPT !.zone[Legacy] = IF me.zones # {} /\ is_managed_reverse(@) THEN NoHr ELSE @] BY DEF install_legacy
<1>4. me = [pc |-> me.pc, scope |-> me.scope, port |-> me.port, zones |-> me.zones, todo |-> me.todo, change |-> me.change]
      /\ me.scope.project \in HrProjects /\ me.scope.owner \in {"config", "project"} /\ me.port \in 1 .. 2 /\ me.zones \subseteq HrZones /\ IsFiniteSet(me.zones)
      /\ AllManaged(hr.zone, me.zones) /\ (me.change \/ ByVzctl(hr.file[me.scope.project]))
      BY <1>1, <1>2 DEF HrRunOk, AllManaged
<1>5. [me EXCEPT !.pc = "forward"] = q BY <1>4
<1>6. hr' = [file |-> hr.file, zone |-> Z, run |-> [hr.run EXCEPT ![r] = q], cmds |-> hr.cmds, cfg |-> hr.cfg, needs |-> hr.needs, mixed |-> hr.mixed]
  <2> DEFINE g == HrGo(hr, r, "forward")
  <2> HIDE DEF g, q
  <2>1. HrShaped(g) /\ g.file = hr.file /\ g.zone = hr.zone /\ g.cmds = hr.cmds /\ g.cfg = hr.cfg /\ g.needs = hr.needs /\ g.mixed = hr.mixed /\ g.run = [hr.run EXCEPT ![r] = q]
        BY <1>1, <1>5, HrGoShape DEF g
  <2>2. hr' = [g EXCEPT !.zone[Legacy] = IF me.zones # {} /\ is_managed_reverse(@) THEN NoHr ELSE @] BY <1>3 DEF g
  <2>3. hr' = [file |-> g.file, zone |-> [g.zone EXCEPT ![Legacy] = IF me.zones # {} /\ is_managed_reverse(g.zone[Legacy]) THEN NoHr ELSE g.zone[Legacy]],
               run |-> g.run, cmds |-> g.cmds, cfg |-> g.cfg, needs |-> g.needs, mixed |-> g.mixed]
        BY <2>1, <2>2 DEF HrShaped
  <2>q. QED BY <2>1, <2>3
<1> HIDE DEF v
<1>7. Z = [y \in HrZones \cup {Legacy} |-> Z[y]] /\ \A y \in HrZones : Z[y] = hr.zone[y] BY <1>1, LegacyIsNoZone DEF HrShaped
<1> HIDE DEF Z
<1>8. \A p \in HrProjects : HrFileOk(hr', p)
  <2>1. \A p \in HrProjects : hr.needs[p] \subseteq HrZones BY <1>1 DEF HrShaped
  <2>q. QED BY <1>6, <1>7, <1>1, <2>1 DEF HrFileOk, AllManaged
<1>9. HrRunOk(hr', q)
  <2>1. AllManaged(Z, me.zones) BY <1>4, <1>7 DEF AllManaged
  <2>q. QED BY <1>4, <1>6, <2>1 DEF HrRunOk
<1>10. me.pc \in Installing /\ q.pc \notin Removing BY <1>2 DEF Installing, Removing
<1> HIDE DEF q
<1>11. (\A z \in HrZones : is_managed_reverse(hr.zone[z]) => is_managed_reverse(Z[z])) /\ Z = [y \in HrZones \cup {Legacy} |-> Z[y]] BY <1>7
<1>12. hr.file = [p \in HrProjects |-> hr.file[p]] /\ hr.needs \in [HrProjects -> SUBSET HrZones] BY <1>1 DEF HrShaped
<1> HIDE DEF me
<1>q. QED BY <1>6, <1>8, <1>9, <1>10, <1>11, <1>12, HrInstallGoesOn DEF me

LEMMA UninstallStep == ASSUME HrGood(hr), NEW r \in HrRuns, uninstall(r) PROVE HrGood(hr')
<1> DEFINE me == hr.run[r]
           w == me.scope.project
           F == [hr.file EXCEPT ![w] = NoHr]
           N == [hr.needs EXCEPT ![w] = {}]
           q == [pc |-> "others", scope |-> me.scope, port |-> me.port, zones |-> me.zones, todo |-> me.todo, change |-> me.change]
<1>1. HrShaped(hr) /\ HrRunOk(hr, me) /\ \A p \in HrProjects : HrFileOk(hr, p) BY DEF HrGood
<1>2. me.pc = "uninstall" BY DEF uninstall
<1>3. hr' = HrEnd(hr, r) \/ hr' = [HrGo(hr, r, "others") EXCEPT !.file[w] = NoHr, !.needs[w] = {}] BY DEF uninstall
<1>4. CASE hr' = [HrGo(hr, r, "others") EXCEPT !.file[w] = NoHr, !.needs[w] = {}]
  <2>1. me = [pc |-> me.pc, scope |-> me.scope, port |-> me.port, zones |-> me.zones, todo |-> me.todo, change |-> me.change]
        /\ me.scope.project \in HrProjects /\ me.scope.owner \in {"config", "project"} /\ me.port \in 1 .. 2 /\ me.zones \subseteq HrZones /\ IsFiniteSet(me.zones)
        BY <1>1, <1>2 DEF HrRunOk
  <2>2. [me EXCEPT !.pc = "others"] = q BY <2>1
  <2>3. hr' = [file |-> F, zone |-> hr.zone, run |-> [hr.run EXCEPT ![r] = q], cmds |-> hr.cmds, cfg |-> hr.cfg, needs |-> N, mixed |-> hr.mixed]
    <3> DEFINE g == HrGo(hr, r, "others")
    <3> HIDE DEF g, q, w
    <3>1. HrShaped(g) /\ g.file = hr.file /\ g.zone = hr.zone /\ g.cmds = hr.cmds /\ g.cfg = hr.cfg /\ g.needs = hr.needs /\ g.mixed = hr.mixed /\ g.run = [hr.run EXCEPT ![r] = q]
          BY <1>1, <2>2, HrGoShape DEF g
    <3>2. hr' = [g EXCEPT !.file[w] = NoHr, !.needs[w] = {}] BY <1>4 DEF g
    <3>3. hr' = [file |-> [g.file EXCEPT ![w] = NoHr], zone |-> g.zone, run |-> g.run, cmds |-> g.cmds, cfg |-> g.cfg, needs |-> [g.needs EXCEPT ![w] = {}], mixed |-> g.mixed]
          BY <3>1, <3>2 DEF HrShaped
    <3>q. QED BY <3>1, <3>3
  <2>4. N \in [HrProjects -> SUBSET HrZones] /\ F = [p \in HrProjects |-> F[p]] BY <1>1, <2>1 DEF HrShaped
  <2>5. F[w] = NoHr /\ N[w] = {} /\ \A p \in HrProjects \ {w} : F[p] = hr.file[p] /\ N[p] = hr.needs[p] BY <2>1, <1>1 DEF HrShaped
  <2> HIDE DEF F, N
  <2>6. ASSUME NEW p \in HrProjects PROVE HrFileOk(hr', p)
    <3>1. CASE p = w BY <3>1, <2>3, <2>5 DEF HrFileOk, ByVzctl
    <3>2. CASE p # w BY <3>2, <2>3, <2>5, <1>1 DEF HrFileOk
    <3>q. QED BY <3>1, <3>2
  <2>7. HrRunOk(hr', q) BY <2>1, <2>3, <2>5 DEF HrRunOk, ByVzctl
  <2>8. me.pc \in Removing /\ q.pc \notin Installing BY <1>2 DEF Installing, Removing
  <2>9. \A p \in HrProjects : ByVzctl(F[p]) => ByVzctl(hr.file[p])
    <3> SUFFICES ASSUME NEW p \in HrProjects, ByVzctl(F[p]) PROVE ByVzctl(hr.file[p]) OBVIOUS
    <3>1. p # w BY <2>5 DEF ByVzctl
    <3>q. QED BY <3>1, <2>5
  <2> HIDE DEF q
  <2>q. QED BY <1>1, <2>3, <2>4, <2>6, <2>7, <2>8, <2>9, HrRemovalGoesOn DEF HrShaped
<1>q. QED BY <1>3, <1>4, HrEndStep

LEMMA UninstallZonesStep == ASSUME HrGood(hr), NEW r \in HrRuns, uninstall_zones(r) PROVE HrGood(hr')
<1> DEFINE me == hr.run[r]
<1>1. HrShaped(hr) /\ HrRunOk(hr, me) /\ \A p \in HrProjects : HrFileOk(hr, p) BY DEF HrGood
<1>2. CASE me.pc = "others"
  <2> DEFINE todo == SetToSeq(managed_reverse_resolvers)
             q == [pc |-> "remove", scope |-> me.scope, port |-> me.port, zones |-> me.zones, todo |-> todo, change |-> me.change]
  <2>1. \/ hr' = HrEnd(hr, r)
        \/ ~has_other_managed_resolver(me.scope.project) /\ hr' = [HrGo(hr, r, "remove") EXCEPT !.run[r].todo = todo]
        BY <1>2 DEF uninstall_zones
  <2> HIDE DEF todo
  <2>2. CASE ~has_other_managed_resolver(me.scope.project) /\ hr' = [HrGo(hr, r, "remove") EXCEPT !.run[r].todo = todo]
    <3>1. me = [pc |-> me.pc, scope |-> me.scope, port |-> me.port, zones |-> me.zones, todo |-> me.todo, change |-> me.change]
          /\ me.scope.project \in HrProjects /\ me.scope.owner \in {"config", "project"} /\ me.port \in 1 .. 2 /\ me.zones \subseteq HrZones /\ IsFiniteSet(me.zones)
          /\ ~ByVzctl(hr.file[me.scope.project])
          BY <1>1, <1>2 DEF HrRunOk
    <3> DEFINE me1 == [me EXCEPT !.pc = "remove"]
    <3>7. me1 = [pc |-> "remove", scope |-> me.scope, port |-> me.port, zones |-> me.zones, todo |-> me.todo, change |-> me.change] BY <3>1
    <3>2. [me1 EXCEPT !.todo = todo] = q
      <4> HIDE DEF me1
      <4>q. QED BY <3>7
    <3>3. hr' = [file |-> hr.file, zone |-> hr.zone, run |-> [hr.run EXCEPT ![r] = q], cmds |-> hr.cmds, cfg |-> hr.cfg, needs |-> hr.needs, mixed |-> hr.mixed]
      <4> DEFINE g == HrGo(hr, r, "remove")
      <4>1. HrShaped(g) /\ g.run[r] = me1 /\ g.file = hr.file /\ g.zone = hr.zone /\ g.cmds = hr.cmds /\ g.cfg = hr.cfg /\ g.needs = hr.needs /\ g.mixed = hr.mixed
            /\ g.run = [hr.run EXCEPT ![r] = me1]
            BY <1>1, HrGoShape
      <4> HIDE DEF g, me1, q
      <4>2. hr' = [g EXCEPT !.run[r].todo = todo] BY <2>2 DEF g
      <4>3. hr' = [file |-> g.file, zone |-> g.zone, run |-> [g.run EXCEPT ![r] = q], cmds |-> g.cmds, cfg |-> g.cfg, needs |-> g.needs, mixed |-> g.mixed]
            BY <3>2, <4>1, <4>2 DEF HrShaped
      <4>4. [g.run EXCEPT ![r] = q] = [hr.run EXCEPT ![r] = q] BY <4>1, <1>1 DEF HrShaped
      <4>q. QED BY <4>1, <4>3, <4>4
    <3>4. \A p \in HrProjects : ~ByVzctl(hr.file[p])
      <4>1. ASSUME NEW p \in HrProjects \ {me.scope.project}, ByVzctl(hr.file[p]) PROVE FALSE
        <5>1. hr.file[p].kind = "project" BY <4>1, <1>1 DEF HrFileOk
        <5>q. QED BY <4>1, <5>1, <2>2 DEF has_other_managed_resolver, ByVzctl
      <4>q. QED BY <3>1, <4>1
    <3>5. HrRunOk(hr', q) BY <3>1, <3>3, <3>4 DEF HrRunOk
    <3>8. me.pc \in Removing /\ q.pc \notin Installing BY <1>2 DEF Installing, Removing
    <3> HIDE DEF q
    <3>6. \A p \in HrProjects : HrFileOk(hr', p) BY <3>3, <1>1 DEF HrFileOk
    <3>q. QED BY <1>1, <3>3, <3>5, <3>6, <3>8, HrRemovalGoesOn DEF HrShaped
  <2>q. QED BY <2>1, <2>2, HrEndStep
<1>3. CASE me.pc = "remove"
  <2> DEFINE z == Head(me.todo)
             rest == Tail(me.todo)
             Z == [hr.zone EXCEPT ![z] = NoHr]
             q == [pc |-> "remove", scope |-> me.scope, port |-> me.port, zones |-> me.zones, todo |-> rest, change |-> me.change]
  <2>1. hr' = HrEnd(hr, r) \/ hr' = [hr EXCEPT !.zone[z] = NoHr, !.run[r].todo = Tail(@)] BY <1>3 DEF uninstall_zones
  <2>2. CASE hr' = [hr EXCEPT !.zone[z] = NoHr, !.run[r].todo = Tail(@)]
    <3>1. me = [pc |-> me.pc, scope |-> me.scope, port |-> me.port, zones |-> me.zones, todo |-> me.todo, change |-> me.change]
          /\ me.scope.project \in HrProjects /\ me.scope.owner \in {"config", "project"} /\ me.port \in 1 .. 2 /\ me.zones \subseteq HrZones /\ IsFiniteSet(me.zones)
          /\ (\A p \in HrProjects : ~ByVzctl(hr.file[p])) /\ me.pc = "remove"
          BY <1>1, <1>3 DEF HrRunOk
    <3>2. hr' = [file |-> hr.file, zone |-> Z, run |-> [hr.run EXCEPT ![r] = q], cmds |-> hr.cmds, cfg |-> hr.cfg, needs |-> hr.needs, mixed |-> hr.mixed]
      <4> HIDE DEF rest
      <4>1. [me EXCEPT !.todo = rest] = q BY <3>1
      <4> HIDE DEF q, z
      <4>2. hr' = [file |-> hr.file, zone |-> Z, run |-> [hr.run EXCEPT ![r] = [me EXCEPT !.todo = rest]], cmds |-> hr.cmds, cfg |-> hr.cfg, needs |-> hr.needs, mixed |-> hr.mixed]
            BY <2>2, <1>1 DEF HrShaped, rest
      <4>q. QED BY <4>1, <4>2
    <3> HIDE DEF z, rest
    <3>3. Z = [y \in HrZones \cup {Legacy} |-> Z[y]] BY <1>1 DEF HrShaped
    <3> HIDE DEF Z
    <3>4. \A p \in HrProjects : HrFileOk(hr', p) BY <3>1, <3>2, <1>1 DEF HrFileOk
    <3>5. HrRunOk(hr', q) BY <3>1, <3>2 DEF HrRunOk
    <3>6. me.pc \in Removing /\ q.pc \notin Installing BY <1>3 DEF Installing, Removing
    <3> HIDE DEF q
    <3>q. QED BY <1>1, <3>2, <3>3, <3>4, <3>5, <3>6, HrRemovalGoesOn DEF HrShaped
  <2>q. QED BY <2>1, <2>2, HrEndStep
<1>q. QED BY <1>2, <1>3 DEF uninstall_zones

LEMMA HrEditStep == ASSUME HrGood(hr), HrEdit PROVE HrGood(hr')
<1>1. PICK p \in HrProjects, cidrs \in SUBSET HrNetworks : hr' = [hr EXCEPT !.cmds = @ + 1, !.cfg[p] = cidrs] BY DEF HrEdit
<1>2. HrShaped(hr) BY DEF HrGood
<1> DEFINE C == [hr.cfg EXCEPT ![p] = cidrs]
<1>3. hr' = [file |-> hr.file, zone |-> hr.zone, run |-> hr.run, cmds |-> hr.cmds + 1, cfg |-> C, needs |-> hr.needs, mixed |-> hr.mixed]
      BY <1>1, <1>2 DEF HrShaped
<1>4. C \in [HrProjects -> SUBSET HrNetworks] BY <1>2 DEF HrShaped
<1> HIDE DEF C
<1>5. HrShaped(hr') BY <1>2, <1>3, <1>4 DEF HrShaped
<1>6. \A q \in HrProjects : HrFileOk(hr', q) BY <1>3 DEF HrGood, HrFileOk
<1>7. \A r \in HrRuns : HrRunOk(hr', hr'.run[r]) BY <1>3, HrSameFiles DEF HrGood
<1>8. HrApart(hr') BY <1>3 DEF HrGood, HrApart
<1>q. QED BY <1>5, <1>6, <1>7, <1>8 DEF HrGood

LEMMA HrInitial == HrInit => HrInv(hr)
<1> SUFFICES ASSUME HrInit PROVE HrInv(hr) OBVIOUS
<1>1. \E old, foreign, at : \E cfg \in [HrProjects -> SUBSET HrNetworks] : foreign \in {NoHr} \cup HrForeign /\ hr = HrStart(old, foreign, at, cfg)
  <2>1. PICK old \in {NoHr, reverse_resolver_content(1)}, foreign \in {NoHr} \cup HrForeign,
             at \in {<<"file", p>> : p \in HrProjects} \cup {<<"zone", z>> : z \in HrZones},
             cfg \in [HrProjects -> SUBSET HrNetworks] : hr = HrStart(old, foreign, at, cfg) BY DEF HrInit
  <2>q. QED BY <2>1
<1>0. PICK old, foreign, at : \E cfg \in [HrProjects -> SUBSET HrNetworks] : foreign \in {NoHr} \cup HrForeign /\ hr = HrStart(old, foreign, at, cfg) BY <1>1
<1>a. PICK cfg \in [HrProjects -> SUBSET HrNetworks] : foreign \in {NoHr} \cup HrForeign /\ hr = HrStart(old, foreign, at, cfg) BY <1>0
<1> DEFINE F == [p \in HrProjects |-> IF at = <<"file", p>> THEN foreign ELSE NoHr]
           Z == [z \in HrZones \cup {Legacy} |-> CASE z = Legacy -> old [] at = <<"zone", z>> -> foreign [] OTHER -> NoHr]
           N == [p \in HrProjects |-> {}]
           R == [r \in HrRuns |-> HrIdle]
<1>2. hr = [file |-> F, zone |-> Z, run |-> R, cmds |-> 0, cfg |-> cfg, needs |-> N, mixed |-> FALSE] BY <1>a DEF HrStart
<1>3. Z = [z \in HrZones \cup {Legacy} |-> Z[z]] OBVIOUS
<1> HIDE DEF Z
<1>4. \A p \in HrProjects : ~ByVzctl(F[p]) BY <1>a DEF ByVzctl, HrForeign
<1>5. HrShaped(hr) BY <1>2, <1>3 DEF HrShaped
<1> HIDE DEF F
<1>6. \A p \in HrProjects : HrFileOk(hr, p) BY <1>2, <1>4 DEF HrFileOk
<1>7. \A r \in HrRuns : HrRunOk(hr, hr.run[r]) BY <1>2, HrIdleIsOk
<1>8. HrApart(hr) BY <1>2, HrIdleIsNeither DEF HrApart
<1>9. HrHas(hr) BY <1>2 DEF HrHas
<1>q. QED BY <1>5, <1>6, <1>7, <1>8, <1>9 DEF HrGood, HrInv

\* That an install and a removal have met is never forgotten.
LEMMA HrRemembers == ASSUME HrHas(hr), HrDirNext PROVE HrHas(hr') /\ (hr'.mixed = FALSE => hr.mixed = FALSE)
<1>1. CASE HrEdit BY <1>1 DEF HrEdit, HrHas
<1>2. ASSUME NEW r \in HrRuns, dns_command(r) PROVE HrHas(hr') /\ (hr'.mixed = FALSE => hr.mixed = FALSE)
  <2>1. \E q, verb : hr' = [hr EXCEPT !.cmds = @ + 1, !.mixed = IF HrMeets(verb) THEN TRUE ELSE @, !.run[r] = q] BY <1>2 DEF dns_command
  <2>2. PICK q, verb : hr' = [hr EXCEPT !.cmds = @ + 1, !.mixed = IF HrMeets(verb) THEN TRUE ELSE @, !.run[r] = q] BY <2>1
  <2>q. QED BY <2>2 DEF HrHas
<1>3. ASSUME NEW r \in HrRuns, install(r) PROVE HrHas(hr') /\ hr'.mixed = hr.mixed
  BY <1>3 DEF install, HrHas, HrGo, HrEnd
<1>4. ASSUME NEW r \in HrRuns, install_zone(r) PROVE HrHas(hr') /\ hr'.mixed = hr.mixed
  BY <1>4 DEF install_zone, HrHas, HrEnd
<1>5. ASSUME NEW r \in HrRuns, install_legacy(r) PROVE HrHas(hr') /\ hr'.mixed = hr.mixed
  BY <1>5 DEF install_legacy, HrHas, HrGo
<1>6. ASSUME NEW r \in HrRuns, uninstall(r) PROVE HrHas(hr') /\ hr'.mixed = hr.mixed
  BY <1>6 DEF uninstall, HrHas, HrGo, HrEnd
<1>7. ASSUME NEW r \in HrRuns, uninstall_zones(r) PROVE HrHas(hr') /\ hr'.mixed = hr.mixed
  BY <1>7 DEF uninstall_zones, HrHas, HrGo, HrEnd
<1>8. ASSUME NEW r \in HrRuns, hr_killed(r) PROVE HrHas(hr') /\ hr'.mixed = hr.mixed
  BY <1>8 DEF hr_killed, HrHas, HrEnd
<1>q. QED BY <1>1, <1>2, <1>3, <1>4, <1>5, <1>6, <1>7, <1>8 DEF HrDirNext

LEMMA HrNextKeeps == ASSUME HrInv(hr), [HrNext]_hrVars PROVE HrInv(hr')
<1>1. CASE UNCHANGED hrVars BY <1>1 DEF hrVars
<1>2. CASE HrDirNext
  <2>1. HrHas(hr') /\ (hr'.mixed = FALSE => hr.mixed = FALSE) BY <1>2, HrRemembers DEF HrInv
  <2>2. ASSUME hr'.mixed = FALSE PROVE HrGood(hr')
    <3>1. HrGood(hr) BY <2>1, <2>2 DEF HrInv
    <3>2. ASSUME NEW r \in HrRuns, hr_killed(r) PROVE HrGood(hr') BY <3>1, <3>2, HrEndStep DEF hr_killed
    <3>3. ASSUME NEW r \in HrRuns, dns_command(r) PROVE HrGood(hr') BY <3>1, <3>3, <2>2, DnsCommandStep
    <3>q. QED BY <1>2, <3>1, <3>2, <3>3, HrEditStep, InstallStep, InstallZoneStep, InstallLegacyStep, UninstallStep, UninstallZonesStep
             DEF HrDirNext
  <2>q. QED BY <2>1, <2>2 DEF HrInv
<1>3. CASE BhNext
  <2>1. UNCHANGED hr
        BY <1>3 DEF BhNext, install_bind_helper, launchctl_bootstrap_bind_helper, launchctl_kickstart_bind_helper, uninstall_bind_helper,
                    bh_reboot, bh_update, bh_killed
  <2>q. QED BY <2>1
<1>q. QED BY <1>1, <1>2, <1>3 DEF HrNext

\* While a project's resolver file is published, every reverse zone that an
\* install of it published is there: for any projects and any networks, which
\* the user edits or names with --cidr, any number of commands, whatever is
\* killed, fails on a foreign file or removes another project, until an install
\* and a removal are in flight together (dns.rs, install and uninstall).
THEOREM ZonesArePublished == HrSpec => []ReverseZonesPublished
<1>1. HrInit => HrInv(hr) BY HrInitial
<1>2. HrInv(hr) /\ [HrNext]_hrVars => HrInv(hr)' BY HrNextKeeps
<1>3. HrInv(hr) => ReverseZonesPublished
  <2> SUFFICES ASSUME HrInv(hr), ~hr.mixed, NEW p \in HrProjects, hr.file[p] # NoHr, hr.file[p].by = "vzctl", NEW z \in hr.needs[p]
               PROVE  is_managed_reverse(hr.zone[z])
      BY DEF ReverseZonesPublished
  <2>1. HrGood(hr) BY DEF HrInv, HrHas
  <2>q. QED BY <2>1 DEF HrGood, HrFileOk, ByVzctl, AllManaged
<1>q. QED BY <1>1, <1>2, <1>3, PTL DEF HrSpec

=============================================================================
