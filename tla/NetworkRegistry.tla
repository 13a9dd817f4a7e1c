-------------------------- MODULE NetworkRegistry --------------------------
(***************************************************************************)
(* The control plane's network registry (NetworkRegistry.swift): desired   *)
(* networks and attachments in SQLite, handles in memory, the reservations *)
(* in vz-net (module VzNet).                                               *)
(*                                                                         *)
(* Every operation runs under one lock, but it is several steps: database  *)
(* statements commit one by one and every vz-net call is an RPC that can   *)
(* be refused, or go unanswered and still be executed later.  `op` is the  *)
(* operation that holds the lock and what it does next; the control plane  *)
(* can die between any two steps.  An operation that throws before it has  *)
(* changed anything is not a step.  The callers' check that the VM is      *)
(* stopped (SupervisorServer.vmIsStopped) is made before the lock is taken *)
(* and is a step of its own.                                               *)
(*                                                                         *)
(* A network identity is <<project, name>>, a VM identity is               *)
(* <<project, name>>, an IP is its offset in the network's CIDR.           *)
(***************************************************************************)
EXTENDS VzNet, Naturals, FiniteSets

CONSTANTS
    VMs, NoVM, NoProject,
    DefaultName,   \* the name "default"
    IPs,           \* offsets accepted by containsAttachment
    FirstGuest,    \* the first offset guestAddress hands out (10)
    NoRow, NoDefault, Off,
    Faults,        \* which faults happen, a subset of FaultKinds
    MaxLate        \* bound on unanswered vz-net calls still to be executed

\* The control plane is restarted or crashes, a vz-net call goes unanswered,
\* vz-net restarts, a helper starts while an RPC waits for the lock, the
\* database refuses to write the runtime state of a row.
FaultKinds == {"restart", "crash", "lost", "vznet", "race", "write"}

ASSUME RegistryAssumption ==
    /\ IPs \subseteq Nat /\ FirstGuest \in Nat /\ MaxLate \in Nat
    /\ Faults \subseteq FaultKinds

VARIABLES
    networks,     \* table networks
    attachments,  \* table network_attachments
    default,      \* table network_defaults
    handles,      \* the registry's dictionary of handles
    mode,         \* life cycle of the control plane process
    todo,         \* rebuild(): rows still to be visited
    op,           \* what the holder of the registry lock does next
    late,         \* unanswered vz-net calls that are still to be executed
    checked,      \* RPC threads that have passed the check of the VM's state
    nics,         \* per VM, the NICs its helper runs with, or Off
    known         \* VMs with a live record in SupervisorServer.helpers

vars == <<reserved, networks, attachments, default, handles, mode, todo, op,
          late, checked, nics, known>>
tables == <<networks, attachments, default>>
processes == <<mode, todo, checked, nics, known>>

ProjectOf(id) == id[1]
NameOf(id) == id[2]
GlobalNets == {n \in Nets : ProjectOf(n) = NoProject}
Projects == {ProjectOf(id) : id \in Nets \cup VMs} \cup {NoProject}

\* A row of table networks.  written is history: the last change of the
\* network's runtime reached the row's state.
Row == [cfg: Configs, backend: {"vmnet", "docker"}, state: {"active", "orphaned"},
        written: BOOLEAN]
Attachment == [vm: VMs, net: Nets, ip: IPs, auto: BOOLEAN]
Default == [net: GlobalNets, cidr: Cidrs]
Call == [call: {"acquire"}, net: Nets, cfg: Configs] \cup [call: {"release"}, net: Nets]

ASSUME NoRowAssumption == NoRow \notin Row

Idle == [step |-> "idle"]
Creating == [step: {"reserve", "insert"}, net: Nets, cfg: Configs,
             then: {"create", "setDefault"}, vm: {NoVM}]
            \cup [step: {"reserve", "insert"}, net: Nets, cfg: Configs,
                  then: {"ensure"}, vm: VMs]
Op == {Idle} \cup Creating
      \cup [step: {"undo", "release", "recreateRelease", "recreateReserve"}, net: Nets]
      \cup [step: {"allocate"}, net: Nets, vm: VMs, auto: BOOLEAN]
      \cup [step: {"dropAutomatic"}, net: Nets, vm: VMs]

Exists(n) == networks[n] # NoRow
Unwritten(n) == Exists(n) /\ ~networks[n].written
IsVmnet(n) == Exists(n) /\ networks[n].backend = "vmnet"
LockFree == mode = "serving" /\ op = Idle

-----------------------------------------------------------------------------
(* Names. *)

\* A reference is a short name or a qualified identity; the identity of a
\* network without project is its name.
Refs == {NameOf(n) : n \in Nets} \cup {n \in Nets : ProjectOf(n) # NoProject}
Names(ref, n) == ref = n \/ ref = NameOf(n)

\* resolveNetwork: the candidates; the caller needs exactly one.
Resolve(ref, project, allowGlobal) ==
    LET all == {n \in Nets : Exists(n) /\ Names(ref, n)}
        scoped == {n \in all : ProjectOf(n) = project}
    IN IF project = NoProject THEN all
       ELSE IF scoped # {} \/ ~allowGlobal THEN scoped
       ELSE all \cap GlobalNets

AttachedTo(n) == {a \in attachments : a.net = n}
AttachmentsOf(vm) == {a \in attachments : a.vm = vm}

-----------------------------------------------------------------------------
(* Calls to vz-net.  The client gives up after its receive timeout, or finds *)
(* no server; what it wrote to the socket may still be executed.             *)

Unanswered(call) ==
    /\ "lost" \in Faults
    /\ UNCHANGED reserved
    /\ \/ UNCHANGED late
       \/ Cardinality(late) < MaxLate /\ late' = late \cup {call}

AcquireFails(n, c) ==
    \/ AcquireRefused(n, c) /\ UNCHANGED late
    \/ Unanswered([call |-> "acquire", net |-> n, cfg |-> c])

ReleaseFails(n) ==
    \/ ReleaseRefused(n) /\ UNCHANGED late
    \/ Unanswered([call |-> "release", net |-> n])

LateCall(k) ==
    /\ k \in late
    /\ late' = late \ {k}
    /\ \/ k.call = "acquire" /\ (Acquire(k.net, k.cfg) \/ AcquireRefused(k.net, k.cfg))
       \/ k.call = "release" /\ (Release(k.net) \/ ReleaseRefused(k.net))
    /\ UNCHANGED <<networks, attachments, default, handles, mode, todo, op, checked, nics, known>>

-----------------------------------------------------------------------------
(* create, and the creation of the default network on demand.               *)

\* createLocked's checks: name, identity and CIDR are not in the table.
Creatable(n, c) ==
    /\ ~Exists(n)
    /\ \A o \in Nets : Exists(o) => networks[o].cfg.cidr # c.cidr

StartCreate(n, c, then, vm) ==
    /\ Creatable(n, c)
    /\ op' = [step |-> "reserve", net |-> n, cfg |-> c, then |-> then, vm |-> vm]

Create(n, c) ==
    /\ LockFree
    /\ StartCreate(n, c, "create", NoVM)
    /\ UNCHANGED <<reserved, tables, handles, late, processes>>

CreateDocker(n, c) ==
    /\ LockFree
    /\ Creatable(n, c)
    /\ ~c.nat
    /\ networks' = [networks EXCEPT ![n] = [cfg |-> c, backend |-> "docker",
                                           state |-> "active", written |-> TRUE]]
    /\ UNCHANGED <<reserved, attachments, default, handles, op, late, processes>>

Reserve ==
    /\ op.step = "reserve"
    /\ \/ /\ Acquire(op.net, op.cfg)
          /\ op' = [op EXCEPT !.step = "insert"]
          /\ UNCHANGED late
       \/ /\ AcquireFails(op.net, op.cfg)
          /\ op' = Idle
    /\ UNCHANGED <<tables, handles, processes>>

\* The row and the handle; then the rest of setDefault or ensureVMNetwork.
Insert ==
    /\ op.step = "insert"
    /\ networks' = [networks EXCEPT ![op.net] =
                        [cfg |-> op.cfg, backend |-> "vmnet", state |-> "active",
                         written |-> TRUE]]
    /\ handles' = handles \cup {op.net}
    /\ default' = IF op.then = "setDefault"
                  THEN [net |-> op.net, cidr |-> op.cfg.cidr] ELSE default
    /\ op' = IF op.then = "ensure"
             THEN [step |-> "allocate", net |-> op.net, vm |-> op.vm, auto |-> TRUE]
             ELSE Idle
    /\ UNCHANGED <<reserved, attachments, late, processes>>

InsertFails ==
    /\ op.step = "insert"
    /\ op' = [step |-> "undo", net |-> op.net]
    /\ UNCHANGED <<reserved, tables, handles, late, processes>>

\* Mutant: the reservation is kept when the row cannot be written.
UndoSkipped ==
    /\ op.step = "undo"
    /\ op' = Idle
    /\ UNCHANGED <<reserved, late, tables, handles, processes>>

\* try? release: its failure is ignored.
Undo ==
    /\ op.step = "undo"
    /\ (Release(op.net) /\ UNCHANGED late) \/ ReleaseFails(op.net)
    /\ op' = Idle
    /\ UNCHANGED <<tables, handles, processes>>

\* ensureDefaultNetworkLocked: an existing network must have the CIDR and a
\* handle.
DefaultUsable(d) == Exists(d.net) /\ networks[d.net].cfg.cidr = d.cidr /\ d.net \in handles
DefaultConfig(d) == [cidr |-> d.cidr, nat |-> TRUE]

SetDefault(d) ==
    /\ LockFree
    /\ \/ DefaultUsable(d) /\ default' = d /\ UNCHANGED op
       \/ StartCreate(d.net, DefaultConfig(d), "setDefault", NoVM) /\ UNCHANGED default
    /\ UNCHANGED <<reserved, networks, attachments, handles, late, processes>>

-----------------------------------------------------------------------------
(* Attachments.                                                              *)

\* Mutant: the VM's state is not looked at.
CheckStoppedNever(vm) ==
    /\ mode = "serving"
    /\ checked' = checked \cup {<<vm, "edit">>}
    /\ UNCHANGED <<reserved, tables, handles, mode, todo, op, late, nics, known>>

\* The argument vmIsStopped of net.attach, net.detach and vm.network.ensure.
CheckStopped(vm) ==
    /\ mode = "serving"
    /\ nics[vm] = Off
    /\ checked' = checked \cup {<<vm, "edit">>}
    /\ UNCHANGED <<reserved, tables, handles, mode, todo, op, late, nics, known>>

\* The thread that made the check gets the lock.
Edit(vm) ==
    /\ LockFree
    /\ <<vm, "edit">> \in checked
    /\ checked' = checked \ {<<vm, "edit">>}
    /\ UNCHANGED <<reserved, handles, late, mode, todo, nics, known>>

\* The operation throws, or finds nothing to do.
EditNothing(vm) == Edit(vm) /\ UNCHANGED <<tables, op>>

\* After the new attachment is written, automatic ones elsewhere are deleted.
StaleAutomatic(vm, n) == {a \in AttachmentsOf(vm) : a.auto /\ a.net # n}
ThenDropAutomatic(vm, n) ==
    op' = IF StaleAutomatic(vm, n) = {} THEN Idle
          ELSE [step |-> "dropAutomatic", net |-> n, vm |-> vm]

Attach(vm, ref, project, ip) ==
    /\ Edit(vm)
    /\ LET scope == IF project = NoProject THEN ProjectOf(vm) ELSE project
       IN \E n \in Resolve(ref, scope, FALSE) :
            /\ Resolve(ref, scope, FALSE) = {n}
            /\ IsVmnet(n) => n \in handles
            /\ \A a \in AttachedTo(n) : a.vm # vm => a.ip # ip
            /\ attachments' = {a \in attachments : a.vm # vm \/ a.net # n}
                              \cup {[vm |-> vm, net |-> n, ip |-> ip, auto |-> FALSE]}
            /\ ThenDropAutomatic(vm, n)
    /\ UNCHANGED <<networks, default>>

DropAutomatic ==
    /\ op.step = "dropAutomatic"
    /\ attachments' = attachments \ StaleAutomatic(op.vm, op.net)
    /\ op' = Idle
    /\ UNCHANGED <<reserved, networks, default, handles, late, processes>>

Explicit(vm) == {a \in AttachmentsOf(vm) : ~a.auto}

\* ensureVMNetwork with a network: an automatic attachment to it is promoted.
EnsureRequested(vm, ref) ==
    /\ Edit(vm)
    /\ Explicit(vm) = {}
    /\ LET found == Resolve(ref, ProjectOf(vm), TRUE)
       IN \E n \in found :
            /\ found = {n}
            /\ \/ \E a \in AttachmentsOf(vm) :
                    /\ a.net = n
                    /\ attachments' = (attachments \ {a}) \cup {[a EXCEPT !.auto = FALSE]}
                    /\ UNCHANGED op
               \/ /\ \A a \in AttachmentsOf(vm) : a.net # n
                  /\ op' = [step |-> "allocate", net |-> n, vm |-> vm, auto |-> FALSE]
                  /\ UNCHANGED attachments
    /\ UNCHANGED <<networks, default>>

\* resolveDefaultNetworkRecord: the configured default, or one inferred from
\* the networks without project.
DefaultRecords ==
    LET shared == {n \in GlobalNets : Exists(n)}
        named == {n \in shared : NameOf(n) = DefaultName}
    IN IF default # NoDefault THEN {default}
       ELSE {[net |-> n, cidr |-> networks[n].cfg.cidr] :
                n \in IF Cardinality(shared) = 1 THEN shared ELSE named}

\* ensureVMNetwork without a network.  The inferred default is stored even
\* when the network turns out not to be usable.
EnsureDefault(vm) ==
    /\ Edit(vm)
    /\ Explicit(vm) = {}
    /\ \E d \in DefaultRecords :
         /\ default' = d
         /\ \/ /\ DefaultUsable(d)
               /\ op' = IF \E a \in AttachmentsOf(vm) : a.net = d.net THEN Idle
                        ELSE [step |-> "allocate", net |-> d.net, vm |-> vm, auto |-> TRUE]
            \/ StartCreate(d.net, DefaultConfig(d), "ensure", vm)
            \/ ~DefaultUsable(d) /\ ~Creatable(d.net, DefaultConfig(d)) /\ UNCHANGED op
    /\ UNCHANGED <<networks, attachments>>

FreeGuests(n) == {ip \in IPs : ip >= FirstGuest} \ {a.ip : a \in AttachedTo(n)}

\* The first free guest address; none is an error.
Allocate ==
    /\ op.step = "allocate"
    /\ \/ /\ FreeGuests(op.net) = {}
          /\ op' = Idle
          /\ UNCHANGED attachments
       \/ \E ip \in FreeGuests(op.net) :
            /\ \A other \in FreeGuests(op.net) : ip <= other
            /\ attachments' = attachments \cup
                 {[vm |-> op.vm, net |-> op.net, ip |-> ip, auto |-> op.auto]}
            /\ ThenDropAutomatic(op.vm, op.net)
    /\ UNCHANGED <<reserved, networks, default, handles, late, processes>>

Detach(vm, ref, project) ==
    /\ Edit(vm)
    /\ LET found == {a \in AttachmentsOf(vm) :
                        /\ Names(ref, a.net)
                        /\ project # NoProject => ProjectOf(a.net) = project}
       IN \E a \in found : found = {a} /\ attachments' = attachments \ {a}
    /\ UNCHANGED <<networks, default, op>>

\* vm.purge: SIGKILL for the helper it knows of, then detachAll.
Purge(vm) ==
    /\ mode = "serving"
    /\ nics' = IF vm \in known THEN [nics EXCEPT ![vm] = Off] ELSE nics
    /\ known' = known \ {vm}
    /\ checked' = checked \cup {<<vm, "purge">>}
    /\ UNCHANGED <<reserved, tables, handles, mode, todo, op, late>>

DetachAll(vm) ==
    /\ LockFree
    /\ <<vm, "purge">> \in checked
    /\ checked' = checked \ {<<vm, "purge">>}
    /\ attachments' = attachments \ AttachmentsOf(vm)
    /\ UNCHANGED <<reserved, networks, default, handles, mode, todo, op, late, nics, known>>

-----------------------------------------------------------------------------
(* delete and recreateRuntime.                                               *)

\* Mutant: attached VMs are not looked at.
DeletableAlways(n) == TRUE
Deletable(n) == AttachedTo(n) = {}

\* The row goes first; only a network with a handle is released afterwards.
Delete(ref, project) ==
    /\ LockFree
    /\ \E n \in Resolve(ref, project, FALSE) :
         /\ Resolve(ref, project, FALSE) = {n}
         /\ Deletable(n)
         /\ networks' = [networks EXCEPT ![n] = NoRow]
         /\ handles' = handles \ {n}
         /\ op' = IF n \in handles THEN [step |-> "release", net |-> n] ELSE Idle
    /\ UNCHANGED <<reserved, attachments, default, late, processes>>

ReleaseDeleted ==
    /\ op.step = "release"
    /\ (Release(op.net) /\ UNCHANGED late) \/ ReleaseFails(op.net)
    /\ op' = Idle
    /\ UNCHANGED <<tables, handles, processes>>

RecreateRuntime(n) ==
    /\ LockFree
    /\ n \in handles
    /\ handles' = handles \ {n}
    /\ op' = [step |-> "recreateRelease", net |-> n]
    /\ UNCHANGED <<reserved, tables, late, processes>>

PutState(n, state, written) ==
    networks' = [networks EXCEPT ![n].state = state, ![n].written = written]

SetState(n, state) == PutState(n, state, TRUE)

\* updateNetworkRuntime throws: the row keeps `state`, whatever became of the
\* runtime.
StateLost(n, state) == "write" \in Faults /\ PutState(n, state, FALSE)

\* Mutant: the row of a network that could not be recreated stays active.
RecreateFailsSilently(n) == op' = Idle /\ UNCHANGED <<networks, handles>>

\* The rollback marks the row, but with try?.
RecreateFails(n) ==
    /\ op' = Idle
    /\ SetState(n, "orphaned") \/ StateLost(n, networks[n].state)
    /\ UNCHANGED handles

RecreateRelease ==
    /\ op.step = "recreateRelease"
    /\ \/ /\ Release(op.net)
          /\ op' = [op EXCEPT !.step = "recreateReserve"]
          /\ UNCHANGED <<networks, handles, late>>
       \/ ReleaseFails(op.net) /\ RecreateFails(op.net)
    /\ UNCHANGED <<attachments, default, processes>>

\* The handle is stored before the row is written; a failure of that write
\* takes the rollback's path, with the handle in place.
RecreateReserve ==
    /\ op.step = "recreateReserve"
    /\ \/ /\ Acquire(op.net, networks[op.net].cfg)
          /\ handles' = handles \cup {op.net}
          /\ \/ SetState(op.net, "active")
             \/ \E state \in {networks[op.net].state, "orphaned"} : StateLost(op.net, state)
          /\ op' = Idle
          /\ UNCHANGED late
       \/ AcquireFails(op.net, networks[op.net].cfg) /\ RecreateFails(op.net)
    /\ UNCHANGED <<attachments, default, processes>>

-----------------------------------------------------------------------------
(* The processes: control plane, helpers, vz-net.                            *)

\* shutdown() waits for the lock and releases nothing; a crash waits for
\* nothing.  Both lose what is in memory.
Stop ==
    /\ mode # "down"
    /\ "crash" \in Faults \/ ("restart" \in Faults /\ LockFree)
    /\ mode' = "down"
    /\ handles' = {} /\ op' = Idle /\ checked' = {} /\ known' = {} /\ todo' = {}
    /\ UNCHANGED <<reserved, tables, late, nics>>

StartUp ==
    /\ mode = "down"
    /\ mode' = "rebuilding"
    /\ todo' = {n \in Nets : Exists(n)}
    /\ UNCHANGED <<reserved, tables, handles, op, late, checked, nics, known>>

\* Mutant: a failed acquire is not noticed.
RebuildIgnoringError(n) ==
    /\ n \in todo
    /\ todo' = todo \ {n}
    /\ \/ Acquire(n, networks[n].cfg) /\ UNCHANGED late
       \/ AcquireFails(n, networks[n].cfg)
    /\ SetState(n, "active") /\ handles' = IF IsVmnet(n) THEN handles \cup {n} ELSE handles
    /\ UNCHANGED <<attachments, default, mode, op, checked, nics, known>>

\* rebuild(): one row of the table.  The handle is stored after the row is
\* written: a reservation whose row could not be written is not used.
Rebuild(n) ==
    /\ n \in todo
    /\ todo' = todo \ {n}
    /\ \/ ~IsVmnet(n) /\ SetState(n, "active") /\ UNCHANGED <<reserved, handles, late>>
       \/ /\ IsVmnet(n) /\ Acquire(n, networks[n].cfg)
          /\ SetState(n, "active")
          /\ handles' = handles \cup {n}
          /\ UNCHANGED late
       \/ /\ IsVmnet(n)
          /\ \/ AcquireFails(n, networks[n].cfg)
             \/ "write" \in Faults /\ Acquire(n, networks[n].cfg) /\ UNCHANGED late
          /\ SetState(n, "orphaned")
          /\ UNCHANGED handles
    /\ UNCHANGED <<attachments, default, mode, op, checked, nics, known>>

Serve ==
    /\ mode = "rebuilding"
    /\ todo = {}
    /\ mode' = "serving"
    /\ UNCHANGED <<reserved, tables, handles, todo, op, late, checked, nics, known>>

\* A helper that holds its VM's lock file asks for helper.networks
\* (serializedAttachments): every vmnet attachment needs a handle and a live
\* reservation; docker attachments have no NIC.
Nics(vm) == {[net |-> a.net, ip |-> a.ip] : a \in {b \in AttachmentsOf(vm) : IsVmnet(b.net)}}

HelperStarts(vm) ==
    /\ LockFree
    /\ nics[vm] = Off
    /\ "race" \in Faults \/ {<<vm, "edit">>, <<vm, "purge">>} \cap checked = {}
    /\ \A x \in Nics(vm) : x.net \in handles /\ Held(x.net)
    /\ nics' = [nics EXCEPT ![vm] = Nics(vm)]
    /\ known' = known \cup {vm}
    /\ UNCHANGED <<reserved, tables, handles, mode, todo, op, late, checked>>

HelperStops(vm) ==
    /\ nics[vm] # Off
    /\ nics' = [nics EXCEPT ![vm] = Off]
    /\ known' = known \ {vm}
    /\ UNCHANGED <<reserved, tables, handles, mode, todo, op, late, checked>>

\* After a restart of the control plane, helpers report again.
HelperHello(vm) ==
    /\ mode = "serving"
    /\ nics[vm] # Off /\ vm \notin known
    /\ known' = known \cup {vm}
    /\ UNCHANGED <<reserved, tables, handles, mode, todo, op, late, checked, nics>>

VzNetDies ==
    /\ "vznet" \in Faults
    /\ VzNetRestart
    /\ late' = {}
    /\ UNCHANGED <<tables, handles, op, processes>>

-----------------------------------------------------------------------------
Init ==
    /\ VzNetInit
    /\ networks = [n \in Nets |-> NoRow]
    /\ attachments = {} /\ default = NoDefault
    /\ handles = {} /\ mode = "serving" /\ todo = {} /\ op = Idle
    /\ late = {} /\ checked = {}
    /\ nics = [vm \in VMs |-> Off] /\ known = {}

NetworkOperation ==
    \/ \E n \in Nets, c \in Configs : Create(n, c) \/ CreateDocker(n, c)
    \/ Reserve \/ Insert \/ InsertFails \/ Undo
    \/ \E d \in Default : SetDefault(d)
    \/ \E ref \in Refs, p \in Projects : Delete(ref, p)
    \/ ReleaseDeleted
    \/ \E n \in Nets : RecreateRuntime(n)
    \/ RecreateRelease \/ RecreateReserve

AttachmentOperation ==
    \/ \E vm \in VMs : CheckStopped(vm) \/ EditNothing(vm) \/ EnsureDefault(vm)
                       \/ Purge(vm) \/ DetachAll(vm)
    \/ \E vm \in VMs, ref \in Refs, p \in Projects :
         Detach(vm, ref, p) \/ \E ip \in IPs : Attach(vm, ref, p, ip)
    \/ \E vm \in VMs, ref \in Refs : EnsureRequested(vm, ref)
    \/ DropAutomatic \/ Allocate

ProcessStep ==
    \/ Stop \/ StartUp \/ Serve \/ VzNetDies
    \/ \E n \in Nets : Rebuild(n)
    \/ \E vm \in VMs : HelperStarts(vm) \/ HelperStops(vm) \/ HelperHello(vm)
    \/ \E k \in late : LateCall(k)

Next == NetworkOperation \/ AttachmentOperation \/ ProcessStep

Spec == Init /\ [][Next]_vars

-----------------------------------------------------------------------------
(* Properties.                                                               *)

\* Every variable has its type; in particular an allocated address lies in
\* its network (ensureVMNetwork's loop ends at the broadcast address).
NetTypeOK ==
    /\ reserved \in [Nets -> Configs \cup {Free}]
    /\ networks \in [Nets -> Row \cup {NoRow}]
    /\ attachments \subseteq Attachment
    /\ default \in Default \cup {NoDefault}
    /\ handles \subseteq Nets
    /\ mode \in {"down", "rebuilding", "serving"}
    /\ todo \subseteq Nets
    /\ op \in Op
    /\ late \subseteq Call
    /\ checked \subseteq VMs \X {"edit", "purge"}
    /\ nics \in [VMs -> (SUBSET [net: Nets, ip: IPs]) \cup {Off}]
    /\ known \subseteq VMs

\* What net.list reports is what the registry can do: while it serves, a
\* vmnet row is "active" exactly when there is a handle for it, through
\* rebuilds, failed recreates and crashes.  Only a recreate that still runs
\* has taken the handle away from an active row, and only a recreate that
\* could not write the row's state leaves them apart, until the next write.
HandlesMirrorRows ==
    mode = "serving" =>
        \A n \in Nets :
            \/ Unwritten(n)
            \/ (n \in handles) <=>
                  /\ IsVmnet(n) /\ networks[n].state = "active"
                  /\ ~(op.step \in {"recreateRelease", "recreateReserve"} /\ op.net = n)

\* ... and a restart puts that right: no row that rebuild() has visited
\* differs from the runtime for want of a write.
RebuildHeals ==
    mode = "rebuilding" => \A n \in Nets \ todo : ~Unwritten(n)

\* Attachments stay consistent: they belong to an existing network, a VM is
\* attached to a network once and no two VMs of a network share an address
\* (attach, ensureVMNetwork, delete).
AttachmentsConsistent ==
    \A a \in attachments :
        /\ Exists(a.net)
        /\ \A b \in attachments :
             a.net = b.net /\ (a.ip = b.ip \/ a.vm = b.vm) => a = b

\* A handle stands for a reservation with the configuration of the row:
\* control plane crashes at any step and failed rebuilds and recreates do
\* not leave a network that looks usable and is not.
HandlesBacked ==
    \A n \in handles : IsVmnet(n) /\ reserved[n] = networks[n].cfg

\* Outside an operation vz-net holds networks of the table only, so that
\* every CIDR it holds can be released through the API.
NoStrandedReservation ==
    LockFree => \A n \in Nets : Held(n) => IsVmnet(n)

\* net.delete of a network that vz-net holds goes on to net.release
\* (docs/specs/vz-net-v1.md, lifecycle rule 2).
DeleteReleases ==
    \A n \in Nets : IsVmnet(n) /\ ~Exists(n)' /\ Held(n) =>
            op' = [step |-> "release", net |-> n]

\* "VM must be stopped before changing network attachments": a running
\* helper's NICs are those of its attachments.
RunningNicsMatch ==
    \A vm \in VMs : nics[vm] # Off => nics[vm] = Nics(vm)

\* Outside an operation a VM has at most one automatic attachment, and none
\* besides an explicit one (attach and ensureVMNetwork replace it).
AutomaticYields ==
    op = Idle =>
        \A vm \in VMs : \A a \in AttachmentsOf(vm) :
            a.auto => AttachmentsOf(vm) = {a}

\* The attachments are in force: a running helper has exactly their NICs, and
\* an automatic one has yielded to an explicit one.
AttachmentsInForce == RunningNicsMatch /\ AutomaticYields

\* What the registry lists it can do, and what it lists never overlaps: rows
\* and handles agree, except where a recreate's write was lost since the last
\* start, and no CIDR is held twice, under every fault.
RegistrySound == CidrExclusive /\ HandlesMirrorRows /\ RebuildHeals

\* Reservations follow the table through crashes of the control plane: a
\* handle stands for a reservation after every step, and a deleted network is
\* released.
ReservationsFollow == [][HandlesBacked' /\ DeleteReleases]_vars
=============================================================================
