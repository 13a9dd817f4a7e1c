----------------------- MODULE NetworkRegistryProofs -----------------------
(***************************************************************************)
(* Invariants of the network registry, for every set of networks, VMs,     *)
(* CIDRs and addresses, with every fault: crashes between any two steps,   *)
(* vz-net restarts, unanswered calls that are executed late, helpers that  *)
(* overtake RPCs.                                                          *)
(***************************************************************************)
EXTENDS NetworkRegistry, TLAPS

Recreating(n) == op.step \in {"recreateRelease", "recreateReserve"} /\ op.net = n

\* HandlesMirrorRows, extended to the other modes of the control plane: a row
\* that rebuild() has still to visit has no handle, one that it has visited is
\* written.
Mirror ==
    /\ mode = "down" => handles = {}
    /\ mode # "rebuilding" => todo = {}
    /\ \A n \in todo : Exists(n) /\ n \notin handles
    /\ \A n \in handles : IsVmnet(n) /\ ~Recreating(n)
    /\ mode = "rebuilding" => \A n \in Nets \ todo : ~Unwritten(n)
    /\ mode # "down" =>
         \A n \in Nets \ todo : ~Unwritten(n) =>
            ((n \in handles) <=> (IsVmnet(n) /\ networks[n].state = "active" /\ ~Recreating(n)))

\* What the operation that holds the lock knows about the tables.
OpKnows ==
    /\ mode # "serving" => op = Idle
    /\ op.step \in {"reserve", "insert"} =>
         ~Exists(op.net) /\ (op.then = "setDefault" => op.net \in GlobalNets)
    /\ op.step = "allocate" =>
         Exists(op.net) /\ \A a \in attachments : a.net = op.net => a.vm # op.vm
    /\ op.step \in {"recreateRelease", "recreateReserve"} =>
         IsVmnet(op.net) /\ (~Unwritten(op.net) => networks[op.net].state = "active")

RegistryInv ==
    NetTypeOK /\ CidrExclusive /\ AttachmentsConsistent /\ Mirror /\ OpKnows

-----------------------------------------------------------------------------
(* vz-net.                                                                   *)

VzNetInv == reserved \in [Nets -> Configs \cup {Free}] /\ CidrExclusive

\* What a step of the composed system can do to vz-net.
VzNetStep ==
    \/ UNCHANGED reserved
    \/ \E n \in Nets, c \in Configs : Acquire(n, c)
    \/ \E n \in Nets : Release(n)
    \/ VzNetRestart

\* acquire and release keep CIDRs exclusive.
LEMMA VzNetStepKeepsInv == VzNetInv /\ VzNetStep => VzNetInv'
<1> SUFFICES ASSUME VzNetInv, VzNetStep PROVE VzNetInv'
  OBVIOUS
<1>1. CASE UNCHANGED reserved
  BY <1>1 DEF VzNetInv, CidrExclusive, Held
<1>2. ASSUME NEW n \in Nets, NEW c \in Configs, Acquire(n, c) PROVE VzNetInv'
  <2>1. reserved' = [reserved EXCEPT ![n] = c] /\ reserved' \in [Nets -> Configs \cup {Free}]
    BY <1>2 DEF Acquire, VzNetInv
  <2>2. CASE reserved[n] = c
    <3>1. reserved' = reserved
      BY <2>1, <2>2 DEF VzNetInv
    <3> QED
      BY <3>1 DEF VzNetInv, CidrExclusive, Held
  <2>3. CASE reserved[n] # c
    <3>1. \A o \in Nets : Held(o) => reserved[o].cidr # c.cidr
      BY <1>2, <2>3 DEF Acquire, Acquirable
    <3>2. CidrExclusive'
      BY <3>1, <2>1 DEF CidrExclusive, Held, VzNetInv
    <3> QED
      BY <3>2, <2>1 DEF VzNetInv
  <2> QED
    BY <2>2, <2>3
<1>3. ASSUME NEW n \in Nets, Release(n) PROVE VzNetInv'
  BY <1>3 DEF Release, VzNetInv, CidrExclusive, Held
<1>4. CASE VzNetRestart
  BY <1>4 DEF VzNetRestart, VzNetInv, CidrExclusive, Held
<1> QED
  BY <1>1, <1>2, <1>3, <1>4 DEF VzNetStep

-----------------------------------------------------------------------------
(* Types.                                                                    *)

RestTypeOK ==
    /\ networks \in [Nets -> Row \cup {NoRow}]
    /\ attachments \subseteq Attachment
    /\ default \in Default \cup {NoDefault}
    /\ handles \subseteq Nets
    /\ mode \in {"down", "rebuilding", "serving"}
    /\ todo \subseteq Nets
    /\ op \in Op
    /\ late \subseteq Call
    /\ checked \subseteq VMs \X {"edit", "purge"}
    /\ nics \in [VMs -> (SUBSET [net: Nets, ip: IPs]) \cup {Off}]
    /\ known \subseteq VMs

\* The fields that an operation in progress has.
LEMMA OpFields ==
  ASSUME RestTypeOK
  PROVE  /\ op.step # "idle" => op.net \in Nets
         /\ op.step \in {"reserve", "insert"} =>
              /\ op \in Creating /\ op.cfg \in Configs
              /\ op.then \in {"create", "setDefault", "ensure"}
              /\ op.then = "ensure" => op.vm \in VMs
         /\ op.step = "allocate" => op.vm \in VMs /\ op.auto \in BOOLEAN
         /\ op.step = "dropAutomatic" => op.vm \in VMs
         /\ op.step = "recreateRelease" =>
              [op EXCEPT !.step = "recreateReserve"] = [step |-> "recreateReserve", net |-> op.net]
         /\ op = Idle <=> op.step = "idle"
<1>1. CASE op = Idle
  BY <1>1 DEF Idle
<1>2. CASE op \in Creating
  BY <1>2 DEF Creating, Idle
<1>3. CASE op \in [step: {"undo", "release", "recreateRelease", "recreateReserve"}, net: Nets]
  BY <1>3 DEF Idle
<1>4. CASE op \in [step: {"allocate"}, net: Nets, vm: VMs, auto: BOOLEAN]
  BY <1>4 DEF Idle
<1>5. CASE op \in [step: {"dropAutomatic"}, net: Nets, vm: VMs]
  BY <1>5 DEF Idle
<1> QED
  BY <1>1, <1>2, <1>3, <1>4, <1>5 DEF RestTypeOK, Op

LEMMA RowFields ==
  ASSUME RestTypeOK, NEW n \in Nets, Exists(n)
  PROVE  /\ networks[n] \in Row
         /\ networks[n].cfg \in Configs
  BY DEF RestTypeOK, Exists, Row

\* Every step is, for vz-net, a call, a restart or nothing.
LEMMA NextIsVzNetStep == RegistryInv /\ [Next]_vars => VzNetStep
<1> SUFFICES ASSUME RegistryInv, [Next]_vars PROVE VzNetStep
  OBVIOUS
<1>t. RestTypeOK /\ OpKnows /\ Mirror
  BY DEF RegistryInv, NetTypeOK, RestTypeOK
<1>a. ASSUME NEW n \in Nets, NEW c \in Configs, Acquire(n, c) PROVE VzNetStep
  BY <1>a DEF VzNetStep
<1>b. ASSUME NEW n \in Nets, Release(n) PROVE VzNetStep
  BY <1>b DEF VzNetStep
<1>c. ASSUME UNCHANGED reserved PROVE VzNetStep
  BY <1>c DEF VzNetStep
<1>d. ASSUME NEW n, NEW c, AcquireFails(n, c) PROVE VzNetStep
  BY <1>d DEF VzNetStep, AcquireFails, AcquireRefused, Unanswered
<1>e. ASSUME NEW n, ReleaseFails(n) PROVE VzNetStep
  BY <1>e DEF VzNetStep, ReleaseFails, ReleaseRefused, Unanswered
<1>1. CASE NetworkOperation
  <2>1. CASE Reserve
    BY <2>1, <1>t, <1>a, <1>d, OpFields DEF Reserve
  <2>2. CASE Undo
    BY <2>2, <1>t, <1>b, <1>e, OpFields DEF Undo
  <2>3. CASE ReleaseDeleted
    BY <2>3, <1>t, <1>b, <1>e, OpFields DEF ReleaseDeleted
  <2>4. CASE RecreateRelease
    BY <2>4, <1>t, <1>b, <1>e, OpFields DEF RecreateRelease
  <2>5. CASE RecreateReserve
    <3>1. op.net \in Nets /\ Exists(op.net)
      BY <2>5, <1>t, OpFields DEF RecreateReserve, OpKnows, IsVmnet
    <3>2. networks[op.net].cfg \in Configs
      BY <3>1, <1>t, RowFields
    <3> QED
      BY <2>5, <3>1, <3>2, <1>a, <1>d DEF RecreateReserve
  <2>6. CASE Insert \/ InsertFails
    BY <2>6, <1>c DEF Insert, InsertFails
  <2>7. ASSUME NEW n \in Nets, NEW c \in Configs, Create(n, c) \/ CreateDocker(n, c) PROVE VzNetStep
    BY <2>7, <1>c DEF Create, CreateDocker
  <2>8. ASSUME NEW d \in Default, SetDefault(d) PROVE VzNetStep
    BY <2>8, <1>c DEF SetDefault
  <2>9. ASSUME NEW ref \in Refs, NEW pr \in Projects, Delete(ref, pr) PROVE VzNetStep
    BY <2>9, <1>c DEF Delete
  <2>10. ASSUME NEW n \in Nets, RecreateRuntime(n) PROVE VzNetStep
    BY <2>10, <1>c DEF RecreateRuntime
  <2> QED
    BY <1>1, <2>1, <2>2, <2>3, <2>4, <2>5, <2>6, <2>7, <2>8, <2>9, <2>10 DEF NetworkOperation
<1>2. CASE AttachmentOperation
  BY <1>2, <1>c DEF AttachmentOperation, CheckStopped, EditNothing, EnsureDefault, Purge, DetachAll,
        Detach, Attach, EnsureRequested, DropAutomatic, Allocate, Edit
<1>3. CASE ProcessStep
  <2>1. ASSUME NEW n \in Nets, Rebuild(n) PROVE VzNetStep
    <3>1. Exists(n)
      BY <2>1, <1>t DEF Rebuild, Mirror
    <3>2. networks[n].cfg \in Configs
      BY <3>1, <1>t, RowFields
    <3> QED
      BY <2>1, <3>2, <1>a, <1>c, <1>d DEF Rebuild
  <2>2. ASSUME NEW k \in late, LateCall(k) PROVE VzNetStep
    <3>1. k \in Call
      BY <2>2, <1>t DEF RestTypeOK
    <3>2. k.net \in Nets /\ (k.call = "acquire" => k.cfg \in Configs)
      BY <3>1 DEF Call
    <3> QED
      BY <2>2, <3>2, <1>a, <1>b, <1>c DEF LateCall, AcquireRefused, ReleaseRefused
  <2>3. CASE VzNetDies
    BY <2>3 DEF VzNetDies, VzNetStep
  <2>4. CASE Stop \/ StartUp \/ Serve
    BY <2>4, <1>c DEF Stop, StartUp, Serve
  <2>5. ASSUME NEW vm \in VMs, HelperStarts(vm) \/ HelperStops(vm) \/ HelperHello(vm) PROVE VzNetStep
    BY <2>5, <1>c DEF HelperStarts, HelperStops, HelperHello
  <2> QED
    BY <1>3, <2>1, <2>2, <2>3, <2>4, <2>5 DEF ProcessStep
<1>4. CASE UNCHANGED vars
  BY <1>4, <1>c DEF vars
<1> QED
  BY <1>1, <1>2, <1>3, <1>4 DEF Next

-----------------------------------------------------------------------------
(* The registry's own state.                                                 *)

TablesInv == RestTypeOK /\ AttachmentsConsistent /\ Mirror /\ OpKnows

core == <<networks, attachments, handles, mode, todo, op>>

\* A step that leaves tables, handles and the lock alone.
LEMMA QuietKeepsInv ==
  ASSUME TablesInv, UNCHANGED core, RestTypeOK'
  PROVE  TablesInv'
  BY DEF TablesInv, core, AttachmentsConsistent, Mirror, OpKnows, Recreating, Exists, IsVmnet, Unwritten

\* Steps of helpers and vz-net, checks and kills by RPC threads.
LEMMA ProcessesKeepInv ==
  ASSUME TablesInv
  PROVE  /\ \A vm \in VMs : CheckStopped(vm) \/ EditNothing(vm) \/ Purge(vm) => TablesInv'
         /\ \A vm \in VMs : HelperStarts(vm) \/ HelperStops(vm) \/ HelperHello(vm) => TablesInv'
         /\ VzNetDies => TablesInv'
         /\ \A k \in late : LateCall(k) => TablesInv'
         /\ UNCHANGED vars => TablesInv'
<1>t. RestTypeOK
  BY DEF TablesInv
<1>1. ASSUME NEW vm \in VMs, CheckStopped(vm) \/ EditNothing(vm) \/ Purge(vm) PROVE TablesInv'
  <2>1. UNCHANGED core
    BY <1>1 DEF CheckStopped, EditNothing, Edit, Purge, core, tables
  <2>2. UNCHANGED <<default, late>> /\ known' \subseteq VMs
    BY <1>1, <1>t DEF CheckStopped, EditNothing, Edit, Purge, tables, RestTypeOK
  <2>3. <<vm, "edit">> \in VMs \X {"edit", "purge"} /\ <<vm, "purge">> \in VMs \X {"edit", "purge"}
    OBVIOUS
  <2>4. checked' \subseteq VMs \X {"edit", "purge"}
    <3>1. \/ checked' = checked \cup {<<vm, "edit">>} \/ checked' = checked \ {<<vm, "edit">>}
          \/ checked' = checked \cup {<<vm, "purge">>}
      BY <1>1 DEF CheckStopped, EditNothing, Edit, Purge
    <3>2. checked \subseteq VMs \X {"edit", "purge"}
      BY <1>t DEF RestTypeOK
    <3> QED
      BY <3>1, <3>2, <2>3, Zenon
  <2>5. nics' = nics \/ nics' = [nics EXCEPT ![vm] = Off]
    BY <1>1 DEF CheckStopped, EditNothing, Edit, Purge
  <2>6. nics' \in [VMs -> (SUBSET [net: Nets, ip: IPs]) \cup {Off}]
    BY <2>5, <1>t DEF RestTypeOK
  <2>7. RestTypeOK'
    BY <2>1, <2>2, <2>4, <2>6, <1>t DEF RestTypeOK, core
  <2> QED
    BY <2>1, <2>7, QuietKeepsInv
<1>2. ASSUME NEW vm \in VMs, HelperStarts(vm) \/ HelperStops(vm) \/ HelperHello(vm) PROVE TablesInv'
  <2>1. UNCHANGED core
    BY <1>2 DEF HelperStarts, HelperStops, HelperHello, core, tables
  <2>2. Nics(vm) \in SUBSET [net: Nets, ip: IPs]
    BY <1>t DEF Nics, AttachmentsOf, RestTypeOK, Attachment
  <2>4. nics' \in [VMs -> (SUBSET [net: Nets, ip: IPs]) \cup {Off}]
    <3>1. \E v \in (SUBSET [net: Nets, ip: IPs]) \cup {Off} :
             nics' = nics \/ nics' = [nics EXCEPT ![vm] = v]
      BY <1>2, <2>2 DEF HelperStarts, HelperStops, HelperHello
    <3> QED
      BY <3>1, <1>t DEF RestTypeOK
  <2>5. UNCHANGED <<default, late, checked>> /\ known' \subseteq VMs
    BY <1>2, <1>t DEF HelperStarts, HelperStops, HelperHello, tables, RestTypeOK
  <2>3. RestTypeOK'
    BY <2>1, <2>4, <2>5, <1>t DEF RestTypeOK, core
  <2> QED
    BY <2>1, <2>3, QuietKeepsInv
<1>3. ASSUME VzNetDies PROVE TablesInv'
  <2>1. UNCHANGED core /\ RestTypeOK'
    BY <1>3, <1>t DEF VzNetDies, tables, processes, core, RestTypeOK
  <2> QED
    BY <2>1, QuietKeepsInv
<1>4. ASSUME NEW k \in late, LateCall(k) PROVE TablesInv'
  <2>1. UNCHANGED core /\ RestTypeOK'
    BY <1>4, <1>t DEF LateCall, core, RestTypeOK
  <2> QED
    BY <2>1, QuietKeepsInv
<1>5. ASSUME UNCHANGED vars PROVE TablesInv'
  <2>1. UNCHANGED core /\ RestTypeOK'
    BY <1>5, <1>t DEF vars, core, RestTypeOK
  <2> QED
    BY <2>1, QuietKeepsInv
<1> QED
  BY <1>1, <1>2, <1>3, <1>4, <1>5

\* A vz-net call leaves at most a late call behind.
LEMMA LateTyped ==
  ASSUME RestTypeOK, NEW n \in Nets, NEW c \in Configs
  PROVE  /\ AcquireFails(n, c) => late' \subseteq Call
         /\ ReleaseFails(n) => late' \subseteq Call
  BY DEF RestTypeOK, AcquireFails, ReleaseFails, Unanswered, Call

\* Only `op` and perhaps `late`, `default`, `checked` change, and the next
\* step of the operation knows what OpKnows says of it.
LEMMA OpMovesKeepsInv ==
  ASSUME TablesInv, RestTypeOK', OpKnows', UNCHANGED <<networks, attachments, handles, mode, todo>>,
         \A n \in Nets : Recreating(n)' <=> Recreating(n)
  PROVE  TablesInv'
  BY DEF TablesInv, AttachmentsConsistent, Mirror, Exists, IsVmnet, Unwritten, RestTypeOK

\* net.create and net.default.set up to the reservation.
LEMMA StartsKeepInv ==
  ASSUME TablesInv
  PROVE  /\ \A n \in Nets, c \in Configs : Create(n, c) => TablesInv'
         /\ \A d \in Default : SetDefault(d) => TablesInv'
<1>t. RestTypeOK /\ OpKnows
  BY DEF TablesInv
<1>1. ASSUME NEW n \in Nets, NEW c \in Configs, Create(n, c) PROVE TablesInv'
  <2>1. UNCHANGED <<networks, attachments, handles, mode, todo, default, late, checked, nics, known>>
    BY <1>1 DEF Create, tables, processes
  <2>2. op' = [step |-> "reserve", net |-> n, cfg |-> c, then |-> "create", vm |-> NoVM]
        /\ op = Idle /\ mode = "serving" /\ ~Exists(n)
    BY <1>1 DEF Create, StartCreate, LockFree, Creatable
  <2>3. op' \in Op
    BY <2>2 DEF Op, Creating
  <2>4. RestTypeOK'
    BY <2>1, <2>3, <1>t DEF RestTypeOK
  <2>5. OpKnows'
    BY <2>1, <2>2 DEF OpKnows, Exists
  <2>6. \A x \in Nets : Recreating(x)' <=> Recreating(x)
    BY <2>2 DEF Recreating, Idle
  <2> QED
    BY <2>1, <2>4, <2>5, <2>6, OpMovesKeepsInv
<1>2. ASSUME NEW d \in Default, SetDefault(d) PROVE TablesInv'
  <2>1. UNCHANGED <<networks, attachments, handles, mode, todo, late, checked, nics, known>>
    BY <1>2 DEF SetDefault, processes
  <2>2. op = Idle /\ mode = "serving"
    BY <1>2 DEF SetDefault, LockFree
  <2>3. d.net \in GlobalNets /\ d.net \in Nets /\ DefaultConfig(d) \in Configs
    BY DEF Default, GlobalNets, DefaultConfig, Configs
  <2>4. CASE default' = d /\ UNCHANGED op
    <3>1. RestTypeOK'
      BY <2>1, <2>4, <1>t DEF RestTypeOK
    <3>2. OpKnows' /\ \A x \in Nets : Recreating(x)' <=> Recreating(x)
      BY <2>1, <2>2, <2>4 DEF OpKnows, Recreating, Idle
    <3> QED
      BY <2>1, <3>1, <3>2, OpMovesKeepsInv
  <2>5. CASE StartCreate(d.net, DefaultConfig(d), "setDefault", NoVM) /\ UNCHANGED default
    <3>1. op' = [step |-> "reserve", net |-> d.net, cfg |-> DefaultConfig(d), then |-> "setDefault", vm |-> NoVM]
          /\ ~Exists(d.net)
      BY <2>5 DEF StartCreate, Creatable
    <3>2. op' \in Op
      BY <3>1, <2>3 DEF Op, Creating
    <3>3. RestTypeOK'
      BY <2>1, <2>5, <3>2, <1>t DEF RestTypeOK
    <3>4. OpKnows' /\ \A x \in Nets : Recreating(x)' <=> Recreating(x)
      BY <2>1, <2>2, <2>3, <3>1 DEF OpKnows, Exists, GlobalNets, Recreating, Idle
    <3> QED
      BY <2>1, <3>3, <3>4, OpMovesKeepsInv
  <2> QED
    BY <1>2, <2>4, <2>5 DEF SetDefault
<1> QED
  BY <1>1, <1>2

\* Writing a row of the table networks.
LEMMA RowWritten ==
  ASSUME RestTypeOK, NEW n \in Nets, NEW row \in Row, networks' = [networks EXCEPT ![n] = row]
  PROVE  /\ networks' \in [Nets -> Row \cup {NoRow}]
         /\ networks'[n] = row /\ Exists(n)'
         /\ \A o \in Nets : o # n => networks'[o] = networks[o]
         /\ \A o \in Nets : Exists(o) => Exists(o)'
  BY NoRowAssumption DEF RestTypeOK, Exists

\* The column state: everything else of the row stays.
LEMMA StateWritten ==
  ASSUME RestTypeOK, NEW n \in Nets, Exists(n), NEW st \in {"active", "orphaned"}, NEW w \in BOOLEAN,
         PutState(n, st, w)
  PROVE  /\ networks' \in [Nets -> Row \cup {NoRow}]
         /\ \A o \in Nets : o # n => networks'[o] = networks[o]
         /\ \A o \in Nets : (Exists(o)' <=> Exists(o)) /\ (IsVmnet(o)' <=> IsVmnet(o))
         /\ \A o \in Nets : o # n => (Unwritten(o)' <=> Unwritten(o))
         /\ networks'[n].state = st
         /\ networks'[n].cfg = networks[n].cfg
         /\ Unwritten(n)' <=> ~w
<1> DEFINE row == [[networks[n] EXCEPT !.state = st] EXCEPT !.written = w]
<1>1. networks[n] \in Row
  BY DEF RestTypeOK, Exists
<1>2. row \in Row /\ row.state = st /\ row.backend = networks[n].backend /\ row.cfg = networks[n].cfg
      /\ row.written = w
  BY <1>1 DEF Row
<1>3. networks' = [networks EXCEPT ![n] = row]
  BY <1>1 DEF PutState, RestTypeOK
<1> HIDE DEF row
<1>4. networks' \in [Nets -> Row \cup {NoRow}] /\ networks'[n] = row /\ Exists(n)'
      /\ \A o \in Nets : o # n => networks'[o] = networks[o]
  BY <1>2, <1>3, RowWritten
<1> QED
  BY <1>2, <1>4 DEF Exists, IsVmnet, Unwritten

\* A docker network has no handle.
LEMMA CreateDockerKeepsInv ==
  ASSUME TablesInv, NEW n \in Nets, NEW c \in Configs, CreateDocker(n, c)
  PROVE  TablesInv'
<1> DEFINE row == [cfg |-> c, backend |-> "docker", state |-> "active", written |-> TRUE]
<1>t. RestTypeOK /\ AttachmentsConsistent /\ Mirror /\ OpKnows
  BY DEF TablesInv
<1>1. /\ UNCHANGED <<attachments, default, handles, mode, todo, op, late, checked, nics, known>>
      /\ mode = "serving" /\ op = Idle /\ ~Exists(n) /\ networks' = [networks EXCEPT ![n] = row]
  BY DEF CreateDocker, LockFree, Creatable, processes
<1>2. row \in Row /\ row.backend = "docker" /\ row.written
  BY DEF Row
<1> HIDE DEF row
<1>3. /\ networks' \in [Nets -> Row \cup {NoRow}] /\ networks'[n] = row
      /\ \A o \in Nets : o # n => networks'[o] = networks[o]
      /\ \A o \in Nets : Exists(o) => Exists(o)'
  BY <1>1, <1>2, <1>t, RowWritten
<1>4. RestTypeOK'
  BY <1>1, <1>3, <1>t DEF RestTypeOK
<1>5. AttachmentsConsistent'
  BY <1>1, <1>3, <1>t DEF AttachmentsConsistent, RestTypeOK, Attachment
<1>6. Mirror'
  BY <1>1, <1>2, <1>3, <1>t DEF Mirror, IsVmnet, Unwritten, Exists, Recreating, Idle
<1>7. OpKnows'
  BY <1>1 DEF OpKnows, Idle
<1> QED
  BY <1>4, <1>5, <1>6, <1>7 DEF TablesInv

\* createLocked's call of acquire.
LEMMA ReserveKeepsInv == ASSUME TablesInv, Reserve PROVE TablesInv'
<1>t. RestTypeOK /\ OpKnows
  BY DEF TablesInv
<1>1. UNCHANGED <<networks, attachments, default, handles, mode, todo, checked, nics, known>>
  BY DEF Reserve, tables, processes
<1>2. /\ op.step = "reserve" /\ op.net \in Nets /\ op.cfg \in Configs /\ op \in Creating
      /\ ~Exists(op.net) /\ mode = "serving"
  <2>1. op.step = "reserve"
    BY DEF Reserve
  <2>2. op.net \in Nets /\ op.cfg \in Configs /\ op \in Creating /\ op # Idle
    BY <2>1, <1>t, OpFields
  <2> QED
    BY <2>1, <2>2, <1>t DEF OpKnows, RestTypeOK
<1>3. late' \subseteq Call
  <2>1. UNCHANGED late \/ AcquireFails(op.net, op.cfg)
    BY DEF Reserve
  <2> QED
    BY <2>1, <1>2, <1>t, LateTyped DEF RestTypeOK
<1>4. CASE op' = [op EXCEPT !.step = "insert"]
  <2>1. op' \in Creating /\ op'.step = "insert" /\ op'.net = op.net /\ op'.then = op.then
    BY <1>2, <1>4 DEF Creating
  <2>2. RestTypeOK'
    BY <1>1, <1>3, <2>1, <1>t DEF RestTypeOK, Op
  <2>3. OpKnows' /\ \A x \in Nets : Recreating(x)' <=> Recreating(x)
    BY <1>1, <1>2, <2>1, <1>t DEF OpKnows, Exists, GlobalNets, Recreating
  <2> QED
    BY <1>1, <2>2, <2>3, OpMovesKeepsInv
<1>5. CASE op' = Idle
  <2>2. RestTypeOK'
    BY <1>1, <1>3, <1>5, <1>t DEF RestTypeOK, Op
  <2>3. OpKnows' /\ \A x \in Nets : Recreating(x)' <=> Recreating(x)
    BY <1>1, <1>2, <1>5 DEF OpKnows, Recreating, Idle
  <2> QED
    BY <1>1, <2>2, <2>3, OpMovesKeepsInv
<1> QED
  BY <1>4, <1>5 DEF Reserve

\* createLocked's insert, with what follows it.
LEMMA InsertKeepsInv == ASSUME TablesInv, Insert PROVE TablesInv'
<1>t. RestTypeOK /\ AttachmentsConsistent /\ Mirror /\ OpKnows
  BY DEF TablesInv
<1>1. op.step = "insert"
  BY DEF Insert
<1>2. /\ op.net \in Nets /\ op.cfg \in Configs /\ ~Exists(op.net) /\ mode = "serving"
      /\ op.then = "ensure" => op.vm \in VMs
      /\ op.then = "setDefault" => op.net \in GlobalNets
  <2>1. /\ op.net \in Nets /\ op.cfg \in Configs /\ op # Idle
        /\ op.then = "ensure" => op.vm \in VMs
    BY <1>1, <1>t, OpFields
  <2> QED
    BY <1>1, <2>1, <1>t DEF OpKnows, RestTypeOK
<1>3. PICK n \in Nets, c \in Configs : n = op.net /\ c = op.cfg
  BY <1>2
<1> DEFINE row == [cfg |-> c, backend |-> "vmnet", state |-> "active", written |-> TRUE]
<1>4. /\ UNCHANGED <<attachments, mode, todo, late, checked, nics, known>>
      /\ networks' = [networks EXCEPT ![n] = row] /\ handles' = handles \cup {n}
  BY <1>3 DEF Insert, processes
<1>5. row \in Row /\ row.backend = "vmnet" /\ row.state = "active" /\ row.written
  BY DEF Row
<1> HIDE DEF row
<1>6. /\ networks' \in [Nets -> Row \cup {NoRow}] /\ networks'[n] = row /\ Exists(n)'
      /\ \A o \in Nets : o # n => networks'[o] = networks[o]
      /\ \A o \in Nets : Exists(o) => Exists(o)'
  BY <1>4, <1>5, <1>t, RowWritten
<1>7. AttachmentsConsistent'
  BY <1>4, <1>6, <1>t DEF AttachmentsConsistent, RestTypeOK, Attachment
<1>8. \/ \E vm \in VMs : op' = [step |-> "allocate", net |-> n, vm |-> vm, auto |-> TRUE]
      \/ op' = Idle
  BY <1>2, <1>3 DEF Insert
<1>9. op' \in Op /\ ~(op'.step \in {"recreateRelease", "recreateReserve"})
  <2>1. ASSUME NEW vm \in VMs, op' = [step |-> "allocate", net |-> n, vm |-> vm, auto |-> TRUE]
        PROVE  op' \in [step: {"allocate"}, net: Nets, vm: VMs, auto: BOOLEAN]
    BY <2>1
  <2> QED
    BY <1>8, <2>1 DEF Op, Idle
<1>10. Mirror'
  <2>1. todo = {} /\ todo' = {} /\ mode' = "serving"
    BY <1>2, <1>4, <1>t DEF Mirror
  <2>2. ASSUME NEW o \in Nets
        PROVE  /\ ~Unwritten(o)' =>
                    ((o \in handles') <=> (IsVmnet(o)' /\ networks'[o].state = "active" /\ ~Recreating(o)'))
               /\ o \in handles' => IsVmnet(o)' /\ ~Recreating(o)'
    <3>1. ~Recreating(o)' /\ ~Recreating(o)
      BY <1>1, <1>9 DEF Recreating
    <3>2. CASE o = n
      BY <3>1, <3>2, <1>4, <1>5, <1>6 DEF IsVmnet
    <3>3. CASE o # n
      BY <3>1, <3>3, <2>1, <1>2, <1>4, <1>6, <1>t DEF Mirror, IsVmnet, Unwritten, Exists
    <3> QED
      BY <3>2, <3>3
  <2>3. handles' \subseteq Nets
    BY <1>4, <1>t DEF RestTypeOK
  <2> QED
    BY <2>1, <2>2, <2>3 DEF Mirror
<1>11. OpKnows'
  <2>1. \A a \in attachments : a.net # n
    BY <1>2, <1>3, <1>t DEF AttachmentsConsistent
  <2> QED
    BY <2>1, <1>2, <1>4, <1>6, <1>8 DEF OpKnows, Idle
<1>12. default' \in Default \cup {NoDefault}
  <2>1. c.cidr \in Cidrs
    BY DEF Configs
  <2> QED
    BY <2>1, <1>2, <1>3, <1>t DEF Insert, Default, RestTypeOK
<1>13. RestTypeOK'
  BY <1>4, <1>6, <1>9, <1>12, <1>t DEF RestTypeOK
<1> QED
  BY <1>7, <1>10, <1>11, <1>13 DEF TablesInv

\* The insert fails, and the reservation is given back.
LEMMA UndoKeepsInv == ASSUME TablesInv, InsertFails \/ Undo \/ ReleaseDeleted PROVE TablesInv'
<1>t. RestTypeOK /\ OpKnows
  BY DEF TablesInv
<1>1. UNCHANGED <<networks, attachments, default, handles, mode, todo, checked, nics, known>>
  BY DEF InsertFails, Undo, ReleaseDeleted, tables, processes
<1>2. op.step \in {"insert", "undo", "release"}
  BY DEF InsertFails, Undo, ReleaseDeleted
<1>3. op.net \in Nets /\ mode = "serving"
  <2>1. op.net \in Nets /\ op # Idle
    BY <1>2, <1>t, OpFields
  <2> QED
    BY <2>1, <1>t DEF OpKnows, RestTypeOK
<1>4. late' \subseteq Call
  <2>1. UNCHANGED late \/ ReleaseFails(op.net)
    BY DEF InsertFails, Undo, ReleaseDeleted
  <2> QED
    BY <2>1, <1>3, <1>t DEF RestTypeOK, ReleaseFails, Unanswered, Call
<1>5. op' = [step |-> "undo", net |-> op.net] \/ op' = Idle
  BY DEF InsertFails, Undo, ReleaseDeleted
<1>6. RestTypeOK'
  BY <1>1, <1>3, <1>4, <1>5, <1>t DEF RestTypeOK, Op
<1>7. OpKnows' /\ \A x \in Nets : Recreating(x)' <=> Recreating(x)
  BY <1>1, <1>2, <1>3, <1>5 DEF OpKnows, Recreating, Idle
<1> QED
  BY <1>1, <1>6, <1>7, OpMovesKeepsInv

\* resolveNetwork only finds rows.
LEMMA ResolveFinds ==
  ASSUME NEW ref, NEW project, NEW global
  PROVE  Resolve(ref, project, global) \subseteq {n \in Nets : Exists(n)}
  BY DEF Resolve

\* A network without attachments goes, with its handle.
LEMMA DeleteKeepsInv ==
  ASSUME TablesInv, NEW ref, NEW project, Delete(ref, project)
  PROVE  TablesInv'
<1>t. RestTypeOK /\ AttachmentsConsistent /\ Mirror /\ OpKnows
  BY DEF TablesInv
<1>1. PICK n \in Resolve(ref, project, FALSE) :
        /\ Deletable(n)
        /\ networks' = [networks EXCEPT ![n] = NoRow]
        /\ handles' = handles \ {n}
        /\ op' = IF n \in handles THEN [step |-> "release", net |-> n] ELSE Idle
  BY DEF Delete
<1>2. n \in Nets /\ Exists(n)
  BY ResolveFinds
<1>3. /\ UNCHANGED <<attachments, default, mode, todo, late, checked, nics, known>>
      /\ mode = "serving" /\ op = Idle
  BY DEF Delete, LockFree, processes
<1>4. /\ networks' \in [Nets -> Row \cup {NoRow}] /\ ~Exists(n)'
      /\ \A o \in Nets : o # n => networks'[o] = networks[o]
  BY <1>1, <1>2, <1>t DEF RestTypeOK, Exists
<1>5. op' \in Op /\ op'.step \in {"release", "idle"}
  BY <1>1, <1>2 DEF Op, Idle
<1>6. RestTypeOK'
  BY <1>1, <1>3, <1>4, <1>5, <1>t DEF RestTypeOK
<1>7. AttachmentsConsistent'
  <2>1. \A a \in attachments : a.net \in Nets /\ a.net # n
    BY <1>1, <1>t DEF Deletable, AttachedTo, RestTypeOK, Attachment
  <2> QED
    BY <2>1, <1>3, <1>4, <1>t DEF AttachmentsConsistent, Exists
<1>8. Mirror'
  <2>1. todo = {} /\ todo' = {} /\ mode' = "serving"
    BY <1>3, <1>t DEF Mirror
  <2>2. ASSUME NEW o \in Nets
        PROVE  /\ ~Unwritten(o)' =>
                    ((o \in handles') <=> (IsVmnet(o)' /\ networks'[o].state = "active" /\ ~Recreating(o)'))
               /\ o \in handles' => IsVmnet(o)' /\ ~Recreating(o)'
    <3>1. ~Recreating(o)' /\ ~Recreating(o)
      BY <1>3, <1>5 DEF Recreating, Idle
    <3>2. CASE o = n
      BY <3>2, <1>1, <1>4 DEF IsVmnet
    <3>3. CASE o # n
      BY <3>1, <3>3, <2>1, <1>1, <1>3, <1>4, <1>t DEF Mirror, IsVmnet, Unwritten, Exists
    <3> QED
      BY <3>2, <3>3
  <2>3. handles' \subseteq Nets
    BY <1>1, <1>t DEF RestTypeOK
  <2> QED
    BY <2>1, <2>2, <2>3 DEF Mirror
<1>9. OpKnows'
  BY <1>3, <1>5 DEF OpKnows
<1> QED
  BY <1>6, <1>7, <1>8, <1>9 DEF TablesInv

\* recreateRuntime takes the handle away first.
LEMMA RecreateRuntimeKeepsInv ==
  ASSUME TablesInv, NEW n \in Nets, RecreateRuntime(n)
  PROVE  TablesInv'
<1>t. RestTypeOK /\ AttachmentsConsistent /\ Mirror /\ OpKnows
  BY DEF TablesInv
<1>1. /\ UNCHANGED <<networks, attachments, default, mode, todo, late, checked, nics, known>>
      /\ mode = "serving" /\ op = Idle /\ n \in handles /\ handles' = handles \ {n}
      /\ op' = [step |-> "recreateRelease", net |-> n]
  BY DEF RecreateRuntime, LockFree, tables, processes
<1>2. todo = {} /\ IsVmnet(n) /\ (~Unwritten(n) => networks[n].state = "active")
  BY <1>1, <1>t DEF Mirror
<1>3. RestTypeOK'
  BY <1>1, <1>t DEF RestTypeOK, Op
<1>4. AttachmentsConsistent'
  BY <1>1, <1>t DEF AttachmentsConsistent, Exists
<1>5. \A o \in Nets : (Recreating(o)' <=> o = n) /\ ~Recreating(o)
  BY <1>1 DEF Recreating, Idle
<1>6. Mirror'
  <2>1. \A o \in Nets : (IsVmnet(o)' <=> IsVmnet(o)) /\ (Unwritten(o)' <=> Unwritten(o))
    BY <1>1 DEF IsVmnet, Unwritten, Exists
  <2>2. ASSUME NEW o \in Nets
        PROVE  /\ ~Unwritten(o)' =>
                    ((o \in handles') <=> (IsVmnet(o)' /\ networks'[o].state = "active" /\ ~Recreating(o)'))
               /\ o \in handles' => IsVmnet(o)' /\ ~Recreating(o)'
    BY <2>1, <1>1, <1>2, <1>5, <1>t DEF Mirror
  <2>3. handles' \subseteq Nets
    BY <1>1, <1>t DEF RestTypeOK
  <2> QED
    BY <2>2, <2>3, <1>1, <1>2 DEF Mirror
<1>7. OpKnows'
  BY <1>1, <1>2 DEF OpKnows, IsVmnet, Unwritten, Exists
<1> QED
  BY <1>3, <1>4, <1>6, <1>7 DEF TablesInv

\* The release and the new reservation of recreateRuntime; a failure leaves
\* an orphaned row without handle.
LEMMA RecreateKeepsInv ==
  ASSUME TablesInv, RecreateRelease \/ RecreateReserve
  PROVE  TablesInv'
<1>t. RestTypeOK /\ AttachmentsConsistent /\ Mirror /\ OpKnows
  BY DEF TablesInv
<1>1. op.step \in {"recreateRelease", "recreateReserve"}
  BY DEF RecreateRelease, RecreateReserve
<1>2. op.net \in Nets /\ IsVmnet(op.net) /\ mode = "serving"
  BY <1>1, <1>t, OpFields DEF OpKnows, RestTypeOK
<1>3. PICK n \in Nets : n = op.net
  BY <1>2
<1>4. Exists(n) /\ networks[n].cfg \in Configs /\ networks[n].state \in {"active", "orphaned"}
  BY <1>2, <1>3, <1>t, RowFields DEF IsVmnet, Row
<1>5. UNCHANGED <<attachments, default, mode, todo, checked, nics, known>>
  BY DEF RecreateRelease, RecreateReserve, processes
<1>6. late' \subseteq Call
  <2>1. PICK c \in Configs : c = networks[n].cfg
    BY <1>4
  <2>2. UNCHANGED late \/ ReleaseFails(n) \/ AcquireFails(n, c)
    BY <1>3, <2>1 DEF RecreateRelease, RecreateReserve
  <2> QED
    BY <2>2, <1>t, LateTyped DEF RestTypeOK
<1>7. todo = {} /\ \A o \in Nets : Recreating(o) <=> o = n
  BY <1>1, <1>2, <1>3, <1>t DEF Mirror, Recreating
<1>8. CASE op' = [op EXCEPT !.step = "recreateReserve"] /\ UNCHANGED <<networks, handles>>
           /\ op.step = "recreateRelease"
  <2>1. op' = [step |-> "recreateReserve", net |-> n]
    BY <1>3, <1>8, <1>t, OpFields
  <2>2. RestTypeOK'
    BY <2>1, <1>5, <1>6, <1>8, <1>t DEF RestTypeOK, Op
  <2>3. OpKnows' /\ \A x \in Nets : Recreating(x)' <=> Recreating(x)
    BY <2>1, <1>1, <1>2, <1>3, <1>5, <1>7, <1>8, <1>t DEF OpKnows, IsVmnet, Unwritten, Exists, Recreating
  <2> QED
    BY <1>5, <1>8, <2>2, <2>3, OpMovesKeepsInv
<1>9. ASSUME NEW st \in {"active", "orphaned"}, NEW w \in BOOLEAN, PutState(n, st, w), op' = Idle,
             handles' \in {handles, handles \cup {n}}, w => (n \in handles' <=> st = "active")
      PROVE  TablesInv'
  <2>1. /\ networks' \in [Nets -> Row \cup {NoRow}]
        /\ \A o \in Nets : o # n => networks'[o] = networks[o]
        /\ \A o \in Nets : (Exists(o)' <=> Exists(o)) /\ (IsVmnet(o)' <=> IsVmnet(o))
        /\ \A o \in Nets : o # n => (Unwritten(o)' <=> Unwritten(o))
        /\ networks'[n].state = st
        /\ Unwritten(n)' <=> ~w
    BY <1>4, <1>9, <1>t, StateWritten
  <2>2. RestTypeOK'
    BY <2>1, <1>5, <1>6, <1>9, <1>t DEF RestTypeOK, Op
  <2>3. AttachmentsConsistent'
    BY <2>1, <1>5, <1>t DEF AttachmentsConsistent, RestTypeOK, Attachment
  <2>4. OpKnows'
    BY <1>9, <1>5, <1>2 DEF OpKnows, Idle
  <2>5. \A o \in Nets : ~Recreating(o)'
    BY <1>9 DEF Recreating, Idle
  <2>6. n \notin handles
    BY <1>2, <1>7, <1>t DEF Mirror
  <2>7. Mirror'
    <3>1. ASSUME NEW o \in Nets
          PROVE  /\ ~Unwritten(o)' =>
                      ((o \in handles') <=> (IsVmnet(o)' /\ networks'[o].state = "active" /\ ~Recreating(o)'))
                 /\ o \in handles' => IsVmnet(o)' /\ ~Recreating(o)'
      <4>1. CASE o = n
        BY <4>1, <2>1, <2>5, <2>6, <1>2, <1>3, <1>9
      <4>2. CASE o # n
        BY <4>2, <2>1, <2>5, <1>2, <1>7, <1>9, <1>t DEF Mirror
      <4> QED
        BY <4>1, <4>2
    <3>2. handles' \subseteq Nets
      BY <1>9, <1>t DEF RestTypeOK
    <3> QED
      BY <3>1, <3>2, <1>2, <1>5, <1>7 DEF Mirror
  <2> QED
    BY <2>2, <2>3, <2>4, <2>7 DEF TablesInv
<1>10. CASE RecreateFails(n)
  <2>1. n \notin handles
    BY <1>7, <1>t DEF Mirror
  <2> QED
    BY <2>1, <1>4, <1>9, <1>10 DEF RecreateFails, SetState, StateLost
<1>11. ASSUME handles' = handles \cup {n}, op' = Idle,
              \/ SetState(n, "active")
              \/ \E st \in {networks[n].state, "orphaned"} : StateLost(n, st)
       PROVE  TablesInv'
  BY <1>4, <1>9, <1>11 DEF SetState, StateLost
<1> QED
  BY <1>3, <1>8, <1>10, <1>11 DEF RecreateRelease, RecreateReserve

\* The control plane stops or dies at any step, starts, and serves again.
LEMMA RestartKeepsInv == ASSUME TablesInv, Stop \/ StartUp \/ Serve PROVE TablesInv'
<1>t. RestTypeOK /\ AttachmentsConsistent /\ Mirror /\ OpKnows
  BY DEF TablesInv
<1>1. UNCHANGED <<networks, attachments, default, late, nics>>
  BY DEF Stop, StartUp, Serve, tables
<1>2. RestTypeOK'
  <2>1. todo' \subseteq Nets /\ handles' \subseteq Nets /\ known' \subseteq VMs
        /\ mode' \in {"down", "rebuilding", "serving"} /\ checked' \in {checked, {}} /\ op' \in {op, Idle}
    BY <1>t DEF Stop, StartUp, Serve, RestTypeOK
  <2> QED
    BY <1>1, <2>1, <1>t DEF RestTypeOK, Op
<1>3. AttachmentsConsistent'
  BY <1>1, <1>t DEF AttachmentsConsistent, Exists
<1>4. OpKnows'
  BY <1>t DEF Stop, StartUp, Serve, OpKnows, Idle
<1>5. Mirror'
  <2>1. CASE Stop
    BY <2>1 DEF Stop, Mirror
  <2>2. CASE StartUp
    <3>1. handles' = {} /\ mode' = "rebuilding" /\ todo' = {n \in Nets : Exists(n)}
      BY <2>2, <1>t DEF StartUp, Mirror
    <3> QED
      BY <3>1, <1>1 DEF Mirror, IsVmnet, Unwritten, Exists
  <2>3. CASE Serve
    <3>1. UNCHANGED <<handles, todo, op>> /\ todo = {} /\ mode = "rebuilding" /\ mode' = "serving"
      BY <2>3 DEF Serve
    <3> QED
      BY <3>1, <1>1, <1>t DEF Mirror, IsVmnet, Unwritten, Exists, Recreating
  <2> QED
    BY <2>1, <2>2, <2>3
<1> QED
  BY <1>2, <1>3, <1>4, <1>5 DEF TablesInv

\* rebuild() gives every row the state that fits its handle.
LEMMA RebuildKeepsInv == ASSUME TablesInv, NEW n \in Nets, Rebuild(n) PROVE TablesInv'
<1>t. RestTypeOK /\ AttachmentsConsistent /\ Mirror /\ OpKnows
  BY DEF TablesInv
<1>1. /\ UNCHANGED <<attachments, default, mode, op, checked, nics, known>>
      /\ n \in todo /\ todo' = todo \ {n}
  BY DEF Rebuild
<1>2. /\ Exists(n) /\ n \notin handles /\ mode = "rebuilding" /\ op = Idle
      /\ networks[n].cfg \in Configs
  <2>1. Exists(n) /\ n \notin handles /\ mode = "rebuilding"
    BY <1>1, <1>t DEF Mirror
  <2> QED
    BY <2>1, <1>t, RowFields DEF OpKnows
<1>3. PICK c \in Configs : c = networks[n].cfg
  BY <1>2
<1>4. late' \subseteq Call
  <2>1. UNCHANGED late \/ AcquireFails(n, c)
    BY <1>3 DEF Rebuild
  <2> QED
    BY <2>1, <1>t, LateTyped DEF RestTypeOK
<1>5. PICK st \in {"active", "orphaned"} :
         /\ PutState(n, st, TRUE)
         /\ handles' = IF IsVmnet(n) /\ st = "active" THEN handles \cup {n} ELSE handles
  BY DEF Rebuild, SetState
<1>6. /\ networks' \in [Nets -> Row \cup {NoRow}]
      /\ \A o \in Nets : o # n => networks'[o] = networks[o]
      /\ \A o \in Nets : (Exists(o)' <=> Exists(o)) /\ (IsVmnet(o)' <=> IsVmnet(o))
      /\ \A o \in Nets : o # n => (Unwritten(o)' <=> Unwritten(o))
      /\ networks'[n].state = st /\ ~Unwritten(n)'
  BY <1>2, <1>5, <1>t, StateWritten
<1>7. RestTypeOK'
  BY <1>1, <1>4, <1>5, <1>6, <1>t DEF RestTypeOK
<1>8. AttachmentsConsistent'
  BY <1>1, <1>6, <1>t DEF AttachmentsConsistent, RestTypeOK, Attachment
<1>9. OpKnows'
  BY <1>1, <1>2 DEF OpKnows, Idle
<1>10. \A o \in Nets : ~Recreating(o) /\ ~Recreating(o)'
  BY <1>1, <1>2 DEF Recreating, Idle
<1>11. Mirror'
  <2>1. ASSUME NEW o \in Nets \ todo'
        PROVE  /\ (o \in handles') <=> (IsVmnet(o)' /\ networks'[o].state = "active" /\ ~Recreating(o)')
               /\ ~Unwritten(o)'
    <3>1. CASE o = n
      BY <3>1, <1>2, <1>5, <1>6, <1>10
    <3>2. CASE o # n
      BY <3>2, <1>1, <1>2, <1>5, <1>6, <1>10, <1>t DEF Mirror
    <3> QED
      BY <3>1, <3>2
  <2>2. \A o \in todo' : Exists(o)' /\ o \notin handles'
    BY <1>1, <1>5, <1>6, <1>t DEF Mirror, RestTypeOK
  <2>3. mode' = "rebuilding"
    BY <1>1, <1>2
  <2>4. handles' \subseteq Nets
    BY <1>5, <1>t DEF RestTypeOK
  <2> QED
    BY <2>1, <2>2, <2>3, <2>4 DEF Mirror
<1> QED
  BY <1>7, <1>8, <1>9, <1>11 DEF TablesInv

\* Networks, handles and processes stay; attachments and the next step change.
LEMMA EditKeepsInv ==
  ASSUME TablesInv, UNCHANGED <<networks, handles, mode, todo, nics, known>>,
         attachments' \subseteq Attachment, AttachmentsConsistent', OpKnows',
         default' \in Default \cup {NoDefault}, late' = late, checked' \subseteq checked,
         op' \in Op, ~(op.step \in {"recreateRelease", "recreateReserve"}),
         ~(op'.step \in {"recreateRelease", "recreateReserve"})
  PROVE  TablesInv'
<1>t. RestTypeOK /\ Mirror
  BY DEF TablesInv
<1>1. RestTypeOK'
  BY <1>t DEF RestTypeOK
<1>2. \A o \in Nets : ~Recreating(o) /\ ~Recreating(o)'
  BY DEF Recreating
<1>3. Mirror'
  BY <1>2, <1>t DEF Mirror, IsVmnet, Unwritten, Exists, RestTypeOK
<1> QED
  BY <1>1, <1>3 DEF TablesInv

\* The thread that holds the lock for an attachment operation.
LEMMA EditFacts ==
  ASSUME RestTypeOK, NEW vm \in VMs, Edit(vm)
  PROVE  /\ op = Idle /\ mode = "serving"
         /\ UNCHANGED <<handles, late, mode, todo, nics, known>>
         /\ checked' \subseteq checked
  BY DEF Edit, LockFree

\* What follows a new attachment.
LEMMA DropFacts ==
  ASSUME NEW vm \in VMs, NEW n \in Nets, ThenDropAutomatic(vm, n)
  PROVE  op' \in Op /\ op'.step \in {"idle", "dropAutomatic"}
  BY DEF ThenDropAutomatic, Op, Idle

\* Fewer attachments are consistent as well.
LEMMA FewerAttachments ==
  ASSUME RestTypeOK, AttachmentsConsistent, UNCHANGED networks, attachments' \subseteq attachments
  PROVE  attachments' \subseteq Attachment /\ AttachmentsConsistent'
  BY DEF RestTypeOK, AttachmentsConsistent, Exists

\* net.detach, vm.purge's detachAll, and dropping automatic attachments.
LEMMA DetachKeepsInv ==
  ASSUME TablesInv,
         \/ DropAutomatic
         \/ \E vm \in VMs : DetachAll(vm) \/ \E ref \in Refs, pr \in Projects : Detach(vm, ref, pr)
  PROVE  TablesInv'
<1>t. RestTypeOK /\ AttachmentsConsistent /\ OpKnows
  BY DEF TablesInv
<1>1. UNCHANGED <<networks, default, handles, mode, todo, late, nics, known>>
  BY DEF DropAutomatic, DetachAll, Detach, Edit, processes
<1>2. attachments' \subseteq attachments /\ checked' \subseteq checked
  BY DEF DropAutomatic, DetachAll, Detach, Edit, processes
<1>3. op' = Idle /\ op.step \in {"idle", "dropAutomatic"}
  <2>1. CASE DropAutomatic
    BY <2>1 DEF DropAutomatic
  <2>2. ASSUME NEW vm \in VMs, DetachAll(vm) \/ \E ref \in Refs, pr \in Projects : Detach(vm, ref, pr)
        PROVE  op' = Idle /\ op = Idle
    BY <2>2 DEF DetachAll, Detach, Edit, LockFree
  <2> QED
    BY <2>1, <2>2 DEF Idle
<1>4. op' \in Op /\ op'.step = "idle" /\ OpKnows'
  BY <1>3 DEF Op, Idle, OpKnows
<1> QED
  BY <1>1, <1>2, <1>3, <1>4, <1>t, FewerAttachments, EditKeepsInv DEF RestTypeOK

\* A new attachment to an existing network, at an address nobody has there.
LEMMA NewAttachment ==
  ASSUME RestTypeOK, AttachmentsConsistent, UNCHANGED networks,
         NEW new \in Attachment, Exists(new.net), NEW kept, kept \subseteq attachments,
         attachments' = kept \cup {new},
         \A a \in kept : a.net = new.net => a.vm # new.vm /\ a.ip # new.ip
  PROVE  attachments' \subseteq Attachment /\ AttachmentsConsistent'
<1>1. attachments' \subseteq Attachment
  BY DEF RestTypeOK
<1>2. ASSUME NEW a \in attachments' PROVE Exists(a.net)'
  BY <1>2 DEF AttachmentsConsistent, Exists
<1>3. ASSUME NEW a \in attachments', NEW b \in attachments', a.net = b.net, a.ip = b.ip \/ a.vm = b.vm
      PROVE  a = b
  <2>1. CASE a \in kept /\ b \in kept
    BY <1>3, <2>1 DEF AttachmentsConsistent
  <2>2. CASE a = new \/ b = new
    BY <1>3, <2>2
  <2> QED
    BY <2>1, <2>2
<1> QED
  BY <1>1, <1>2, <1>3 DEF AttachmentsConsistent

\* net.attach.
LEMMA AttachKeepsInv ==
  ASSUME TablesInv, NEW vm \in VMs, NEW ref, NEW project, NEW ip \in IPs, Attach(vm, ref, project, ip)
  PROVE  TablesInv'
<1>t. RestTypeOK /\ AttachmentsConsistent
  BY DEF TablesInv
<1>1. /\ op = Idle /\ mode = "serving" /\ checked' \subseteq checked
      /\ UNCHANGED <<handles, late, mode, todo, nics, known>>
  BY <1>t, EditFacts DEF Attach
<1>2. UNCHANGED <<networks, default>>
  BY DEF Attach
<1> DEFINE scope == IF project = NoProject THEN ProjectOf(vm) ELSE project
<1>3. PICK n \in Resolve(ref, scope, FALSE) :
        /\ \A a \in AttachedTo(n) : a.vm # vm => a.ip # ip
        /\ attachments' = {a \in attachments : a.vm # vm \/ a.net # n}
                          \cup {[vm |-> vm, net |-> n, ip |-> ip, auto |-> FALSE]}
        /\ ThenDropAutomatic(vm, n)
  BY DEF Attach
<1> HIDE DEF scope
<1>4. n \in Nets /\ Exists(n)
  BY ResolveFinds
<1> DEFINE new == [vm |-> vm, net |-> n, ip |-> ip, auto |-> FALSE]
           kept == {a \in attachments : a.vm # vm \/ a.net # n}
<1>5. new \in Attachment /\ new.net = n /\ new.vm = vm /\ new.ip = ip
  BY <1>4 DEF Attachment
<1>6. kept \subseteq attachments /\ \A a \in kept : a.net = n => a.vm # vm /\ a.ip # ip
  BY <1>3 DEF AttachedTo
<1>7. attachments' = kept \cup {new}
  BY <1>3
<1> HIDE DEF new, kept
<1>8. attachments' \subseteq Attachment /\ AttachmentsConsistent'
  BY <1>2, <1>4, <1>5, <1>6, <1>7, <1>t, NewAttachment
<1>9. op' \in Op /\ op'.step \in {"idle", "dropAutomatic"}
  BY <1>3, <1>4, DropFacts
<1>10. OpKnows'
  BY <1>1, <1>9 DEF OpKnows
<1> QED
  BY <1>1, <1>2, <1>8, <1>9, <1>10, <1>t, EditKeepsInv DEF RestTypeOK, Idle

\* ensureVMNetwork's loop over the guest addresses.
LEMMA AllocateKeepsInv == ASSUME TablesInv, Allocate PROVE TablesInv'
<1>t. RestTypeOK /\ AttachmentsConsistent /\ OpKnows
  BY DEF TablesInv
<1>1. op.step = "allocate"
  BY DEF Allocate
<1>2. /\ op.net \in Nets /\ op.vm \in VMs /\ op.auto \in BOOLEAN /\ mode = "serving"
      /\ Exists(op.net) /\ \A a \in attachments : a.net = op.net => a.vm # op.vm
  <2>1. op.net \in Nets /\ op.vm \in VMs /\ op.auto \in BOOLEAN /\ op # Idle
    BY <1>1, <1>t, OpFields
  <2> QED
    BY <1>1, <2>1, <1>t DEF OpKnows, RestTypeOK
<1>3. UNCHANGED <<networks, default, handles, late, mode, todo, checked, nics, known>>
  BY DEF Allocate, processes
<1>4. CASE op' = Idle /\ UNCHANGED attachments
  <2>1. op' \in Op /\ op'.step = "idle" /\ OpKnows'
    BY <1>4 DEF Op, Idle, OpKnows
  <2>2. attachments' \subseteq Attachment /\ AttachmentsConsistent'
    BY <1>3, <1>4, <1>t, FewerAttachments
  <2> QED
    BY <1>1, <1>3, <2>1, <2>2, EditKeepsInv, <1>t DEF RestTypeOK
<1>5. ASSUME NEW ip \in FreeGuests(op.net),
             attachments' = attachments \cup {[vm |-> op.vm, net |-> op.net, ip |-> ip, auto |-> op.auto]},
             ThenDropAutomatic(op.vm, op.net)
      PROVE  TablesInv'
  <2>1. PICK n \in Nets, vm \in VMs, auto \in BOOLEAN : n = op.net /\ vm = op.vm /\ auto = op.auto
    BY <1>2
  <2> DEFINE new == [vm |-> vm, net |-> n, ip |-> ip, auto |-> auto]
  <2>2. ip \in IPs /\ \A a \in attachments : a.net = n => a.ip # ip
    BY <2>1 DEF FreeGuests, AttachedTo
  <2>3. new \in Attachment /\ new.net = n /\ new.vm = vm /\ new.ip = ip
    BY <2>2 DEF Attachment
  <2>4. attachments' = attachments \cup {new}
    BY <1>5, <2>1
  <2> HIDE DEF new
  <2>5. attachments' \subseteq Attachment /\ AttachmentsConsistent'
    BY <1>2, <1>3, <2>1, <2>2, <2>3, <2>4, <1>t, NewAttachment
  <2>6. op' \in Op /\ op'.step \in {"idle", "dropAutomatic"}
    BY <1>5, <2>1, DropFacts
  <2>7. OpKnows'
    BY <1>2, <1>3, <2>6 DEF OpKnows
  <2> QED
    BY <1>1, <1>3, <2>5, <2>6, <2>7, <1>t, EditKeepsInv DEF RestTypeOK
<1> QED
  BY <1>4, <1>5 DEF Allocate

\* vm.network.ensure with a network.
LEMMA EnsureRequestedKeepsInv ==
  ASSUME TablesInv, NEW vm \in VMs, NEW ref, EnsureRequested(vm, ref)
  PROVE  TablesInv'
<1>t. RestTypeOK /\ AttachmentsConsistent
  BY DEF TablesInv
<1>1. /\ op = Idle /\ mode = "serving" /\ checked' \subseteq checked
      /\ UNCHANGED <<handles, late, mode, todo, nics, known>>
  BY <1>t, EditFacts DEF EnsureRequested
<1>2. UNCHANGED <<networks, default>> /\ op.step = "idle"
  BY <1>1 DEF EnsureRequested, Idle
<1>3. PICK n \in Resolve(ref, ProjectOf(vm), TRUE) :
        \/ \E a \in AttachmentsOf(vm) :
             /\ a.net = n
             /\ attachments' = (attachments \ {a}) \cup {[a EXCEPT !.auto = FALSE]}
             /\ UNCHANGED op
        \/ /\ \A a \in AttachmentsOf(vm) : a.net # n
           /\ op' = [step |-> "allocate", net |-> n, vm |-> vm, auto |-> FALSE]
           /\ UNCHANGED attachments
  BY DEF EnsureRequested
<1>4. n \in Nets /\ Exists(n)
  BY ResolveFinds
<1>5. ASSUME NEW a \in AttachmentsOf(vm), a.net = n, UNCHANGED op,
             attachments' = (attachments \ {a}) \cup {[a EXCEPT !.auto = FALSE]}
      PROVE  TablesInv'
  <2> DEFINE new == [a EXCEPT !.auto = FALSE]
             kept == attachments \ {a}
  <2>1. a \in attachments /\ a \in Attachment
    BY <1>t DEF AttachmentsOf, RestTypeOK
  <2>2. new \in Attachment /\ new.net = a.net /\ new.vm = a.vm /\ new.ip = a.ip
    BY <2>1 DEF Attachment
  <2>3. kept \subseteq attachments /\ \A b \in kept : b.net = a.net => b.vm # a.vm /\ b.ip # a.ip
    BY <2>1, <1>t DEF AttachmentsConsistent
  <2>4. attachments' = kept \cup {new}
    BY <1>5
  <2> HIDE DEF new, kept
  <2>5. attachments' \subseteq Attachment /\ AttachmentsConsistent'
    BY <1>2, <1>4, <1>5, <2>2, <2>3, <2>4, <1>t, NewAttachment
  <2>6. op' \in Op /\ op'.step = "idle" /\ OpKnows'
    BY <1>1, <1>5 DEF Op, Idle, OpKnows
  <2> QED
    BY <1>1, <1>2, <2>5, <2>6, <1>t, EditKeepsInv DEF RestTypeOK
<1>6. CASE /\ \A a \in AttachmentsOf(vm) : a.net # n
           /\ op' = [step |-> "allocate", net |-> n, vm |-> vm, auto |-> FALSE]
           /\ UNCHANGED attachments
  <2>1. op' \in Op /\ op'.step = "allocate"
    <3>1. op' \in [step: {"allocate"}, net: Nets, vm: VMs, auto: BOOLEAN]
      BY <1>4, <1>6
    <3> QED
      BY <3>1 DEF Op
  <2>2. OpKnows'
    BY <1>1, <1>2, <1>4, <1>6 DEF OpKnows, AttachmentsOf, Exists
  <2>3. attachments' \subseteq Attachment /\ AttachmentsConsistent'
    BY <1>2, <1>6, <1>t, FewerAttachments
  <2> QED
    BY <1>1, <1>2, <2>1, <2>2, <2>3, <1>t, EditKeepsInv DEF RestTypeOK
<1> QED
  BY <1>3, <1>5, <1>6

\* The configured or inferred default is a network without project.
LEMMA DefaultTyped == ASSUME RestTypeOK PROVE DefaultRecords \subseteq Default
<1>1. CASE default # NoDefault
  BY <1>1 DEF RestTypeOK, DefaultRecords
<1>2. ASSUME default = NoDefault, NEW d \in DefaultRecords PROVE d \in Default
  <2>1. PICK n \in GlobalNets : Exists(n) /\ d = [net |-> n, cidr |-> networks[n].cfg.cidr]
    BY <1>2 DEF DefaultRecords
  <2>2. n \in Nets /\ networks[n].cfg \in Configs
    BY <2>1, RowFields DEF GlobalNets
  <2> QED
    BY <2>1, <2>2 DEF Configs, Default
<1> QED
  BY <1>1, <1>2

\* vm.network.ensure without a network.
LEMMA EnsureDefaultKeepsInv ==
  ASSUME TablesInv, NEW vm \in VMs, EnsureDefault(vm)
  PROVE  TablesInv'
<1>t. RestTypeOK /\ AttachmentsConsistent
  BY DEF TablesInv
<1>1. /\ op = Idle /\ mode = "serving" /\ checked' \subseteq checked
      /\ UNCHANGED <<handles, late, mode, todo, nics, known>>
  BY <1>t, EditFacts DEF EnsureDefault
<1>2. UNCHANGED <<networks, attachments>> /\ op.step = "idle"
  BY <1>1 DEF EnsureDefault, Idle
<1>3. PICK d \in DefaultRecords :
        /\ default' = d
        /\ \/ /\ DefaultUsable(d)
              /\ op' = IF \E a \in AttachmentsOf(vm) : a.net = d.net THEN Idle
                       ELSE [step |-> "allocate", net |-> d.net, vm |-> vm, auto |-> TRUE]
           \/ StartCreate(d.net, DefaultConfig(d), "ensure", vm)
           \/ UNCHANGED op
  BY DEF EnsureDefault
<1>4. d \in Default /\ d.net \in Nets /\ DefaultConfig(d) \in Configs
  <2>1. d \in Default
    BY <1>t, DefaultTyped
  <2> QED
    BY <2>1 DEF Default, GlobalNets, DefaultConfig, Configs
<1>5. attachments' \subseteq Attachment /\ AttachmentsConsistent'
  BY <1>2, <1>t, FewerAttachments
<1>6. op' \in Op /\ OpKnows' /\ ~(op'.step \in {"recreateRelease", "recreateReserve"})
  <2>1. CASE op' = Idle
    BY <2>1 DEF Op, Idle, OpKnows
  <2>2. CASE /\ DefaultUsable(d) /\ ~\E a \in AttachmentsOf(vm) : a.net = d.net
             /\ op' = [step |-> "allocate", net |-> d.net, vm |-> vm, auto |-> TRUE]
    <3>1. op' \in [step: {"allocate"}, net: Nets, vm: VMs, auto: BOOLEAN]
      BY <1>4, <2>2
    <3> QED
      BY <3>1, <1>1, <1>2, <2>2 DEF Op, OpKnows, DefaultUsable, AttachmentsOf, Exists
  <2>3. CASE StartCreate(d.net, DefaultConfig(d), "ensure", vm)
    <3>1. /\ op' = [step |-> "reserve", net |-> d.net, cfg |-> DefaultConfig(d), then |-> "ensure", vm |-> vm]
          /\ ~Exists(d.net)
      BY <2>3 DEF StartCreate, Creatable
    <3> QED
      BY <3>1, <1>1, <1>2, <1>4 DEF Op, Creating, OpKnows, Exists
  <2> QED
    BY <1>1, <1>3, <2>1, <2>2, <2>3
<1> QED
  BY <1>1, <1>2, <1>3, <1>4, <1>5, <1>6, <1>t, EditKeepsInv

-----------------------------------------------------------------------------
(* The theorems.                                                             *)

LEMMA TablesInvInit == Init => TablesInv
<1> SUFFICES ASSUME Init PROVE TablesInv
  OBVIOUS
<1>1. RestTypeOK
  BY DEF Init, RestTypeOK, Op
<1> QED
  BY <1>1 DEF Init, TablesInv, AttachmentsConsistent, Mirror, OpKnows, Idle, IsVmnet, Unwritten, Exists

LEMMA TablesInvNext == TablesInv /\ [Next]_vars => TablesInv'
<1> SUFFICES ASSUME TablesInv, [Next]_vars PROVE TablesInv'
  OBVIOUS
<1>1. CASE NetworkOperation
  BY <1>1, StartsKeepInv, CreateDockerKeepsInv, ReserveKeepsInv, InsertKeepsInv, UndoKeepsInv,
     DeleteKeepsInv, RecreateRuntimeKeepsInv, RecreateKeepsInv DEF NetworkOperation
<1>2. CASE AttachmentOperation
  BY <1>2, ProcessesKeepInv, DetachKeepsInv, AttachKeepsInv, AllocateKeepsInv,
     EnsureRequestedKeepsInv, EnsureDefaultKeepsInv DEF AttachmentOperation
<1>3. CASE ProcessStep
  BY <1>3, ProcessesKeepInv, RestartKeepsInv, RebuildKeepsInv DEF ProcessStep
<1>4. CASE UNCHANGED vars
  BY <1>4, ProcessesKeepInv
<1> QED
  BY <1>1, <1>2, <1>3, <1>4 DEF Next

\* RegistryInv is inductive: vz-net's part and the registry's part together.
LEMMA RegistryInvariant == Spec => []RegistryInv
<1>1. RegistryInv <=> VzNetInv /\ TablesInv
  BY DEF RegistryInv, VzNetInv, TablesInv, NetTypeOK, RestTypeOK
<1>2. Init => RegistryInv
  <2>1. Init => VzNetInv
    BY DEF Init, VzNetInit, VzNetInv, CidrExclusive, Held
  <2> QED
    BY <1>1, <2>1, TablesInvInit
<1>3. RegistryInv /\ [Next]_vars => RegistryInv'
  <2>1. RegistryInv' <=> VzNetInv' /\ TablesInv'
    BY DEF RegistryInv, VzNetInv, TablesInv, NetTypeOK, RestTypeOK
  <2> QED
    BY <1>1, <2>1, NextIsVzNetStep, VzNetStepKeepsInv, TablesInvNext
<1> QED
  BY <1>2, <1>3, PTL DEF Spec

\* The types of every variable, with every fault, for every set of networks
\* and VMs; so ensureVMNetwork never hands out an address outside the CIDR.
THEOREM NetworkTypeCorrect == Spec => []NetTypeOK
<1>1. RegistryInv => NetTypeOK
  BY DEF RegistryInv
<1> QED
  BY <1>1, RegistryInvariant, PTL

\* vz-net never holds a CIDR for two networks (NetRuntimeStore.acquire),
\* although the control plane may crash, repeat itself or be overtaken by a
\* call it has given up on.
THEOREM CidrsExclusive == Spec => []CidrExclusive
<1>1. RegistryInv => CidrExclusive
  BY DEF RegistryInv
<1> QED
  BY <1>1, RegistryInvariant, PTL

\* Attachments name existing networks, are unique per VM and network and
\* never share an address (NetworkRegistry.attach, ensureVMNetwork, delete).
THEOREM AttachmentsStayConsistent == Spec => []AttachmentsConsistent
<1>1. RegistryInv => AttachmentsConsistent
  BY DEF RegistryInv
<1> QED
  BY <1>1, RegistryInvariant, PTL

\* While the control plane serves, the state column of a vmnet row says
\* whether the registry has a handle for it, under every fault, but for a
\* recreate whose own write of the column was lost; a restart ends that too
\* (rebuild, recreateRuntime, create, delete).
THEOREM RowsShowHandles == Spec => [](HandlesMirrorRows /\ RebuildHeals)
<1>1. RegistryInv => HandlesMirrorRows /\ RebuildHeals
  BY DEF RegistryInv, Mirror, HandlesMirrorRows, RebuildHeals, Recreating
<1> QED
  BY <1>1, RegistryInvariant, PTL

\* Rows, handles and reservations agree as far as they can under every fault:
\* no CIDR is held twice, and a row says "active" exactly when there is a
\* handle, unless a recreate could not write it since the last start.
THEOREM RegistryIsSound == Spec => []RegistrySound
<1>1. CidrExclusive /\ HandlesMirrorRows /\ RebuildHeals => RegistrySound
  BY DEF RegistrySound
<1> QED
  BY <1>1, CidrsExclusive, RowsShowHandles, PTL

-----------------------------------------------------------------------------
(* Reservations follow the table, when every call to vz-net is answered.     *)

\* What vz-net holds for a row is the row's configuration, and somebody knows:
\* the registry by its handle, a rebuild that has still to visit the row, or
\* the recreate that holds the lock. A network about to be released has no row.
Follows(n) ==
    /\ IsVmnet(n) /\ Held(n) =>
         /\ reserved[n] = networks[n].cfg
         /\ n \in handles \/ n \in todo \/ mode = "down" \/ Recreating(n)
    /\ op.step = "insert" /\ op.net = n /\ Held(n) => reserved[n] = op.cfg
    /\ op.step \in {"undo", "release"} /\ op.net = n => ~Exists(n)

\* While vz-net does not restart, a handle stands for a reservation.
Backed(n) ==
    /\ n \in handles => IsVmnet(n) /\ reserved[n] = networks[n].cfg
    /\ op.step = "insert" /\ op.net = n => Held(n)

\* While no operation is cut short, what vz-net holds has a row, or belongs to
\* the operation that holds the lock.
Owed(n) ==
    Held(n) => IsVmnet(n) \/ (op.step \in {"insert", "undo", "release"} /\ op.net = n)

ReservationOf(n) ==
    /\ Follows(n)
    /\ "vznet" \notin Faults => Backed(n)
    /\ "crash" \notin Faults => Owed(n)

ReservationInv == late = {} /\ \A n \in Nets : ReservationOf(n)

\* Without lost calls a failed call was refused.
LEMMA FailedIsRefused ==
  ASSUME "lost" \notin Faults
  PROVE  /\ \A n, c : AcquireFails(n, c) => AcquireRefused(n, c) /\ UNCHANGED late
         /\ \A n : ReleaseFails(n) => ReleaseRefused(n) /\ UNCHANGED late
BY DEF AcquireFails, ReleaseFails, Unanswered

Owing == {"insert", "undo", "release", "recreateRelease", "recreateReserve"}

\* A network that neither the tables nor the operation touch.
LEMMA UntouchedNetwork ==
  ASSUME NEW n \in Nets, ReservationOf(n), reserved'[n] = reserved[n], networks'[n] = networks[n],
         n \in handles' <=> n \in handles, n \in todo' <=> n \in todo, mode' = mode,
         op.step \notin Owing \/ op.net # n, op'.step \notin Owing \/ op'.net # n
  PROVE  ReservationOf(n)'
BY DEF ReservationOf, Follows, Backed, Owed, IsVmnet, Exists, Held, Recreating, Owing

\* An operation that moves between steps that owe nothing.
LEMMA OwesNothing ==
  ASSUME ReservationInv, UNCHANGED <<reserved, networks, handles, mode, todo, late>>,
         op.step \notin Owing, op'.step \notin Owing
  PROVE  ReservationInv'
BY UntouchedNetwork DEF ReservationInv

\* Steps that leave reservations, rows and handles alone.
LEMMA QuietReservations ==
  ASSUME ReservationInv
  PROVE  /\ \A n \in Nets, c \in Configs : Create(n, c) => ReservationInv'
         /\ \A d \in Default : SetDefault(d) => ReservationInv'
         /\ AttachmentOperation => ReservationInv'
         /\ \A vm \in VMs : HelperStarts(vm) \/ HelperStops(vm) \/ HelperHello(vm) => ReservationInv'
         /\ UNCHANGED vars => ReservationInv'
<1>1. ASSUME NEW n \in Nets, NEW c \in Configs, Create(n, c) PROVE ReservationInv'
  BY <1>1, OwesNothing DEF Create, StartCreate, LockFree, Idle, Owing, tables, processes
<1>2. ASSUME NEW d \in Default, SetDefault(d) PROVE ReservationInv'
  BY <1>2, OwesNothing DEF SetDefault, StartCreate, LockFree, Idle, Owing, processes
<1>3. ASSUME NEW vm \in VMs, HelperStarts(vm) PROVE ReservationInv'
  BY <1>3, OwesNothing DEF HelperStarts, LockFree, Idle, Owing, tables
<1>4. ASSUME UNCHANGED <<reserved, networks, handles, mode, todo, late, op>> PROVE ReservationInv'
  BY <1>4 DEF ReservationInv, ReservationOf, Follows, Backed, Owed, IsVmnet, Exists, Held, Recreating
<1>5. ASSUME NEW vm \in VMs, HelperStops(vm) \/ HelperHello(vm) PROVE ReservationInv'
  BY <1>4, <1>5 DEF HelperStops, HelperHello, tables
<1>6. ASSUME NEW vm \in VMs, CheckStopped(vm) \/ EditNothing(vm) \/ Purge(vm) \/ DetachAll(vm) PROVE ReservationInv'
  BY <1>4, <1>6 DEF CheckStopped, EditNothing, Edit, Purge, DetachAll, tables
<1>7. ASSUME NEW vm \in VMs, EnsureDefault(vm) PROVE ReservationInv'
  <2>1. op = Idle /\ UNCHANGED <<reserved, networks, handles, mode, todo, late>>
    BY <1>7 DEF EnsureDefault, Edit, LockFree
  <2>2. op'.step \in {"idle", "allocate", "reserve"}
    BY <1>7, <2>1 DEF EnsureDefault, StartCreate, Idle
  <2> QED BY <2>1, <2>2, OwesNothing DEF Idle, Owing
<1>8. ASSUME NEW vm \in VMs, NEW ref, NEW p, Detach(vm, ref, p) PROVE ReservationInv'
  BY <1>4, <1>8 DEF Detach, Edit
<1>9. ASSUME NEW vm \in VMs, NEW ref, NEW p, NEW ip, Attach(vm, ref, p, ip) PROVE ReservationInv'
  <2>1. op = Idle /\ UNCHANGED <<reserved, networks, handles, mode, todo, late>>
    BY <1>9 DEF Attach, Edit, LockFree
  <2>2. op'.step \in {"idle", "dropAutomatic"}
    BY <1>9 DEF Attach, ThenDropAutomatic, Idle
  <2> QED BY <2>1, <2>2, OwesNothing DEF Idle, Owing
<1>10. ASSUME NEW vm \in VMs, NEW ref, EnsureRequested(vm, ref) PROVE ReservationInv'
  <2>1. op = Idle /\ UNCHANGED <<reserved, networks, handles, mode, todo, late>>
    BY <1>10 DEF EnsureRequested, Edit, LockFree
  <2>2. op'.step \in {"idle", "allocate"}
    BY <1>10, <2>1 DEF EnsureRequested, Idle
  <2> QED BY <2>1, <2>2, OwesNothing DEF Idle, Owing
<1>11. ASSUME DropAutomatic PROVE ReservationInv'
  BY <1>11, OwesNothing DEF DropAutomatic, Idle, Owing, processes
<1>12. ASSUME Allocate PROVE ReservationInv'
  <2>1. op.step = "allocate" /\ UNCHANGED <<reserved, networks, handles, mode, todo, late>>
    BY <1>12 DEF Allocate, processes
  <2>2. op'.step \in {"idle", "dropAutomatic"}
    BY <1>12 DEF Allocate, ThenDropAutomatic, Idle
  <2> QED BY <2>1, <2>2, OwesNothing DEF Owing
<1>13. AttachmentOperation => ReservationInv'
  BY <1>6, <1>7, <1>8, <1>9, <1>10, <1>11, <1>12 DEF AttachmentOperation
<1>14. UNCHANGED vars => ReservationInv'
  BY <1>4 DEF vars
<1> QED BY <1>1, <1>2, <1>3, <1>5, <1>13, <1>14

\* What the inductive invariant gives about the operation in progress.
LEMMA Situation ==
  ASSUME RegistryInv
  PROVE  /\ RestTypeOK /\ Mirror /\ OpKnows /\ reserved \in [Nets -> Configs \cup {Free}]
         /\ op.step # "idle" => op.net \in Nets /\ mode = "serving" /\ todo = {}
         /\ LockFree => op.step = "idle" /\ mode = "serving" /\ todo = {}
<1>1. RestTypeOK /\ Mirror /\ OpKnows /\ reserved \in [Nets -> Configs \cup {Free}]
  BY DEF RegistryInv, NetTypeOK, RestTypeOK
<1>2. op.step # "idle" => op # Idle
  BY DEF Idle
<1>3. op.step # "idle" => op.net \in Nets
  BY <1>1, OpFields
<1> QED BY <1>1, <1>2, <1>3 DEF OpKnows, Mirror, LockFree, Idle

\* createLocked's acquire.
LEMMA ReserveFollows ==
  ASSUME "lost" \notin Faults, "write" \notin Faults, RegistryInv, ReservationInv, Reserve PROVE ReservationInv'
<1>1. op.step = "reserve"
  BY DEF Reserve
<1>2. /\ reserved \in [Nets -> Configs \cup {Free}] /\ op.net \in Nets /\ ~Exists(op.net) /\ op.cfg \in Configs
      /\ op \in Creating /\ RestTypeOK /\ Mirror
  BY <1>1, Situation, OpFields DEF OpKnows
<1>3. UNCHANGED <<networks, handles, mode, todo>>
  BY DEF Reserve, tables, processes
<1>4. CASE AcquireFails(op.net, op.cfg) /\ op' = Idle
  BY <1>1, <1>3, <1>4, FailedIsRefused, OwesNothing DEF AcquireRefused, Idle, Owing
<1>5. CASE Acquire(op.net, op.cfg) /\ op' = [op EXCEPT !.step = "insert"] /\ UNCHANGED late
  <2>1. PICK m \in Nets, c \in Configs : m = op.net /\ c = op.cfg
    BY <1>2
  <2>2. op'.step = "insert" /\ op'.net = m /\ op'.cfg = c
    BY <1>2, <1>5, <2>1 DEF Creating
  <2>3. /\ reserved'[m] = c /\ reserved'[m] # Free /\ \A n \in Nets : n # m => reserved'[n] = reserved[n]
        /\ networks'[m] = NoRow /\ m \notin handles'
    BY <1>2, <1>3, <1>5, <2>1, FreeAssumption, Situation DEF Acquire, Exists, Mirror, IsVmnet
  <2>4. ASSUME NEW n \in Nets, n # m PROVE ReservationOf(n)'
    BY <1>1, <1>3, <2>1, <2>2, <2>3, <2>4, UntouchedNetwork DEF ReservationInv, Owing
  <2>5. ReservationOf(m)'
    BY <2>2, <2>3 DEF ReservationOf, Follows, Backed, Owed, Held, IsVmnet, Exists, Recreating
  <2> QED BY <1>5, <2>4, <2>5 DEF ReservationInv
<1> QED BY <1>4, <1>5 DEF Reserve

\* createLocked's insert.
LEMMA InsertFollows ==
  ASSUME RegistryInv, ReservationInv, Insert PROVE ReservationInv'
<1>1. op.step = "insert"
  BY DEF Insert
<1>2. op.net \in Nets /\ op.cfg \in Configs /\ RestTypeOK
  BY <1>1, Situation, OpFields
<1>3. PICK m \in Nets, c \in Configs : m = op.net /\ c = op.cfg
  BY <1>2
<1> DEFINE row == [cfg |-> c, backend |-> "vmnet", state |-> "active", written |-> TRUE]
<1>4. UNCHANGED <<reserved, mode, todo, late>> /\ handles' = handles \cup {m} /\ networks' = [networks EXCEPT ![m] = row]
  BY <1>3 DEF Insert, processes
<1>5. row \in Row /\ row.cfg = c /\ row.backend = "vmnet"
  BY DEF Row
<1>6. op'.step \in {"idle", "allocate"}
  BY DEF Insert, Idle
<1> HIDE DEF row
<1>7. networks'[m] = row /\ networks'[m] # NoRow /\ \A o \in Nets : o # m => networks'[o] = networks[o]
  BY <1>2, <1>4, <1>5, RowWritten DEF Exists
<1>8. ASSUME NEW n \in Nets, n # m PROVE ReservationOf(n)'
  BY <1>3, <1>4, <1>6, <1>7, <1>8, UntouchedNetwork DEF ReservationInv, Owing
<1>9. ReservationOf(m)'
  BY <1>1, <1>3, <1>4, <1>5, <1>6, <1>7 DEF ReservationInv, ReservationOf, Follows, Backed, Owed, Held, IsVmnet, Exists, Recreating
<1> QED BY <1>4, <1>8, <1>9 DEF ReservationInv

\* The failed insert, and the two ways a reservation is given back.
LEMMA ReleaseFollows ==
  ASSUME "lost" \notin Faults, "write" \notin Faults, RegistryInv, ReservationInv, InsertFails \/ Undo \/ ReleaseDeleted PROVE ReservationInv'
<1>1. op.step \in {"insert", "undo", "release"}
  BY DEF InsertFails, Undo, ReleaseDeleted
<1>2. /\ reserved \in [Nets -> Configs \cup {Free}] /\ op.net \in Nets /\ mode = "serving" /\ todo = {} /\ Mirror
      /\ op.step = "insert" => ~Exists(op.net)
  BY <1>1, Situation DEF OpKnows
<1>3. PICK m \in Nets : m = op.net
  BY <1>2
<1>4. ~Exists(m)
  BY <1>1, <1>2, <1>3 DEF ReservationInv, ReservationOf, Follows
<1>5. UNCHANGED <<networks, handles, mode, todo>> /\ m \notin handles /\ networks'[m] = NoRow
  BY <1>2, <1>4 DEF InsertFails, Undo, ReleaseDeleted, tables, processes, Mirror, IsVmnet, Exists
<1>6. CASE InsertFails
  <2>1. op' = [step |-> "undo", net |-> m] /\ UNCHANGED <<reserved, late>> /\ op.step = "insert"
    BY <1>3, <1>6 DEF InsertFails
  <2>2. op'.step = "undo" /\ op'.net = m
    BY <2>1
  <2>3. ASSUME NEW n \in Nets, n # m PROVE ReservationOf(n)'
    BY <1>3, <1>5, <2>1, <2>2, <2>3, UntouchedNetwork DEF ReservationInv, Owing
  <2>4. ReservationOf(m)'
    BY <1>5, <2>2 DEF ReservationOf, Follows, Backed, Owed, Held, IsVmnet, Exists, Recreating
  <2> QED BY <2>1, <2>3, <2>4 DEF ReservationInv
<1>7. CASE Undo \/ ReleaseDeleted
  <2>1. op' = Idle /\ (Release(m) \/ ReleaseRefused(m)) /\ UNCHANGED late
    BY <1>3, <1>7, FailedIsRefused DEF Undo, ReleaseDeleted
  <2>2. op'.step = "idle"
    BY <2>1 DEF Idle
  <2>3. reserved'[m] = Free /\ \A n \in Nets : n # m => reserved'[n] = reserved[n]
    BY <1>2, <2>1 DEF Release, ReleaseRefused, Held
  <2>4. ASSUME NEW n \in Nets, n # m PROVE ReservationOf(n)'
    BY <1>3, <1>5, <2>2, <2>3, <2>4, UntouchedNetwork DEF ReservationInv, Owing
  <2>5. ReservationOf(m)'
    BY <1>5, <2>2, <2>3 DEF ReservationOf, Follows, Backed, Owed, Held, IsVmnet, Exists, Recreating
  <2> QED BY <2>1, <2>4, <2>5 DEF ReservationInv
<1> QED BY <1>6, <1>7

\* A docker network.
LEMMA DockerFollows ==
  ASSUME RegistryInv, ReservationInv, NEW m \in Nets, NEW c \in Configs, CreateDocker(m, c) PROVE ReservationInv'
<1> DEFINE row == [cfg |-> c, backend |-> "docker", state |-> "active", written |-> TRUE]
<1>1. /\ UNCHANGED <<reserved, handles, mode, todo, op, late>> /\ networks' = [networks EXCEPT ![m] = row]
      /\ ~Exists(m) /\ LockFree
  BY DEF CreateDocker, Creatable, processes
<1>2. row \in Row /\ row.backend = "docker"
  BY DEF Row
<1> HIDE DEF row
<1>3. op.step = "idle" /\ todo = {} /\ mode = "serving" /\ RestTypeOK /\ m \notin handles
  BY <1>1, Situation DEF Mirror, IsVmnet
<1>4. networks'[m] = row /\ \A o \in Nets : o # m => networks'[o] = networks[o]
  BY <1>1, <1>2, <1>3, RowWritten
<1>5. ASSUME NEW n \in Nets, n # m PROVE ReservationOf(n)'
  BY <1>1, <1>3, <1>4, <1>5, UntouchedNetwork DEF ReservationInv, Owing
<1>6. "crash" \notin Faults => reserved[m] = Free
  BY <1>1, <1>3 DEF ReservationInv, ReservationOf, Owed, Held, IsVmnet
<1>7. ReservationOf(m)'
  BY <1>1, <1>2, <1>3, <1>4, <1>6 DEF ReservationOf, Follows, Backed, Owed, Held, IsVmnet, Exists, Recreating
<1> QED BY <1>1, <1>5, <1>7 DEF ReservationInv

\* delete: a network that vz-net holds has a handle, so it is released next.
LEMMA DeleteFollows ==
  ASSUME RegistryInv, ReservationInv, NEW ref, NEW project, Delete(ref, project) PROVE ReservationInv' /\ DeleteReleases
<1>1. PICK m \in Resolve(ref, project, FALSE) :
        /\ networks' = [networks EXCEPT ![m] = NoRow]
        /\ handles' = handles \ {m}
        /\ op' = IF m \in handles THEN [step |-> "release", net |-> m] ELSE Idle
  BY DEF Delete
<1>2. m \in Nets /\ Exists(m)
  BY ResolveFinds
<1>3. UNCHANGED <<reserved, mode, todo, late>> /\ op.step = "idle" /\ todo = {} /\ mode = "serving" /\ RestTypeOK
  BY Situation DEF Delete, processes
<1>4. networks'[m] = NoRow /\ \A o \in Nets : o # m => networks'[o] = networks[o]
  BY <1>1, <1>2, <1>3 DEF RestTypeOK
<1>5. \/ m \in handles /\ op'.step = "release" /\ op'.net = m
      \/ m \notin handles /\ op'.step = "idle"
  BY <1>1 DEF Idle
<1>6. IsVmnet(m) /\ Held(m) => m \in handles
  BY <1>2, <1>3 DEF ReservationInv, ReservationOf, Follows, Recreating
<1>7. ASSUME NEW n \in Nets, n # m PROVE ReservationOf(n)'
  BY <1>1, <1>3, <1>4, <1>5, <1>7, UntouchedNetwork DEF ReservationInv, Owing
<1>8. "crash" \notin Faults /\ Held(m) => op'.step = "release" /\ op'.net = m
  BY <1>2, <1>3, <1>5, <1>6 DEF ReservationInv, ReservationOf, Owed
<1>9. ReservationOf(m)'
  BY <1>1, <1>3, <1>4, <1>5, <1>8 DEF ReservationOf, Follows, Backed, Owed, Held, IsVmnet, Exists, Recreating
<1>10. DeleteReleases
  BY <1>1, <1>4, <1>6 DEF DeleteReleases, IsVmnet, Exists
<1> QED BY <1>3, <1>7, <1>9, <1>10 DEF ReservationInv

LEMMA RecreateRuntimeFollows ==
  ASSUME RegistryInv, ReservationInv, NEW m \in Nets, RecreateRuntime(m) PROVE ReservationInv'
<1>1. /\ UNCHANGED <<reserved, networks, mode, todo, late>> /\ handles' = handles \ {m} /\ m \in handles
      /\ op' = [step |-> "recreateRelease", net |-> m] /\ LockFree
  BY DEF RecreateRuntime, tables, processes
<1>2. op.step = "idle" /\ todo = {} /\ mode = "serving" /\ IsVmnet(m) /\ networks[m] # NoRow
  BY <1>1, Situation DEF Mirror, IsVmnet, Exists
<1>3. op'.step = "recreateRelease" /\ op'.net = m
  BY <1>1
<1>4. ASSUME NEW n \in Nets, n # m PROVE ReservationOf(n)'
  BY <1>1, <1>2, <1>3, <1>4, UntouchedNetwork DEF ReservationInv, Owing
<1>5. ReservationOf(m)'
  BY <1>1, <1>2, <1>3 DEF ReservationInv, ReservationOf, Follows, Backed, Owed, Held, IsVmnet, Exists, Recreating
<1> QED BY <1>1, <1>4, <1>5 DEF ReservationInv

\* recreateRuntime's release and acquire; a failure leaves nothing held.
LEMMA RecreateFollows ==
  ASSUME "lost" \notin Faults, "write" \notin Faults, RegistryInv, ReservationInv, RecreateRelease \/ RecreateReserve PROVE ReservationInv'
<1>1. op.step \in {"recreateRelease", "recreateReserve"}
  BY DEF RecreateRelease, RecreateReserve
<1>2. /\ reserved \in [Nets -> Configs \cup {Free}] /\ op.net \in Nets /\ mode = "serving" /\ todo = {} /\ Mirror /\ RestTypeOK
      /\ IsVmnet(op.net)
  BY <1>1, Situation DEF OpKnows
<1>3. PICK m \in Nets : m = op.net
  BY <1>2
<1>4. /\ IsVmnet(m) /\ Exists(m) /\ networks[m].cfg \in Configs /\ m \notin handles /\ UNCHANGED <<mode, todo>>
      /\ Held(m) => reserved[m] = networks[m].cfg
  <2>1. Recreating(m)
    BY <1>1, <1>3 DEF Recreating
  <2>2. IsVmnet(m) /\ Exists(m) /\ networks[m].cfg \in Configs
    BY <1>2, <1>3, RowFields DEF IsVmnet
  <2>3. m \notin handles
    BY <1>2, <2>1 DEF Mirror
  <2>4. UNCHANGED <<mode, todo>>
    BY DEF RecreateRelease, RecreateReserve, processes
  <2> QED BY <2>2, <2>3, <2>4 DEF ReservationInv, ReservationOf, Follows
<1>5. CASE Release(m) /\ op' = [op EXCEPT !.step = "recreateReserve"] /\ UNCHANGED <<networks, handles, late>> /\ op.step = "recreateRelease"
  <2>1. op'.step = "recreateReserve" /\ op'.net = m
    BY <1>2, <1>3, <1>5, OpFields
  <2>2. reserved'[m] = Free /\ \A n \in Nets : n # m => reserved'[n] = reserved[n]
    BY <1>2, <1>5 DEF Release
  <2>3. ASSUME NEW n \in Nets, n # m PROVE ReservationOf(n)'
    BY <1>3, <1>4, <1>5, <2>1, <2>2, <2>3, UntouchedNetwork DEF ReservationInv, Owing
  <2>4. ReservationOf(m)'
    BY <1>4, <1>5, <2>1, <2>2 DEF ReservationOf, Follows, Backed, Owed, Held, IsVmnet, Exists, Recreating
  <2> QED BY <1>5, <2>3, <2>4 DEF ReservationInv
<1>6. ASSUME NEW st \in {"active", "orphaned"}, SetState(m, st), op' = Idle, UNCHANGED late,
             \/ st = "active" /\ handles' = handles \cup {m} /\ Acquire(m, networks[m].cfg)
             \/ st = "orphaned" /\ handles' = handles /\ ~Held(m) /\ UNCHANGED reserved
      PROVE  ReservationInv'
  <2>1. /\ \A o \in Nets : o # m => networks'[o] = networks[o]
        /\ IsVmnet(m)' /\ networks'[m].cfg = networks[m].cfg
    BY <1>2, <1>4, <1>6, StateWritten DEF SetState
  <2>2. op'.step = "idle"
    BY <1>6 DEF Idle
  <2>3. /\ \A n \in Nets : n # m => reserved'[n] = reserved[n]
        /\ \/ m \in handles' /\ reserved'[m] = networks'[m].cfg
           \/ m \notin handles' /\ reserved'[m] = Free
    BY <1>2, <1>4, <1>6, <2>1 DEF Acquire, Held
  <2>4. ASSUME NEW n \in Nets, n # m PROVE ReservationOf(n)'
    BY <1>3, <1>4, <1>6, <2>1, <2>2, <2>3, <2>4, UntouchedNetwork DEF ReservationInv, Owing
  <2>5. ReservationOf(m)'
    BY <1>4, <2>1, <2>2, <2>3 DEF ReservationOf, Follows, Backed, Owed, Held, IsVmnet
  <2> QED BY <1>6, <2>4, <2>5 DEF ReservationInv
<1>7. CASE RecreateRelease
  BY <1>3, <1>5, <1>6, <1>7, FailedIsRefused DEF RecreateRelease, RecreateFails, StateLost, ReleaseRefused
<1>8. CASE RecreateReserve
  <2>1. AcquireFails(m, networks[m].cfg) => ~Held(m) /\ UNCHANGED <<reserved, late>>
    BY <1>4, FailedIsRefused DEF AcquireRefused
  <2> QED BY <1>3, <1>6, <1>8, <2>1 DEF RecreateReserve, RecreateFails, StateLost
<1> QED BY <1>7, <1>8

\* rebuild() visits a row: what vz-net holds for it, it is given again.
LEMMA RebuildFollows ==
  ASSUME "lost" \notin Faults, "write" \notin Faults, RegistryInv, ReservationInv, NEW m \in Nets, Rebuild(m) PROVE ReservationInv'
<1>1. UNCHANGED <<mode, op>> /\ todo' = todo \ {m} /\ m \in todo
  BY DEF Rebuild
<1>2. /\ RestTypeOK /\ Exists(m) /\ m \notin handles /\ op.step = "idle" /\ reserved \in [Nets -> Configs \cup {Free}]
      /\ networks[m].cfg \in Configs
  <2>1. RestTypeOK /\ Exists(m) /\ m \notin handles /\ reserved \in [Nets -> Configs \cup {Free}]
    BY <1>1, Situation DEF Mirror
  <2>2. op.step = "idle"
    BY <1>1, Situation
  <2> QED BY <2>1, <2>2, RowFields
<1>3. IsVmnet(m) /\ Held(m) => reserved[m] = networks[m].cfg
  BY DEF ReservationInv, ReservationOf, Follows
<1>4. PICK st \in {"active", "orphaned"} :
        /\ SetState(m, st) /\ UNCHANGED late
        /\ \/ ~IsVmnet(m) /\ UNCHANGED <<reserved, handles>>
           \/ IsVmnet(m) /\ Acquire(m, networks[m].cfg) /\ handles' = handles \cup {m}
           \/ IsVmnet(m) /\ ~Held(m) /\ UNCHANGED <<reserved, handles>>
  BY <1>3, FailedIsRefused DEF Rebuild, AcquireRefused
<1>5. \A o \in Nets : o # m => networks'[o] = networks[o]
  BY <1>2, <1>4, StateWritten DEF SetState
<1>6. (IsVmnet(m)' <=> IsVmnet(m)) /\ networks'[m].cfg = networks[m].cfg
  BY <1>2, <1>4, StateWritten DEF SetState
<1>7. /\ \A n \in Nets : n # m => reserved'[n] = reserved[n]
      /\ \/ ~IsVmnet(m)' /\ m \notin handles' /\ reserved'[m] = reserved[m]
         \/ IsVmnet(m)' /\ m \in handles' /\ reserved'[m] = networks'[m].cfg
         \/ IsVmnet(m)' /\ m \notin handles' /\ reserved'[m] = Free
  BY <1>2, <1>4, <1>6 DEF Acquire, Held
<1>8. ASSUME NEW n \in Nets, n # m PROVE ReservationOf(n)'
  BY <1>1, <1>2, <1>4, <1>5, <1>7, <1>8, UntouchedNetwork DEF ReservationInv, Owing
<1>9. ReservationOf(m)'
  BY <1>1, <1>2, <1>6, <1>7 DEF ReservationInv, ReservationOf, Follows, Backed, Owed, Held
<1> QED BY <1>4, <1>8, <1>9 DEF ReservationInv

\* Restarts and crashes of the control plane, and of vz-net.
LEMMA RestartFollows ==
  ASSUME RegistryInv, ReservationInv, Stop \/ StartUp \/ Serve \/ VzNetDies PROVE ReservationInv'
<1>1. UNCHANGED networks /\ Mirror /\ OpKnows
  BY Situation DEF Stop, StartUp, Serve, VzNetDies, tables
<1>2. CASE Stop
  <2>1. handles' = {} /\ op'.step = "idle" /\ mode' = "down" /\ UNCHANGED <<reserved, late>>
    BY <1>2 DEF Stop, Idle
  <2>2. "crash" \notin Faults => op.step = "idle"
    BY <1>2, Situation DEF Stop
  <2>3. ASSUME NEW n \in Nets PROVE ReservationOf(n)'
    BY <1>1, <2>1, <2>2 DEF ReservationInv, ReservationOf, Follows, Backed, Owed, Held, IsVmnet, Exists
  <2> QED BY <2>1, <2>3 DEF ReservationInv
<1>3. CASE StartUp
  <2>1. UNCHANGED <<reserved, handles, op, late>> /\ mode' = "rebuilding" /\ todo' = {n \in Nets : Exists(n)}
    BY <1>3 DEF StartUp
  <2>2. ASSUME NEW n \in Nets PROVE ReservationOf(n)'
    BY <1>1, <2>1 DEF ReservationInv, ReservationOf, Follows, Backed, Owed, Held, IsVmnet, Exists
  <2> QED BY <2>1, <2>2 DEF ReservationInv
<1>4. CASE Serve
  <2>1. UNCHANGED <<reserved, handles, op, late, todo>> /\ mode = "rebuilding"
    BY <1>4 DEF Serve
  <2>2. ASSUME NEW n \in Nets PROVE ReservationOf(n)'
    BY <1>1, <2>1 DEF ReservationInv, ReservationOf, Follows, Backed, Owed, Held, IsVmnet, Exists, Recreating
  <2> QED BY <2>1, <2>2 DEF ReservationInv
<1>5. CASE VzNetDies
  <2>1. /\ "vznet" \in Faults /\ late' = {} /\ UNCHANGED <<handles, op, mode, todo>>
        /\ \A n \in Nets : reserved'[n] = Free
    BY <1>5 DEF VzNetDies, VzNetRestart, processes
  <2>2. ASSUME NEW n \in Nets PROVE ReservationOf(n)'
    BY <1>1, <2>1 DEF ReservationInv, ReservationOf, Follows, Backed, Owed, Held, IsVmnet, Exists
  <2> QED BY <2>1, <2>2 DEF ReservationInv
<1> QED BY <1>2, <1>3, <1>4, <1>5

LEMMA ReservationInvNext ==
  ASSUME "lost" \notin Faults, "write" \notin Faults, RegistryInv, ReservationInv, [Next]_vars PROVE ReservationInv'
<1>1. CASE NetworkOperation
  BY <1>1, QuietReservations, ReserveFollows, InsertFollows, ReleaseFollows, DockerFollows, DeleteFollows,
     RecreateRuntimeFollows, RecreateFollows DEF NetworkOperation
<1>2. CASE AttachmentOperation
  BY <1>2, QuietReservations
<1>3. CASE ProcessStep
  <2>1. late = {}
    BY DEF ReservationInv
  <2> QED BY <1>3, <2>1, QuietReservations, RebuildFollows, RestartFollows DEF ProcessStep
<1> QED BY <1>1, <1>2, <1>3, QuietReservations DEF Next

\* Only delete takes a row away.
LEMMA RowsGoByDelete ==
  ASSUME RegistryInv, ReservationInv, [Next]_vars PROVE DeleteReleases
<1>1. ASSUME UNCHANGED networks PROVE DeleteReleases
  BY <1>1 DEF DeleteReleases, IsVmnet, Exists
<1>2. ASSUME NEW m \in Nets, NEW row \in Row, networks' = [networks EXCEPT ![m] = row] PROVE DeleteReleases
  BY <1>2, RowWritten, Situation DEF DeleteReleases, IsVmnet
<1>3. ASSUME NEW m \in Nets, Exists(m), NEW st \in {"active", "orphaned"}, NEW w \in BOOLEAN, PutState(m, st, w)
      PROVE  DeleteReleases
  BY <1>3, StateWritten, Situation DEF DeleteReleases, IsVmnet
<1>4. CASE NetworkOperation
  <2>1. ASSUME NEW m \in Nets, NEW c \in Configs, CreateDocker(m, c) PROVE DeleteReleases
    <3>1. [cfg |-> c, backend |-> "docker", state |-> "active", written |-> TRUE] \in Row
      BY DEF Row
    <3> QED BY <1>2, <2>1, <3>1 DEF CreateDocker
  <2>2. CASE Insert
    <3>1. op.net \in Nets /\ op.cfg \in Configs
      BY <2>2, Situation, OpFields DEF Insert
    <3>2. [cfg |-> op.cfg, backend |-> "vmnet", state |-> "active", written |-> TRUE] \in Row
      BY <3>1 DEF Row
    <3> QED BY <1>2, <2>2, <3>1, <3>2 DEF Insert
  <2>3. CASE RecreateRelease \/ RecreateReserve
    <3>1. op.net \in Nets /\ Exists(op.net)
      BY <2>3, Situation DEF RecreateRelease, RecreateReserve, OpKnows, IsVmnet
    <3>2. networks[op.net].state \in {"active", "orphaned"}
      BY <3>1, RowFields, Situation DEF Row
    <3>3. \/ UNCHANGED networks
          \/ \E st \in {"active", "orphaned"}, w \in BOOLEAN : PutState(op.net, st, w)
      BY <2>3, <3>2 DEF RecreateRelease, RecreateReserve, RecreateFails, SetState, StateLost
    <3> QED BY <1>1, <1>3, <3>1, <3>3
  <2>4. CASE Reserve \/ InsertFails \/ Undo \/ ReleaseDeleted
    BY <1>1, <2>4 DEF Reserve, InsertFails, Undo, ReleaseDeleted, tables
  <2>5. ASSUME NEW m \in Nets, NEW c \in Configs, Create(m, c) PROVE DeleteReleases
    BY <1>1, <2>5 DEF Create, tables
  <2>6. ASSUME NEW d \in Default, SetDefault(d) PROVE DeleteReleases
    BY <1>1, <2>6 DEF SetDefault
  <2>7. ASSUME NEW m \in Nets, RecreateRuntime(m) PROVE DeleteReleases
    BY <1>1, <2>7 DEF RecreateRuntime, tables
  <2> QED BY <1>4, <2>1, <2>2, <2>3, <2>4, <2>5, <2>6, <2>7, DeleteFollows DEF NetworkOperation
<1>5. CASE AttachmentOperation
  BY <1>1, <1>5 DEF AttachmentOperation, CheckStopped, EditNothing, EnsureDefault, Purge, DetachAll,
     Detach, Attach, EnsureRequested, DropAutomatic, Allocate, tables
<1>6. CASE ProcessStep
  <2>1. ASSUME NEW m \in Nets, Rebuild(m) PROVE DeleteReleases
    <3>1. Exists(m)
      BY <2>1, Situation DEF Rebuild, Mirror
    <3> QED BY <1>3, <2>1, <3>1 DEF Rebuild, SetState
  <2>2. CASE Stop \/ StartUp \/ Serve \/ VzNetDies
    BY <1>1, <2>2 DEF Stop, StartUp, Serve, VzNetDies, tables
  <2>3. ASSUME NEW vm \in VMs, HelperStarts(vm) \/ HelperStops(vm) \/ HelperHello(vm) PROVE DeleteReleases
    BY <1>1, <2>3 DEF HelperStarts, HelperStops, HelperHello, tables
  <2>4. ASSUME NEW k \in late, LateCall(k) PROVE DeleteReleases
    BY <1>1, <2>4 DEF LateCall
  <2> QED BY <1>6, <2>1, <2>2, <2>3, <2>4 DEF ProcessStep
<1>7. CASE UNCHANGED vars
  BY <1>1, <1>7 DEF vars
<1> QED BY <1>4, <1>5, <1>6, <1>7 DEF Next

LEMMA ReservationInvariant == ASSUME "lost" \notin Faults, "write" \notin Faults PROVE Spec => []ReservationInv
<1>1. Init => ReservationInv
  BY DEF Init, VzNetInit, ReservationInv, ReservationOf, Follows, Backed, Owed, Held, Idle, IsVmnet, Exists
<1> QED BY <1>1, ReservationInvNext, RegistryInvariant, PTL DEF Spec

\* When every call to vz-net is answered, vz-net stays up and the database
\* takes the state of a network's runtime, the reservations follow the table
\* through restarts and crashes of the control plane between any two steps: a
\* handle stands for a reservation with the row's configuration, and a delete
\* of a network that is held goes on to release it
\* (NetworkRegistry.rebuild, recreateRuntime, delete).
THEOREM HandlesAreReservations ==
  ASSUME "lost" \notin Faults, "vznet" \notin Faults, "write" \notin Faults
  PROVE  Spec => ReservationsFollow
<1>1. RegistryInv /\ ReservationInv => HandlesBacked
  BY Situation DEF ReservationInv, ReservationOf, Backed, HandlesBacked, RestTypeOK
<1>2. RegistryInv /\ ReservationInv /\ [Next]_vars => DeleteReleases
  BY RowsGoByDelete
<1> QED BY <1>1, <1>2, RegistryInvariant, ReservationInvariant, PTL DEF Spec, ReservationsFollow

\* When every call to vz-net is answered, the database takes the state of a
\* network's runtime and no operation is cut short by a crash, what vz-net
\* holds has a row that a delete can find, with restarts of the control plane
\* between operations and of vz-net at any step.
THEOREM NothingIsStranded ==
  ASSUME "lost" \notin Faults, "crash" \notin Faults, "write" \notin Faults
  PROVE  Spec => []NoStrandedReservation
<1>1. ReservationInv => NoStrandedReservation
  BY DEF ReservationInv, ReservationOf, Owed, NoStrandedReservation, LockFree, Idle
<1> QED BY <1>1, ReservationInvariant, PTL

-----------------------------------------------------------------------------
(* Attachments are in force, while the control plane stays up and no helper *)
(* overtakes an RPC.                                                         *)

\* The operation in progress works for this VM.
Dropping(vm) == op.step = "dropAutomatic" /\ op.vm = vm
Ensuring(vm) ==
    /\ op.vm = vm
    /\ op.step = "allocate" \/ (op.step \in {"reserve", "insert"} /\ op.then = "ensure")

\* A VM whose attachments may change is off: the check was made before the
\* lock, and nothing starts it until the operation is over. A helper that runs
\* is known, so that a purge kills it.
VmQuiet(vm) ==
    /\ Dropping(vm) \/ Ensuring(vm) \/ <<vm, "edit">> \in checked \/ <<vm, "purge">> \in checked => nics[vm] = Off
    /\ nics[vm] # Off => vm \in known /\ nics[vm] = Nics(vm)

\* An automatic attachment is alone, or about to yield to the one just written,
\* which is explicit or one of automatic ones only.
Alone(vm) == \A a \in AttachmentsOf(vm) : a.auto => AttachmentsOf(vm) = {a}
VmYields(vm) ==
    /\ Alone(vm) \/ Dropping(vm)
    /\ Dropping(vm) => \A a, b \in AttachmentsOf(vm) : a.net = op.net /\ a.auto => b.auto
    /\ Ensuring(vm) => Explicit(vm) = {}

InForce(vm) == VmQuiet(vm) /\ VmYields(vm)
InForceInv == mode = "serving" /\ \A vm \in VMs : InForce(vm)

\* A VM the step does not touch.
LEMMA UntouchedVm ==
  ASSUME NEW vm \in VMs, InForce(vm), AttachmentsOf(vm)' = AttachmentsOf(vm), nics'[vm] = nics[vm], vm \in known => vm \in known',
         \A a \in AttachmentsOf(vm) : IsVmnet(a.net)' <=> IsVmnet(a.net),
         <<vm, "edit">> \in checked' => <<vm, "edit">> \in checked, <<vm, "purge">> \in checked' => <<vm, "purge">> \in checked,
         Dropping(vm)' => Dropping(vm) /\ op'.net = op.net, Dropping(vm) => Dropping(vm)' \/ Alone(vm), Ensuring(vm)' => Ensuring(vm)
  PROVE  InForce(vm)'
<1>1. Nics(vm)' = Nics(vm)
  BY DEF Nics, AttachmentsOf
<1>2. VmQuiet(vm)'
  BY <1>1 DEF InForce, VmQuiet
<1>3. VmYields(vm)'
  BY DEF InForce, VmYields, Alone, Explicit
<1> QED BY <1>2, <1>3 DEF InForce

\* Steps of network operations, of vz-net and of the clock: attachments and
\* helpers stay, and no row with attachments changes its backend.
LEMMA NetworksChange ==
  ASSUME InForceInv, RestTypeOK, UNCHANGED <<attachments, mode, nics, known, checked>>,
         \A a \in attachments : IsVmnet(a.net)' <=> IsVmnet(a.net),
         \A vm \in VMs : ~Dropping(vm) /\ ~Dropping(vm)' /\ (Ensuring(vm)' => Ensuring(vm))
  PROVE  InForceInv'
<1>1. ASSUME NEW vm \in VMs PROVE InForce(vm)'
  <2>1. AttachmentsOf(vm)' = AttachmentsOf(vm) /\ AttachmentsOf(vm) \subseteq attachments
    BY DEF AttachmentsOf
  <2> QED BY <2>1, UntouchedVm DEF InForceInv
<1> QED BY <1>1 DEF InForceInv

Serving == {"reserve", "insert", "allocate", "dropAutomatic"}

\* Every network operation.
LEMMA NetworkOperationInForce ==
  ASSUME RegistryInv, InForceInv, NetworkOperation PROVE InForceInv'
<1>t. RestTypeOK /\ Mirror /\ OpKnows /\ AttachmentsConsistent
  BY Situation DEF RegistryInv
<1>a. \A a \in attachments : a.net \in Nets /\ Exists(a.net)
  BY <1>t DEF AttachmentsConsistent, RestTypeOK, Attachment
<1>1. ASSUME UNCHANGED <<attachments, mode, nics, known, checked>>, op.step # "dropAutomatic", op'.step \notin Serving,
             \A a \in attachments : IsVmnet(a.net)' <=> IsVmnet(a.net)
      PROVE  InForceInv'
  BY <1>1, <1>t, NetworksChange DEF Dropping, Ensuring, Serving
<1>2. ASSUME UNCHANGED networks PROVE \A a \in attachments : IsVmnet(a.net)' <=> IsVmnet(a.net)
  BY <1>2 DEF IsVmnet, Exists
<1>3. ASSUME NEW m \in Nets, ~Exists(m), NEW row, networks' = [networks EXCEPT ![m] = row]
      PROVE  \A a \in attachments : IsVmnet(a.net)' <=> IsVmnet(a.net)
  BY <1>3, <1>a, <1>t DEF IsVmnet, Exists, RestTypeOK
<1>4. ASSUME NEW m \in Nets, Exists(m), NEW st \in {"active", "orphaned"}, NEW w \in BOOLEAN, PutState(m, st, w)
      PROVE  \A a \in attachments : IsVmnet(a.net)' <=> IsVmnet(a.net)
  BY <1>4, <1>a, <1>t, StateWritten
<1>5. ASSUME NEW m \in Nets, NEW c \in Configs, Create(m, c) PROVE InForceInv'
  <2>1. UNCHANGED <<networks, attachments, mode, nics, known, checked>> /\ op = Idle /\ op'.step = "reserve" /\ op'.then = "create"
    BY <1>5 DEF Create, StartCreate, LockFree, tables, processes
  <2> QED BY <1>2, <1>t, <2>1, NetworksChange DEF Dropping, Ensuring, Idle
<1>6. ASSUME NEW m \in Nets, NEW c \in Configs, CreateDocker(m, c) PROVE InForceInv'
  <2>1. UNCHANGED <<attachments, mode, nics, known, checked, op>> /\ op = Idle
    BY <1>6 DEF CreateDocker, LockFree, processes
  <2>2. \A a \in attachments : IsVmnet(a.net)' <=> IsVmnet(a.net)
    BY <1>3, <1>6 DEF CreateDocker, Creatable
  <2> QED BY <1>1, <2>1, <2>2 DEF Idle, Serving
<1>7. CASE Reserve
  <2>1. UNCHANGED <<networks, attachments, mode, nics, known, checked>> /\ op.step = "reserve"
    BY <1>7 DEF Reserve, tables, processes
  <2>2. op \in Creating
    BY <1>t, <2>1, OpFields
  <2>3. \/ op'.step = "insert" /\ op'.then = op.then /\ op'.vm = op.vm
        \/ op'.step = "idle"
    BY <1>7, <2>1, <2>2 DEF Reserve, Creating, Idle
  <2> QED BY <1>2, <1>t, <2>1, <2>3, NetworksChange DEF Dropping, Ensuring
<1>8. CASE Insert
  <2>1. UNCHANGED <<attachments, mode, nics, known, checked>> /\ op.step = "insert" /\ op.net \in Nets /\ ~Exists(op.net)
    BY <1>8, Situation DEF Insert, processes, OpKnows
  <2>2. \/ op'.step = "allocate" /\ op.then = "ensure" /\ op'.vm = op.vm
        \/ op'.step = "idle"
    BY <1>8 DEF Insert, Idle
  <2>3. \A a \in attachments : IsVmnet(a.net)' <=> IsVmnet(a.net)
    BY <1>3, <1>8, <2>1 DEF Insert
  <2> QED BY <1>t, <2>1, <2>2, <2>3, NetworksChange DEF Dropping, Ensuring
<1>9. CASE InsertFails \/ Undo \/ ReleaseDeleted
  <2>1. UNCHANGED <<networks, attachments, mode, nics, known, checked>> /\ op.step \in {"insert", "undo", "release"}
    BY <1>9 DEF InsertFails, Undo, ReleaseDeleted, tables, processes
  <2>2. op'.step \in {"idle", "undo"}
    BY <1>9 DEF InsertFails, Undo, ReleaseDeleted, Idle
  <2> QED BY <1>1, <1>2, <2>1, <2>2 DEF Serving
<1>10. ASSUME NEW d \in Default, SetDefault(d) PROVE InForceInv'
  <2>1. UNCHANGED <<networks, attachments, mode, nics, known, checked>> /\ op = Idle
    BY <1>10 DEF SetDefault, LockFree, processes
  <2>2. op' = Idle \/ (op'.step = "reserve" /\ op'.then = "setDefault")
    BY <1>10, <2>1 DEF SetDefault, StartCreate
  <2> QED BY <1>2, <1>t, <2>1, <2>2, NetworksChange DEF Dropping, Ensuring, Idle
<1>11. ASSUME NEW ref \in Refs, NEW p \in Projects, Delete(ref, p) PROVE InForceInv'
  <2>1. PICK m \in Resolve(ref, p, FALSE) :
          /\ Deletable(m) /\ networks' = [networks EXCEPT ![m] = NoRow]
          /\ op' = IF m \in handles THEN [step |-> "release", net |-> m] ELSE Idle
    BY <1>11 DEF Delete
  <2>2. UNCHANGED <<attachments, mode, nics, known, checked>> /\ op = Idle
    BY <1>11 DEF Delete, LockFree, processes
  <2>3. \A a \in attachments : a.net # m
    BY <2>1 DEF Deletable, AttachedTo
  <2>4. \A a \in attachments : IsVmnet(a.net)' <=> IsVmnet(a.net)
    BY <1>a, <1>t, <2>1, <2>3 DEF IsVmnet, Exists, RestTypeOK
  <2> QED BY <1>1, <2>1, <2>2, <2>4 DEF Idle, Serving
<1>12. ASSUME NEW m \in Nets, RecreateRuntime(m) PROVE InForceInv'
  <2>1. UNCHANGED <<networks, attachments, mode, nics, known, checked>> /\ op = Idle /\ op'.step = "recreateRelease"
    BY <1>12 DEF RecreateRuntime, LockFree, tables, processes
  <2> QED BY <1>1, <1>2, <2>1 DEF Idle, Serving
<1>13. CASE RecreateRelease \/ RecreateReserve
  <2>1. /\ UNCHANGED <<attachments, mode, nics, known, checked>> /\ op.step \in {"recreateRelease", "recreateReserve"}
    BY <1>13 DEF RecreateRelease, RecreateReserve, processes
  <2>2. op.net \in Nets /\ Exists(op.net)
    BY <2>1, Situation DEF OpKnows, IsVmnet
  <2>3. \/ UNCHANGED networks
        \/ \E st \in {"active", "orphaned"}, w \in BOOLEAN : PutState(op.net, st, w)
    <3>1. networks[op.net].state \in {"active", "orphaned"}
      BY <2>2, <1>t, RowFields DEF Row
    <3> QED BY <3>1, <1>13 DEF RecreateRelease, RecreateReserve, RecreateFails, SetState, StateLost
  <2>4. op'.step \in {"idle", "recreateReserve"}
    <3>1. op' = Idle \/ (op.step = "recreateRelease" /\ op' = [op EXCEPT !.step = "recreateReserve"])
      BY <1>13 DEF RecreateRelease, RecreateReserve, RecreateFails
    <3> QED BY <3>1, <1>t, OpFields DEF Idle
  <2>5. \A a \in attachments : IsVmnet(a.net)' <=> IsVmnet(a.net)
    BY <1>2, <1>4, <2>2, <2>3
  <2> QED BY <1>1, <2>1, <2>4, <2>5 DEF Serving
<1> QED BY <1>5, <1>6, <1>7, <1>8, <1>9, <1>10, <1>11, <1>12, <1>13 DEF NetworkOperation

\* An operation on one VM's attachments leaves the others alone.
LEMMA OneVmChanges ==
  ASSUME InForceInv, NEW v \in VMs, UNCHANGED <<networks, mode, nics, known>>, checked' \subseteq checked,
         \A w \in VMs : w # v => AttachmentsOf(w)' = AttachmentsOf(w),
         op.step = "idle" \/ (op.step \in Serving /\ op.vm = v), op'.step = "idle" \/ (op'.step \in Serving /\ op'.vm = v),
         InForce(v)'
  PROVE  InForceInv'
<1>1. ASSUME NEW w \in VMs, w # v PROVE InForce(w)'
  <2>1. ~Dropping(w) /\ ~Dropping(w)' /\ ~Ensuring(w) /\ ~Ensuring(w)'
    BY <1>1 DEF Dropping, Ensuring
  <2>2. \A a \in AttachmentsOf(w) : IsVmnet(a.net)' <=> IsVmnet(a.net)
    BY DEF IsVmnet, Exists
  <2> QED BY <1>1, <2>1, <2>2, UntouchedVm DEF InForceInv
<1> QED BY <1>1 DEF InForceInv

\* The VM of an operation is off, so only its attachments matter.
LEMMA OffVm ==
  ASSUME NEW v \in VMs, nics[v] = Off, UNCHANGED nics, VmYields(v)' PROVE InForce(v)'
BY DEF InForce, VmQuiet

\* The operations that check first.
LEMMA EditInForce ==
  ASSUME RegistryInv, InForceInv, NEW v \in VMs, Edit(v)
  PROVE  /\ RestTypeOK /\ AttachmentsConsistent /\ nics[v] = Off /\ op.step = "idle" /\ Alone(v)
         /\ UNCHANGED <<mode, nics, known>> /\ checked' \subseteq checked
<1>1. RestTypeOK /\ AttachmentsConsistent /\ op = Idle
  BY Situation DEF RegistryInv, Edit, LockFree
<1>2. op.step = "idle" /\ UNCHANGED <<mode, nics, known>> /\ checked' \subseteq checked /\ <<v, "edit">> \in checked
  BY <1>1, EditFacts DEF Edit, Idle
<1> QED BY <1>1, <1>2 DEF InForceInv, InForce, VmQuiet, VmYields, Dropping

\* net.attach.
LEMMA AttachInForce ==
  ASSUME RegistryInv, InForceInv, NEW v \in VMs, NEW ref, NEW p, NEW ip \in IPs, Attach(v, ref, p, ip) PROVE InForceInv'
<1>1. /\ RestTypeOK /\ nics[v] = Off /\ op.step = "idle" /\ Alone(v)
      /\ UNCHANGED <<networks, mode, nics, known>> /\ checked' \subseteq checked
  BY EditInForce DEF Attach
<1>2. PICK m \in Nets :
        /\ attachments' = {a \in attachments : a.vm # v \/ a.net # m} \cup {[vm |-> v, net |-> m, ip |-> ip, auto |-> FALSE]}
        /\ ThenDropAutomatic(v, m)
  BY ResolveFinds DEF Attach
<1> DEFINE new == [vm |-> v, net |-> m, ip |-> ip, auto |-> FALSE]
<1>3. new.vm = v /\ new.net = m /\ new.auto = FALSE
  OBVIOUS
<1>4. attachments' = {a \in attachments : a.vm # v \/ a.net # m} \cup {new}
  BY <1>2
<1> HIDE DEF new
<1>5. /\ \A w \in VMs : w # v => AttachmentsOf(w)' = AttachmentsOf(w)
      /\ AttachmentsOf(v)' = {a \in AttachmentsOf(v) : a.net # m} \cup {new}
  BY <1>3, <1>4 DEF AttachmentsOf
<1>6. \/ op'.step = "idle" /\ StaleAutomatic(v, m) = {}
      \/ op'.step = "dropAutomatic" /\ op'.vm = v /\ op'.net = m
  BY <1>2 DEF ThenDropAutomatic, Idle
<1>7. VmYields(v)'
  <2>1. CASE op'.step = "idle" /\ StaleAutomatic(v, m) = {}
    <3>1. \A a \in AttachmentsOf(v)' : ~a.auto
      BY <1>3, <1>5, <2>1 DEF StaleAutomatic
    <3> QED BY <2>1, <3>1 DEF VmYields, Alone, Dropping, Ensuring
  <2>2. CASE op'.step = "dropAutomatic" /\ op'.vm = v /\ op'.net = m
    <3>1. \A a \in AttachmentsOf(v)' : a.net = m => ~a.auto
      BY <1>3, <1>5
    <3> QED BY <2>2, <3>1 DEF VmYields, Dropping, Ensuring
  <2> QED BY <1>6, <2>1, <2>2
<1> QED BY <1>1, <1>5, <1>6, <1>7, OffVm, OneVmChanges DEF Serving

\* vm.network.ensure with a network.
LEMMA EnsureRequestedInForce ==
  ASSUME RegistryInv, InForceInv, NEW v \in VMs, NEW ref, EnsureRequested(v, ref) PROVE InForceInv'
<1>1. /\ RestTypeOK /\ nics[v] = Off /\ op.step = "idle" /\ Alone(v) /\ Explicit(v) = {}
      /\ UNCHANGED <<networks, mode, nics, known>> /\ checked' \subseteq checked
  BY EditInForce DEF EnsureRequested
<1>2. PICK m : 
         \/ \E a \in AttachmentsOf(v) :
              attachments' = (attachments \ {a}) \cup {[a EXCEPT !.auto = FALSE]} /\ UNCHANGED op
         \/ op' = [step |-> "allocate", net |-> m, vm |-> v, auto |-> FALSE] /\ UNCHANGED attachments
  BY DEF EnsureRequested
<1>3. ASSUME NEW a \in AttachmentsOf(v), attachments' = (attachments \ {a}) \cup {[a EXCEPT !.auto = FALSE]}, UNCHANGED op
      PROVE  InForceInv'
  <2> DEFINE new == [a EXCEPT !.auto = FALSE]
  <2>1. a \in Attachment /\ a.vm = v /\ a.auto = TRUE
    BY <1>1 DEF AttachmentsOf, RestTypeOK, Explicit, Attachment
  <2>2. new.vm = v /\ new.auto = FALSE /\ attachments' = (attachments \ {a}) \cup {new}
    BY <1>3, <2>1 DEF Attachment
  <2> HIDE DEF new
  <2>3. AttachmentsOf(v) = {a}
    BY <1>1, <2>1 DEF Alone
  <2>4. AttachmentsOf(v)' = {new} /\ \A w \in VMs : w # v => AttachmentsOf(w)' = AttachmentsOf(w)
    BY <2>1, <2>2, <2>3 DEF AttachmentsOf
  <2>5. VmYields(v)'
    BY <1>1, <1>3, <2>2, <2>4 DEF VmYields, Alone, Dropping, Ensuring
  <2> QED BY <1>1, <1>3, <2>4, <2>5, OffVm, OneVmChanges
<1>4. CASE op' = [step |-> "allocate", net |-> m, vm |-> v, auto |-> FALSE] /\ UNCHANGED attachments
  <2>1. op'.step = "allocate" /\ op'.vm = v
    BY <1>4
  <2>2. \A w \in VMs : AttachmentsOf(w)' = AttachmentsOf(w)
    BY <1>4 DEF AttachmentsOf
  <2>3. VmYields(v)'
    BY <1>1, <2>1, <2>2 DEF VmYields, Alone, Explicit, Dropping
  <2> QED BY <1>1, <2>1, <2>2, <2>3, OffVm, OneVmChanges DEF Serving
<1> QED BY <1>2, <1>3, <1>4

\* vm.network.ensure without a network.
LEMMA EnsureDefaultInForce ==
  ASSUME RegistryInv, InForceInv, NEW v \in VMs, EnsureDefault(v) PROVE InForceInv'
<1>1. /\ RestTypeOK /\ nics[v] = Off /\ op.step = "idle" /\ Alone(v) /\ Explicit(v) = {}
      /\ UNCHANGED <<networks, attachments, mode, nics, known>> /\ checked' \subseteq checked
  BY EditInForce DEF EnsureDefault
<1>2. op'.step = "idle" \/ (op'.step \in {"allocate", "reserve"} /\ op'.vm = v)
  BY <1>1 DEF EnsureDefault, StartCreate, Idle
<1>3. \A w \in VMs : AttachmentsOf(w)' = AttachmentsOf(w)
  BY <1>1 DEF AttachmentsOf
<1>4. VmYields(v)'
  BY <1>1, <1>2, <1>3 DEF VmYields, Alone, Explicit, Dropping
<1> QED BY <1>1, <1>2, <1>3, <1>4, OffVm, OneVmChanges DEF Serving

\* ensureVMNetwork's new attachment.
LEMMA AllocateInForce ==
  ASSUME RegistryInv, InForceInv, Allocate PROVE InForceInv'
<1>1. op.step = "allocate"
  BY DEF Allocate
<1>2. /\ RestTypeOK /\ op.net \in Nets /\ op.vm \in VMs /\ op.auto \in BOOLEAN
      /\ \A a \in attachments : a.net = op.net => a.vm # op.vm
  BY <1>1, Situation, OpFields DEF OpKnows
<1>3. PICK v \in VMs, m \in Nets, auto \in BOOLEAN : v = op.vm /\ m = op.net /\ auto = op.auto
  BY <1>2
<1>4. nics[v] = Off /\ Alone(v) /\ Explicit(v) = {} /\ UNCHANGED <<networks, mode, nics, known, checked>>
  BY <1>1, <1>3 DEF InForceInv, InForce, VmQuiet, VmYields, Dropping, Ensuring, Allocate, processes
<1>5. CASE op' = Idle /\ UNCHANGED attachments
  <2>1. \A w \in VMs : AttachmentsOf(w)' = AttachmentsOf(w)
    BY <1>5 DEF AttachmentsOf
  <2>2. VmYields(v)'
    BY <1>4, <1>5, <2>1 DEF VmYields, Alone, Dropping, Ensuring, Idle
  <2> QED BY <1>1, <1>3, <1>4, <1>5, <2>1, <2>2, OffVm, OneVmChanges DEF Serving, Idle
<1>6. ASSUME NEW ip, attachments' = attachments \cup {[vm |-> v, net |-> m, ip |-> ip, auto |-> auto]}, ThenDropAutomatic(v, m)
      PROVE  InForceInv'
  <2> DEFINE new == [vm |-> v, net |-> m, ip |-> ip, auto |-> auto]
  <2>1. new.vm = v /\ new.net = m /\ new.auto = auto /\ attachments' = attachments \cup {new}
    BY <1>6
  <2> HIDE DEF new
  <2>2. /\ \A w \in VMs : w # v => AttachmentsOf(w)' = AttachmentsOf(w)
        /\ AttachmentsOf(v)' = AttachmentsOf(v) \cup {new}
    BY <2>1 DEF AttachmentsOf
  <2>3. \A a \in AttachmentsOf(v) : a.net # m /\ a.auto
    BY <1>2, <1>3, <1>4 DEF AttachmentsOf, Explicit
  <2>4. \/ op'.step = "idle" /\ AttachmentsOf(v) = {}
        \/ op'.step = "dropAutomatic" /\ op'.vm = v /\ op'.net = m
    BY <1>6, <2>3 DEF ThenDropAutomatic, StaleAutomatic, Idle
  <2>5. CASE op'.step = "idle" /\ AttachmentsOf(v) = {}
    <3>1. VmYields(v)'
      BY <2>2, <2>5 DEF VmYields, Alone, Dropping, Ensuring
    <3> QED BY <1>1, <1>3, <1>4, <2>2, <2>5, <3>1, OffVm, OneVmChanges DEF Serving
  <2>6. CASE op'.step = "dropAutomatic" /\ op'.vm = v /\ op'.net = m
    <3>1. \A a, b \in AttachmentsOf(v)' : a.net = m /\ a.auto => b.auto
      BY <2>1, <2>2, <2>3
    <3>2. VmYields(v)'
      BY <2>6, <3>1 DEF VmYields, Dropping, Ensuring
    <3> QED BY <1>1, <1>3, <1>4, <2>2, <2>6, <3>2, OffVm, OneVmChanges DEF Serving
  <2> QED BY <2>4, <2>5, <2>6
<1> QED BY <1>3, <1>5, <1>6 DEF Allocate

\* Automatic attachments elsewhere are deleted: at most one stays, and only
\* without an explicit one.
LEMMA DropInForce ==
  ASSUME RegistryInv, InForceInv, DropAutomatic PROVE InForceInv'
<1>1. op.step = "dropAutomatic"
  BY DEF DropAutomatic
<1>2. RestTypeOK /\ AttachmentsConsistent /\ op.net \in Nets /\ op.vm \in VMs
  BY <1>1, Situation, OpFields DEF RegistryInv
<1>3. PICK v \in VMs, m \in Nets : v = op.vm /\ m = op.net
  BY <1>2
<1>4. /\ nics[v] = Off /\ (\A a, b \in AttachmentsOf(v) : a.net = m /\ a.auto => b.auto)
      /\ UNCHANGED <<networks, mode, nics, known, checked>> /\ op'.step = "idle"
      /\ attachments' = attachments \ StaleAutomatic(v, m)
  BY <1>1, <1>3 DEF InForceInv, InForce, VmQuiet, VmYields, Dropping, DropAutomatic, processes, Idle
<1>5. /\ \A w \in VMs : w # v => AttachmentsOf(w)' = AttachmentsOf(w)
      /\ AttachmentsOf(v)' = {a \in AttachmentsOf(v) : ~(a.auto /\ a.net # m)}
  BY <1>4 DEF AttachmentsOf, StaleAutomatic
<1>6. \A a, b \in AttachmentsOf(v) : a.net = b.net => a = b
  BY <1>2 DEF AttachmentsConsistent, AttachmentsOf
<1>7. \A a \in AttachmentsOf(v)' : a.auto => AttachmentsOf(v)' = {a}
  <2>1. ASSUME NEW a \in AttachmentsOf(v)', a.auto, NEW b \in AttachmentsOf(v)' PROVE b = a
    BY <1>4, <1>5, <1>6, <2>1
  <2> QED BY <2>1
<1>8. VmYields(v)'
  BY <1>4, <1>7 DEF VmYields, Alone, Dropping, Ensuring
<1> QED BY <1>1, <1>3, <1>4, <1>5, <1>8, OffVm, OneVmChanges DEF Serving

\* net.detach and detachAll.
LEMMA DetachInForce ==
  ASSUME RegistryInv, InForceInv, NEW v \in VMs, DetachAll(v) \/ \E ref \in Refs, p \in Projects : Detach(v, ref, p)
  PROVE  InForceInv'
<1>1. /\ UNCHANGED <<networks, mode, nics, known, op>> /\ op.step = "idle" /\ checked' \subseteq checked
      /\ <<v, "edit">> \in checked \/ <<v, "purge">> \in checked
  BY Situation DEF DetachAll, Detach, Edit
<1>2. nics[v] = Off /\ Alone(v)
  BY <1>1 DEF InForceInv, InForce, VmQuiet, VmYields, Dropping
<1>3. /\ AttachmentsOf(v)' \subseteq AttachmentsOf(v)
      /\ \A w \in VMs : w # v => AttachmentsOf(w)' = AttachmentsOf(w)
  BY DEF DetachAll, Detach, AttachmentsOf
<1>4. VmYields(v)'
  BY <1>1, <1>2, <1>3 DEF VmYields, Alone, Dropping, Ensuring
<1> QED BY <1>1, <1>2, <1>3, <1>4, OffVm, OneVmChanges

\* Checks, kills and helpers; without a race nothing starts a VM that an RPC
\* has looked at.
LEMMA HelpersInForce ==
  ASSUME Faults \cap {"restart", "crash", "race"} = {}, RegistryInv, InForceInv, NEW v \in VMs,
         CheckStopped(v) \/ EditNothing(v) \/ Purge(v) \/ HelperStarts(v) \/ HelperStops(v) \/ HelperHello(v)
  PROVE  InForceInv'
<1>1. UNCHANGED <<networks, attachments, mode, op>> /\ nics \in [VMs -> (SUBSET [net: Nets, ip: IPs]) \cup {Off}]
  BY Situation DEF CheckStopped, EditNothing, Edit, Purge, HelperStarts, HelperStops, HelperHello, tables, RestTypeOK
<1>2. \A w \in VMs : AttachmentsOf(w)' = AttachmentsOf(w) /\ Nics(w)' = Nics(w) /\ (VmYields(w)' <=> VmYields(w))
      /\ (Dropping(w)' <=> Dropping(w)) /\ (Ensuring(w)' <=> Ensuring(w))
  BY <1>1 DEF AttachmentsOf, Nics, IsVmnet, Exists, VmYields, Alone, Explicit, Dropping, Ensuring
<1>3. \A w \in VMs : w # v => /\ nics'[w] = nics[w] /\ (w \in known => w \in known')
                              /\ <<w, "edit">> \in checked' => <<w, "edit">> \in checked
                              /\ <<w, "purge">> \in checked' => <<w, "purge">> \in checked
  BY <1>1 DEF CheckStopped, EditNothing, Edit, Purge, HelperStarts, HelperStops, HelperHello
<1>4. ASSUME NEW w \in VMs, w # v PROVE InForce(w)'
  BY <1>2, <1>3, <1>4 DEF InForceInv, InForce, VmQuiet
<1>5. VmQuiet(v) /\ VmYields(v)
  BY DEF InForceInv, InForce
<1>6. VmQuiet(v)'
  <2>1. CASE CheckStopped(v) \/ EditNothing(v)
    BY <1>2, <1>5, <2>1 DEF CheckStopped, EditNothing, Edit, VmQuiet
  <2>2. CASE Purge(v)
    <3>1. nics'[v] = Off
      BY <1>1, <1>5, <2>2 DEF Purge, VmQuiet
    <3> QED BY <3>1 DEF VmQuiet
  <2>3. CASE HelperStarts(v)
    <3>1. nics'[v] = Nics(v) /\ v \in known' /\ UNCHANGED checked /\ <<v, "edit">> \notin checked /\ <<v, "purge">> \notin checked
      BY <1>1, <2>3 DEF HelperStarts
    <3>2. op = Idle /\ ~Dropping(v) /\ ~Ensuring(v)
      BY <2>3 DEF HelperStarts, LockFree, Idle, Dropping, Ensuring
    <3> QED BY <1>2, <3>1, <3>2 DEF VmQuiet
  <2>4. CASE HelperStops(v)
    <3>1. nics'[v] = Off
      BY <1>1, <2>4 DEF HelperStops
    <3> QED BY <3>1 DEF VmQuiet
  <2>5. CASE HelperHello(v)
    BY <1>5, <2>5 DEF HelperHello, VmQuiet
  <2> QED BY <2>1, <2>2, <2>3, <2>4, <2>5
<1> QED BY <1>1, <1>2, <1>4, <1>5, <1>6 DEF InForceInv, InForce

LEMMA InForceNext ==
  ASSUME Faults \cap {"restart", "crash", "race"} = {}, RegistryInv, InForceInv, [Next]_vars PROVE InForceInv'
<1>1. CASE AttachmentOperation
  BY <1>1, HelpersInForce, EnsureDefaultInForce, DetachInForce, AttachInForce, EnsureRequestedInForce, DropInForce,
     AllocateInForce DEF AttachmentOperation
<1>2. ASSUME UNCHANGED <<networks, attachments, mode, op, nics, known, checked>> PROVE InForceInv'
  BY <1>2 DEF InForceInv, InForce, VmQuiet, VmYields, Alone, Explicit, Dropping, Ensuring, AttachmentsOf, Nics, IsVmnet, Exists
<1>3. CASE ProcessStep
  <2>1. mode = "serving" /\ todo = {}
    BY Situation DEF InForceInv, Mirror
  <2>2. ~Stop /\ ~StartUp /\ ~Serve /\ \A n \in Nets : ~Rebuild(n)
    BY <2>1 DEF Stop, StartUp, Serve, Rebuild
  <2>3. VzNetDies \/ (\E k \in late : LateCall(k)) => InForceInv'
    BY <1>2 DEF VzNetDies, LateCall, tables, processes
  <2> QED BY <1>3, <2>2, <2>3, HelpersInForce DEF ProcessStep
<1>4. CASE UNCHANGED vars
  BY <1>2, <1>4 DEF vars
<1> QED BY <1>1, <1>3, <1>4, NetworkOperationInForce DEF Next

\* While the control plane stays up and no helper starts between the check of
\* a VM's state and the operation, a running helper has exactly the NICs of its
\* VM's attachments, and an automatic attachment has yielded to an explicit one;
\* for any networks and VMs, calls to vz-net lost or late, and vz-net restarting
\* (vmIsStopped, ensureVMNetwork, attach, vm.purge).
THEOREM AttachmentsAreInForce ==
  ASSUME Faults \cap {"restart", "crash", "race"} = {}
  PROVE  Spec => []AttachmentsInForce
<1>1. Init => InForceInv
  BY DEF Init, InForceInv, InForce, VmQuiet, VmYields, Alone, Explicit, AttachmentsOf, Dropping, Ensuring, Idle
<1>2. InForceInv => AttachmentsInForce
  <2>1. InForceInv => RunningNicsMatch
    BY DEF InForceInv, InForce, VmQuiet, RunningNicsMatch
  <2>2. InForceInv /\ op = Idle => \A vm \in VMs : Alone(vm)
    BY DEF InForceInv, InForce, VmYields, Dropping, Idle
  <2> QED BY <2>1, <2>2 DEF Alone, AttachmentsInForce, AutomaticYields
<1> QED BY <1>1, <1>2, InForceNext, RegistryInvariant, PTL DEF Spec
=============================================================================
