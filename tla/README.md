# A TLA+ verification of vzctl

vzctl runs declared stacks of Linux VMs on a macOS host: a Rust command line
tool, a Swift control plane (`vz-supervisor`) with helper daemons, and a desktop
UI. This directory models the parts that decide whether a host ends up in the
state its user asked for, checks them with TLC on small instances, and proves
the central invariants with TLAPS for every instance.

- [Inventory](#inventory)
- [Modules and how they correspond to the code](#modules-and-how-they-correspond-to-the-code)
- [Runs](#runs)
- [Findings](#findings)
- [Fairness](#fairness)
- [Proofs](#proofs)
- [What is not modelled](#what-is-not-modelled)
- [What is left](#what-is-left)

## Inventory

### Components

| Component | Process | State it keeps | Operations |
|---|---|---|---|
| Stack reconciler (`reconciler.rs`, `reconciler/`) | `vzctl`, one process per invocation | a position in the list of steps; a heartbeat thread | `plan`, `diff`, `up`, `apply`, `apply --resume`, `apply --abort`, `down`, `down --purge` |
| Plan and steps (`reconciler/*.rs`) | the same | none of its own; changes the host | desired resources, diff, dependency order; the steps of `up`, `apply`, `down` |
| Stack file (`config.rs`, `stack.rs`) | `vzctl` | `hypernetwork.config.yaml` and its `.tmp` | validation; `stack init`, `vm`, `net`, `volume`, `mount` |
| Apply journal and lease (`StateDatabase.swift`, `SupervisorRPCApply.swift`) | control plane, SQLite | tables `journal`, `locks`, `resources` | `stack.inspect`, `begin`, `heartbeat`, `step`, `finish`, `abort` |
| Network registry (`NetworkRegistry.swift`) | control plane, SQLite and memory | tables `networks`, `network_attachments`, `network_defaults`; handles | `net.create`, `delete`, `attach`, `detach`, `default`, `vm.network.ensure`, `helper.networks`, rebuild at start, `recreateRuntime` |
| vmnet owner (`NetRuntimeStore.swift`) | `vz-net` | live vmnet references, in memory only | acquire, release, list, verify, serialize |
| Network recovery (`NetworkResilience.swift`, `SupervisorNetworkRecovery.swift`) | control plane | generation, epoch, schedule, status | path update, sleep, wake, probe, retry, fallback |
| VM commands and helpers (`vm/`, `VzHelper/`, `SupervisorRPCVM.swift`) | `vzctl`, one `vz-helper` per VM | bundle and `vm.json`; lock file; tables of helpers | create, start, stop, restart, delete, modify, mount, unmount; `helper.hello` |
| Edge (`VzEdge/`, `SupervisorRPCEdge.swift`) | `vz-edge` | desired state with a generation, last good state, manifest; host addresses and firewall rules | mutation, push, apply, rollback, restore |
| Embedded processes (`EmbeddedProcessManager.swift`, `EmbeddedProcessReaper.swift`) | `vz-edge` | table of caddy and provider processes, restart timers | reconcile, restart, reap, shutdown |
| REST jobs (`RestJobs.swift`, `JobProcessRunner.swift`) | control plane | job table, cancelled set, one worker thread and one child per job | start, cancel, run, evict |
| Service controllers (`ControllerReconciler.swift`, `controllers/`) | control plane and CLI children | registrations with generations, project lock, status file, credentials | register, unregister, tick, claim operations in guests |
| Kubernetes binding (`kubernetes.rs`, `kubernetes/`) | `vzctl` | K3s files and units in guests, objects at the API server | install, resolver rollout, server-side apply, claim discovery |
| Docker binding (`docker.rs`, `docker/`) | `vzctl` | SSH key, SSH config, context; containers, DNS names | setup, `ensure` of containers and Compose, `vzctl docker` |
| Images (`image.rs`, `image_cli.rs`) | `vzctl` | aliases, content-addressed objects, baked and sealed raws, markers | pull, bake, seal, rebake, resolve |
| Certificates (`certs.rs`, `certs/`) | `vzctl` | CA and leaf files, staged candidate | init, mint, upgrade |
| OIDC (`vzctl-oidc-simple`, `oidc.rs`) | provider process, `vzctl` | sessions, codes, tokens, key; `clients.json`, secret store | authorize, token, restart; rebuild of the client list |
| Guest utilities (`guest_utils.rs`) | `vzctl` | host cache, guest files and manifest | stage, cache, rollout |
| Resolver files and DNS queries (`dns.rs`) | `vzctl` | resolver files, bind helper, marker, launchd job | install, uninstall, helper install, query |
| Event streams (`events.rs`, `observability.rs`, control plane) | control plane and readers | subscribers, pending bytes | emit, subscribe, read, reconnect |
| Progress display (`progress.rs`) | `vzctl` | the worker's account, a channel, the dashboard | job changes, log lines, Ctrl-C, final frame |
| launchd services (`services.rs`) | `vzctl` | loaded agents and their processes | start, stop, restart |
| Desktop UI (`src-tauri/src/lib.rs`) | application | running commands, subscriptions | stack commands with recovery, subscribe, reap |
| Others | | none that others rely on | DNS servers, REST routing, diagnosis, MCP server, guest agent, packaging |

### Interactions

The CLI and the helpers speak JSON-RPC to the control plane over a Unix socket;
the control plane calls `vz-net` and `vz-edge` the same way and starts helpers
and CLI children as processes. Every client has a timeout, and a request it gave
up on can still be executed. launchd restarts the daemons. Processes share
SQLite (one writer), lock files, the sockets, and files that are replaced by
rename: manifests, certificates, client lists, SSH config, resolver files.

### What is hard

- Several CLI processes work on one stack; only a journal row and a lease with a
  time limit, a holder and a PID order them.
- Each process can be killed between any two statements: the CLI inside a step
  or between two files that belong together, the control plane between a database
  statement and a call to `vz-net`, `vz-net` with all reservations, `vz-edge`
  with processes and firewall rules that outlive it.
- A call that timed out may be executed much later.
- State is read before a lock or a lease is taken and used afterwards: the actual
  state behind a plan, the state of a VM before its attachments change, CA files
  that are replaced while a candidate is derived from them.
- Threads (heartbeat worker, job workers, HTTP threads, restart timers, exit
  handlers) and callbacks (helper reports, path changes, sleep) interleave with
  operations.
- Bytes and messages arrive in pieces, late, twice or out of order.

### What makes the parts correct

| Component | Properties |
|---|---|
| Journal and lease | only the newest row is incomplete; ended rows never change; a live lease is never taken away; resources change only with a commit |
| Reconciler | every committed operation executed all its steps, across crashes and resumes; one invocation executes at a time while heartbeats are in time; an invocation that lost its operation starts no further step; breaking changes are confirmed; every invocation ends and its lease is freed |
| Plan and steps | what is committed is what the host has; purge leaves nothing; dependencies order starts and stops; nothing of another owner is destroyed; `--force` suffices |
| Networks | a CIDR is held once; a row says `active` exactly when the registry has a handle; a handle stands for a reservation; reservations can be released; addresses are unique; a running VM's NICs are its attachments |
| Recovery | a usable path is healthy by a probe of the present generation, or a recovery of that generation is scheduled; one restart of VMs per epoch |
| VMs and services | the table names the helper started last, a deleted VM has none; VMs stop before their network does |
| Edge | it serves the last good state, converges to the database, and protects every address it adds; one process per embedded service and none left without a handler |
| REST jobs | bounded table and number of children; a cancelled job never succeeds; results are final; every job ends |
| Claims and bindings | a claim is served for the object and registration of now and with the backend's credential; no list order selects an owner; what is called ready is ready; containers are as declared |
| Files and formats | accepted images are complete; candidates are current; secrets never change; manifests name what is installed; valid files are runnable; resolver zones are complete; decoding agrees with the format |
| Streams and displays | no event is lost, repeated or reordered; the last frame shows the worker's account; recovery by the UI is bounded |

The hazards behind these properties are listed in `PROJECT.json`, each at its
line of code.

## Modules and how they correspond to the code

`PROJECT.json` maps every definition to its lines. In short:

| Module | Models | Extends |
|---|---|---|
| `ApplyStore` | the three tables of the journal and the five RPCs that change them | |
| `Reconciler` | `reconciler::run` and `LeaseHeartbeat`, one process per holder | `ApplyStore` |
| `ApplyLifecycle` | the state machine of `docs/adr/0003-apply-state.md` | |
| `StackPlan` | desired resources, plan, dependency order | |
| `StackSteps` | what each step of `up`, `apply`, `down` does to the host | `StackPlan` |
| `StackConfig` | validation of the stack file, `vzctl stack` edits | |
| `VzNet` | `NetRuntimeStore` | |
| `NetworkRegistry` | `NetworkRegistry.swift` and the RPCs that call it | `VzNet` |
| `NetworkRecovery` | `NetworkResilienceController` and the fallback | |
| `EdgeServer` | desired state, pushes and `vz-edge`'s apply | |
| `EdgeProcesses` | `EmbeddedProcessManager`, `EmbeddedProcessReaper` | |
| `VmCommands` | `vzctl vm` on one VM, helper tables, helpers | |
| `HostServices` | `vzctl services` and launchd | |
| `RestJobs` | `RestJobRunner` and `JobProcessRunner` | |
| `Controllers` | registrations, both drivers, the operations of a claim | |
| `KubernetesClaims` | discovery of claims in a cluster's list | |
| `Kubernetes` | K3s installation, resolver rollout, server-side apply | |
| `DockerHosts` | Docker VMs, containers, Compose, `vzctl docker` | |
| `GuestUtils` | staging, cache and rollout of the guest bundle | |
| `Images` | pull, bake, seal, rebake, resolution | |
| `Certs` | CA creation, minting, staged upgrade | |
| `OidcProvider`, `OidcClients` | `vzctl-oidc-simple`; the client list and its secrets | |
| `HostResolvers` | resolver files and the bind helper's installation | |
| `DnsMessages` | the messages of `vzctl dns query` | |
| `EventStreams` | emit, framing, four readers | |
| `Progress` | worker, channel, dashboard | |
| `DesktopUi` | the application's stack commands | |
| `ApplyStoreProofs`, `NetworkRegistryProofs` | proofs | the module of that name |
| `RestJobsProofs` | proofs about REST jobs, event streams and the progress display | `RestJobs`, `EventStreams`, `Progress` |
| `ReconcilerProofs` | proofs: the CLI uses the store, stops when superseded, implements the lifecycle | `Reconciler`, `ApplyStoreProofs` |
| `InvocationProofs` | proofs: no step is lost, commits match the journal, execution is exclusive | `ReconcilerProofs` |
| `NetworkingProofs` | proofs about recovery, the edge and its embedded processes | `NetworkRecovery`, `EdgeServer`, `EdgeProcesses` |
| `HostProofs` | proofs about VMs, guest utilities, services, the desktop UI, Docker VMs and resolver files | `VmCommands`, `GuestUtils`, `HostServices`, `DesktopUi`, `DockerHosts`, `HostResolvers` |
| `ServiceProofs` | proofs about OIDC, certificates, service claims, images and K3s clusters | `OidcProvider`, `OidcClients`, `Certs`, `KubernetesClaims`, `Images`, `Controllers`, `Kubernetes` |
| `MCReconciler`, `MCNetworkRegistry`, `MCStackSteps` | instances for TLC | the module of that name |
| `MCLiveness`, `MCHost`, `MCNetworking`, `MCApplySteps`, `MCComponents` | several instances in one run | the modules they check |

The last group of modules checks parts that share no state, each on an instance of
its own: `area` is chosen in the initial state, one part runs and the others stay
in one initial state, so the state graph is the disjoint union of their graphs.
A part's state other than the journal's and the registry's is one record (`ed`,
`im`, `kb`, ...), whose fields are named in the module; a position in the code is a
field `pc` or the value of a thread.

**ApplyStore.** No statement touches two stacks, so the module is about one.
`journal` is a sequence of rows, `lease` the row of `locks` with the time it has
left, `resources` the committed snapshot. Each RPC runs under `reconcileLock` and
is one action; `abortApply` is two autocommitted statements, hence
`AbortApplyTorn`. `alive` is what `kill(pid, 0)` answers; PIDs can die and be
reused. `owner` is a history variable. Callers are arbitrary.

**Reconciler.** `cli[p].pc` names what `run()` does next. `Start` reads config,
journal and resources (`stack.inspect`); `Begin`, `LeaseHeartbeatStart`,
`StepStart`, `StepDone` and `LastCall` are answered RPCs; `RpcFails` is every
other end of one. While `pc = "exec"` the step acts on the system, and may never
return. The heartbeat worker is a thread of its own. `late` holds requests the client
gave up on. Hashes stand for configs, `BreakingChange` for the diffs between them.

**StackPlan, StackSteps.** A step is an operator from the world to the set of its
outcomes. `Loop` and `Then` chain the RPCs and children of a step; each may fail
and the CLI may die after each, so a step with several changes has a failing
outcome after each of them. Under `--purge` `stop_helpers` ignores the errors of
`vm.stop`, so a helper may outlive the step. The world has networks with owner and range,
attachments, bundles (one may lack its `vm.json`), helpers, containers and marks for CA,
DNS, ingress and ports. A behaviour is a sequence of commands with resume
and abort, edits of the file between them, VMs that stop by themselves and other
owners that take ranges or attach to our networks. Concurrency of two commands is
the subject of `Reconciler`, not repeated here.

**StackConfig.** The validation rules as predicates on parsed files, over a
bounded family of files per topic; `ValidIsRunnable` states what the later steps
rely on without using the rules. The `stack` commands are load, change, write to
`.tmp` and rename, each a step.

**NetworkRegistry.** `op` is the operation that holds the registry's lock and its
next step; a step is one database statement or one `vz-net` call. `handles` and
`known` are in memory and lost when the control plane stops. `checked` holds the
RPC threads that have passed the check of the VM's state and wait for the lock.
Guest addresses are offsets in the CIDR. `Faults` switches faults on: `restart`
and `crash` of the control plane, `lost` calls (perhaps executed late, bounded by
`MaxLate`), `vznet` restarts, `race`: a helper starts while an RPC waits, `write`: a
row's runtime state cannot be written, by the operation or by the `try?` of its rollback
(`written` remembers the rows whose last write took effect).

**NetworkRecovery.** Everything on the worker queue is one step or, where a probe
or the fallback takes time, several; sleep and wake come from another thread in
between. `gen` is the controller's generation, which every scheduled closure
carries. What a probe finds and whether a VM can be started again is arbitrary.

**EdgeServer.** RPC threads change the database, then push under the push lock
with a generation; a push that timed out stays among `calls` and is carried out
later. `apply` in `vz-edge` goes through host network, firewall, DNS, ports and
ingress; each may fail, which leads to the last good state. What `vz-edge` believes
(`aliases`, `rules`) and what the host has (`host`) are kept apart: a call to the bind
helper is given up after its timeout and may take effect then, later or never
(`helper_times_out`, `helper_is_late`). Gateways of guests that cannot be listened on are
skipped. The ingress watchdog repairs loopback listeners. Host state outlives `vz-edge`;
the manifest is what a start restores.

**EdgeProcesses.** The manager's lock is held for a whole start, so a start is one
step with its outcomes; exit handlers, timers that have fired and reconciles wait
for the lock in any order. Processes whose `vz-edge` was killed live on until the
reaper of the next one finds them.

**VmCommands.** One VM, CLI processes that perform one RPC or file operation per
step, the control plane's tables (`starting`, helpers by VM, expected stops) and
helper processes with the lock. A report is a message that may be handled after
its sender has died. A restart of the control plane empties the tables; a helper it
adopts from a report has no process handle, so `vm.stop` forgets it at once, while it
still runs. `delete --force` goes on when stop, wait or `vm.purge` fail: it falls back to
`vm.stop`, a wait and `net.detach`, each of which may fail too. `loose` collects the
helpers of which nobody knows any more.

**HostServices.** The order of the agents, `bootout` and the wait for the exit,
the stop of all VMs before `vz-net` by the control plane or by signal, with
crashes of every process and a kill of the command at any step.

**RestJobs.** `status`, `order` and `cancelled` are the table under its lock,
`worker[j]` is where `run()` is, `child[j]` the process. `Round` is one turn of
the pump's loop. `accepted` is a history variable: cancellations answered with 202.
Eviction is stated by places: `PlaceIn` numbers the finished jobs along the order,
and those numbered up to the excess go.

**Controllers, KubernetesClaims.** A behaviour has one claim of kind database,
bucket or ingress. `apply` and the automatic worker each take the project lock,
observe, and change the guest; the worker asks for its generation before each
change. A change that is refused because the registration was revoked is, like any
other failed guest run, recorded in the claim's record; only the worker's own next check
ends it. A check of credentials fails for any failed guest run, so the reason
`CredentialCheckFailed` proves nothing about the credential. A killed driver's script
goes on. `KubernetesClaims` imports a list in
every order.

**Kubernetes.** Nodes have files and a unit, restarted by the installer; the object
at the API server has fields with managers, and server-side apply refuses
conflicts. The server stores what it converts a manifest to (`Stored`): `stringData` is
written to other fields, quantities are normalised. Somebody else edits, replaces or
deletes; nodes reboot; an `apply` is killed between files and restart.

**DockerHosts.** All Docker VMs of a project share key, SSH config and context, so
a command reaches whatever VM the config names at that moment. `apply` and a
`docker` command run beside each other.

**Images, Certs, OidcClients, GuestUtils, HostResolvers.** Each is a file protocol:
which file is written, renamed or removed in which order, with a kill before each.
`Images` distinguishes copies being customised from complete ones; `Certs` has the
files read one by one for a candidate while others replace them; `GuestUtils`
has three bundles of two versions. `HostResolvers` has several commands at once, two
projects whose reverse zones overlap, and networks that grow and shrink in the file or
come from `--cidr`. `OidcClients` starts from lists of before the store existed.

**OidcProvider, DnsMessages.** A clock, identifiers drawn in order and a process
that forgets all but its key; bytes of a datagram with compressed names, decoded by
the code's loop and, independently, by the format's definition. Both join the labels of
a name with dots before it is compared, as the code does, so a label that contains a dot
is not told from two. Record data is an address of either family, a name, or bytes.

**EventStreams, Progress, DesktopUi.** Frames as sequences of pieces with reads that
give up. A write that fails leaves a partial frame and ends the subscription; the
listeners of the UI are called after the lock is released, so two emissions that overlap
may swap there; a `read_line` that times out inside a character drops what it has
appended. A channel with several senders and a result channel, emptied message by
message once the result is there, and the last frame, for which a failed run marks the
current job as failed; a click with its recoveries next to other `vzctl` processes that
hold the lease or hang.

## Runs

| Run | Instance | What it shows |
|---|---|---|
| `resume_chain` | 3 invocations of `apply`, `--resume`, `--abort`, 2 rows, TTL 1, one late request | no step is skipped on the way to a commit, whoever crashed or resumed (`NoStepLost`); the tables protect every operation (`StoreSound`) |
| `lifecycle` | 2 invocations of every command, 2 configs, edits, breaking plans | CLI and store implement `ApplyLifecycle`; the committed snapshot is that of the newest committed row; a superseded invocation starts no step |
| `timely_heartbeats` | 3 invocations of every command, TTL 2, no lost RPCs, heartbeats in time | an executing invocation is alone and its row is its own |
| `liveness` | 2 invocations, TTL 2; 2 jobs | invocations end, wait for the user or stay in a step that never returns; the leases of ended ones are freed; jobs end |
| `apply_steps` | 2 commands in a row over 4 configurations, 2 VMs, 2 networks, 2 ranges, 1 edit, 1 step of others; a cluster of two nodes; one claim; 3 guest bundles; 4 CA keys | commits converge, purges leave nothing, dependencies and owners are respected; what the steps set up in guests is sound |
| `networking` | 2 networks, 2 VMs, a router and a guest address, no crashes; 3 embedded services, 4 PIDs; 2 RPC threads, 3 changes, calls to the bind helper that are given up; 3 paths, 4 generations | attachments are consistent and in force, no reservation is stranded; edge, embedded processes, recovery |
| `host` | 2 networks wanting 1 CIDR, 1 VM, all faults; 2 `vm` commands, 1 restart; 2 service commands, 1 crash; 2 events of 2 types; 2 jobs with 3 messages and 1 log line shown; 1 click, 3 PIDs; 2 Docker VMs | the registry under every fault; helpers, services, streams, display, UI recovery, containers |
| `components` | 3 networks, 2 CIDRs, crashes; 3 REST jobs, table of 2; 2 aliases, 2 releases; 2 users and clients; 2 rebuilds; 3 objects; stack files of 7 topics; 3 resolver commands of 2 processes, 4 of the bind helper; packets of 2 answers | runtime, jobs, files, claims, formats |
| `resume_of_down`, `stale_plan`, `crash_strands_cidr`, `force_apply_stuck` | | findings, below |

**Bounds.** `MaxGen` bounds journal rows: two rows are an operation and its
successor, and the store only looks at the newest incomplete row. The reconciler's
step lists have two steps: the first, at which rows are born, and a last one; a
resume can start at, before or after either. `TTL` 1 lets a lease expire between
any two steps, 2 separates renewal from expiry. One late request is enough for a
stale call to overtake; `MaxLate` is 1 where calls get lost. One CIDR for two
networks makes every acquire compete; one guest address makes the second
allocation run out. `RestJobs` has one job more than the table and an
`activeJobs` above `retainedJobs`, so that the clamp matters. The four stack
configurations differ pairwise in what a plan distinguishes (swapped addresses, a
recreate, a removed VM with dependants, a moved range, features), and two commands are
what it takes to come from one to another through a failure. Two threads and
three changes at the edge let two pushes overlap and a third arrive late. Four
generations let a sleep and a wake come between a probe and its result, and one
more event after that. Four PIDs let an embedded process be replaced, restarted and left over.
The file protocols are killed at any point of two or three commands: a killed command, one that
meets its remains, and one after it. The proofs do not depend on any bound.

**Deadlock.** `networking` checks for it: the registry never stops. The other
instances stop when every invocation, command or identifier has been used, so
their configurations switch the check off; that nobody gets stuck earlier is what
`InvocationEnds` and `JobsEnd` say.

**Conditions.** Some properties hold only without certain faults, and the run says
so by its constants or the property by its hypothesis:

- `ExecutionProtected` needs heartbeats in time: a host that sleeps through the
  lease lets a second CLI in while the first is inside a step. `LostOperationStops`
  covers what remains then.
- `AttachmentsInForce` is checked without `race` (the check of the VM's state is
  made before the lock is taken), without control plane restarts (a purge before
  the helper's next report finds no record and kills nothing, but detaches the VM)
  and without crashes (attach inserts and deletes in two statements).
- `ReservationsFollow` is checked with answered calls and without restarts of
  `vz-net`. After an unanswered `net.release` inside a recreate the row is orphaned
  and a later delete releases nothing; after a restart of `vz-net` alone nothing
  tells the registry until its next verification.
- `RegistrySound` leaves out rows whose last write failed, until the next rebuild, which
  `RebuildHeals` shows to repair them. `ReservationsFollow` and `NoStrandedReservation`
  are checked without such failures.
- `CommittedSnapshot` leaves out rows of mode `resume`. One is inserted when a
  resume is overtaken by the abort or the end of its operation; `journal_context`
  then refuses to resume it, and only an abort ends it. It also does not say that
  the committed mode is the committed row's own: a resume that read mode and purge
  of an older row and is overtaken by its end and by a new operation takes over the
  new row with the old mode, and commits it. That needs four invocations, one more
  than `lifecycle` has; the attempt to prove the stronger statement showed it.
- `EdgeSound`: that the edge converges is claimed until `vz-edge` is killed, and
  that addresses are protected for those `vz-edge` knows of. A call to the bind helper
  that was given up can take effect after later ones: a removal can take away an address
  that is wanted again (`lost`), old rules can replace newer ones (`overtaken`) until
  rules are set again. Gateways of guests that cannot be listened on are missing from
  what is served. A `vz-edge` that restarts with nothing to serve leaves the rules of the
  killed one.
- `HelpersTracked` says nothing of the directory's owner: of two `vm create` of one
  name, the one that fails removes the directory, also when the other made it.
- `HelpersTracked` and `OwnVmsStopFirst` leave out helpers of an earlier control
  plane, which the present one knows only after their next report. `HelpersTracked` also
  leaves out a helper that was started while its VM was being deleted, and one that
  `delete --force` left behind when `vm.purge` and `vm.stop` both failed: there the code
  removes the bundle of a VM that runs.
- `ReverseZonesPublished` is about the zones an install of the project has published,
  and ends when an install and a removal overlap. When the networks of a published
  project grow and the next install is killed or refused at the new zone, the forward
  file of the earlier one stays in force without it.
- `DependencyRespected` does not say that `down --purge` stops a dependant first: it only
  asks in that order, and goes on when a kill fails. `PurgeLeavesNothing` holds all the
  same, since the attachment of a VM that runs on makes the deletion of its network fail.
- `NoEventLost` is not claimed of `stack watch`. For the UI two events whose emissions
  overlap may swap; after a timeout inside a character an event may be changed or the
  command may end.
- `FinalDisplayComplete` compares with the worker's account after the current job was
  marked as failed, if the run failed. That this is never a job reported as done or
  skipped is part of the property.
- `ClusterSound`: status and readiness agree when the manifest is written the way the
  server stores it (`Canonical`). Otherwise status reports drift right after a ready
  `apply`, and the property says that too.
- `SecretsNeverChange` leaves out a client of a list of before the store existed, when
  the first run with the store does not list it (`dropped`): it gets a new secret when it
  returns.
- `ContainersAsDeclared` is about an `apply` with no other command beside it, and
  `ManifestNamesInstalled` ends when a rollout of another bundle begins.
- `CommittedSnapshot` says nothing of the re-check of the config file between plan and
  begin: without it the committed snapshot would still be that of the operation that
  ran, only not of the file as it is then.

## Findings

Four runs state what the repository's documents say and are violated:

1. `resume_of_down` (`CommitComplete`): a `down` that dies between `stack.begin`
   and its first checkpoint leaves a row at step `validate`, which is not a step of
   `down`. `apply --resume` skips to that step, so it skips all of them and commits.
2. `stale_plan` (`BreakingConfirmed`): the plan is made from a `stack.inspect`
   before the lease is taken, so a commit in between makes a change breaking that is
   neither shown nor confirmed. The steps replace nothing unasked, they skip a bundle
   that exists and refuse a changed network without `--force`; but where they succeed,
   the change is committed as the stack's state.
3. `crash_strands_cidr` (`NoStrandedReservation`): a control plane crash between
   `net.acquire` and the INSERT, or between the DELETE and `net.release`, leaves a
   reservation that no row names; `docs/network.md` says crashes no longer orphan
   CIDRs. `networking` shows that it holds without crashes.
4. `force_apply_stuck` (`ForceSuffices`): networks and attachments are changed
   before the step that stops VMs, and both are refused while a VM runs, so a
   `--force` that readdresses or removes a running VM fails every time.

Observed while modelling, inside the modules but without a run of their own:

- A killed `vm create` leaves a directory without `vm.json`, and `ensure_vms` then
  fails every time (`vm_create.rs`; `StackSteps!Partial`).
- An interactive confirmation is not enough: the steps ask for `--force`
  (`reconciler/network.rs:94`, `reconciler/vm.rs:100`; `cli-contract-v1.md:152`).
- A helper's report that is handled after its exit or purge registers it again
  (`SupervisorRPCVM.swift:291`); after a restart of the control plane `vm delete`
  removes a bundle under its running VM (`SupervisorRPCVM.swift:162`) and
  `vm.stop` forgets a helper that still runs, so that `services stop` cuts its
  network (`SupervisorRPCVM.swift:116`, `docs/adr/0002`).
- A killed staging leaves a guest-utils cache that looks complete
  (`guest_utils.rs:247`).
- `stack watch` drops the fragment of an event that any timeout cut
  (`observability.rs:1319`). `events subscribe` keeps it until the newline, as the comment
  at `events.rs:131` says, unless the timeout falls between the bytes of a character:
  `read_line` takes back what it had appended, and the event is changed or the command
  ends.
- An `apply` killed between the new K3s configuration, token or unit file and the restart
  leaves the next one nothing to change: it does not restart K3s
  (`kubernetes/controller.rs:656`), and when stack DNS was switched off it removes the
  resolver file K3s still refers to, which `docs/specs/service-controllers-v1.md:77`
  orders the other way round.
- `stack` edits drop sections they do not know and share one temporary file
  (`config.rs:2879`, `config.rs:2950`).
- `dns install` does not repair a bind helper of which a part is missing
  (`dns.rs:1146`).
- `image seal` without `--force` accepts a marker beside a raw that is still
  writable (`image_cli.rs:962`).
- An edge killed inside apply leaves an address without a rule
  (`docs/dns.md:45`); the manifest is removed before the new one is moved there
  (`EdgeServer.swift:447`); overlapping `ingress.ensure` calls restore an older
  snapshot when one fails (`SupervisorRPCEdge.swift:169`).
- A fallback that was begun in an old epoch goes on in the new one, and one that
  gives up leaves VMs stopped (`SupervisorNetworkRecovery.swift:257`).
- The UI ends lease holders that do not hang (`src-tauri/src/lib.rs:674`).
- A network whose recreate fails in vz-net and whose rollback cannot be written stays
  `active` without a handle until the next start (`NetworkRegistry.swift:511`).
- `vm delete --force` removes the bundle under a helper that neither `vm.purge` nor
  `vm.stop` could end (`lifecycle.rs:110`).
- `kubernetes status` reports drift right after a ready `apply` when a Secret is declared
  with `stringData` (`kubernetes/manifests.rs:121`).
- A result that was refused because the registration was revoked is recorded as a failed
  operation of the claim (`controllers/runtime.rs:223`).

The properties of the runs exclude these cases by name, where they touch them.

## Fairness

`Reconciler!Fairness`: weak fairness of each invocation's own steps while it is not
inside a step of the list (`pc # "exec"`), and of the clock. Every RPC has a client
timeout, so outside of the steps an invocation keeps going unless it waits for the user;
`ConfirmBreaking` is not fair. A step may wait for good: `run_self` waits for its child
without a timeout (`io.rs:203`), `run_self_elevated` for an administrator dialog
(`io.rs:271`). `InvocationEnds` therefore says that an invocation ends or waits for the
user, or stays inside a step from some point on. Nothing is assumed about crashes, lost
requests, late arrivals, PIDs or the user.

`RestJobs!JobsFairness`: weak fairness of each job's worker (a thread of a dispatch
queue), of `PumpFails` (once the deadline has passed every round fails) and of the
exit of a child that got SIGKILL. Nothing is assumed about when a child ends by
itself or after SIGTERM.

`MCLiveness!LiveSpec` is both. In the area that rests none of its fair actions is
enabled in the initial state, so one area's fairness excludes no behaviour of the
other. The other modules make no liveness claim: the registry repeats nothing on
its own, commands are repeated by their users, and timers may be late without bound.

## Proofs

All theorems hold for every value of the constants that satisfies the named
assumption of the module that declares them (`StoreAssumption`,
`ReconcilerAssumption`, `RegistryAssumption`, `ImagesAssumption`, ...). These say that
sentinels differ from real values, that limits are natural numbers, that the jobs of a
run and the networks of a project are finitely many, that a choice made
when vzctl was configured is one the code knows, and that the step lists are
sequences of steps of which `apply`'s begins with the journal's initial step. TLC
evaluates each of them on the instance it checks. Where a theorem needs more (heartbeats
in time, a fault left out), it is an `ASSUME` of the theorem, and its reason is below.
The proofs share a shape: an inductive invariant, which is the property together with
what every actor may rely on at its position, one lemma per action, and a last step
that combines them.

**ApplyStoreProofs.** `StoreInv` is `TypeOK`, `OnlyNewestIncomplete` and
`LeaseNamesOwner` together. They need each other: that the lease names the owner of
the incomplete operation is preserved only because `incompleteJournal` returns the
last row, and a new row can be appended only when no other is incomplete. From the
same invariant follow the action properties `TerminalRowsFrozen`,
`LiveLeaseProtects` and `CommitIsJournalled`, which together are `StoreSound`
(`StoreIsSound`), and `StoreTypeCorrect`, `IncompleteIsNewest`, `LeaseFollowsOwner`.

**ReconcilerProofs.** Every step of the CLIs, of the requests they gave up on, of the
clock and of the supervisor is a step of `ApplyStore` or leaves its tables alone
(`CliUsesStore`), so the store's theorems hold under the CLI
(`StoreSoundUnderCli`). `CliInv` adds to `StoreInv` the types of the CLI's local
variables and of the requests still on their way (`CliTyped`) and `Verdicts`. The last
one is what the refinement needs: `finishApply` does not look at the row's status, so
the store alone would commit an operation that has been reported failed, which
`ApplyLifecycle` does not allow. It cannot happen because who gave up on a request has
returned (`LateMeansExited`), an invocation reports a failed step or finishes, never
both, however late (`OneVerdict`), and who reported the failure of the operation under
way has exited without a finish on its way (`FailedStops`). With it,
`LifecycleIsImplemented` shows case by case that a begin, checkpoint, finish or abort,
in time or late, maps to a begin, fail, resume, commit or abort of the lifecycle or to
a stuttering step; the mapping is `Phase` and `HolderNow`. `SupersededStops` is
`LostOperationStops` for any number of invocations and any lease times, without
heartbeats in time: an invocation passes a step boundary only when its checkpoint was
answered, and it is answered only to the owner of the newest, incomplete row.

**InvocationProofs.** `StepsInv` says of every place that remembers a position in the
step list that what comes before it has been done: the CLI's loop (`LoopOK`), a
checkpoint or finish still on its way (`RequestDone`), and the journal row
(`RowDone`). A resume copies the position from the row into a loop, a loop copies it
into a request, and a request, possibly much later, into the row; only the three
together are preserved. `NoStepIsLost` has two conditions. `StepsDistinct`: a resume
finds its position by the step's name, and `APPLY_STEPS` has no name twice.
`NoDownCommand`: without it the theorem is false, as `resume_of_down` shows (the row of a
`down` that has not checkpointed names the first step of `apply`).

`SnapshotInv` follows hash, mode and purge the same way: an invocation has them of a
row it has read (`CliKnows`), a finish on its way describes such a row
(`RequestKnows`), no RPC changes them in a row or removes one (`PayloadKept`), and there is
a newest committed row (`HasNewest`). `CommitsMatchTheJournal` needs no condition.

`ExclusionInv` is what makes the lease a lock: no request is late, every invocation
between start and exit is alive, and one at work (`Working`) has its heartbeat worker
on, holds a valid lease and works on a running row (`Protected`). Then every request of
another process is refused (`OthersAreRefused`). `ExecutionIsExclusive` assumes `Timely`
(a heartbeat comes before the lease runs out) and `~Unreliable` (RPCs are answered);
without the first the lease expires under a step, without the second a request given up
on is served later. What remains then is `SupersededStops`.

**NetworkRegistryProofs.** `RegistryInv` is `NetTypeOK`, `CidrExclusive`,
`AttachmentsConsistent`, `Mirror` and `OpKnows`. `Mirror` extends
`HandlesMirrorRows` to a control plane that is down or rebuilding: a row still to be
visited has no handle. `OpKnows` is what an operation has established before it
takes its next step, for example that the network being created is not in the
table, or that the VM being attached is not attached yet; without it `Insert` and
`Allocate` preserve nothing. All faults are included. `CidrExclusive` depends on
`vz-net` alone (`VzNetStepKeepsInv`); every step of the registry is shown to be a
step of `vz-net` or to leave it alone. A write that fails leaves its row `Unwritten`;
`Mirror` says nothing of such a row, and that a rebuild leaves none behind
(`RowsShowHandles`). `RegistryIsSound`, `AttachmentsStayConsistent` and
`NetworkTypeCorrect` are the results.

Three theorems hold without some of the faults, and each exclusion is needed.
`ReservationInv` says that no call is on its way and, network by network, that what
`vz-net` holds for a row is the row's configuration and somebody knows of it
(`Follows`), that a handle stands for a reservation (`Backed`) and that what is held has
a row or belongs to the operation that has the lock (`Owed`). From the first two follows
`HandlesAreReservations`, without lost calls, restarts of `vz-net` and failed writes: a
lost call runs after the registry has moved on, a restarted `vz-net` has dropped what
the handles stand for, and after a recreate that could not be written nobody knows of
what `vz-net` holds. From the third follows `NothingIsStranded`, without lost calls,
failed writes and crashes inside an operation; `crash_strands_cidr` shows the crash.
`InForceInv` says, VM by VM, that one whose attachments are about to change is off, that
a running one is known and has the NICs of its attachments (`VmQuiet`), and that an
automatic attachment is alone or about to yield (`VmYields`). `AttachmentsAreInForce` is
without restarts, after which a purge kills no helper, without crashes, which lose the
second statement of an attach, and without helpers started between check and lock; lost
and late calls, failed writes and restarts of `vz-net` are included.

**NetworkingProofs.** `NrInv`: jobs start in the order of their generations, so no older
job writes over a generation found healthy (`NrOrdered`); a fallback is recorded before
it begins (`NrOnce`); someone looks after the current generation (`NrTended`). `EdInv`
has a part for `vz-edge` and one for the pushes. The first ties how far an apply,
rollback or restore has come to what is in place (`Staged`), with `Covered`, `Serving`
and `DownIsEmpty`; each speaks of what `vz-edge` believes and of what the host has
(`Guarded`, `RulesStand`), with the calls given up that may still change the latter. The
second (`PushPart`) says that who waits for an answer holds the lock and the newest
generation, and that once it is answered whatever an earlier caller left behind is older
and will be refused. `EpInv`: a process is of an earlier `vz-edge` and of no entry, or
the one its entry names or is about to name (`Owned`); an entry has a process, an exit
to be handled, a timer or an error that was reported (`Tended`); an entry cancels no
timer but its own (`TimersOwned`). The results, `RecoveryIsSound`, `EdgeIsSound` and
`EmbeddedIsSound`, assume nothing about the faults.

**HostProofs.** `VmInv`: there is one start at a time and until it lists the new process
nothing is listed (`OneStart`); a helper that may run is listed, about to be or `loose`
(`Known`); between a purge, or the stop in its place, and the removal there is none but
loose ones (`Purged`). It gives `HelpersAreTracked`. `GuInv`: the agent is the first
file cached and the metadata a later one (`AgentFirst`), and each step of a rollout
knows what the ones before it have installed (`RolledOut`); it gives `ManifestIsLast`.
`SvSound`, over plans of any length: the helpers come first or not at all, and once they
are behind, a VM that still runs is one the property excuses; it gives
`HelpersStopFirst`. `UiSound` is a budget of runs for every stage and round of a task
(`Budgeted`) and gives `RecoveryIsBounded`.

`DkGood` gives `ContainersRunAsDeclared`. On every engine names are unique and the hash
in the label of a managed container is that of what it was created from (`Shelf`); so a
container `apply` leaves alone is as declared. While nobody else is about (`ApplyQuiet`),
the SSH config names the VM `apply` means whenever a command goes out, each VM it is
through with has its container up, and the DNS records collected so far are those of
these VMs (`VmsDone`). The last matters because the snapshot of an engine is taken in one
step and used in a later one: what was seen gives the records that the engine has now
(`SeenAsIs`).

`HrInv` gives `ZonesArePublished`: a file is vzctl's only as the resolver of a project,
and then the zones an install published for it are in place (`HrFileOk`); of a command at
work, a zone that is not in place is among those still to come, the forward file is
written only after all of them, and zones are removed only when no project has a resolver
left (`HrRunOk`). Commands overlap freely. Nothing in the code keeps an `install` and an
`uninstall` apart, and then one that saw no other project removes zones that the other has
just found in place; so the invariant says nothing once the two have met (`mixed`), and
until then that they have not (`HrApart`). The zones of a CIDR are finitely many, which
takes the arithmetic of its octets.

**ServiceProofs.** `OpInv`: identifiers are drawn once and an exchanged code is not in
the store (`OpFresh`), a provider that answers signs with the key on disk (`OpKeyed`);
it gives `CodesAreSpentOnce`. `OcInv`: who works holds the lock and has read the list
that is on disk (`OcHolder`), store and list agree on every secret (`OcAgree`), and what
was published is in one of them unless it was dropped, in which case it came from the
list of before the store existed (`OcKept`); it gives `SecretsAreKept`. `CaInv`:
contents are dated, so what a command writes was never in the file before (`AllDated`,
`NeverBack`), and a file found unchanged when it is read again had that content all the
time since the candidate was derived (`Derived`); it gives `CandidateIsOneInstant`.
`KcInv` says what the part of the list gone through has left behind (`KcOwners`,
`KcProjected`), with Cardinality facts from `FiniteSetTheorems`; it gives
`OrderDoesNotMatter`. `ImGood`: an alias, and a pull about to name one, names a
published object (`Named`); a marker beside a read-only raw vouches for it (`Vouched`),
so a raw that is being customised has lost one of the two (`AtWork`); it gives
`BasesStayUsable`. `ScGood`: a run whose registration was revoked has had its last
operation (`Counted`); the credential a driver or a script carries is the stored one
(`Keyed`, `JobOk`); a check follows a script that has left account and database behind
(`Ready`); and until somebody else touches the provider, account and database are
vzctl's (`ProviderOk`). The scripts that run on after their driver was killed are part
of it. It gives `ClaimsAreServedSafely`. `KbGood`: a node that the installer is through
with has the pinned binary on its disk and K3s was started from it (`NodesSettled`); no
node carries a foreign K3s once something is being installed (`AgentOurs`), nor was the
Deployment looked at somebody else's (`DeployOurs`); identifiers are drawn once, so an
object with the identifier of the one looked at is that object and ours (`ObjectOurs`);
and before readiness is recorded, and as long as nobody interferes afterwards, the
object is what the server makes of the stack file's declaration (`ReadyRecorded`,
`AsDeclared`). It gives `ClusterIsSound`, an action property with a part about field
managers: a write of `apply` carries identifier and resource version of what it read,
and the server refuses it when either differs or a field belongs to somebody else.

**RestJobsProofs.** `JobInv` ties the worker's position to the job's status
(`Stage`), keeps accepted cancellations in the cancelled set until the job ends
(`Remembered`), and with both gives `CancelWins` (`CancelIsFinal`).
`ActiveBounded`, by a cardinality argument on starts, gives `ChildrenStayBounded`.
`TableOf` relates the order to the table: it lists each of its jobs once, and cancelled
jobs are active ones. Pruning keeps that (`PruneSound`): the places of a finite set are
numbered without a gap (`PlacesCount`), so exactly the excess is evicted, or all finished
jobs when they are fewer; what is left then is active, and `activeJobs` is clamped to the
table's size. `update` evicts nobody (`NobodyEvicted`), so a result just written can be
read. Together: `JobTableIsSound`.

`EsGood` says of a reader that what is out, followed by what is on its way, is in the
order of emission and has no gap, but for events whose listener has still to be called,
and reaches up to the last event while the subscription stands (`Flow`); and of the line
that is being read, that it and what is still to come are the pieces of one whole frame as
long as no timeout has fallen into a character (`Gathered`). `NoEventIsLost` follows.

`PgGood` says that the account on display becomes the worker's by the messages still in
the channel (`Catches`): there is a sequence of accounts from one to the other, one per
message, in which lines of other senders change nothing that is compared. The result
comes after the worker's last message, so once the channel is empty the two are the same
(`PgShown`), and the last frame marks in both the same job as failed. That job is none the
worker has reported as done or skipped, because reporting clears or replaces the current
job (`Sane`): `FinalDisplayIsComplete`.

**Only model-checked.** Liveness under fairness (`InvocationEnds`,
`LeaseIsFreedAfterExit`, `JobsEnd`), which the prover does not handle.
`CommitConverges`, `PurgeLeavesNothing`, `DestroysOnlyOwn` and `DependencyRespected` of
the apply steps: the search for an order in `StackPlan` is a RECURSIVE operator, without
the SMT backend in every module that reaches it, and the outcomes of a step are folds
with an operator as parameter, about which the library's theorems cannot be used.
`DecodeAgrees` and `ValidIsRunnable` compare a recursive decoder and a family of bounded
stack files with a second definition of the same: what a recursive definition computes
for every input needs induction over data. (Where a proof only needs the least natural
number with a property, as for the first newline in a reader's buffer or the next VM of
an `apply`, it uses that the order on the naturals is well-founded.)

## What is not modelled

- DNS servers: lookup and forwarding without state between requests.
- REST server, router and streams: parsing, authentication, read-only routes; the
  routes that start and cancel jobs are inputs of `RestJobs`. The log lines of a
  job and their SSE stream are left out.
- Diagnosis, network, port and route commands, MCP server: stateless clients of
  operations that are modelled.
- Guest agent and helper proxies: forwarding of bytes.
- Inside modelled components: labels, name syntax, YAML and string syntax, log
  lines, error texts, generated documents and manifests, downloads and image
  conversion, installation scripts inside guests, the trust store, property lists,
  packaging, the web view; and, as state that was left out, `adopt`,
  connections of the port proxies, the storage controller's guest
  scripts, the guests' systemd event bridge and guest exec.

Components of which such a part is missing have status `partly` in `PROJECT.json`.
External code, modelled from its use: vmnet and launchd, the Virtualization
framework, the Kubernetes API server, the Docker engine, the DNS peer.

## What is left

- The SSE log stream against the bounded log of a job, as an extension of `RestJobs`.
- `adopt`, and the connections of the port proxies.
- The apply steps with the search of `StackPlan` as a recursive function and the
  outcomes of a step without folds, so that `CommitConverges`, `PurgeLeavesNothing` and
  `DestroysOnlyOwn` can be proved.
