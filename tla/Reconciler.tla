----------------------------- MODULE Reconciler -----------------------------
(***************************************************************************)
(* The CLI side of apply/up/down: reconciler::run with its LeaseHeartbeat  *)
(* worker, as concurrent processes on top of ApplyStore.  One holder is    *)
(* one invocation of vzctl.                                                *)
(*                                                                         *)
(* An invocation can be killed at any point; an RPC can fail without ever  *)
(* reaching the supervisor, or time out at the client and be executed      *)
(* later; the config file can be edited at any time; the host can sleep so *)
(* long that a lease expires between two heartbeats.                       *)
(***************************************************************************)
EXTENDS ApplyStore, FiniteSets

CONSTANTS
    ApplySteps,      \* APPLY_STEPS of progress.rs
    DownSteps,       \* DOWN_STEPS of progress.rs
    Command,         \* command lines that are tried
    BreakingChange,  \* pairs <<actual, desired>> of hashes with a breaking diff
    Unreliable,      \* RPCs may get lost or arrive late
    Timely,          \* a running heartbeat worker always renews in time
    MaxLate          \* bound on requests that are still on their way

ASSUME ReconcilerAssumption ==
    /\ ApplySteps \in Seq(Step) /\ DownSteps \in Seq(Step)
    /\ ApplySteps # << >> /\ InitialStep = ApplySteps[1]
    /\ Command \subseteq
          [mode: Mode \cup {"abort"}, purge: BOOLEAN, force: BOOLEAN]
    /\ Snapshot = {NoSnapshot} \cup [hash: Hash, vms: {"running", "stopped"}]
    /\ BreakingChange \subseteq Hash \X Hash
    /\ Unreliable \in BOOLEAN /\ Timely \in BOOLEAN /\ MaxLate \in Nat

VARIABLES
    cli,       \* the local state of each invocation
    config,    \* hash of the config file and its inputs as they are now
    late,      \* requests the client gave up on and the server may still run
    executed   \* history: <<generation, step>> that execute_step completed

vars == <<journal, lease, resources, alive, owner, cli, config, late, executed>>
cliVars == <<cli, config, late, executed>>

\* pc names what run() does next; begin, lease, step, ran, failed, finish,
\* decline and abort are RPCs.
RpcPc == {"begin", "lease", "step", "ran", "failed", "finish", "decline", "abort"}
Pc == RpcPc \cup {"off", "confirm", "exec", "verify", "stop", "exited"}

-----------------------------------------------------------------------------
(* Pure parts of run(). *)

StepsOf(mode) == IF mode = "down" THEN DownSteps ELSE ApplySteps

\* The position where the loop starts: a resume skips up to the journal's step,
\* and everything if the step is not in the list.
StartPos(steps, resume, at) ==
    IF ~resume THEN 1
    ELSE IF \E i \in DOMAIN steps : steps[i] = at
         THEN CHOOSE i \in DOMAIN steps : steps[i] = at
         ELSE Len(steps) + 1

FinalResources(mode, purge, digest) ==
    IF mode = "down" /\ purge THEN NoSnapshot
    ELSE [hash |-> digest, vms |-> IF mode = "down" THEN "stopped" ELSE "running"]

\* build_plan reports a breaking action.
Breaking(mode, digest, actual) ==
    /\ mode # "up"
    /\ actual # NoSnapshot
    /\ <<actual.hash, digest>> \in BreakingChange

-----------------------------------------------------------------------------
(* Requests. *)

Request(p) ==
    LET c == cli[p]
        step(status) == [op |-> "step", from |-> p, id |-> c.id,
                         step |-> StepsOf(c.mode)[c.pos], status |-> status]
    IN CASE c.pc = "begin" -> [op |-> "begin", from |-> p, hash |-> c.digest,
                               mode |-> c.cmd.mode, purge |-> c.cmd.purge]
         [] c.pc = "lease" -> [op |-> "heartbeat", from |-> p, id |-> c.id]
         [] c.pc \in {"step", "ran"} -> step("running")
         [] c.pc = "failed" -> step("failed")
         [] c.pc = "finish" -> [op |-> "finish", from |-> p, id |-> c.id,
                                snapshot |-> FinalResources(c.mode, c.purge, c.digest)]
         [] c.pc \in {"decline", "abort"} -> [op |-> "abort", from |-> p]

\* The supervisor's check of a request, and the request's effect.
Accepts(r) ==
    CASE r.op = "begin" -> CanResume(r.from, r.hash, r.mode) \/ CanBegin(r.from)
      [] r.op = "abort" -> CanAbort(r.from)
      [] OTHER -> RequireApplyLease(r.id, r.from)

Serve(r) ==
    \/ r.op = "begin" /\ ResumeApply(r.from, r.hash, r.mode)
    \/ r.op = "begin" /\ BeginApply(r.from, r.hash, r.mode, r.purge)
    \/ r.op = "heartbeat" /\ HeartbeatApply(r.id, r.from)
    \/ r.op = "step" /\ AdvanceApply(r.id, r.from, r.step, r.status)
    \/ r.op = "finish" /\ FinishApply(r.id, r.from, r.snapshot)
    \/ r.op = "abort" /\ (AbortApply(r.from) \/ AbortApplyTorn(r.from))

\* A request the client no longer waits for may arrive later, or never.
MayArriveLate(r) ==
    \/ UNCHANGED late
    \/ /\ Unreliable
       /\ Cardinality(late) < MaxLate
       /\ late' = late \cup {r}

Arrive(r) ==
    /\ r \in late
    /\ late' = late \ {r}
    /\ Serve(r) \/ (~Accepts(r) /\ UNCHANGED storeVars)
    /\ UNCHANGED <<cli, config, executed>>

-----------------------------------------------------------------------------
(* run(), up to the step loop. *)

\* Mutant: the worker is not joined when run() returns.
ExitedWithWorker(c) == [c EXCEPT !.pc = "exited"]

\* run() returns; dropping LeaseHeartbeat joins its worker.
Exited(c) == [c EXCEPT !.pc = "exited", !.hb = "off"]

\* load_config, desired_hash and stack.inspect.  journal_context refuses to
\* resume without an incomplete journal or with one whose mode is "resume".
Start(p, cmd) ==
    /\ cli[p].pc = "off"
    /\ ProcessAppears(p)
    /\ LET resume == cmd.mode = "resume"
           resumable == Incomplete # {} /\ journal[Current].mode # "resume"
       IN cli' = [cli EXCEPT ![p] =
            [pc |-> CASE cmd.mode = "abort" -> "abort"
                      [] resume /\ ~resumable -> "exited"
                      [] OTHER -> "begin",
             cmd |-> cmd,
             mode |-> IF resume /\ resumable THEN journal[Current].mode ELSE cmd.mode,
             purge |-> IF resume /\ resumable THEN journal[Current].purge ELSE cmd.purge,
             digest |-> config, actual |-> resources, id |-> 0, pos |-> 1,
             hb |-> "off", authorised |-> cmd.force]]
    /\ UNCHANGED <<config, late, executed>>

\* stack.begin answered: the journal row and its step are known.
Begin(p) ==
    /\ cli[p].pc = "begin"
    /\ Serve(Request(p))
    /\ cli' = [cli EXCEPT ![p].pc = "lease",
                          ![p].id = IF Incomplete = {} THEN Len(journal) + 1 ELSE Current,
                          ![p].pos = StartPos(StepsOf(cli[p].mode),
                                              cli[p].cmd.mode = "resume",
                                              IF Incomplete = {} THEN InitialStep
                                              ELSE journal[Current].step)]
    /\ UNCHANGED <<config, late, executed>>

\* The step loop continues or is over.
LoopPc(c, pos) == IF pos <= Len(StepsOf(c.mode)) THEN "step" ELSE "verify"

\* LeaseHeartbeat::start sends one heartbeat and spawns the worker.
LeaseHeartbeatStart(p) ==
    LET c == cli[p] IN
    /\ c.pc = "lease"
    /\ Serve(Request(p))
    /\ cli' = [cli EXCEPT ![p].hb = "on",
                          ![p].pc = IF ~c.cmd.force /\ Breaking(c.mode, c.digest, c.actual)
                                    THEN "confirm" ELSE LoopPc(c, c.pos)]
    /\ UNCHANGED <<config, late, executed>>

\* confirm_breaking: yes, or no (also without a terminal).
ConfirmBreaking(p) ==
    LET c == cli[p] IN
    /\ c.pc = "confirm"
    /\ \/ cli' = [cli EXCEPT ![p].pc = LoopPc(c, c.pos), ![p].authorised = TRUE]
       \/ cli' = [cli EXCEPT ![p].pc = "decline"]
    /\ UNCHANGED <<storeVars, config, late, executed>>

-----------------------------------------------------------------------------
(* The heartbeat worker: renews until told to stop; one failure is final. *)

Heartbeat(p) ==
    /\ cli[p].hb = "on"
    /\ HeartbeatApply(cli[p].id, p)
    /\ UNCHANGED cliVars

HeartbeatFails(p) ==
    LET r == [op |-> "heartbeat", from |-> p, id |-> cli[p].id] IN
    /\ cli[p].hb = "on"
    /\ Unreliable \/ ~Accepts(r)
    /\ cli' = [cli EXCEPT ![p].hb = "failed"]
    /\ MayArriveLate(r)
    /\ UNCHANGED <<storeVars, config, executed>>

-----------------------------------------------------------------------------
(* The step loop and the commit. *)

\* heartbeat.check() fails before the RPC of the step is sent.
CheckFails(p) ==
    /\ cli[p].pc \in {"step", "ran"}
    /\ cli[p].hb = "failed"
    /\ cli' = [cli EXCEPT ![p] = Exited(@)]
    /\ UNCHANGED <<storeVars, config, late, executed>>

\* Mutant: the checkpoint is sent without waiting for its answer.
StepStartUnchecked(p) ==
    /\ cli[p].pc = "step"
    /\ cli' = [cli EXCEPT ![p].pc = "exec"]
    /\ UNCHANGED <<storeVars, config, late, executed>>

\* checkpoint "running" before the step.
StepStart(p) ==
    /\ cli[p].pc = "step"
    /\ cli[p].hb # "failed"
    /\ Serve(Request(p))
    /\ cli' = [cli EXCEPT ![p].pc = "exec"]
    /\ UNCHANGED <<config, late, executed>>

\* Mutant: the error of execute_step is dropped.
ExecuteStepIgnoringError(p) ==
    LET c == cli[p] IN
    /\ c.pc = "exec"
    /\ cli' = [cli EXCEPT ![p].pc = "ran"]
    /\ \/ executed' = executed \cup {<<c.id, StepsOf(c.mode)[c.pos]>>}
       \/ UNCHANGED executed
    /\ UNCHANGED <<storeVars, config, late>>

\* execute_step returns; while pc = "exec" the step is acting on the system.
ExecuteStep(p) ==
    LET c == cli[p] IN
    /\ c.pc = "exec"
    /\ \/ /\ cli' = [cli EXCEPT ![p].pc = "ran"]
          /\ executed' = executed \cup {<<c.id, StepsOf(c.mode)[c.pos]>>}
       \/ /\ cli' = [cli EXCEPT ![p].pc = "failed"]
          /\ UNCHANGED executed
    /\ UNCHANGED <<storeVars, config, late>>

\* checkpoint "completed" after the step.
StepDone(p) ==
    LET c == cli[p] IN
    /\ c.pc = "ran"
    /\ c.hb # "failed"
    /\ Serve(Request(p))
    /\ cli' = [cli EXCEPT ![p].pos = c.pos + 1, ![p].pc = LoopPc(c, c.pos + 1)]
    /\ UNCHANGED <<config, late, executed>>

\* load_config again: an edited config is not committed.
VerifyInputs(p) ==
    /\ cli[p].pc = "verify"
    /\ cli' = [cli EXCEPT ![p] = IF config = @.digest THEN [@ EXCEPT !.pc = "stop"]
                                 ELSE Exited(@)]
    /\ UNCHANGED <<storeVars, config, late, executed>>

\* heartbeat.stop() joins the worker and reports its failure.
StopHeartbeat(p) ==
    /\ cli[p].pc = "stop"
    /\ cli' = [cli EXCEPT ![p] = IF @.hb = "failed" THEN Exited(@)
                                 ELSE [@ EXCEPT !.pc = "finish", !.hb = "off"]]
    /\ UNCHANGED <<storeVars, config, late, executed>>

\* Mutant: after reporting a failed step, run() goes on to the commit.
LastCallGoesOn(p) ==
    /\ cli[p].pc \in {"finish", "abort", "decline", "failed"}
    /\ Serve(Request(p))
    /\ cli' = [cli EXCEPT ![p] = IF @.pc = "failed" THEN [@ EXCEPT !.pc = "verify"]
                                 ELSE Exited(@)]
    /\ UNCHANGED <<config, late, executed>>

\* The last RPC of an invocation: finish, the abort of --abort or of a
\* declined plan, or the report of a failed step.
LastCall(p) ==
    /\ cli[p].pc \in {"finish", "abort", "decline", "failed"}
    /\ Serve(Request(p))
    /\ cli' = [cli EXCEPT ![p] = Exited(@)]
    /\ UNCHANGED <<config, late, executed>>

\* Mutant: the RPC is repeated for ever.
RpcRetriedForever(p) == cli[p].pc \in RpcPc /\ UNCHANGED vars

\* An RPC returns an error, or nothing within its timeout: run() returns.
RpcFails(p) ==
    LET r == Request(p) IN
    /\ cli[p].pc \in RpcPc
    /\ cli[p].pc \in {"step", "ran"} => cli[p].hb # "failed"
    /\ Unreliable \/ ~Accepts(r)
    /\ cli' = [cli EXCEPT ![p] = Exited(@)]
    /\ MayArriveLate(r)
    /\ UNCHANGED <<storeVars, config, executed>>

-----------------------------------------------------------------------------
(* Environment. *)

\* The process is killed; the request it was sending may still arrive.
Crash(p) ==
    /\ cli[p].pc \notin {"off", "exited"}
    /\ ProcessDies(p)
    /\ cli' = [cli EXCEPT ![p] = Exited(@)]
    /\ IF cli[p].pc \in RpcPc THEN MayArriveLate(Request(p)) ELSE UNCHANGED late
    /\ UNCHANGED <<config, executed>>

\* run() has returned: the process ends, or a dashboard keeps it open.  Its
\* PID may be given to another program.
PidChanges(p) ==
    /\ cli[p].pc = "exited"
    /\ ProcessDies(p) \/ ProcessAppears(p)
    /\ UNCHANGED cliVars

EditConfig ==
    /\ config' \in Hash \ {config}
    /\ UNCHANGED <<storeVars, cli, late, executed>>

\* With Timely, a lease whose worker is running never reaches its end.
ClockTick ==
    /\ Timely => ~ \E p \in Holder : /\ lease.holder = p
                                     /\ lease.left = 1
                                     /\ cli[p].hb = "on"
    /\ Tick
    /\ UNCHANGED cliVars

-----------------------------------------------------------------------------
NotStarted == [pc |-> "off", cmd |-> [mode |-> "apply", purge |-> FALSE, force |-> FALSE],
               mode |-> "apply", purge |-> FALSE, digest |-> CHOOSE d \in Hash : TRUE,
               actual |-> NoSnapshot, id |-> 0, pos |-> 1, hb |-> "off",
               authorised |-> FALSE]

Init ==
    /\ StoreInit
    /\ cli = [p \in Holder |-> NotStarted]
    /\ config \in Hash
    /\ late = {}
    /\ executed = {}

\* What the invocation itself does, with the answers it gets.
CliStep(p) ==
    \/ Begin(p) \/ LeaseHeartbeatStart(p)
    \/ CheckFails(p) \/ StepStart(p) \/ ExecuteStep(p) \/ StepDone(p)
    \/ VerifyInputs(p) \/ StopHeartbeat(p) \/ LastCall(p) \/ RpcFails(p)

Next ==
    \/ \E p \in Holder :
          \/ \E cmd \in Command : Start(p, cmd)
          \/ CliStep(p)
          \/ ConfirmBreaking(p)
          \/ Heartbeat(p) \/ HeartbeatFails(p)
          \/ Crash(p) \/ PidChanges(p)
    \/ \E r \in late : Arrive(r)
    \/ EditConfig
    \/ ClockTick

Spec == Init /\ [][Next]_vars

\* Every RPC has a client timeout, so an invocation that neither waits for the
\* user nor is inside execute_step keeps going; time passes.  Nothing is
\* assumed about users, lost requests, crashes or PIDs, nor that execute_step
\* returns: it waits for children and for the dialog of macOS without a timeout.
Fairness ==
    /\ \A p \in Holder : WF_vars(cli[p].pc # "exec" /\ CliStep(p))
    /\ WF_vars(ClockTick)

-----------------------------------------------------------------------------
(* Properties. *)

\* A journal row is done only after every step of its operation has completed
\* under that row, by whichever invocations resumed it, whatever crashed in
\* between (ADR 0003: "all steps done" before "committed").
CommitComplete ==
    \A g \in DOMAIN journal : journal[g].status = "done" =>
        \A i \in DOMAIN StepsOf(journal[g].mode) :
            <<g, StepsOf(journal[g].mode)[i]>> \in executed

\* The steps before the checkpoint of an incomplete row have completed: a
\* resume, which skips them, skips nothing that is still to do.
CheckpointSound ==
    \A g \in Incomplete :
        LET steps == StepsOf(journal[g].mode)
        IN \A i \in 1..(StartPos(steps, TRUE, journal[g].step) - 1) :
              <<g, steps[i]>> \in executed

\* No step is lost between invocations: what a resume skips is done, and what
\* is committed is done in full.
NoStepLost == CommitComplete /\ CheckpointSound

Committed == {g \in DOMAIN journal : journal[g].status = "done"}

\* Table resources shows the desired hash of the newest committed row, and the
\* mode of an operation that was begun no later than it: its own, unless the
\* commit came from a resume that had read an older row's mode (journal_context)
\* before that operation was ended and another one begun.
CommittedSnapshot ==
    LET g == CHOOSE k \in Committed : \A j \in Committed : j <= k
    IN IF Committed = {} THEN resources = NoSnapshot
       ELSE \E k \in 1..g :
              /\ journal[k].mode # "resume"
              /\ resources = FinalResources(journal[k].mode, journal[k].purge, journal[g].hash)

\* An invocation that lost its operation to another one starts no further
\* step: it stops at the next step boundary, although nobody tells it.
LostOperationStops ==
    [][\A p \in Holder :
         (cli[p].pc # "exec" /\ cli'[p].pc = "exec") =>
            /\ owner[Len(journal)] = p
            /\ cli[p].id = Len(journal)
            /\ journal[Len(journal)].status \in IncompleteStatus]_vars

\* Two invocations never execute steps of the stack at the same time, as long
\* as heartbeats are in time and RPCs are answered.
ExclusiveExecution ==
    \A p, q \in Holder : cli[p].pc = "exec" /\ cli[q].pc = "exec" => p = q

\* The row an executing invocation works on stays incomplete and its own:
\* nobody can resume, abort or supersede it meanwhile.
ExecutionIsJournalled ==
    \A p \in Holder : cli[p].pc = "exec" =>
        /\ cli[p].id = Len(journal)
        /\ owner[Len(journal)] = p
        /\ journal[Len(journal)].status = "running"

\* Both: an executing invocation is alone and its row is its own.
ExecutionProtected == ExclusiveExecution /\ ExecutionIsJournalled

\* The CLI and the store together implement the state machine of ADR 0003.
Lifecycle == INSTANCE ApplyLifecycle WITH
    NoActual <- NoSnapshot, Actual <- Snapshot, actual <- resources,
    generation <- Len(journal),
    phase <- IF Incomplete = {} THEN "idle" ELSE journal[Current].status,
    holder <- IF Incomplete = {} THEN NoHolder ELSE owner[Len(journal)]

\* Whatever invocations, late requests and crashes do to the journal is one
\* step of that machine or none: begin, fail, resume, commit or abort.
ImplementsLifecycle == Lifecycle!Spec

\* The user agreed to every commit of a desired state that differs from the
\* committed one in a breaking way (cli-contract-v1: confirmation or --force).
BreakingConfirmed ==
    [][\A p \in Holder :
         (/\ cli[p].pc = "finish" /\ cli'[p].pc = "exited"
          /\ resources' # resources
          /\ Breaking(cli[p].mode, cli[p].digest, resources))
         => cli[p].authorised]_vars

\* An invocation that does not wait for an answer of the user comes to an end,
\* whatever fails, is lost or arrives late meanwhile, unless it stays for good
\* in one step that never returns (run_self waits for its child without timeout).
InvocationEnds ==
    \A p \in Holder : cli[p].pc \notin {"off", "exited", "confirm"}
                         ~> \/ cli[p].pc \in {"exited", "confirm"}
                            \/ [](cli[p].pc = "exec")

\* The lease of an invocation that has ended stops blocking the others for
\* good, even if its process stays open or its PID is reused.
LeaseIsFreedAfterExit ==
    \A p \in Holder : cli[p].pc = "exited"
                         ~> []~(lease.holder = p /\ lease.left > 0 /\ p \in alive)
=============================================================================
