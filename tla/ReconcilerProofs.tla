-------------------------- MODULE ReconcilerProofs --------------------------
(***************************************************************************)
(* Proofs about Reconciler, for any number of invocations, configs, steps  *)
(* and late requests, any TTL and any faults: the CLI uses the store as    *)
(* ApplyStore allows, an invocation that lost its operation stops, and CLI *)
(* and store together implement the state machine of ADR 0003.             *)
(***************************************************************************)
EXTENDS Reconciler, ApplyStoreProofs

-----------------------------------------------------------------------------
(* The inductive invariant. *)

CommandLine == [mode: Mode \cup {"abort"}, purge: BOOLEAN, force: BOOLEAN]

\* The local variables of run().
CliRecord ==
    [pc: Pc, cmd: CommandLine, mode: Mode \cup {"abort"}, purge: BOOLEAN,
     digest: Hash, actual: Snapshot, id: Nat, pos: Nat \ {0},
     hb: {"off", "on", "failed"}, authorised: BOOLEAN]

\* The values run() has at each point: only a command that begins sends
\* stack.begin, and inside the loop the position is one of the list.
CliOK(c) ==
    /\ c \in CliRecord
    /\ c.pc = "begin" => c.cmd.mode \in Mode
    /\ c.pc \in {"step", "exec", "ran", "failed"} => c.pos <= Len(StepsOf(c.mode))

RequestOK(r) ==
    /\ r.from \in Holder
    /\ r.op \in {"begin", "heartbeat", "step", "finish", "abort"}
    /\ r.op = "begin" => r.hash \in Hash /\ r.mode \in Mode /\ r.purge \in BOOLEAN
    /\ r.op = "step" => r.step \in Step /\ r.status \in IncompleteStatus
    /\ r.op = "finish" => r.snapshot \in Snapshot

CliTyped ==
    /\ cli \in [Holder -> CliRecord]
    /\ \A p \in Holder : CliOK(cli[p])
    /\ config \in Hash
    /\ \A r \in late : RequestOK(r)
    /\ Len(journal) <= MaxGen

\* The operation that is under way is p's and has failed.
FailedBy(p) ==
    /\ Incomplete # {}
    /\ owner[Len(journal)] = p
    /\ journal[Len(journal)].status = "failed"

\* Who gave up on a request has returned, but for the worker's heartbeats.
LateMeansExited == \A r \in late : r.op # "heartbeat" => cli[r.from].pc = "exited"

\* An invocation reports a failed step or finishes, never both, however late.
OneVerdict ==
    \A r, s \in late : r.op = "finish" /\ s.op = "step" /\ s.status = "failed" => r.from # s.from

\* A failed operation is not finished by the invocation that reported it.
FailedStops ==
    \A p \in Holder : FailedBy(p) =>
        cli[p].pc = "exited" /\ \A r \in late : r.op = "finish" => r.from # p

Verdicts == LateMeansExited /\ OneVerdict /\ FailedStops

CliInv == StoreInv /\ CliTyped /\ Verdicts

-----------------------------------------------------------------------------
(* Requests. *)

LEMMA StepsTyped ==
    ASSUME NEW mode PROVE StepsOf(mode) \in Seq(Step)
BY ReconcilerAssumption DEF StepsOf

\* What each RPC of run() carries.
LEMMA RequestShape ==
    ASSUME CliTyped, NEW p \in Holder, cli[p].pc \in RpcPc
    PROVE  /\ RequestOK(Request(p))
           /\ Request(p).from = p
           /\ Request(p).op = "begin" <=> cli[p].pc = "begin"
           /\ Request(p).op = "finish" <=> cli[p].pc = "finish"
           /\ Request(p).op = "step" <=> cli[p].pc \in {"step", "ran", "failed"}
           /\ cli[p].pc \in {"step", "ran"} => Request(p).status = "running"
           /\ Request(p).op # "begin" /\ Request(p).op # "abort" => Request(p).id = cli[p].id
<1> DEFINE c == cli[p]
<1>1. CliOK(c) /\ c \in CliRecord
  BY DEF CliTyped, CliOK
<1>2. CASE c.pc = "begin"
  BY <1>1, <1>2 DEF Request, RequestOK, CliOK, CliRecord, CommandLine
<1>3. CASE c.pc = "lease"
  BY <1>1, <1>3 DEF Request, RequestOK
<1>4. CASE c.pc \in {"step", "ran", "failed"}
  <2>1. StepsOf(c.mode)[c.pos] \in Step
    <3>1. c.pos \in 1..Len(StepsOf(c.mode))
      BY <1>1, <1>4, StepsTyped DEF CliOK, CliRecord
    <3> QED BY <3>1, StepsTyped
  <2>2. CASE c.pc \in {"step", "ran"}
    BY <2>1, <2>2 DEF Request, RequestOK, IncompleteStatus
  <2>3. CASE c.pc = "failed"
    BY <2>1, <2>3 DEF Request, RequestOK, IncompleteStatus
  <2> QED BY <1>4, <2>2, <2>3
<1>5. CASE c.pc = "finish"
  <2>1. FinalResources(c.mode, c.purge, c.digest) \in Snapshot
    BY <1>1, ReconcilerAssumption DEF FinalResources, CliRecord
  <2> QED BY <1>5, <2>1 DEF Request, RequestOK
<1>6. CASE c.pc \in {"decline", "abort"}
  BY <1>6 DEF Request, RequestOK
<1> QED BY <1>2, <1>3, <1>4, <1>5, <1>6 DEF RpcPc

\* requireApplyLease lets only the owner of the newest row through.
LEMMA LeaseMeansOwner ==
    ASSUME StoreInv, NEW id, NEW h, RequireApplyLease(id, h)
    PROVE  /\ Incomplete # {} /\ id = Current /\ id = Len(journal) /\ id \in DOMAIN journal
           /\ owner[Len(journal)] = h
           /\ journal[id].status \in IncompleteStatus
<1>1. Incomplete # {} /\ id = Current /\ lease.holder = h
  BY DEF RequireApplyLease
<1>2. Current = Len(journal) /\ Current \in DOMAIN journal /\ journal[Len(journal)].status \in IncompleteStatus
  BY <1>1, CurrentIsLast DEF StoreInv
<1> QED BY <1>1, <1>2 DEF StoreInv, LeaseNamesOwner

\* Every request, late or not, is a call ApplyStore allows.
LEMMA ServeIsStoreStep ==
    ASSUME StoreInv, Len(journal) <= MaxGen, NEW r, RequestOK(r), Serve(r)
    PROVE  StoreNext
<1>1. ASSUME NEW id, RequireApplyLease(id, r.from) PROVE id \in 1..MaxGen
  BY <1>1, LeaseMeansOwner, StoreAssumption DEF StoreInv, TypeOK
<1>2. CASE r.op = "begin"
  BY <1>2 DEF Serve, StoreNext, RequestOK
<1>3. CASE r.op = "heartbeat"
  BY <1>1, <1>3 DEF Serve, StoreNext, RequestOK, HeartbeatApply
<1>4. CASE r.op = "step"
  BY <1>1, <1>4 DEF Serve, StoreNext, RequestOK, AdvanceApply
<1>5. CASE r.op = "finish"
  BY <1>1, <1>5 DEF Serve, StoreNext, RequestOK, FinishApply
<1>6. CASE r.op = "abort"
  BY <1>6 DEF Serve, StoreNext, RequestOK
<1> QED BY <1>2, <1>3, <1>4, <1>5, <1>6 DEF RequestOK

-----------------------------------------------------------------------------
(* Every step of the composition is a step of the store. *)

LEMMA StepIsStoreStep == StoreInv /\ CliTyped /\ [Next]_vars => [StoreNext]_storeVars
<1> SUFFICES ASSUME StoreInv, CliTyped, [Next]_vars PROVE [StoreNext]_storeVars
  OBVIOUS
<1>1. ASSUME NEW r, RequestOK(r), Serve(r) PROVE StoreNext
  BY <1>1, ServeIsStoreStep DEF CliTyped
<1>2. ASSUME NEW p \in Holder, cli[p].pc \in RpcPc, Serve(Request(p)) PROVE StoreNext
  BY <1>1, <1>2, RequestShape
<1>3. ASSUME NEW p \in Holder, CliStep(p) PROVE [StoreNext]_storeVars
  BY <1>2, <1>3 DEF CliStep, Begin, LeaseHeartbeatStart, CheckFails, StepStart, ExecuteStep, StepDone,
                    VerifyInputs, StopHeartbeat, LastCall, RpcFails, RpcPc
<1>4. ASSUME NEW p \in Holder, Heartbeat(p) PROVE StoreNext
  <2>1. cli[p].id \in 1..MaxGen
    BY <1>4, LeaseMeansOwner, StoreAssumption DEF Heartbeat, HeartbeatApply, StoreInv, TypeOK, CliTyped
  <2> QED BY <1>4, <2>1 DEF Heartbeat, StoreNext
<1>5. ASSUME NEW p \in Holder,
             \/ \E cmd \in Command : Start(p, cmd)
             \/ ConfirmBreaking(p) \/ HeartbeatFails(p) \/ Crash(p) \/ PidChanges(p)
      PROVE  [StoreNext]_storeVars
  BY <1>5 DEF Start, ConfirmBreaking, HeartbeatFails, Crash, PidChanges, StoreNext
<1>6. ASSUME NEW r \in late, Arrive(r) PROVE [StoreNext]_storeVars
  BY <1>1, <1>6 DEF Arrive, CliTyped
<1>7. CASE EditConfig \/ ClockTick
  BY <1>7 DEF EditConfig, ClockTick, StoreNext
<1>8. CASE UNCHANGED vars
  BY <1>8 DEF vars, storeVars
<1> QED BY <1>3, <1>4, <1>5, <1>6, <1>7, <1>8 DEF Next

-----------------------------------------------------------------------------
(* The types of the CLI's state. *)

\* A step that changes one invocation keeps the types when what it leaves is
\* well typed.
LEMMA OneCliChanges ==
    ASSUME CliTyped, NEW p \in Holder, NEW c, CliOK(c), cli' = [cli EXCEPT ![p] = c]
    PROVE  /\ cli' \in [Holder -> CliRecord]
           /\ \A q \in Holder : CliOK(cli'[q])
BY DEF CliTyped, CliOK

\* A journal row more only while the bound allows it.
LEMMA JournalBounded ==
    ASSUME StoreInv, Len(journal) <= MaxGen, [StoreNext]_storeVars
    PROVE  Len(journal') <= MaxGen
<1>1. ASSUME NEW h \in Holder, NEW hash \in Hash, NEW mode \in Mode, NEW purge \in BOOLEAN,
             BeginApply(h, hash, mode, purge)
      PROVE  Len(journal') <= MaxGen
  <2> DEFINE row == [status |-> "running", step |-> InitialStep, hash |-> hash,
                     mode |-> mode, purge |-> purge]
  <2>1. journal' = Append(journal, row) /\ Len(journal) < MaxGen
    BY <1>1 DEF BeginApply, CanBegin
  <2> HIDE DEF row
  <2> QED BY <2>1, StoreAssumption DEF StoreInv, TypeOK
<1>2. ASSUME NEW id, NEW step, NEW status, UpdateJournal(id, step, status)
      PROVE  Len(journal') <= MaxGen
  BY <1>2 DEF UpdateJournal, StoreInv, TypeOK
<1>3. CASE UNCHANGED journal
  BY <1>3
<1> QED BY <1>1, <1>2, <1>3
        DEF StoreNext, storeVars, ResumeApply, HeartbeatApply, AdvanceApply, FinishApply,
            AbortApply, AbortApplyTorn, Tick, ProcessAppears, ProcessDies

LEMMA ExitedOK == ASSUME NEW c, CliOK(c) PROVE CliOK(Exited(c)) /\ Exited(c).pc = "exited"
BY DEF CliOK, CliRecord, Exited, Pc

\* The position after stack.begin, or after a step.
LEMMA StartPosTyped ==
    ASSUME NEW mode, NEW resume, NEW at
    PROVE  StartPos(StepsOf(mode), resume, at) \in Nat \ {0}
<1> DEFINE steps == StepsOf(mode)
<1>1. DOMAIN steps = 1..Len(steps) /\ Len(steps) \in Nat
  BY StepsTyped
<1> HIDE DEF steps
<1>2. ASSUME \E i \in DOMAIN steps : steps[i] = at
      PROVE  (CHOOSE i \in DOMAIN steps : steps[i] = at) \in DOMAIN steps
  BY <1>2
<1>3. StartPos(steps, resume, at) \in Nat \ {0}
  BY <1>1, <1>2 DEF StartPos
<1> QED BY <1>3 DEF steps

LEMMA LoopPcTyped ==
    ASSUME NEW c, NEW pos \in Nat
    PROVE  /\ LoopPc(c, pos) \in {"step", "verify"}
           /\ LoopPc(c, pos) = "step" => pos <= Len(StepsOf(c.mode))
BY DEF LoopPc

\* load_config, stack.inspect and journal_context give well-typed values.
LEMMA StartTyped ==
    ASSUME StoreInv, CliTyped, NEW p \in Holder, NEW cmd \in Command, Start(p, cmd)
    PROVE  /\ \E c : CliOK(c) /\ cli' = [cli EXCEPT ![p] = c]
           /\ cli'[p].pc \in {"abort", "exited", "begin"}
<1> DEFINE resume == cmd.mode = "resume"
           resumable == Incomplete # {} /\ journal[Current].mode # "resume"
           pc == CASE cmd.mode = "abort" -> "abort"
                   [] resume /\ ~resumable -> "exited"
                   [] OTHER -> "begin"
           mode == IF resume /\ resumable THEN journal[Current].mode ELSE cmd.mode
           purge == IF resume /\ resumable THEN journal[Current].purge ELSE cmd.purge
           c == [pc |-> pc, cmd |-> cmd, mode |-> mode, purge |-> purge,
                 digest |-> config, actual |-> resources, id |-> 0, pos |-> 1,
                 hb |-> "off", authorised |-> cmd.force]
<1>1. pc \in {"abort", "exited", "begin"} /\ (pc = "begin" => cmd.mode # "abort")
  <2>1. CASE cmd.mode = "abort"
    BY <2>1, Zenon
  <2>2. CASE cmd.mode # "abort" /\ resume /\ ~resumable
    <3>1. pc = "exited"
      BY <2>2, Zenon
    <3> QED BY <3>1, <2>2, Zenon
  <2>3. CASE cmd.mode # "abort" /\ ~(resume /\ ~resumable)
    <3>1. pc = "begin"
      BY <2>3, Zenon
    <3> QED BY <3>1, <2>3, Zenon
  <2> QED BY <2>1, <2>2, <2>3, Zenon
<1>2. cmd \in CommandLine
  BY ReconcilerAssumption DEF CommandLine
<1>3. mode \in Mode \cup {"abort"} /\ purge \in BOOLEAN
  <2>1. CASE resume /\ resumable
    <3>1. journal[Current] \in Row
      BY <2>1, CurrentIsLast, RowOfJournal DEF StoreInv
    <3> QED BY <2>1, <3>1 DEF Row
  <2>2. CASE ~(resume /\ resumable)
    BY <1>2, <2>2 DEF CommandLine
  <2> QED BY <2>1, <2>2
<1>4. cli' = [cli EXCEPT ![p] = c]
  BY DEF Start
<1>5. config \in Hash /\ resources \in Snapshot
  BY DEF CliTyped, StoreInv, TypeOK
<1> HIDE DEF pc, mode, purge
<1>6. c \in CliRecord
  BY <1>1, <1>2, <1>3, <1>5 DEF CliRecord, CommandLine, Pc, RpcPc
<1>7. c.pc = pc /\ c.cmd = cmd
  OBVIOUS
<1>8. CliOK(c)
  <2>1. pc = "begin" => cmd.mode \in Mode
    BY <1>1, <1>2 DEF CommandLine
  <2> HIDE DEF c
  <2> QED BY <1>1, <1>6, <1>7, <2>1 DEF CliOK
<1>9. cli'[p].pc = pc
  BY <1>4 DEF CliTyped
<1> HIDE DEF c
<1> QED BY <1>1, <1>4, <1>8, <1>9

\* stack.begin's answer.
LEMMA BeginTyped ==
    ASSUME StoreInv, CliTyped, NEW p \in Holder, Begin(p)
    PROVE  \E c : CliOK(c) /\ c.pc = "lease" /\ cli' = [cli EXCEPT ![p] = c]
<1> DEFINE id  == IF Incomplete = {} THEN Len(journal) + 1 ELSE Current
           pos == StartPos(StepsOf(cli[p].mode), cli[p].cmd.mode = "resume",
                           IF Incomplete = {} THEN InitialStep ELSE journal[Current].step)
           c == [cli[p] EXCEPT !.pc = "lease", !.id = id, !.pos = pos]
<1>1. id \in Nat
  BY CurrentIsLast DEF StoreInv, TypeOK
<1>2. pos \in Nat \ {0}
  BY StartPosTyped
<1>3. cli' = [cli EXCEPT ![p].pc = "lease", ![p].id = id, ![p].pos = pos]
  BY DEF Begin
<1> HIDE DEF id, pos
<1>4. cli' = [cli EXCEPT ![p] = c]
  BY <1>3 DEF CliTyped
<1>5. cli[p] \in CliRecord
  BY DEF CliTyped
<1>6. CliOK(c) /\ c.pc = "lease"
  BY <1>1, <1>2, <1>5 DEF CliOK, CliRecord, Pc, RpcPc
<1> HIDE DEF c
<1> QED BY <1>4, <1>6

\* Every other step of one invocation.
LEMMA CliStepTyped ==
    ASSUME StoreInv, CliTyped, NEW p \in Holder,
           CliStep(p) \/ ConfirmBreaking(p) \/ HeartbeatFails(p) \/ Crash(p)
    PROVE  \E c : CliOK(c) /\ cli' = [cli EXCEPT ![p] = c]
<1>1. CliOK(cli[p]) /\ cli[p] \in CliRecord
  BY DEF CliTyped, CliOK
<1>2. ASSUME NEW pc \in Pc \ {"begin", "step", "exec", "ran", "failed"}, NEW hb \in {"off", "on", "failed"}
      PROVE  CliOK([cli[p] EXCEPT !.pc = pc, !.hb = hb])
  BY <1>1, <1>2 DEF CliOK, CliRecord
<1>3. ASSUME NEW pc \in {"exec", "ran", "failed"}, cli[p].pc \in {"step", "exec"}
      PROVE  CliOK([cli[p] EXCEPT !.pc = pc])
  BY <1>1, <1>3 DEF CliOK, CliRecord, Pc, RpcPc
<1>4. ASSUME NEW c, CliOK(c), cli' = [cli EXCEPT ![p] = c] PROVE  \E d : CliOK(d) /\ cli' = [cli EXCEPT ![p] = d]
  BY <1>4
<1>5. CASE \/ CheckFails(p) \/ RpcFails(p) \/ LastCall(p) \/ Crash(p)
  BY <1>1, <1>5, ExitedOK DEF CheckFails, RpcFails, LastCall, Crash
<1>6. CASE Begin(p)
  BY <1>6, BeginTyped
<1>7. CASE LeaseHeartbeatStart(p)
  <2> DEFINE pc == IF ~cli[p].cmd.force /\ Breaking(cli[p].mode, cli[p].digest, cli[p].actual)
                   THEN "confirm" ELSE LoopPc(cli[p], cli[p].pos)
             c == [cli[p] EXCEPT !.hb = "on", !.pc = pc]
  <2>1. cli' = [cli EXCEPT ![p].hb = "on", ![p].pc = pc]
    BY <1>7 DEF LeaseHeartbeatStart
  <2>2. pc \in {"confirm", "step", "verify"} /\ (pc = "step" => cli[p].pos <= Len(StepsOf(cli[p].mode)))
    BY <1>1, LoopPcTyped DEF CliRecord
  <2> HIDE DEF pc
  <2>3. cli' = [cli EXCEPT ![p] = c]
    BY <2>1 DEF CliTyped
  <2>4. CliOK(c)
    BY <1>1, <2>2 DEF CliOK, CliRecord, Pc, RpcPc
  <2> QED BY <1>4, <2>3, <2>4
<1>8. CASE ConfirmBreaking(p)
  <2> DEFINE pc == LoopPc(cli[p], cli[p].pos)
             c == [cli[p] EXCEPT !.pc = pc, !.authorised = TRUE]
             d == [cli[p] EXCEPT !.pc = "decline"]
  <2>1. \/ cli' = [cli EXCEPT ![p].pc = pc, ![p].authorised = TRUE]
        \/ cli' = [cli EXCEPT ![p].pc = "decline"]
    BY <1>8 DEF ConfirmBreaking
  <2>2. pc \in {"step", "verify"} /\ (pc = "step" => cli[p].pos <= Len(StepsOf(cli[p].mode)))
    BY <1>1, LoopPcTyped DEF CliRecord
  <2> HIDE DEF pc
  <2>3. cli' = [cli EXCEPT ![p] = c] \/ cli' = [cli EXCEPT ![p] = d]
    BY <2>1 DEF CliTyped
  <2>4. CliOK(c) /\ CliOK(d)
    BY ZenonT(40), <1>1, <2>2 DEF CliOK, CliRecord, Pc, RpcPc
  <2> QED BY <1>4, <2>3, <2>4
<1>9. CASE HeartbeatFails(p)
  <2>1. cli' = [cli EXCEPT ![p] = [cli[p] EXCEPT !.hb = "failed"]]
    BY <1>9 DEF HeartbeatFails, CliTyped
  <2>2. CliOK([cli[p] EXCEPT !.hb = "failed"])
    BY <1>1 DEF CliOK, CliRecord
  <2> QED BY <1>4, <2>1, <2>2
<1>10. CASE StepStart(p) \/ ExecuteStep(p)
  <2>1. PICK pc \in {"exec", "ran", "failed"} : cli' = [cli EXCEPT ![p].pc = pc]
    BY <1>10 DEF StepStart, ExecuteStep
  <2>2. cli' = [cli EXCEPT ![p] = [cli[p] EXCEPT !.pc = pc]]
    BY <2>1 DEF CliTyped
  <2>3. cli[p].pc \in {"step", "exec"}
    BY <1>10 DEF StepStart, ExecuteStep
  <2> QED BY <1>3, <1>4, <2>2, <2>3
<1>11. CASE StepDone(p)
  <2> DEFINE pc == LoopPc(cli[p], cli[p].pos + 1)
             c == [cli[p] EXCEPT !.pos = cli[p].pos + 1, !.pc = pc]
  <2>1. cli' = [cli EXCEPT ![p].pos = cli[p].pos + 1, ![p].pc = pc]
    BY <1>11 DEF StepDone
  <2>2. cli[p].pos + 1 \in Nat \ {0}
    BY <1>1 DEF CliRecord
  <2>3. pc \in {"step", "verify"} /\ (pc = "step" => cli[p].pos + 1 <= Len(StepsOf(cli[p].mode)))
    BY <2>2, LoopPcTyped
  <2> HIDE DEF pc
  <2>4. cli' = [cli EXCEPT ![p] = c]
    BY <2>1 DEF CliTyped
  <2>5. CliOK(c)
    BY <1>1, <2>2, <2>3 DEF CliOK, CliRecord, Pc, RpcPc
  <2> QED BY <1>4, <2>4, <2>5
<1>12. CASE VerifyInputs(p)
  <2>1. \/ cli' = [cli EXCEPT ![p] = Exited(cli[p])]
        \/ cli' = [cli EXCEPT ![p] = [cli[p] EXCEPT !.pc = "stop"]]
    BY <1>12 DEF VerifyInputs
  <2>2. CliOK([cli[p] EXCEPT !.pc = "stop"])
    BY <1>1 DEF CliOK, CliRecord, Pc
  <2> QED BY <1>1, <1>4, <2>1, <2>2, ExitedOK
<1>13. CASE StopHeartbeat(p)
  <2>1. \/ cli' = [cli EXCEPT ![p] = Exited(cli[p])]
        \/ cli' = [cli EXCEPT ![p] = [cli[p] EXCEPT !.pc = "finish", !.hb = "off"]]
    BY <1>13 DEF StopHeartbeat
  <2> QED BY <1>1, <1>2, <1>4, <2>1, ExitedOK DEF Pc, RpcPc
<1> QED BY <1>5, <1>6, <1>7, <1>8, <1>9, <1>10, <1>11, <1>12, <1>13 DEF CliStep

\* Requests that join those on their way are well typed.
LEMMA LateTyped ==
    ASSUME CliTyped, NEW r, RequestOK(r), MayArriveLate(r)
    PROVE  \A s \in late' : RequestOK(s)
BY DEF MayArriveLate, CliTyped

LEMMA CliTypedStep == StoreInv /\ CliTyped /\ [Next]_vars => CliTyped'
<1> SUFFICES ASSUME StoreInv, CliTyped, [Next]_vars PROVE CliTyped'
  OBVIOUS
<1>1. Len(journal') <= MaxGen
  BY StepIsStoreStep, JournalBounded DEF CliTyped
<1>2. /\ cli' \in [Holder -> CliRecord]
      /\ \A q \in Holder : CliOK(cli'[q])
  <2>1. ASSUME NEW p \in Holder, NEW c, CliOK(c), cli' = [cli EXCEPT ![p] = c]
        PROVE  <1>2!1 /\ <1>2!2
    BY <2>1, OneCliChanges
  <2>2. ASSUME NEW p \in Holder, \E cmd \in Command : Start(p, cmd) PROVE <1>2!1 /\ <1>2!2
    BY <2>1, <2>2, StartTyped
  <2>3. ASSUME NEW p \in Holder, CliStep(p) \/ ConfirmBreaking(p) \/ HeartbeatFails(p) \/ Crash(p)
        PROVE  <1>2!1 /\ <1>2!2
    BY <2>1, <2>3, CliStepTyped
  <2>4. CASE UNCHANGED cli
    BY <2>4 DEF CliTyped
  <2> QED BY <2>2, <2>3, <2>4 DEF Next, Heartbeat, PidChanges, cliVars, Arrive, EditConfig, ClockTick, vars
<1>3. config' \in Hash
  BY DEF CliTyped, Next, Start, CliStep, Begin, LeaseHeartbeatStart, CheckFails, StepStart, ExecuteStep,
         StepDone, VerifyInputs, StopHeartbeat, LastCall, RpcFails, ConfirmBreaking, Heartbeat, HeartbeatFails,
         Crash, PidChanges, cliVars, Arrive, EditConfig, ClockTick, vars
<1>4. \A r \in late' : RequestOK(r)
  <2>1. ASSUME NEW p \in Holder, cli[p].pc \in RpcPc, MayArriveLate(Request(p)) PROVE <1>4!:
    BY <2>1, RequestShape, LateTyped
  <2>2. ASSUME NEW p \in Holder, MayArriveLate([op |-> "heartbeat", from |-> p, id |-> cli[p].id]) PROVE <1>4!:
    <3>1. RequestOK([op |-> "heartbeat", from |-> p, id |-> cli[p].id])
      BY DEF RequestOK
    <3> QED BY <2>2, <3>1, LateTyped
  <2>3. CASE late' \subseteq late
    BY <2>3 DEF CliTyped
  <2> QED BY <2>1, <2>2, <2>3
          DEF Next, Start, CliStep, Begin, LeaseHeartbeatStart, CheckFails, StepStart, ExecuteStep,
              StepDone, VerifyInputs, StopHeartbeat, LastCall, RpcFails, ConfirmBreaking, Heartbeat,
              HeartbeatFails, Crash, PidChanges, cliVars, Arrive, EditConfig, ClockTick, vars
<1> QED BY <1>1, <1>2, <1>3, <1>4 DEF CliTyped

LEMMA CliInvInit == Init => CliInv
<1> SUFFICES ASSUME Init PROVE CliInv
  OBVIOUS
<1>1. StoreInv /\ Incomplete = {} /\ Len(journal) = 0
  BY StoreInvInit DEF Init, StoreInit, Incomplete
<1>2. (CHOOSE d \in Hash : TRUE) \in Hash
  BY DEF Init
<1>3. NotStarted \in CliRecord
  BY <1>2, StoreAssumption DEF NotStarted, CliRecord, CommandLine, Pc, Mode
<1>4. NotStarted.pc = "off"
  BY DEF NotStarted
<1>5. CliOK(NotStarted)
  BY <1>3, <1>4 DEF CliOK
<1>6. cli = [p \in Holder |-> NotStarted] /\ config \in Hash /\ late = {}
  BY DEF Init
<1>7. CliTyped
  BY <1>1, <1>3, <1>5, <1>6, StoreAssumption DEF CliTyped
<1> QED BY <1>1, <1>6, <1>7 DEF CliInv, Verdicts, LateMeansExited, OneVerdict, FailedStops, FailedBy

-----------------------------------------------------------------------------
(* No invocation both fails and finishes an operation. *)

\* An operation is failed by its owner's report only.
LEMMA OnlyReportsFail ==
    ASSUME StoreInv, Len(journal) <= MaxGen, NEW r, RequestOK(r), Serve(r), NEW q, FailedBy(q)'
    PROVE  FailedBy(q) \/ (r.from = q /\ r.op = "step" /\ r.status = "failed")
<1>1. CASE r.op = "begin" /\ ResumeApply(r.from, r.hash, r.mode)
  <2>1. Incomplete # {} /\ UpdateJournal(Current, journal[Current].step, "running")
    BY <1>1 DEF ResumeApply, CanResume
  <2>2. Current = Len(journal) /\ Current \in DOMAIN journal /\ journal[Current].step \in Step
    BY <2>1, CurrentIsLast, CurrentStepTyped DEF StoreInv
  <2>3. Len(journal') = Len(journal) /\ journal'[Current].status = "running"
    BY <2>1, <2>2, UpdateJournalEffect DEF StoreInv, Status, IncompleteStatus
  <2> QED BY <2>2, <2>3 DEF FailedBy
<1>2. CASE r.op = "begin" /\ BeginApply(r.from, r.hash, r.mode, r.purge)
  <2> DEFINE row == [status |-> "running", step |-> InitialStep, hash |-> r.hash,
                     mode |-> r.mode, purge |-> r.purge]
  <2>1. journal' = Append(journal, row)
    BY <1>2 DEF BeginApply
  <2>2. row.status = "running"
    OBVIOUS
  <2> HIDE DEF row
  <2>3. journal'[Len(journal')] = row
    BY <2>1 DEF StoreInv, TypeOK
  <2> QED BY <2>2, <2>3 DEF FailedBy
<1>3. CASE r.op = "heartbeat" /\ HeartbeatApply(r.id, r.from)
  BY <1>3 DEF HeartbeatApply, FailedBy, Incomplete
<1>4. CASE r.op = "step" /\ AdvanceApply(r.id, r.from, r.step, r.status)
  <2>1. RequireApplyLease(r.id, r.from) /\ UpdateJournal(r.id, r.step, r.status) /\ owner' = owner
    BY <1>4 DEF AdvanceApply
  <2>2. r.id = Len(journal) /\ r.id \in DOMAIN journal /\ owner[Len(journal)] = r.from
    BY <2>1, LeaseMeansOwner
  <2>3. r.step \in Step /\ r.status \in Status
    BY <1>4 DEF RequestOK, Status
  <2>4. Len(journal') = Len(journal) /\ journal'[r.id].status = r.status
    BY <2>1, <2>2, <2>3, UpdateJournalEffect DEF StoreInv
  <2> QED BY <1>4, <2>1, <2>2, <2>4 DEF FailedBy
<1>5. CASE r.op = "finish" /\ FinishApply(r.id, r.from, r.snapshot)
  <2>1. r.id \in 1..MaxGen
    BY <1>5, LeaseMeansOwner, StoreAssumption DEF FinishApply, StoreInv, TypeOK
  <2>2. Incomplete' = {}
    BY <1>5, <2>1, FinishKeepsInv DEF RequestOK
  <2> QED BY <2>2 DEF FailedBy
<1>6. CASE r.op = "abort" /\ (AbortApply(r.from) \/ AbortApplyTorn(r.from))
  BY <1>6, AbortKeepsInv DEF RequestOK, FailedBy
<1> QED BY <1>1, <1>2, <1>3, <1>4, <1>5, <1>6 DEF Serve

LEMMA SameRowsSameFailure ==
    ASSUME UNCHANGED <<journal, owner>>, NEW q
    PROVE  FailedBy(q)' <=> FailedBy(q)
BY DEF FailedBy, Incomplete

\* A running invocation that moves on without an RPC.
LEMMA LocalKeepsVerdicts ==
    ASSUME CliTyped, Verdicts, NEW p \in Holder, cli[p].pc # "exited",
           \E c : cli' = [cli EXCEPT ![p] = c], UNCHANGED <<journal, owner, late>>
    PROVE  Verdicts'
<1>1. \A q \in Holder : cli[q].pc = "exited" => cli'[q] = cli[q]
  BY DEF CliTyped
<1>2. \A q : FailedBy(q)' <=> FailedBy(q)
  BY SameRowsSameFailure
<1>3. \A r \in late : r.from \in Holder
  BY DEF CliTyped, RequestOK
<1> QED BY <1>1, <1>2, <1>3 DEF Verdicts, LateMeansExited, OneVerdict, FailedStops

\* A running invocation whose RPC was answered.
LEMMA ServedKeepsVerdicts ==
    ASSUME StoreInv, CliTyped, Verdicts, NEW p \in Holder, cli[p].pc \in RpcPc, Serve(Request(p)),
           NEW c, cli' = [cli EXCEPT ![p] = c], cli[p].pc = "failed" => c.pc = "exited", late' = late
    PROVE  Verdicts'
<1>1. cli[p].pc # "exited"
  BY DEF RpcPc
<1>2. cli'[p] = c /\ \A q \in Holder : q # p => cli'[q] = cli[q]
  BY DEF CliTyped
<1>3. \A r \in late : r.from \in Holder /\ (r.op # "heartbeat" => r.from # p)
  BY <1>1 DEF CliTyped, RequestOK, Verdicts, LateMeansExited
<1>4. LateMeansExited' /\ OneVerdict'
  BY <1>2, <1>3 DEF Verdicts, LateMeansExited, OneVerdict
<1>5. ASSUME NEW q \in Holder, FailedBy(q)'
      PROVE  cli'[q].pc = "exited" /\ \A r \in late' : r.op = "finish" => r.from # q
  <2>1. CASE FailedBy(q)
    BY <1>1, <1>2, <2>1 DEF Verdicts, FailedStops
  <2>2. CASE q = p /\ Request(p).op = "step" /\ Request(p).status = "failed"
    <3>1. cli[p].pc = "failed"
      BY <2>2, RequestShape
    <3> QED BY <1>2, <1>3, <2>2, <3>1
  <2> QED BY <1>5, <2>1, <2>2, OnlyReportsFail, RequestShape DEF CliTyped
<1> QED BY <1>4, <1>5 DEF Verdicts, FailedStops

\* An invocation that gives up on its RPC, or is killed while it waits.
LEMMA GivenUpKeepsVerdicts ==
    ASSUME CliTyped, Verdicts, NEW p \in Holder, cli[p].pc \in RpcPc, MayArriveLate(Request(p)),
           cli' = [cli EXCEPT ![p] = Exited(@)], UNCHANGED <<journal, owner>>
    PROVE  Verdicts'
<1>1. cli[p].pc # "exited"
  BY DEF RpcPc
<1>2. cli'[p].pc = "exited" /\ \A q \in Holder : q # p => cli'[q] = cli[q]
  BY ExitedOK DEF CliTyped
<1>3. \A r \in late : r.from \in Holder /\ (r.op # "heartbeat" => r.from # p)
  BY <1>1 DEF CliTyped, RequestOK, Verdicts, LateMeansExited
<1>4. \A r \in late' : r \in late \/ r = Request(p)
  BY DEF MayArriveLate
<1>5. Request(p).from = p
  BY RequestShape
<1>6. LateMeansExited'
  BY <1>2, <1>3, <1>4, <1>5 DEF Verdicts, LateMeansExited
<1>7. OneVerdict'
  <2>1. ~(Request(p).op = "finish" /\ Request(p).op = "step")
    OBVIOUS
  <2> QED BY <1>3, <1>4, <1>5, <2>1 DEF Verdicts, OneVerdict
<1>8. FailedStops'
  <2>1. ~FailedBy(p)
    BY <1>1 DEF Verdicts, FailedStops
  <2>2. \A q : FailedBy(q)' <=> FailedBy(q)
    BY SameRowsSameFailure
  <2> QED BY <1>2, <1>4, <1>5, <2>1, <2>2 DEF Verdicts, FailedStops
<1> QED BY <1>6, <1>7, <1>8 DEF Verdicts

\* A late request that is executed or refused.
LEMMA ArrivalKeepsVerdicts ==
    ASSUME StoreInv, CliTyped, Verdicts, NEW r \in late, Arrive(r)
    PROVE  Verdicts'
<1>1. RequestOK(r) /\ late' \subseteq late /\ cli' = cli
  BY DEF CliTyped, Arrive
<1>2. LateMeansExited' /\ OneVerdict'
  BY <1>1 DEF Verdicts, LateMeansExited, OneVerdict
<1>3. ASSUME NEW q \in Holder, FailedBy(q)'
      PROVE  cli'[q].pc = "exited" /\ \A s \in late' : s.op = "finish" => s.from # q
  <2>1. CASE FailedBy(q)
    BY <1>1, <2>1 DEF Verdicts, FailedStops
  <2>2. CASE r.from = q /\ r.op = "step" /\ r.status = "failed"
    BY <1>1, <2>2 DEF Verdicts, LateMeansExited, OneVerdict
  <2>3. CASE UNCHANGED storeVars
    BY <1>3, <2>1, <2>3, SameRowsSameFailure DEF storeVars
  <2>4. CASE Serve(r)
    BY <1>1, <1>3, <2>1, <2>2, <2>4, OnlyReportsFail DEF CliTyped
  <2> QED BY <2>3, <2>4 DEF Arrive
<1> QED BY <1>2, <1>3 DEF Verdicts, FailedStops

\* Nothing of it changes, but for heartbeats on their way.
LEMMA IdleKeepsVerdicts ==
    ASSUME CliTyped, Verdicts, UNCHANGED <<journal, owner>>,
           \A q \in Holder : cli'[q].pc = cli[q].pc,
           \A r \in late' : r \in late \/ r.op = "heartbeat"
    PROVE  Verdicts'
<1>1. \A q : FailedBy(q)' <=> FailedBy(q)
  BY SameRowsSameFailure
<1>2. \A r \in late : r.from \in Holder
  BY DEF CliTyped, RequestOK
<1> QED BY <1>1, <1>2 DEF Verdicts, LateMeansExited, OneVerdict, FailedStops

LEMMA VerdictsStep == CliInv /\ [Next]_vars => Verdicts'
<1> SUFFICES ASSUME StoreInv, CliTyped, Verdicts, [Next]_vars PROVE Verdicts'
  BY DEF CliInv
<1>1. ASSUME NEW p \in Holder, Begin(p) \/ LeaseHeartbeatStart(p) \/ StepStart(p) \/ StepDone(p) PROVE Verdicts'
  <2>1. cli[p].pc \in {"begin", "lease", "step", "ran"} /\ Serve(Request(p)) /\ late' = late
    BY <1>1 DEF Begin, LeaseHeartbeatStart, StepStart, StepDone
  <2>2. \E c : cli' = [cli EXCEPT ![p] = c]
    BY <1>1, CliStepTyped DEF CliStep
  <2> QED BY <2>1, <2>2, ServedKeepsVerdicts DEF RpcPc
<1>2. ASSUME NEW p \in Holder, LastCall(p) PROVE Verdicts'
  <2>1. Exited(cli[p]).pc = "exited"
    BY ExitedOK DEF CliTyped
  <2> QED BY <1>2, <2>1, ServedKeepsVerdicts DEF LastCall, RpcPc
<1>3. ASSUME NEW p \in Holder,
             CheckFails(p) \/ ExecuteStep(p) \/ VerifyInputs(p) \/ StopHeartbeat(p) \/ ConfirmBreaking(p)
      PROVE  Verdicts'
  <2>1. cli[p].pc # "exited" /\ UNCHANGED <<journal, owner, late>>
    BY <1>3 DEF CheckFails, ExecuteStep, VerifyInputs, StopHeartbeat, ConfirmBreaking, storeVars
  <2>2. \E c : cli' = [cli EXCEPT ![p] = c]
    BY <1>3, CliStepTyped DEF CliStep
  <2> QED BY <2>1, <2>2, LocalKeepsVerdicts
<1>4. ASSUME NEW p \in Holder, NEW cmd \in Command, Start(p, cmd) PROVE Verdicts'
  <2>1. cli[p].pc # "exited" /\ UNCHANGED <<journal, owner, late>>
    BY <1>4 DEF Start, ProcessAppears
  <2>2. \E c : cli' = [cli EXCEPT ![p] = c]
    BY <1>4, StartTyped
  <2> QED BY <2>1, <2>2, LocalKeepsVerdicts
<1>5. ASSUME NEW p \in Holder, RpcFails(p) PROVE Verdicts'
  BY <1>5, GivenUpKeepsVerdicts DEF RpcFails, storeVars
<1>6. ASSUME NEW p \in Holder, Crash(p) PROVE Verdicts'
  <2>1. cli[p].pc # "exited" /\ UNCHANGED <<journal, owner>> /\ cli' = [cli EXCEPT ![p] = Exited(@)]
    BY <1>6 DEF Crash, ProcessDies
  <2>2. CASE cli[p].pc \in RpcPc
    BY <1>6, <2>1, <2>2, GivenUpKeepsVerdicts DEF Crash
  <2>3. CASE cli[p].pc \notin RpcPc
    BY <1>6, <2>1, <2>3, LocalKeepsVerdicts DEF Crash
  <2> QED BY <2>2, <2>3
<1>7. ASSUME NEW p \in Holder, HeartbeatFails(p) PROVE Verdicts'
  <2>1. UNCHANGED <<journal, owner>> /\ cli' = [cli EXCEPT ![p].hb = "failed"]
    BY <1>7 DEF HeartbeatFails, storeVars
  <2>2. \A q \in Holder : cli'[q].pc = cli[q].pc
    BY <2>1 DEF CliTyped, CliRecord
  <2>3. \A r \in late' : r \in late \/ r.op = "heartbeat"
    BY <1>7 DEF HeartbeatFails, MayArriveLate
  <2> QED BY <2>1, <2>2, <2>3, IdleKeepsVerdicts
<1>8. ASSUME UNCHANGED <<journal, owner, cli, late>> PROVE Verdicts'
  BY <1>8, IdleKeepsVerdicts
<1>9. ASSUME NEW p \in Holder, Heartbeat(p) \/ PidChanges(p) PROVE Verdicts'
  BY <1>8, <1>9 DEF Heartbeat, HeartbeatApply, PidChanges, ProcessDies, ProcessAppears, cliVars
<1>10. CASE EditConfig \/ ClockTick \/ UNCHANGED vars
  BY <1>8, <1>10 DEF EditConfig, ClockTick, Tick, storeVars, cliVars, vars
<1>11. ASSUME NEW r \in late, Arrive(r) PROVE Verdicts'
  BY <1>11, ArrivalKeepsVerdicts
<1> QED BY <1>1, <1>2, <1>3, <1>4, <1>5, <1>6, <1>7, <1>9, <1>10, <1>11 DEF Next, CliStep

LEMMA CliInvariance == Spec => []CliInv
<1>1. CliInv /\ [Next]_vars => CliInv'
  BY StepIsStoreStep, StoreInvInductive, CliTypedStep, VerdictsStep DEF CliInv
<1> QED BY <1>1, CliInvInit, PTL DEF Spec

-----------------------------------------------------------------------------
(* The theorems. *)

\* Whatever the invocations do, and however late their requests arrive, the
\* store sees calls that ApplyStore allows: its theorems hold of the whole.
THEOREM CliUsesStore == Spec => StoreSpec
<1>1. Init => StoreInit
  BY DEF Init
<1>2. CliInv /\ [Next]_vars => [StoreNext]_storeVars
  BY StepIsStoreStep DEF CliInv
<1> QED BY <1>1, <1>2, CliInvariance, PTL DEF Spec, StoreSpec

\* With the CLI on top, terminal rows, live leases and commits are protected
\* (StoreSound), for any number of invocations.
THEOREM StoreSoundUnderCli == Spec => StoreSound
BY CliUsesStore, StoreIsSound, PTL

\* Only a checkpoint that was answered lets a step begin, and it is answered
\* to the owner of the newest, incomplete row only.
LEMMA StepNeedsOwnership ==
    ASSUME CliInv, [Next]_vars, NEW p \in Holder, cli[p].pc # "exec", cli'[p].pc = "exec"
    PROVE  /\ owner[Len(journal)] = p
           /\ cli[p].id = Len(journal)
           /\ journal[Len(journal)].status \in IncompleteStatus
<1>1. StoreInv /\ CliTyped
  BY DEF CliInv
<1>2. ASSUME NEW q \in Holder, q # p, \E c : cli' = [cli EXCEPT ![q] = c] PROVE FALSE
  BY <1>1, <1>2 DEF CliTyped
<1>3. ASSUME cli' = cli PROVE FALSE
  BY <1>3
<1>4. ASSUME NEW c, cli' = [cli EXCEPT ![p] = c], c.pc # "exec" PROVE FALSE
  BY <1>1, <1>4 DEF CliTyped
<1>5. StepStart(p)
  <2>1. ASSUME NEW q \in Holder, NEW cmd \in Command, Start(q, cmd) PROVE FALSE
    BY <1>1, <1>2, <2>1, StartTyped
  <2>2. ASSUME NEW q \in Holder, q # p,
               CliStep(q) \/ ConfirmBreaking(q) \/ HeartbeatFails(q) \/ Crash(q)
        PROVE  FALSE
    BY <1>1, <1>2, <2>2, CliStepTyped
  <2>3. ASSUME CheckFails(p) \/ RpcFails(p) \/ LastCall(p) \/ Crash(p) PROVE FALSE
    <3>1. Exited(cli[p]).pc = "exited"
      BY <1>1, ExitedOK DEF CliTyped
    <3> QED BY <1>4, <2>3, <3>1 DEF CheckFails, RpcFails, LastCall, Crash
  <2>4. ASSUME Begin(p) PROVE FALSE
    BY <1>1, <1>4, <2>4, BeginTyped
  <2>5. ASSUME LeaseHeartbeatStart(p) \/ ConfirmBreaking(p) PROVE FALSE
    <3>1. LoopPc(cli[p], cli[p].pos) # "exec"
      BY DEF LoopPc
    <3>2. cli[p] \in CliRecord /\ cli \in [Holder -> CliRecord]
      BY <1>1 DEF CliTyped
    <3>3. PICK pc : pc # "exec" /\ cli'[p].pc = pc
      BY <2>5, <3>1, <3>2 DEF LeaseHeartbeatStart, ConfirmBreaking, CliRecord
    <3> QED BY <3>3
  <2>6. ASSUME StepDone(p) PROVE FALSE
    <3>1. LoopPc(cli[p], cli[p].pos + 1) # "exec"
      BY DEF LoopPc
    <3> QED BY <1>1, <2>6, <3>1 DEF StepDone, CliTyped, CliRecord
  <2>7. ASSUME ExecuteStep(p) PROVE FALSE
    BY <2>7 DEF ExecuteStep
  <2>8. ASSUME VerifyInputs(p) \/ StopHeartbeat(p) PROVE FALSE
    <3>1. Exited(cli[p]).pc = "exited"
      BY <1>1, ExitedOK DEF CliTyped
    <3>2. cli[p] \in CliRecord /\ cli \in [Holder -> CliRecord]
      BY <1>1 DEF CliTyped
    <3> QED BY ZenonT(40), <2>8, <3>1, <3>2 DEF VerifyInputs, StopHeartbeat, CliRecord
  <2>9. ASSUME HeartbeatFails(p) PROVE FALSE
    BY <1>1, <2>9 DEF HeartbeatFails, CliTyped, CliRecord
  <2> QED BY <1>3, <2>1, <2>2, <2>3, <2>4, <2>5, <2>6, <2>7, <2>8, <2>9
          DEF Next, CliStep, Heartbeat, PidChanges, cliVars, Arrive, EditConfig, ClockTick, vars
<1>6. AdvanceApply(cli[p].id, p, Request(p).step, Request(p).status)
  <2>1. cli[p].pc = "step" /\ cli[p].pc \in RpcPc /\ Serve(Request(p))
    BY <1>5 DEF StepStart, RpcPc
  <2>2. Request(p).op = "step" /\ Request(p).from = p /\ Request(p).id = cli[p].id
    BY <1>1, <2>1, RequestShape
  <2> QED BY <2>1, <2>2 DEF Serve
<1> QED BY <1>1, <1>6, LeaseMeansOwner DEF AdvanceApply

\* An invocation that another one has superseded begins no further step, for
\* any number of invocations, late requests and expired leases.
THEOREM SupersededStops == Spec => LostOperationStops
<1>1. CliInv /\ [Next]_vars =>
        [\A p \in Holder :
           (cli[p].pc # "exec" /\ cli'[p].pc = "exec") =>
              /\ owner[Len(journal)] = p
              /\ cli[p].id = Len(journal)
              /\ journal[Len(journal)].status \in IncompleteStatus]_vars
  BY StepNeedsOwnership
<1> QED BY <1>1, CliInvariance, PTL DEF Spec, LostOperationStops

-----------------------------------------------------------------------------
(* CLI and store implement ApplyLifecycle. *)

\* The refinement mapping of Reconciler's INSTANCE.
Phase == IF Incomplete = {} THEN "idle" ELSE journal[Current].status
HolderNow == IF Incomplete = {} THEN NoHolder ELSE owner[Len(journal)]

\* Through the mapping an operation in progress is the newest row.
LEMMA PhaseIsNewest ==
    StoreInv /\ Incomplete # {} =>
        Phase = journal[Len(journal)].status /\ Phase \in {"running", "failed"}
BY CurrentIsLast DEF StoreInv, Phase, IncompleteStatus

LEMMA PhaseIsNewestNext ==
    ASSUME StoreInv', Incomplete' # {}
    PROVE  Phase' = journal'[Len(journal')].status /\ Phase' \in {"running", "failed"}
<1>1. (StoreInv /\ Incomplete # {} =>
         Phase = journal[Len(journal)].status /\ Phase \in {"running", "failed"})'
  BY PhaseIsNewest, PTL
<1> QED BY <1>1

\* A row rewritten with an incomplete status is still the one in progress.
LEMMA RewrittenIsInProgress ==
    ASSUME StoreInv, StoreInv', Incomplete # {}, NEW step \in Step, NEW status \in IncompleteStatus,
           UpdateJournal(Current, step, status)
    PROVE  Incomplete' # {} /\ Len(journal') = Len(journal) /\ Phase' = status
<1>1. Current = Len(journal) /\ Current \in DOMAIN journal
  BY CurrentIsLast DEF StoreInv
<1>2. /\ Len(journal') = Len(journal)
      /\ DOMAIN journal' = DOMAIN journal
      /\ journal'[Len(journal)].status = status
  BY <1>1, UpdateJournalEffect DEF StoreInv, Status
<1>3. Incomplete' # {}
  BY <1>1, <1>2 DEF Incomplete
<1> QED BY <1>2, <1>3, PhaseIsNewestNext

\* A commit or abort leaves the stack idle.
LEMMA EndIsIdle ==
    ASSUME Incomplete' = {}
    PROVE  Phase' = "idle" /\ HolderNow' = NoHolder
BY DEF Phase, HolderNow

\* Each RPC is a step of the life cycle or none; a finish commits because its
\* sender has not reported a failure.
LEMMA ServeIsLifecycleStep ==
    ASSUME StoreInv, StoreInv', Len(journal) <= MaxGen, NEW r, RequestOK(r), Serve(r),
           r.op = "finish" => ~FailedBy(r.from)
    PROVE  [Lifecycle!Next]_<<Phase, Len(journal), HolderNow, resources>>
<1> USE DEF Lifecycle!Next
<1>1. CASE r.op = "begin" /\ ResumeApply(r.from, r.hash, r.mode)
  <2>1. /\ Incomplete # {} /\ UpdateJournal(Current, journal[Current].step, "running")
        /\ owner' = [owner EXCEPT ![Current] = r.from] /\ resources' = resources
    BY <1>1 DEF ResumeApply, CanResume
  <2>2. Current = Len(journal) /\ Current \in DOMAIN journal /\ journal[Current].step \in Step
    BY <2>1, CurrentIsLast, CurrentStepTyped DEF StoreInv
  <2>3. Incomplete' # {} /\ Len(journal') = Len(journal) /\ Phase' = "running"
    BY <2>1, <2>2, RewrittenIsInProgress DEF IncompleteStatus
  <2>4. Phase \in {"running", "failed"}
    BY <2>1, PhaseIsNewest
  <2>5. HolderNow' = r.from
    BY <2>1, <2>2, <2>3 DEF HolderNow, StoreInv, TypeOK
  <2>6. r.from \in Holder
    BY DEF RequestOK
  <2> QED BY <2>1, <2>3, <2>4, <2>5, <2>6 DEF Lifecycle!Resume, Phase, HolderNow
<1>2. CASE r.op = "begin" /\ BeginApply(r.from, r.hash, r.mode, r.purge)
  <2> DEFINE row == [status |-> "running", step |-> InitialStep, hash |-> r.hash,
                     mode |-> r.mode, purge |-> r.purge]
  <2>1. /\ journal' = Append(journal, row) /\ owner' = Append(owner, r.from)
        /\ resources' = resources /\ Incomplete = {}
    BY <1>2 DEF BeginApply, CanBegin
  <2>2. row.status = "running"
    OBVIOUS
  <2> HIDE DEF row
  <2>3. /\ Len(journal') = Len(journal) + 1 /\ journal'[Len(journal')] = row
        /\ Len(journal') \in DOMAIN journal' /\ owner'[Len(journal')] = r.from
    BY <2>1 DEF StoreInv, TypeOK
  <2>4. Incomplete' # {}
    BY <2>2, <2>3 DEF Incomplete, IncompleteStatus
  <2>5. Phase' = "running" /\ HolderNow' = r.from
    BY <2>2, <2>3, <2>4, PhaseIsNewestNext DEF HolderNow
  <2>6. Phase = "idle" /\ r.from \in Holder
    BY <2>1 DEF Phase, RequestOK
  <2> QED BY <2>1, <2>3, <2>5, <2>6 DEF Lifecycle!Begin, Phase, HolderNow
<1>3. CASE r.op = "heartbeat" /\ HeartbeatApply(r.id, r.from)
  BY <1>3 DEF HeartbeatApply, Phase, HolderNow, Incomplete, Current
<1>4. CASE r.op = "step" /\ AdvanceApply(r.id, r.from, r.step, r.status)
  <2>1. /\ RequireApplyLease(r.id, r.from) /\ UpdateJournal(r.id, r.step, r.status)
        /\ UNCHANGED <<owner, resources>>
    BY <1>4 DEF AdvanceApply
  <2>2. Incomplete # {} /\ r.id = Current /\ owner[Len(journal)] = r.from
    BY <2>1, LeaseMeansOwner
  <2>3. Incomplete' # {} /\ Len(journal') = Len(journal) /\ Phase' = r.status
    BY <1>4, <2>1, <2>2, RewrittenIsInProgress DEF RequestOK
  <2>4. Phase \in {"running", "failed"} /\ r.status \in {"running", "failed"} /\ r.from \in Holder
    BY <1>4, <2>2, PhaseIsNewest DEF RequestOK, IncompleteStatus
  <2>5. HolderNow = r.from /\ HolderNow' = r.from
    BY <2>1, <2>2, <2>3 DEF HolderNow
  <2>6. CASE r.status = "running"
    BY <2>1, <2>3, <2>4, <2>5, <2>6 DEF Lifecycle!Resume, Phase, HolderNow
  <2>7. CASE r.status = "failed" /\ Phase = "running"
    BY <2>1, <2>3, <2>5, <2>7 DEF Lifecycle!Fail, Phase, HolderNow
  <2>8. CASE r.status = "failed" /\ Phase = "failed"
    BY <2>1, <2>3, <2>5, <2>8
  <2> QED BY <2>4, <2>6, <2>7, <2>8
<1>5. CASE r.op = "finish" /\ FinishApply(r.id, r.from, r.snapshot)
  <2>1. RequireApplyLease(r.id, r.from) /\ resources' = r.snapshot /\ r.snapshot \in Snapshot
    BY <1>5 DEF FinishApply, RequestOK
  <2>2. Incomplete # {} /\ r.id = Current /\ r.id = Len(journal) /\ r.id \in DOMAIN journal
        /\ owner[Len(journal)] = r.from
    BY <2>1, LeaseMeansOwner
  <2>3. Incomplete' = {} /\ Len(journal') = Len(journal)
    BY <1>5, <2>2, EndedMeansIdle DEF FinishApply
  <2>4. Phase = "running"
    BY <1>5, <2>2, PhaseIsNewest DEF FailedBy
  <2> QED BY <2>1, <2>3, <2>4, EndIsIdle DEF Lifecycle!Commit, Phase, HolderNow
<1>6. CASE r.op = "abort" /\ (AbortApply(r.from) \/ AbortApplyTorn(r.from))
  <2>1. /\ Incomplete # {} /\ UpdateJournal(Current, journal[Current].step, "aborted")
        /\ resources' = resources
    BY <1>6 DEF AbortApply, AbortApplyTorn, CanAbort
  <2>2. Incomplete' = {} /\ Len(journal') = Len(journal)
    BY <2>1, EndedMeansIdle
  <2>3. Phase \in {"running", "failed"}
    BY <2>1, PhaseIsNewest
  <2> QED BY <2>1, <2>2, <2>3, EndIsIdle DEF Lifecycle!Abort, Phase, HolderNow
<1> QED BY <1>1, <1>2, <1>3, <1>4, <1>5, <1>6 DEF Serve

LEMMA StepIsLifecycleStep ==
    CliInv /\ CliInv' /\ [Next]_vars => [Lifecycle!Next]_<<Phase, Len(journal), HolderNow, resources>>
<1> SUFFICES ASSUME CliInv, CliInv', [Next]_vars
             PROVE  [Lifecycle!Next]_<<Phase, Len(journal), HolderNow, resources>>
  OBVIOUS
<1>1. StoreInv /\ StoreInv' /\ CliTyped /\ Verdicts
  BY DEF CliInv
<1>2. ASSUME UNCHANGED <<journal, owner, resources>>
      PROVE  UNCHANGED <<Phase, Len(journal), HolderNow, resources>>
  BY <1>2 DEF Phase, HolderNow, Incomplete, Current
<1>3. ASSUME NEW p \in Holder, cli[p].pc \in RpcPc, Serve(Request(p))
      PROVE  [Lifecycle!Next]_<<Phase, Len(journal), HolderNow, resources>>
  <2>1. RequestOK(Request(p)) /\ Request(p).from = p
    BY <1>1, <1>3, RequestShape
  <2>2. ~FailedBy(p)
    BY <1>1, <1>3 DEF Verdicts, FailedStops, RpcPc
  <2> QED BY <1>1, <1>3, <2>1, <2>2, ServeIsLifecycleStep DEF CliTyped
<1>4. ASSUME NEW p \in Holder, CliStep(p)
      PROVE  [Lifecycle!Next]_<<Phase, Len(journal), HolderNow, resources>>
  <2>1. \/ UNCHANGED <<journal, owner, resources>>
        \/ cli[p].pc \in RpcPc /\ Serve(Request(p))
    BY <1>4 DEF CliStep, Begin, LeaseHeartbeatStart, CheckFails, StepStart, ExecuteStep, StepDone,
                VerifyInputs, StopHeartbeat, LastCall, RpcFails, RpcPc, storeVars
  <2> QED BY <1>2, <1>3, <2>1
<1>5. ASSUME NEW r \in late, Arrive(r)
      PROVE  [Lifecycle!Next]_<<Phase, Len(journal), HolderNow, resources>>
  <2>1. RequestOK(r)
    BY <1>1 DEF CliTyped
  <2>2. r.op = "finish" => ~FailedBy(r.from)
    BY <1>1, <2>1 DEF Verdicts, FailedStops, RequestOK
  <2>3. CASE UNCHANGED storeVars
    BY <1>2, <2>3 DEF storeVars
  <2>4. CASE Serve(r)
    BY <1>1, <2>1, <2>2, <2>4, ServeIsLifecycleStep DEF CliTyped
  <2> QED BY <1>5, <2>3, <2>4 DEF Arrive
<1>6. ASSUME NEW p \in Holder,
             \/ \E cmd \in Command : Start(p, cmd)
             \/ ConfirmBreaking(p) \/ Heartbeat(p) \/ HeartbeatFails(p) \/ Crash(p) \/ PidChanges(p)
      PROVE  UNCHANGED <<journal, owner, resources>>
  BY <1>6 DEF Start, ConfirmBreaking, Heartbeat, HeartbeatApply, HeartbeatFails, Crash, PidChanges,
              ProcessAppears, ProcessDies, storeVars
<1>7. CASE EditConfig \/ ClockTick \/ UNCHANGED vars
  BY <1>2, <1>7 DEF EditConfig, ClockTick, Tick, storeVars, vars
<1> QED BY <1>2, <1>4, <1>5, <1>6, <1>7 DEF Next

\* CLI and store implement the state machine of ADR 0003, whatever crashes,
\* is lost, arrives late or is resumed, for every number of invocations.
THEOREM LifecycleIsImplemented == Spec => ImplementsLifecycle
<1>1. Init => Lifecycle!Init
  <2> SUFFICES ASSUME Init PROVE Lifecycle!Init
    OBVIOUS
  <2>1. Incomplete = {} /\ Len(journal) = 0 /\ resources = NoSnapshot
    BY DEF Init, StoreInit, Incomplete
  <2> QED BY <2>1 DEF Lifecycle!Init
<1>2. CliInv /\ CliInv' /\ [Next]_vars => [Lifecycle!Next]_(Lifecycle!lifecycleVars)
  BY StepIsLifecycleStep DEF Lifecycle!lifecycleVars, Phase, HolderNow
<1> QED BY <1>1, <1>2, CliInvariance, PTL DEF Spec, ImplementsLifecycle, Lifecycle!Spec
=============================================================================
