-------------------------- MODULE InvocationProofs --------------------------
(***************************************************************************)
(* What invocations of vzctl guarantee each other, for any number of them  *)
(* and of steps: no step is lost between them, what is committed is what   *)
(* the journal says, and none executes a step beside another.              *)
(***************************************************************************)
EXTENDS ReconcilerProofs

-----------------------------------------------------------------------------
(* No step is lost, as long as no `down` is among the commands: resuming a *)
(* down that died before its first checkpoint is what loses steps.         *)

\* APPLY_STEPS names each step once.
StepsDistinct == \A i, j \in DOMAIN ApplySteps : ApplySteps[i] = ApplySteps[j] => i = j

NoDownCommand == \A cmd \in Command : cmd.mode # "down"

-----------------------------------------------------------------------------
(* The inductive invariant; ex is the history of completed steps. *)

\* The steps before position k, or all of them, have completed under row g.
Before(ex, g, k) == \A i \in DOMAIN ApplySteps : i < k => <<g, ApplySteps[i]>> \in ex
AllDone(ex, g) == \A i \in DOMAIN ApplySteps : <<g, ApplySteps[i]>> \in ex

\* Where run() stands in its loop, everything before has completed.
LoopOK(ex, c) ==
    /\ c.mode # "down" /\ c.cmd.mode # "down"
    /\ c.pc \in {"lease", "confirm", "step", "exec", "ran", "failed"} => Before(ex, c.id, c.pos)
    /\ c.pc = "ran" => <<c.id, ApplySteps[c.pos]>> \in ex
    /\ c.pc \in {"verify", "stop", "finish"} => AllDone(ex, c.id)

\* A checkpoint names a step that it is right to continue with, and a finish
\* comes after all of them, however late they arrive.
RequestDone(ex, r) ==
    /\ r.op = "begin" => r.mode # "down"
    /\ r.op = "step" => \E k \in DOMAIN ApplySteps : r.step = ApplySteps[k] /\ Before(ex, r.id, k)
    /\ r.op = "finish" => AllDone(ex, r.id)

RowDone(ex, g, row) ==
    /\ row.mode # "down"
    /\ row.status \in IncompleteStatus =>
          \E k \in DOMAIN ApplySteps : row.step = ApplySteps[k] /\ Before(ex, g, k)
    /\ row.status = "done" => AllDone(ex, g)

StepsInv ==
    /\ \A p \in Holder : LoopOK(executed, cli[p])
    /\ \A r \in late : RequestDone(executed, r)
    /\ \A g \in DOMAIN journal : RowDone(executed, g, journal[g])

-----------------------------------------------------------------------------
(* Lemmas. *)

\* What has completed stays completed.
LEMMA DoneGrows ==
    ASSUME NEW ex, NEW more, ex \subseteq more
    PROVE  /\ \A c : LoopOK(ex, c) => LoopOK(more, c)
           /\ \A r : RequestDone(ex, r) => RequestDone(more, r)
           /\ \A g, row : RowDone(ex, g, row) => RowDone(more, g, row)
<1>1. \A g, k : Before(ex, g, k) => Before(more, g, k)
  BY DEF Before
<1>2. \A g : AllDone(ex, g) => AllDone(more, g)
  BY DEF AllDone
<1>3. \A c : LoopOK(ex, c) => LoopOK(more, c)
  BY <1>1, <1>2 DEF LoopOK
<1>4. \A r : RequestDone(ex, r) => RequestDone(more, r)
  BY <1>1, <1>2 DEF RequestDone
<1>5. \A g, row : RowDone(ex, g, row) => RowDone(more, g, row)
  BY <1>1, <1>2 DEF RowDone
<1> QED BY <1>3, <1>4, <1>5

LEMMA ApplyList ==
    /\ ApplySteps \in Seq(Step) /\ Len(ApplySteps) \in Nat
    /\ DOMAIN ApplySteps = 1..Len(ApplySteps) /\ 1 \in DOMAIN ApplySteps
    /\ InitialStep = ApplySteps[1]
    /\ \A mode : mode # "down" => StepsOf(mode) = ApplySteps
<1>1. ApplySteps \in Seq(Step) /\ ApplySteps # << >> /\ InitialStep = ApplySteps[1]
  BY ReconcilerAssumption
<1>2. Len(ApplySteps) # 0
  BY <1>1, EmptySeq
<1> QED BY <1>1, <1>2 DEF StepsOf

\* A resume starts at the step of the checkpoint.
LEMMA StartAtCheckpoint ==
    ASSUME StepsDistinct, NEW k \in DOMAIN ApplySteps
    PROVE  StartPos(ApplySteps, TRUE, ApplySteps[k]) = k
<1>1. \E i \in DOMAIN ApplySteps : ApplySteps[i] = ApplySteps[k]
  OBVIOUS
<1>2. (CHOOSE i \in DOMAIN ApplySteps : ApplySteps[i] = ApplySteps[k]) = k
  BY <1>1 DEF StepsDistinct
<1> QED BY <1>1, <1>2 DEF StartPos

\* Nothing comes before the first step, and nothing is left after the last.
LEMMA NothingBeforeFirst == ASSUME NEW ex, NEW g PROVE Before(ex, g, 1)
BY ApplyList DEF Before

LEMMA LoopEnds ==
    ASSUME NEW ex, NEW g, NEW k \in Nat
    PROVE  /\ ~(k <= Len(ApplySteps)) /\ Before(ex, g, k) => AllDone(ex, g)
           /\ k \in DOMAIN ApplySteps /\ Before(ex, g, k) /\ <<g, ApplySteps[k]>> \in ex => Before(ex, g, k + 1)
BY ApplyList DEF Before, AllDone

\* updateJournal on the row itself.
LEMMA UpdatedRow ==
    ASSUME TypeOK, NEW id \in DOMAIN journal, NEW step, NEW status, UpdateJournal(id, step, status)
    PROVE  /\ DOMAIN journal' = DOMAIN journal
           /\ journal'[id].step = step /\ journal'[id].status = status
           /\ journal'[id].mode = journal[id].mode
           /\ \A g \in DOMAIN journal : g # id => journal'[g] = journal[g]
<1>1. journal[id] \in Row
  BY RowOfJournal
<1> DEFINE r == [journal[id] EXCEPT !.step = step, !.status = status]
<1>2. r.step = step /\ r.status = status /\ r.mode = journal[id].mode
  BY <1>1 DEF Row
<1>3. journal' = [journal EXCEPT ![id] = r]
  BY DEF UpdateJournal
<1> HIDE DEF r
<1> QED BY <1>2, <1>3 DEF TypeOK

\* What run() sends is in order.
LEMMA RequestIsDone ==
    ASSUME CliTyped, StepsInv, NEW p \in Holder, cli[p].pc \in RpcPc
    PROVE  RequestDone(executed, Request(p))
<1> DEFINE c == cli[p]
<1>1. CliOK(c) /\ c \in CliRecord /\ LoopOK(executed, c)
  BY DEF CliTyped, StepsInv
<1>2. CASE c.pc = "begin"
  BY <1>1, <1>2 DEF Request, RequestDone, LoopOK
<1>3. CASE c.pc \in {"step", "ran", "failed"}
  <2>1. c.pos \in DOMAIN ApplySteps /\ StepsOf(c.mode) = ApplySteps /\ Before(executed, c.id, c.pos)
    BY <1>1, <1>3, ApplyList DEF CliOK, CliRecord, LoopOK
  <2>2. Request(p).op = "step" /\ Request(p).step = ApplySteps[c.pos] /\ Request(p).id = c.id
    <3>1. CASE c.pc \in {"step", "ran"}
      BY <2>1, <3>1 DEF Request
    <3>2. CASE c.pc = "failed"
      BY <2>1, <3>2 DEF Request
    <3> QED BY <1>3, <3>1, <3>2
  <2> QED BY <2>1, <2>2 DEF RequestDone
<1>4. CASE c.pc = "finish"
  <2>1. Request(p).op = "finish" /\ Request(p).id = c.id
    BY <1>4 DEF Request
  <2> QED BY <1>1, <1>4, <2>1 DEF RequestDone, LoopOK
<1>5. CASE c.pc \in {"lease", "decline", "abort"}
  <2>1. Request(p).op \notin {"begin", "step", "finish"}
    BY <1>5, RequestShape
  <2> QED BY <2>1 DEF RequestDone
<1> QED BY <1>2, <1>3, <1>4, <1>5 DEF RpcPc

-----------------------------------------------------------------------------
(* The rows. *)

LEMMA ServeKeepsRows ==
    ASSUME StoreInv, StepsInv, NEW r, RequestOK(r), RequestDone(executed, r), Serve(r)
    PROVE  \A g \in DOMAIN journal' : RowDone(executed, g, journal'[g])
<1>1. \A g \in DOMAIN journal : RowDone(executed, g, journal[g])
  BY DEF StepsInv
<1>2. ASSUME NEW id \in DOMAIN journal, NEW step, NEW status, UpdateJournal(id, step, status),
             status \in IncompleteStatus => \E k \in DOMAIN ApplySteps : step = ApplySteps[k] /\ Before(executed, id, k),
             status = "done" => AllDone(executed, id)
      PROVE  \A g \in DOMAIN journal' : RowDone(executed, g, journal'[g])
  BY <1>1, <1>2, UpdatedRow DEF RowDone, StoreInv
<1>3. ASSUME Incomplete # {}
      PROVE  /\ Current \in DOMAIN journal
             /\ \E k \in DOMAIN ApplySteps : journal[Current].step = ApplySteps[k] /\ Before(executed, Current, k)
  BY <1>1, <1>3, CurrentIsLast DEF RowDone, StoreInv
<1>4. CASE r.op = "begin" /\ ResumeApply(r.from, r.hash, r.mode)
  <2>1. Incomplete # {} /\ UpdateJournal(Current, journal[Current].step, "running")
    BY <1>4 DEF ResumeApply, CanResume
  <2> QED BY <1>2, <1>3, <2>1
<1>5. CASE r.op = "begin" /\ BeginApply(r.from, r.hash, r.mode, r.purge)
  <2> DEFINE row == [status |-> "running", step |-> InitialStep, hash |-> r.hash,
                     mode |-> r.mode, purge |-> r.purge]
  <2>1. journal' = Append(journal, row)
    BY <1>5 DEF BeginApply
  <2>2. row.status = "running" /\ row.step = ApplySteps[1] /\ row.mode # "down"
    BY <1>5, ApplyList DEF RequestDone
  <2> HIDE DEF row
  <2>3. \A g : RowDone(executed, g, row)
    BY <2>2, ApplyList, NothingBeforeFirst DEF RowDone
  <2> QED BY <1>1, <2>1, <2>3 DEF StoreInv, TypeOK
<1>6. CASE r.op = "heartbeat" /\ HeartbeatApply(r.id, r.from)
  BY <1>1, <1>6 DEF HeartbeatApply
<1>7. CASE r.op = "step" /\ AdvanceApply(r.id, r.from, r.step, r.status)
  <2>1. RequireApplyLease(r.id, r.from) /\ UpdateJournal(r.id, r.step, r.status)
    BY <1>7 DEF AdvanceApply
  <2>2. r.id \in DOMAIN journal
    BY <2>1, LeaseMeansOwner
  <2>3. r.status # "done"
    BY <1>7 DEF RequestOK, IncompleteStatus
  <2> QED BY <1>2, <1>7, <2>1, <2>2, <2>3 DEF RequestDone
<1>8. CASE r.op = "finish" /\ FinishApply(r.id, r.from, r.snapshot)
  <2>1. RequireApplyLease(r.id, r.from) /\ UpdateJournal(r.id, journal[r.id].step, "done")
    BY <1>8 DEF FinishApply
  <2>2. r.id \in DOMAIN journal
    BY <2>1, LeaseMeansOwner
  <2> QED BY <1>2, <1>8, <2>1, <2>2 DEF RequestDone, IncompleteStatus
<1>9. CASE r.op = "abort" /\ (AbortApply(r.from) \/ AbortApplyTorn(r.from))
  <2>1. Incomplete # {} /\ UpdateJournal(Current, journal[Current].step, "aborted")
    BY <1>9 DEF AbortApply, AbortApplyTorn, CanAbort
  <2> QED BY <1>2, <1>3, <2>1 DEF IncompleteStatus
<1> QED BY <1>4, <1>5, <1>6, <1>7, <1>8, <1>9 DEF Serve

\* Rows are also kept by what is not an RPC, and by the worker's heartbeat.
LEMMA StepKeepsRows ==
    ASSUME StoreInv, CliTyped, StepsInv, [Next]_vars, executed \subseteq executed'
    PROVE  \A g \in DOMAIN journal' : RowDone(executed', g, journal'[g])
<1> SUFFICES \A g \in DOMAIN journal' : RowDone(executed, g, journal'[g])
  BY DoneGrows
<1> DEFINE Kept == \A g \in DOMAIN journal' : RowDone(executed, g, journal'[g])
<1>1. ASSUME UNCHANGED journal PROVE Kept
  BY <1>1 DEF StepsInv
<1>2. ASSUME NEW p \in Holder, cli[p].pc \in RpcPc, Serve(Request(p)) PROVE Kept
  BY <1>2, RequestShape, RequestIsDone, ServeKeepsRows
<1>3. ASSUME NEW p \in Holder, CliStep(p) PROVE Kept
  <2>1. UNCHANGED journal \/ (cli[p].pc \in RpcPc /\ Serve(Request(p)))
    BY <1>3 DEF CliStep, Begin, LeaseHeartbeatStart, CheckFails, StepStart, ExecuteStep, StepDone,
                VerifyInputs, StopHeartbeat, LastCall, RpcFails, RpcPc, storeVars
  <2> QED BY <1>1, <1>2, <2>1
<1>4. ASSUME NEW r \in late, Arrive(r) PROVE Kept
  <2>1. RequestOK(r) /\ RequestDone(executed, r)
    BY DEF CliTyped, StepsInv
  <2>2. UNCHANGED journal \/ Serve(r)
    BY <1>4 DEF Arrive, storeVars
  <2> QED BY <1>1, <2>1, <2>2, ServeKeepsRows
<1>5. ASSUME NEW p \in Holder,
             \/ \E cmd \in Command : Start(p, cmd)
             \/ ConfirmBreaking(p) \/ Heartbeat(p) \/ HeartbeatFails(p) \/ Crash(p) \/ PidChanges(p)
      PROVE  Kept
  <2>1. UNCHANGED journal
    BY <1>5 DEF Start, ConfirmBreaking, Heartbeat, HeartbeatApply, HeartbeatFails, Crash, PidChanges,
                ProcessAppears, ProcessDies, storeVars
  <2> QED BY <1>1, <2>1
<1>6. CASE EditConfig \/ ClockTick \/ UNCHANGED vars
  BY <1>1, <1>6 DEF EditConfig, ClockTick, Tick, storeVars, vars
<1>7. CASE Next
  BY <1>3, <1>4, <1>5, <1>6, <1>7 DEF Next
<1> QED BY <1>6, <1>7

-----------------------------------------------------------------------------
(* The loop of run(). *)

\* stack.begin gives a position whose predecessors have completed.
LEMMA BeginAtCheckpoint ==
    ASSUME StepsDistinct, StoreInv, CliTyped, StepsInv, NEW p \in Holder, Begin(p)
    PROVE  LoopOK(executed, cli'[p])
<1> DEFINE id  == IF Incomplete = {} THEN Len(journal) + 1 ELSE Current
           at  == IF Incomplete = {} THEN InitialStep ELSE journal[Current].step
           resume == cli[p].cmd.mode = "resume"
           pos == StartPos(StepsOf(cli[p].mode), resume, at)
<1>1. cli[p] \in CliRecord /\ LoopOK(executed, cli[p]) /\ cli \in [Holder -> CliRecord]
  BY DEF CliTyped, StepsInv
<1>2. StepsOf(cli[p].mode) = ApplySteps
  BY <1>1, ApplyList DEF LoopOK
<1>3. Before(executed, id, pos)
  <2>1. CASE Incomplete = {}
    <3>1. at = ApplySteps[1] /\ 1 \in DOMAIN ApplySteps
      BY <2>1, ApplyList
    <3>2. StartPos(ApplySteps, TRUE, ApplySteps[1]) = 1
      BY <3>1, StartAtCheckpoint
    <3>3. pos = 1
      <4>1. CASE resume
        <5>1. resume = TRUE
          BY <4>1
        <5> QED BY <1>2, <3>1, <3>2, <5>1
      <4>2. CASE ~resume
        BY <1>2, <4>2 DEF StartPos
      <4> QED BY <4>1, <4>2
    <3> QED BY <3>3, NothingBeforeFirst
  <2>2. CASE Incomplete # {}
    <3>1. cli[p].pc = "begin" /\ Serve(Request(p))
      BY DEF Begin
    <3>2. Request(p).op = "begin" /\ Request(p).mode = cli[p].cmd.mode
      BY <3>1 DEF Request
    <3>3. resume = TRUE
      BY <2>2, <3>1, <3>2 DEF Serve, ResumeApply, CanResume, BeginApply, CanBegin
    <3>4. Current \in DOMAIN journal /\ journal[Current].status \in IncompleteStatus
      BY <2>2, CurrentIsLast DEF StoreInv
    <3>5. PICK k \in DOMAIN ApplySteps : journal[Current].step = ApplySteps[k] /\ Before(executed, Current, k)
      BY <3>4 DEF StepsInv, RowDone
    <3>6. pos = k /\ id = Current
      BY <1>2, <2>2, <3>3, <3>5, StartAtCheckpoint
    <3> QED BY <3>5, <3>6
  <2> QED BY <2>1, <2>2
<1>4. cli' = [cli EXCEPT ![p].pc = "lease", ![p].id = id, ![p].pos = pos]
  BY DEF Begin
<1> HIDE DEF id, pos, at, resume
<1>5. /\ cli'[p].pc = "lease" /\ cli'[p].id = id /\ cli'[p].pos = pos
      /\ cli'[p].mode = cli[p].mode /\ cli'[p].cmd = cli[p].cmd
  BY <1>1, <1>4 DEF CliRecord
<1> QED BY <1>1, <1>3, <1>5 DEF LoopOK

\* journal_context takes the mode of a row, or of the command line.
LEMMA StartKeepsLoop ==
    ASSUME NoDownCommand, StoreInv, CliTyped, StepsInv, NEW p \in Holder, NEW cmd \in Command, Start(p, cmd)
    PROVE  LoopOK(executed, cli'[p])
<1> DEFINE resumes == cmd.mode = "resume" /\ Incomplete # {} /\ journal[Current].mode # "resume"
           mode == IF resumes THEN journal[Current].mode ELSE cmd.mode
<1>1. cli'[p].pc \in {"abort", "exited", "begin"}
  BY StartTyped
<1>2. cli'[p].mode = mode /\ cli'[p].cmd = cmd
  BY DEF Start, CliTyped
<1>3. mode # "down" /\ cmd.mode # "down"
  <2>1. CASE resumes
    BY <2>1, CurrentIsLast DEF StepsInv, RowDone, StoreInv, NoDownCommand
  <2>2. CASE ~resumes
    BY <2>2 DEF NoDownCommand
  <2> QED BY <2>1, <2>2
<1> HIDE DEF mode
<1> QED BY <1>1, <1>2, <1>3 DEF LoopOK

\* The loop goes on with the next step, or ends with all of them done.
LEMMA LoopPcKeeps ==
    ASSUME NEW ex, NEW c, c.mode # "down", c.cmd.mode # "down", NEW k \in Nat, c.pos = k,
           Before(ex, c.id, k), c.pc = LoopPc(c, k) \/ c.pc = "confirm"
    PROVE  LoopOK(ex, c)
<1>1. StepsOf(c.mode) = ApplySteps /\ Len(ApplySteps) \in Nat
  BY ApplyList
<1>2. CASE c.pc = "confirm"
  BY <1>2 DEF LoopOK
<1>3. CASE c.pc = LoopPc(c, k) /\ k <= Len(ApplySteps)
  BY <1>1, <1>3 DEF LoopOK, LoopPc
<1>4. CASE c.pc = LoopPc(c, k) /\ ~(k <= Len(ApplySteps))
  <2>1. c.pc = "verify" /\ AllDone(ex, c.id)
    BY <1>1, <1>4, LoopEnds DEF LoopPc
  <2> QED BY <2>1 DEF LoopOK
<1> QED BY <1>2, <1>3, <1>4

\* A step inside the loop of one invocation.
LEMMA CliStepKeepsLoop ==
    ASSUME StepsDistinct, StoreInv, CliTyped, StepsInv, NEW p \in Holder,
           CliStep(p) \/ ConfirmBreaking(p) \/ HeartbeatFails(p) \/ Crash(p)
    PROVE  LoopOK(executed', cli'[p])
<1> DEFINE c == cli[p]
<1>1. /\ c \in CliRecord /\ CliOK(c) /\ LoopOK(executed, c)
      /\ cli \in [Holder -> CliRecord] /\ StepsOf(c.mode) = ApplySteps
  BY ApplyList DEF CliTyped, StepsInv, LoopOK
<1>2. ASSUME cli' = [cli EXCEPT ![p] = Exited(@)] PROVE LoopOK(executed', cli'[p])
  BY <1>1, <1>2 DEF Exited, LoopOK, CliRecord
<1>3. CASE CheckFails(p) \/ RpcFails(p) \/ LastCall(p) \/ Crash(p)
  BY <1>2, <1>3 DEF CheckFails, RpcFails, LastCall, Crash
<1>4. CASE Begin(p)
  BY <1>4, BeginAtCheckpoint DEF Begin
<1>5. CASE LeaseHeartbeatStart(p) \/ ConfirmBreaking(p)
  <2>1. /\ cli'[p].mode = c.mode /\ cli'[p].cmd = c.cmd /\ cli'[p].id = c.id /\ cli'[p].pos = c.pos
        /\ cli'[p].pc \in {LoopPc(c, c.pos), "confirm", "decline"}
        /\ executed' = executed /\ c.pc \in {"lease", "confirm"}
    BY <1>1, <1>5 DEF LeaseHeartbeatStart, ConfirmBreaking, CliRecord
  <2>2. LoopPc(cli'[p], c.pos) = LoopPc(c, c.pos) /\ c.pos \in Nat
    BY <1>1, <2>1 DEF LoopPc, CliRecord
  <2>3. Before(executed, c.id, c.pos) /\ c.mode # "down" /\ c.cmd.mode # "down"
    BY <1>1, <2>1 DEF LoopOK
  <2>4. CASE cli'[p].pc = "decline"
    BY <2>1, <2>3, <2>4 DEF LoopOK
  <2>5. CASE cli'[p].pc \in {LoopPc(c, c.pos), "confirm"}
    BY <2>1, <2>2, <2>3, <2>5, LoopPcKeeps
  <2> QED BY <2>1, <2>4, <2>5
<1>6. CASE StepStart(p)
  <2>1. /\ cli'[p].mode = c.mode /\ cli'[p].cmd = c.cmd /\ cli'[p].id = c.id /\ cli'[p].pos = c.pos
        /\ cli'[p].pc = "exec" /\ c.pc = "step" /\ executed' = executed
    BY <1>1, <1>6 DEF StepStart, CliRecord
  <2> QED BY <1>1, <2>1 DEF LoopOK
<1>7. CASE ExecuteStep(p)
  <2>1. /\ cli'[p].mode = c.mode /\ cli'[p].cmd = c.cmd /\ cli'[p].id = c.id /\ cli'[p].pos = c.pos
        /\ c.pc = "exec" /\ executed \subseteq executed'
        /\ \/ cli'[p].pc = "ran" /\ <<c.id, ApplySteps[c.pos]>> \in executed'
           \/ cli'[p].pc = "failed"
    BY <1>1, <1>7 DEF ExecuteStep, CliRecord
  <2>2. LoopOK(executed', c)
    BY <1>1, <2>1, DoneGrows
  <2> QED BY <2>1, <2>2 DEF LoopOK
<1>8. CASE StepDone(p)
  <2>1. /\ cli'[p].mode = c.mode /\ cli'[p].cmd = c.cmd /\ cli'[p].id = c.id /\ cli'[p].pos = c.pos + 1
        /\ cli'[p].pc = LoopPc(c, c.pos + 1) /\ c.pc = "ran" /\ executed' = executed
    BY <1>1, <1>8 DEF StepDone, CliRecord
  <2>2. c.pos \in DOMAIN ApplySteps /\ c.pos \in Nat
    BY <1>1, <2>1, ApplyList DEF CliOK, CliRecord
  <2>3. Before(executed, c.id, c.pos) /\ <<c.id, ApplySteps[c.pos]>> \in executed
        /\ c.mode # "down" /\ c.cmd.mode # "down"
    BY <1>1, <2>1 DEF LoopOK
  <2>4. Before(executed, c.id, c.pos + 1)
    BY <2>2, <2>3, LoopEnds
  <2>5. LoopPc(cli'[p], c.pos + 1) = LoopPc(c, c.pos + 1) /\ c.pos + 1 \in Nat
    BY <2>1, <2>2 DEF LoopPc
  <2> QED BY <2>1, <2>3, <2>4, <2>5, LoopPcKeeps
<1>9. CASE VerifyInputs(p) \/ StopHeartbeat(p)
  <2>1. ASSUME cli' = [cli EXCEPT ![p] = [@ EXCEPT !.pc = "stop"]] \/
               cli' = [cli EXCEPT ![p] = [@ EXCEPT !.pc = "finish", !.hb = "off"]],
               c.pc \in {"verify", "stop"}, executed' = executed
        PROVE  LoopOK(executed', cli'[p])
    <3>1. \/ cli'[p] = [c EXCEPT !.pc = "stop"]
          \/ cli'[p] = [c EXCEPT !.pc = "finish", !.hb = "off"]
      BY <1>1, <2>1
    <3>2. /\ cli'[p].mode = c.mode /\ cli'[p].cmd = c.cmd /\ cli'[p].id = c.id
          /\ cli'[p].pc \in {"stop", "finish"}
      <4>1. CASE cli'[p] = [c EXCEPT !.pc = "stop"]
        BY <1>1, <4>1 DEF CliRecord
      <4>2. CASE cli'[p] = [c EXCEPT !.pc = "finish", !.hb = "off"]
        BY <1>1, <4>2 DEF CliRecord
      <4> QED BY <3>1, <4>1, <4>2
    <3> QED BY <1>1, <2>1, <3>2 DEF LoopOK
  <2>2. CASE VerifyInputs(p) /\ config = c.digest
    BY <2>1, <2>2 DEF VerifyInputs
  <2>3. CASE VerifyInputs(p) /\ config # c.digest
    BY <1>2, <2>3 DEF VerifyInputs
  <2>4. CASE StopHeartbeat(p) /\ c.hb = "failed"
    BY <1>2, <2>4 DEF StopHeartbeat
  <2>5. CASE StopHeartbeat(p) /\ c.hb # "failed"
    BY <2>1, <2>5 DEF StopHeartbeat
  <2> QED BY <1>9, <2>2, <2>3, <2>4, <2>5
<1>10. CASE HeartbeatFails(p)
  <2>1. /\ cli'[p].mode = c.mode /\ cli'[p].cmd = c.cmd /\ cli'[p].id = c.id /\ cli'[p].pos = c.pos
        /\ cli'[p].pc = c.pc /\ executed' = executed
    BY <1>1, <1>10 DEF HeartbeatFails, CliRecord
  <2> QED BY <1>1, <2>1 DEF LoopOK
<1> QED BY <1>3, <1>4, <1>5, <1>6, <1>7, <1>8, <1>9, <1>10 DEF CliStep

-----------------------------------------------------------------------------
(* The invariant is inductive. *)

LEMMA StepsInvStep ==
    ASSUME StepsDistinct, NoDownCommand, CliInv, StepsInv, [Next]_vars
    PROVE  StepsInv'
<1>1. StoreInv /\ CliTyped
  BY DEF CliInv
<1>2. executed \subseteq executed'
  BY DEF Next, Start, CliStep, Begin, LeaseHeartbeatStart, CheckFails, StepStart, ExecuteStep,
         StepDone, VerifyInputs, StopHeartbeat, LastCall, RpcFails, ConfirmBreaking, Heartbeat,
         HeartbeatFails, Crash, PidChanges, cliVars, Arrive, EditConfig, ClockTick, vars
<1>3. \A g \in DOMAIN journal' : RowDone(executed', g, journal'[g])
  BY <1>1, <1>2, StepKeepsRows
<1>4. \A q \in Holder : LoopOK(executed', cli'[q])
  <2>1. ASSUME NEW q \in Holder, cli'[q] = cli[q] PROVE LoopOK(executed', cli'[q])
    BY <1>2, <2>1, DoneGrows DEF StepsInv
  <2>2. ASSUME NEW p \in Holder, \E c : cli' = [cli EXCEPT ![p] = c], LoopOK(executed', cli'[p])
        PROVE  \A q \in Holder : LoopOK(executed', cli'[q])
    <3>1. \A q \in Holder : q # p => cli'[q] = cli[q]
      BY <1>1, <2>2 DEF CliTyped
    <3> QED BY <2>1, <2>2, <3>1
  <2>3. ASSUME NEW p \in Holder, NEW cmd \in Command, Start(p, cmd)
        PROVE  \A q \in Holder : LoopOK(executed', cli'[q])
    <3>1. LoopOK(executed', cli'[p])
      BY <1>1, <2>3, StartKeepsLoop DEF Start
    <3>2. \E c : cli' = [cli EXCEPT ![p] = c]
      BY <1>1, <2>3, StartTyped
    <3> QED BY <2>2, <3>1, <3>2
  <2>4. ASSUME NEW p \in Holder, CliStep(p) \/ ConfirmBreaking(p) \/ HeartbeatFails(p) \/ Crash(p)
        PROVE  \A q \in Holder : LoopOK(executed', cli'[q])
    <3>1. LoopOK(executed', cli'[p])
      BY <1>1, <2>4, CliStepKeepsLoop
    <3>2. \E c : cli' = [cli EXCEPT ![p] = c]
      BY <1>1, <2>4, CliStepTyped
    <3> QED BY <2>2, <3>1, <3>2
  <2>5. CASE UNCHANGED cli
    BY <2>1, <2>5
  <2> QED BY <2>3, <2>4, <2>5 DEF Next, Heartbeat, PidChanges, cliVars, Arrive, EditConfig, ClockTick, vars
<1>5. \A r \in late' : RequestDone(executed', r)
  <2>1. \A r \in late : RequestDone(executed', r)
    BY <1>2, DoneGrows DEF StepsInv
  <2>2. ASSUME NEW p \in Holder, cli[p].pc \in RpcPc, MayArriveLate(Request(p))
        PROVE  \A r \in late' : RequestDone(executed', r)
    <3>1. RequestDone(executed', Request(p))
      BY <1>1, <1>2, <2>2, RequestIsDone, DoneGrows
    <3> QED BY <2>1, <2>2, <3>1 DEF MayArriveLate
  <2>3. ASSUME NEW p \in Holder, MayArriveLate([op |-> "heartbeat", from |-> p, id |-> cli[p].id])
        PROVE  \A r \in late' : RequestDone(executed', r)
    <3>1. RequestDone(executed', [op |-> "heartbeat", from |-> p, id |-> cli[p].id])
      BY DEF RequestDone
    <3> QED BY <2>1, <2>3, <3>1 DEF MayArriveLate
  <2>4. CASE late' \subseteq late
    BY <2>1, <2>4
  <2> QED BY <2>2, <2>3, <2>4
          DEF Next, Start, CliStep, Begin, LeaseHeartbeatStart, CheckFails, StepStart, ExecuteStep,
              StepDone, VerifyInputs, StopHeartbeat, LastCall, RpcFails, ConfirmBreaking, Heartbeat,
              HeartbeatFails, Crash, PidChanges, cliVars, Arrive, EditConfig, ClockTick, vars
<1> QED BY <1>3, <1>4, <1>5 DEF StepsInv

LEMMA StepsInvInit == Init => StepsInv
<1> SUFFICES ASSUME Init PROVE StepsInv
  OBVIOUS
<1>1. NotStarted.pc = "off" /\ NotStarted.mode = "apply" /\ NotStarted.cmd.mode = "apply"
  BY DEF NotStarted
<1>2. LoopOK(executed, NotStarted)
  BY <1>1 DEF LoopOK
<1> QED BY <1>2 DEF Init, StoreInit, StepsInv

\* The invariant says that nothing was lost.
LEMMA StepsInvSuffices ==
    ASSUME StepsDistinct, StepsInv
    PROVE  NoStepLost
<1>1. CommitComplete
  BY ApplyList DEF CommitComplete, StepsInv, RowDone, AllDone
<1>2. ASSUME NEW g \in Incomplete, NEW i \in 1..(StartPos(StepsOf(journal[g].mode), TRUE, journal[g].step) - 1)
      PROVE  <<g, StepsOf(journal[g].mode)[i]>> \in executed
  <2>1. g \in DOMAIN journal /\ journal[g].status \in IncompleteStatus
    BY DEF Incomplete
  <2>2. PICK k \in DOMAIN ApplySteps : journal[g].step = ApplySteps[k] /\ Before(executed, g, k)
    BY <2>1 DEF StepsInv, RowDone
  <2>3. StepsOf(journal[g].mode) = ApplySteps
    BY <2>1, ApplyList DEF StepsInv, RowDone
  <2>4. StartPos(ApplySteps, TRUE, journal[g].step) = k
    BY <2>2, StartAtCheckpoint
  <2>5. i \in 1..(k - 1)
    <3>1. StartPos(StepsOf(journal[g].mode), TRUE, journal[g].step) = k
      BY <2>3, <2>4
    <3> QED BY ONLY <3>1, <1>2
  <2>6. i \in DOMAIN ApplySteps /\ i < k
    <3>1. k \in 1..Len(ApplySteps) /\ Len(ApplySteps) \in Nat /\ DOMAIN ApplySteps = 1..Len(ApplySteps)
      BY <2>2, ApplyList
    <3> QED BY ONLY <2>5, <3>1
  <2> QED BY <2>2, <2>3, <2>6 DEF Before
<1>3. CheckpointSound
  BY <1>2 DEF CheckpointSound
<1> QED BY <1>1, <1>3 DEF NoStepLost

-----------------------------------------------------------------------------
(* The theorem. *)

\* Whoever crashed, resumed, aborted or arrived late: what is committed has
\* been done in full, and what a resume skips is done (run, beginApply,
\* advanceApply), for any list of distinct steps and without `down`.
THEOREM NoStepIsLost ==
    ASSUME StepsDistinct, NoDownCommand
    PROVE  Spec => []NoStepLost
<1>1. CliInv /\ StepsInv /\ [Next]_vars => StepsInv'
  BY StepsInvStep
<1>2. StepsInv => NoStepLost
  BY StepsInvSuffices
<1> QED BY <1>1, <1>2, StepsInvInit, CliInvariance, PTL DEF Spec

-----------------------------------------------------------------------------
(* What is committed is what the journal says.                             *)

\* Some row of j up to g, begun as no resume, has this mode and purge.
Seen(j, mode, purge, g) ==
    \E k \in 1..g : j[k].mode # "resume" /\ j[k].mode = mode /\ j[k].purge = purge

\* From stack.begin's answer to stack.finish.
OperationPc == {"lease", "confirm", "decline", "step", "exec", "ran", "failed", "verify", "stop", "finish"}

\* Until stack.begin is answered, a resume has mode and purge of a row it has
\* read; afterwards the invocation also has the hash of the row it works on.
CliKnows(j, c) ==
    /\ c.pc = "begin" => IF c.cmd.mode = "resume" THEN Seen(j, c.mode, c.purge, Len(j))
                         ELSE c.mode = c.cmd.mode /\ c.purge = c.cmd.purge
    /\ c.pc \in OperationPc => /\ c.id \in DOMAIN j
                               /\ j[c.id].hash = c.digest
                               /\ Seen(j, c.mode, c.purge, c.id)

Described(j, g, snapshot) ==
    \E k \in 1..g : /\ j[k].mode # "resume"
                    /\ snapshot = FinalResources(j[k].mode, j[k].purge, j[g].hash)

RequestKnows(j, r) == r.op = "finish" => r.id \in DOMAIN j /\ Described(j, r.id, r.snapshot)

\* The newest committed row, if there is one.
HasNewest == Committed = {} \/ \E k \in Committed : \A j \in Committed : j <= k

SnapshotInv ==
    /\ \A p \in Holder : CliKnows(journal, cli[p])
    /\ \A r \in late : RequestKnows(journal, r)
    /\ CommittedSnapshot /\ HasNewest

\* No RPC changes hash, mode or purge of a row, or removes one.
PayloadKept ==
    /\ Len(journal) <= Len(journal')
    /\ \A g \in DOMAIN journal : /\ g \in DOMAIN journal'
                                 /\ journal'[g].mode = journal[g].mode
                                 /\ journal'[g].purge = journal[g].purge
                                 /\ journal'[g].hash = journal[g].hash

LEMMA UpdateKeepsPayload ==
    ASSUME TypeOK, NEW id, NEW step, NEW status, UpdateJournal(id, step, status)
    PROVE  PayloadKept
<1>1. Len(journal') = Len(journal) /\ DOMAIN journal' = DOMAIN journal /\ Len(journal) \in Nat
  BY DEF UpdateJournal, TypeOK
<1>2. ASSUME NEW g \in DOMAIN journal
      PROVE  journal'[g].mode = journal[g].mode /\ journal'[g].purge = journal[g].purge /\ journal'[g].hash = journal[g].hash
  <2>1. journal[g] \in Row
    BY RowOfJournal
  <2>2. CASE g = id
    <3>1. journal'[g] = [journal[g] EXCEPT !.step = step, !.status = status]
      BY <2>2 DEF UpdateJournal, TypeOK
    <3> QED BY <2>1, <3>1 DEF Row
  <2>3. CASE g # id
    BY <2>3 DEF UpdateJournal, TypeOK
  <2> QED BY <2>2, <2>3
<1> QED BY <1>1, <1>2 DEF PayloadKept

LEMMA StoreKeepsPayload == StoreInv /\ [StoreNext]_storeVars => PayloadKept
<1> SUFFICES ASSUME StoreInv, [StoreNext]_storeVars PROVE PayloadKept
  OBVIOUS
<1>1. TypeOK /\ Len(journal) \in Nat
  BY DEF StoreInv, TypeOK
<1>2. ASSUME NEW row, journal' = Append(journal, row) PROVE PayloadKept
  BY <1>1, <1>2 DEF PayloadKept, TypeOK
<1>3. CASE UNCHANGED journal
  BY <1>1, <1>3 DEF PayloadKept
<1> QED BY <1>1, <1>2, <1>3, UpdateKeepsPayload
        DEF StoreNext, storeVars, ResumeApply, BeginApply, HeartbeatApply, AdvanceApply, FinishApply,
            AbortApply, AbortApplyTorn, Tick, ProcessAppears, ProcessDies

\* So what was known stays known.
LEMMA KnownStaysKnown ==
    ASSUME StoreInv, PayloadKept
    PROVE  /\ \A mode, purge : \A g \in DOMAIN journal \cup {Len(journal)} : Seen(journal, mode, purge, g) => Seen(journal', mode, purge, g)
           /\ \A snapshot : \A g \in DOMAIN journal : Described(journal, g, snapshot) => Described(journal', g, snapshot)
           /\ \A c : CliKnows(journal, c) => CliKnows(journal', c)
           /\ \A r : RequestKnows(journal, r) => RequestKnows(journal', r)
<1>1. DOMAIN journal = 1..Len(journal) /\ Len(journal) \in Nat
  BY DEF StoreInv, TypeOK
<1>2. ASSUME NEW mode, NEW purge, NEW g \in DOMAIN journal \cup {Len(journal)}, Seen(journal, mode, purge, g)
      PROVE  Seen(journal', mode, purge, g)
  <2>1. PICK k \in 1..g : journal[k].mode # "resume" /\ journal[k].mode = mode /\ journal[k].purge = purge
    BY <1>2 DEF Seen
  <2>2. k \in DOMAIN journal
    BY <1>1
  <2>3. journal'[k].mode # "resume" /\ journal'[k].mode = mode /\ journal'[k].purge = purge
    BY <2>1, <2>2 DEF PayloadKept
  <2> QED BY <2>3 DEF Seen
<1>3. ASSUME NEW g \in DOMAIN journal, NEW snapshot, Described(journal, g, snapshot)
      PROVE  Described(journal', g, snapshot)
  <2>1. PICK k \in 1..g : /\ journal[k].mode # "resume"
                          /\ snapshot = FinalResources(journal[k].mode, journal[k].purge, journal[g].hash)
    BY <1>3 DEF Described
  <2>2. k \in DOMAIN journal
    BY <1>1
  <2>3. journal'[k].mode = journal[k].mode /\ journal'[k].purge = journal[k].purge /\ journal'[g].hash = journal[g].hash
    BY <2>2 DEF PayloadKept
  <2> QED BY <2>1, <2>3 DEF Described
<1>4. ASSUME NEW mode, NEW purge, Seen(journal, mode, purge, Len(journal)) PROVE Seen(journal', mode, purge, Len(journal'))
  <2>1. PICK k \in 1..Len(journal) : journal[k].mode # "resume" /\ journal[k].mode = mode /\ journal[k].purge = purge
    BY <1>4 DEF Seen
  <2>2. journal'[k].mode # "resume" /\ journal'[k].mode = mode /\ journal'[k].purge = purge /\ k \in DOMAIN journal'
    BY <1>1, <2>1 DEF PayloadKept
  <2>3. k \in 1..Len(journal')
    BY <1>1, <2>2 DEF PayloadKept
  <2> QED BY <2>2, <2>3 DEF Seen
<1>5. ASSUME NEW c, CliKnows(journal, c) PROVE CliKnows(journal', c)
  <2>1. CASE c.pc = "begin"
    BY <1>4, <1>5, <2>1 DEF CliKnows, OperationPc
  <2>2. CASE c.pc \in OperationPc
    BY <1>2, <1>5, <2>2 DEF CliKnows, OperationPc, PayloadKept
  <2>3. CASE c.pc # "begin" /\ c.pc \notin OperationPc
    BY <2>3 DEF CliKnows
  <2> QED BY <2>1, <2>2, <2>3
<1>6. ASSUME NEW r, RequestKnows(journal, r) PROVE RequestKnows(journal', r)
  BY <1>3, <1>6 DEF RequestKnows, PayloadKept
<1> QED BY <1>2, <1>3, <1>5, <1>6

\* A finish carries a snapshot its row describes.
LEMMA RequestIsKnown ==
    ASSUME CliTyped, NEW p \in Holder, cli[p].pc \in RpcPc, CliKnows(journal, cli[p])
    PROVE  RequestKnows(journal, Request(p))
<1> DEFINE c == cli[p]
<1> SUFFICES ASSUME Request(p).op = "finish" PROVE Request(p).id \in DOMAIN journal /\ Described(journal, Request(p).id, Request(p).snapshot)
  BY DEF RequestKnows
<1>1. c.pc = "finish"
  BY RequestShape
<1>2. Request(p).id = c.id /\ Request(p).snapshot = FinalResources(c.mode, c.purge, c.digest)
  BY <1>1 DEF Request
<1>3. c.id \in DOMAIN journal /\ journal[c.id].hash = c.digest /\ Seen(journal, c.mode, c.purge, c.id)
  BY <1>1 DEF CliKnows, OperationPc
<1> QED BY <1>2, <1>3 DEF Seen, Described

\* Only a finish commits.
LEMMA OnlyFinishCommits ==
    ASSUME StoreInv, NEW r, RequestOK(r), Serve(r), r.op # "finish"
    PROVE  Committed' = Committed /\ resources' = resources
<1>1. ASSUME Incomplete # {}, NEW step, NEW status, status # "done", UpdateJournal(Current, step, status)
      PROVE  Committed' = Committed
  <2>1. TypeOK /\ Current \in DOMAIN journal /\ journal[Current].status \in IncompleteStatus
    BY <1>1, CurrentIsLast DEF StoreInv
  <2>2. DOMAIN journal' = DOMAIN journal /\ journal'[Current].status = status /\ \A g \in DOMAIN journal : g # Current => journal'[g] = journal[g]
    BY <1>1, <2>1, UpdatedRow
  <2> QED BY <1>1, <2>1, <2>2 DEF Committed, IncompleteStatus
<1>2. ASSUME NEW row, row.status = "running", journal' = Append(journal, row) PROVE Committed' = Committed
  BY <1>2 DEF Committed, StoreInv, TypeOK
<1>3. CASE r.op = "begin" /\ ResumeApply(r.from, r.hash, r.mode)
  BY <1>1, <1>3 DEF ResumeApply, CanResume
<1>4. CASE r.op = "begin" /\ BeginApply(r.from, r.hash, r.mode, r.purge)
  BY <1>2, <1>4 DEF BeginApply
<1>5. CASE r.op = "heartbeat" /\ HeartbeatApply(r.id, r.from)
  BY <1>5 DEF HeartbeatApply, Committed
<1>6. CASE r.op = "step" /\ AdvanceApply(r.id, r.from, r.step, r.status)
  BY <1>1, <1>6 DEF AdvanceApply, RequireApplyLease, RequestOK, IncompleteStatus
<1>7. CASE r.op = "abort" /\ (AbortApply(r.from) \/ AbortApplyTorn(r.from))
  BY <1>1, <1>7 DEF AbortApply, AbortApplyTorn, CanAbort
<1> QED BY <1>3, <1>4, <1>5, <1>6, <1>7 DEF Serve

\* While nothing is committed, the table stays described.
LEMMA SameCommitSameSnapshot ==
    ASSUME StoreInv, PayloadKept, CommittedSnapshot, HasNewest, Committed' = Committed, resources' = resources
    PROVE  CommittedSnapshot' /\ HasNewest'
<1> DEFINE g == CHOOSE k \in Committed : \A j \in Committed : j <= k
<1>1. CASE Committed = {}
  BY <1>1 DEF CommittedSnapshot, HasNewest
<1>2. CASE Committed # {}
  <2>1. g \in DOMAIN journal
    BY <1>2 DEF HasNewest, Committed
  <2>2. Described(journal, g, resources)
    BY <1>2 DEF CommittedSnapshot, Described
  <2>3. Described(journal', g, resources)
    BY <2>1, <2>2, KnownStaysKnown
  <2>4. CommittedSnapshot'
    BY <1>2, <2>3 DEF CommittedSnapshot, Described
  <2> QED BY <2>4 DEF HasNewest
<1> QED BY <1>1, <1>2

LEMMA FinishCommits ==
    ASSUME StoreInv, PayloadKept, NEW r, r.op = "finish", Serve(r), RequestKnows(journal, r)
    PROVE  CommittedSnapshot' /\ HasNewest'
<1>1. FinishApply(r.id, r.from, r.snapshot)
  BY DEF Serve
<1>2. r.id = Len(journal) /\ r.id \in DOMAIN journal /\ TypeOK
  BY <1>1, LeaseMeansOwner DEF FinishApply, StoreInv
<1>3. resources' = r.snapshot /\ UpdateJournal(r.id, journal[r.id].step, "done")
  BY <1>1 DEF FinishApply
<1>4. DOMAIN journal' = DOMAIN journal /\ journal'[r.id].status = "done"
  BY <1>2, <1>3, UpdatedRow
<1>5. r.id \in Committed' /\ \A j \in Committed' : j <= r.id
  <2>1. Committed' \subseteq 1..Len(journal) /\ Len(journal) \in Nat
    BY <1>2, <1>4 DEF Committed, TypeOK
  <2>2. \A j \in Committed' : j <= r.id
    BY <1>2, <2>1
  <2> QED BY <1>2, <1>4, <2>2 DEF Committed
<1>6. \A k \in Committed' : (\A j \in Committed' : j <= k) => k = r.id
  <2>1. Committed' \subseteq Nat
    BY <1>2, <1>4 DEF Committed, TypeOK
  <2> SUFFICES ASSUME NEW k \in Committed', \A j \in Committed' : j <= k PROVE k = r.id
    OBVIOUS
  <2>2. k \in Nat /\ r.id \in Nat /\ r.id <= k /\ k <= r.id
    BY <1>5, <2>1
  <2> QED BY <2>2
<1>7. (CHOOSE k \in Committed' : \A j \in Committed' : j <= k) = r.id
  BY <1>5, <1>6
<1>8. Described(journal', r.id, r.snapshot)
  BY <1>2, KnownStaysKnown DEF RequestKnows
<1>9. CommittedSnapshot'
  BY <1>3, <1>5, <1>7, <1>8 DEF CommittedSnapshot, Described
<1> QED BY <1>5, <1>9 DEF HasNewest

LEMMA ServeKeepsSnapshot ==
    ASSUME StoreInv, PayloadKept, CommittedSnapshot, HasNewest, NEW r, RequestOK(r), Serve(r), RequestKnows(journal, r)
    PROVE  CommittedSnapshot' /\ HasNewest'
BY FinishCommits, OnlyFinishCommits, SameCommitSameSnapshot

\* What journal_context and the command line give an invocation.
LEMMA StartKnows ==
    ASSUME StoreInv, CliTyped, NEW p \in Holder, NEW cmd \in Command, Start(p, cmd)
    PROVE  CliKnows(journal', cli'[p])
<1> DEFINE c == cli'[p]
           resumable == Incomplete # {} /\ journal[Current].mode # "resume"
<1>1. journal' = journal
  BY DEF Start, ProcessAppears
<1>2. /\ c.cmd = cmd
      /\ c.mode = IF cmd.mode = "resume" /\ resumable THEN journal[Current].mode ELSE cmd.mode
      /\ c.purge = IF cmd.mode = "resume" /\ resumable THEN journal[Current].purge ELSE cmd.purge
  BY DEF Start, CliTyped
<1>3. c.pc \in {"abort", "exited", "begin"}
  BY StartTyped
<1>4. c.pc = "begin" /\ cmd.mode = "resume" => resumable
  <2> SUFFICES ASSUME cmd.mode = "resume", ~resumable PROVE c.pc # "begin"
    OBVIOUS
  <2>1. c.pc = CASE cmd.mode = "abort" -> "abort" [] cmd.mode = "resume" /\ ~resumable -> "exited" [] OTHER -> "begin"
    BY DEF Start, CliTyped
  <2>2. c.pc = "exited"
    BY <2>1
  <2> QED BY <2>2
<1>5. ASSUME c.pc = "begin", cmd.mode = "resume" PROVE Seen(journal, c.mode, c.purge, Len(journal))
  <2>1. Current \in DOMAIN journal /\ Current = Len(journal) /\ DOMAIN journal = 1..Len(journal)
    BY <1>4, <1>5, CurrentIsLast DEF StoreInv, TypeOK
  <2> QED BY <1>2, <1>4, <1>5, <2>1 DEF Seen
<1>6. c.pc = "begin" /\ cmd.mode # "resume" => c.mode = cmd.mode /\ c.purge = cmd.purge
  BY <1>2
<1> HIDE DEF c, resumable
<1>7. CliKnows(journal, c)
  BY <1>2, <1>3, <1>5, <1>6 DEF CliKnows, OperationPc
<1> QED BY <1>1, <1>7 DEF c

\* stack.begin's answer: the row begun or resumed.
LEMMA BeginKnows ==
    ASSUME StoreInv, CliTyped, PayloadKept, NEW p \in Holder, Begin(p), CliKnows(journal, cli[p])
    PROVE  CliKnows(journal', cli'[p])
<1> DEFINE c == cli[p]
           d == cli'[p]
           id == IF Incomplete = {} THEN Len(journal) + 1 ELSE Current
<1>1. c \in CliRecord /\ c.pc = "begin" /\ TypeOK /\ Len(journal) \in Nat /\ DOMAIN journal = 1..Len(journal)
  <2>1. c \in CliRecord
    BY DEF CliTyped
  <2>2. c.pc = "begin"
    BY DEF Begin
  <2>3. TypeOK /\ Len(journal) \in Nat /\ DOMAIN journal = 1..Len(journal)
    BY DEF StoreInv, TypeOK
  <2> QED BY <2>1, <2>2, <2>3
<1>2. d.pc = "lease" /\ d.id = id /\ d.mode = c.mode /\ d.purge = c.purge /\ d.digest = c.digest /\ d.cmd = c.cmd
  BY <1>1 DEF Begin, CliTyped, CliRecord
<1>3. Request(p) = [op |-> "begin", from |-> p, hash |-> c.digest, mode |-> c.cmd.mode, purge |-> c.cmd.purge]
  BY <1>1 DEF Request
<1>4. \/ ResumeApply(p, c.digest, c.cmd.mode)
      \/ BeginApply(p, c.digest, c.cmd.mode, c.cmd.purge)
  <2>1. Serve(Request(p))
    BY DEF Begin
  <2>2. Request(p).op = "begin" /\ Request(p).from = p /\ Request(p).hash = c.digest
        /\ Request(p).mode = c.cmd.mode /\ Request(p).purge = c.cmd.purge
    BY <1>3
  <2> HIDE DEF c
  <2> QED BY <2>1, <2>2 DEF Serve
<1> HIDE DEF d
<1>5. ASSUME id \in DOMAIN journal', journal'[id].hash = c.digest, Seen(journal', c.mode, c.purge, id)
      PROVE  CliKnows(journal', d)
  <2>1. d.id \in DOMAIN journal' /\ journal'[d.id].hash = d.digest /\ Seen(journal', d.mode, d.purge, d.id)
    BY <1>2, <1>5
  <2>2. d.pc = "lease"
    BY <1>2
  <2> HIDE DEF c, id
  <2> QED BY <2>1, <2>2 DEF CliKnows
<1>6. CASE ResumeApply(p, c.digest, c.cmd.mode)
  <2>1. Incomplete # {} /\ c.cmd.mode = "resume" /\ journal[Current].hash = c.digest
    BY <1>6 DEF ResumeApply, CanResume
  <2>2. id = Len(journal) /\ id \in DOMAIN journal /\ journal[id].hash = c.digest
    BY <2>1, CurrentIsLast DEF StoreInv
  <2>3. Seen(journal, c.mode, c.purge, id)
    BY <1>1, <2>1, <2>2 DEF CliKnows
  <2>4. Seen(journal', c.mode, c.purge, id)
    BY <2>2, <2>3, KnownStaysKnown
  <2>5. id \in DOMAIN journal' /\ journal'[id].hash = c.digest
    BY <2>2 DEF PayloadKept
  <2> QED BY <1>5, <2>4, <2>5 DEF d
<1>7. CASE BeginApply(p, c.digest, c.cmd.mode, c.cmd.purge)
  <2> DEFINE row == [status |-> "running", step |-> InitialStep, hash |-> c.digest,
                     mode |-> c.cmd.mode, purge |-> c.cmd.purge]
  <2>1. Incomplete = {} /\ journal' = Append(journal, row)
    BY <1>7 DEF BeginApply, CanBegin
  <2>2. row.hash = c.digest /\ row.mode = c.cmd.mode /\ row.purge = c.cmd.purge
    OBVIOUS
  <2> HIDE DEF row
  <2>3. id = Len(journal) + 1 /\ id \in DOMAIN journal' /\ journal'[id] = row
    BY <1>1, <2>1 DEF TypeOK
  <2>4. Seen(journal', c.mode, c.purge, id)
    <3>1. CASE c.cmd.mode # "resume"
      <4>1. c.mode = row.mode /\ c.purge = row.purge /\ row.mode # "resume"
        BY <1>1, <2>2, <3>1 DEF CliKnows
      <4>2. id \in 1..id
        BY <1>1, <2>3
      <4> QED BY <2>3, <4>1, <4>2 DEF Seen
    <3>2. CASE c.cmd.mode = "resume"
      <4>1. Seen(journal, c.mode, c.purge, Len(journal))
        BY <1>1, <3>2 DEF CliKnows
      <4>2. Seen(journal', c.mode, c.purge, Len(journal))
        BY <4>1, KnownStaysKnown
      <4>3. 1..Len(journal) \subseteq 1..id
        BY <1>1, <2>3
      <4> QED BY <4>2, <4>3 DEF Seen
    <3> QED BY <3>1, <3>2
  <2>5. journal'[id].hash = c.digest
    BY <2>2, <2>3
  <2> QED BY <1>5, <2>3, <2>4, <2>5 DEF d
<1> QED BY <1>4, <1>6, <1>7 DEF d

\* Every later step of the invocation keeps what it knows.
LEMMA CliStepKnows ==
    ASSUME StoreInv, CliTyped, PayloadKept, NEW p \in Holder, CliKnows(journal, cli[p]),
           CliStep(p) \/ ConfirmBreaking(p) \/ HeartbeatFails(p) \/ Crash(p)
    PROVE  CliKnows(journal', cli'[p])
<1> DEFINE c == cli[p]
           d == cli'[p]
<1>1. c \in CliRecord /\ cli \in [Holder -> CliRecord]
  BY DEF CliTyped
<1>2. CliKnows(journal', c)
  BY KnownStaysKnown
<1>3. CASE Begin(p)
  BY <1>3, BeginKnows
<1>4. ASSUME d.pc \in OperationPc => c.pc \in OperationPc, d.pc # "begin" \/ d.pc = c.pc,
             d.id = c.id, d.mode = c.mode, d.purge = c.purge, d.digest = c.digest, d.cmd = c.cmd
      PROVE  CliKnows(journal', d)
  <2> HIDE DEF d
  <2> QED BY <1>2, <1>4 DEF CliKnows, OperationPc
<1>5. CASE cli' = [cli EXCEPT ![p] = Exited(@)]
  <2>1. d.pc = "exited"
    BY <1>1, <1>5 DEF Exited, CliRecord
  <2> HIDE DEF d
  <2>2. CliKnows(journal', d)
    BY <2>1 DEF CliKnows, OperationPc
  <2> QED BY <2>2 DEF d
<1>6. CASE LeaseHeartbeatStart(p)
  <2>1. d.pc # "begin" /\ c.pc = "lease"
    BY <1>1, <1>6, LoopPcTyped DEF LeaseHeartbeatStart, CliRecord
  <2>2. d.id = c.id /\ d.mode = c.mode /\ d.purge = c.purge /\ d.digest = c.digest /\ d.cmd = c.cmd
    BY <1>1, <1>6 DEF LeaseHeartbeatStart, CliRecord
  <2> QED BY <1>4, <2>1, <2>2 DEF OperationPc
<1>7. CASE ConfirmBreaking(p)
  <2>1. d.pc # "begin" /\ c.pc = "confirm"
    BY <1>1, <1>7, LoopPcTyped DEF ConfirmBreaking, CliRecord
  <2>2. d.id = c.id /\ d.mode = c.mode /\ d.purge = c.purge /\ d.digest = c.digest /\ d.cmd = c.cmd
    BY <1>1, <1>7 DEF ConfirmBreaking, CliRecord
  <2> QED BY <1>4, <2>1, <2>2 DEF OperationPc
<1>8. CASE StepStart(p) \/ ExecuteStep(p)
  <2>1. d.pc # "begin" /\ c.pc \in {"step", "exec"}
    BY <1>1, <1>8 DEF StepStart, ExecuteStep, CliRecord
  <2>2. d.id = c.id /\ d.mode = c.mode /\ d.purge = c.purge /\ d.digest = c.digest /\ d.cmd = c.cmd
    BY <1>1, <1>8 DEF StepStart, ExecuteStep, CliRecord
  <2> QED BY <1>4, <2>1, <2>2 DEF OperationPc
<1>9. CASE StepDone(p)
  <2>1. d.pc # "begin" /\ c.pc = "ran"
    BY <1>1, <1>9, LoopPcTyped DEF StepDone, CliRecord
  <2>2. d.id = c.id /\ d.mode = c.mode /\ d.purge = c.purge /\ d.digest = c.digest /\ d.cmd = c.cmd
    BY <1>1, <1>9 DEF StepDone, CliRecord
  <2> QED BY <1>4, <2>1, <2>2 DEF OperationPc
<1>10. CASE HeartbeatFails(p)
  <2>1. d.pc = c.pc /\ d.id = c.id /\ d.mode = c.mode /\ d.purge = c.purge /\ d.digest = c.digest /\ d.cmd = c.cmd
    BY <1>1, <1>10 DEF HeartbeatFails, CliRecord
  <2> QED BY <1>4, <2>1
<1>11. ASSUME cli' = [cli EXCEPT ![p] = [c EXCEPT !.pc = "stop"]] \/
              cli' = [cli EXCEPT ![p] = [c EXCEPT !.pc = "finish", !.hb = "off"]],
              c.pc \in {"verify", "stop"}
       PROVE  CliKnows(journal', d)
  <2>1. d = [c EXCEPT !.pc = "stop"] \/ d = [c EXCEPT !.pc = "finish", !.hb = "off"]
    BY <1>1, <1>11
  <2>2. d.pc # "begin" /\ d.id = c.id /\ d.mode = c.mode /\ d.purge = c.purge /\ d.digest = c.digest /\ d.cmd = c.cmd
    <3> HIDE DEF d
    <3>1. CASE d = [c EXCEPT !.pc = "stop"]
      BY <1>1, <3>1 DEF CliRecord
    <3>2. CASE d = [c EXCEPT !.pc = "finish", !.hb = "off"]
      BY <1>1, <3>2 DEF CliRecord
    <3> QED BY <2>1, <3>1, <3>2
  <2> QED BY <1>4, <1>11, <2>2 DEF OperationPc
<1>12. CASE VerifyInputs(p) \/ StopHeartbeat(p)
  BY <1>5, <1>11, <1>12 DEF VerifyInputs, StopHeartbeat
<1> QED BY <1>3, <1>5, <1>6, <1>7, <1>8, <1>9, <1>10, <1>12
        DEF CliStep, CheckFails, RpcFails, LastCall, Crash

LEMMA SnapshotInvStep ==
    ASSUME CliInv, SnapshotInv, [Next]_vars
    PROVE  SnapshotInv'
<1>1. StoreInv /\ CliTyped
  BY DEF CliInv
<1>2. PayloadKept
  BY <1>1, StepIsStoreStep, StoreKeepsPayload
<1>3. \A q \in Holder : CliKnows(journal', cli'[q])
  <2>1. ASSUME NEW q \in Holder, cli'[q] = cli[q] PROVE CliKnows(journal', cli'[q])
    BY <1>1, <1>2, <2>1, KnownStaysKnown DEF SnapshotInv
  <2>2. ASSUME NEW p \in Holder, \E c : cli' = [cli EXCEPT ![p] = c], CliKnows(journal', cli'[p])
        PROVE  \A q \in Holder : CliKnows(journal', cli'[q])
    <3>1. \A q \in Holder : q # p => cli'[q] = cli[q]
      BY <1>1, <2>2 DEF CliTyped
    <3> QED BY <2>1, <2>2, <3>1
  <2>3. ASSUME NEW p \in Holder, NEW cmd \in Command, Start(p, cmd)
        PROVE  \A q \in Holder : CliKnows(journal', cli'[q])
    BY <1>1, <2>2, <2>3, StartKnows, StartTyped
  <2>4. ASSUME NEW p \in Holder, CliStep(p) \/ ConfirmBreaking(p) \/ HeartbeatFails(p) \/ Crash(p)
        PROVE  \A q \in Holder : CliKnows(journal', cli'[q])
    <3>1. CliKnows(journal', cli'[p])
      BY <1>1, <1>2, <2>4, CliStepKnows DEF SnapshotInv
    <3>2. \E c : cli' = [cli EXCEPT ![p] = c]
      BY <1>1, <2>4, CliStepTyped
    <3> QED BY <2>2, <3>1, <3>2
  <2>5. CASE UNCHANGED cli
    BY <2>1, <2>5
  <2> QED BY <2>3, <2>4, <2>5 DEF Next, Heartbeat, PidChanges, cliVars, Arrive, EditConfig, ClockTick, vars
<1>4. \A r \in late' : RequestKnows(journal', r)
  <2>1. \A r \in late : RequestKnows(journal', r)
    BY <1>1, <1>2, KnownStaysKnown DEF SnapshotInv
  <2>2. ASSUME NEW p \in Holder, cli[p].pc \in RpcPc, MayArriveLate(Request(p))
        PROVE  \A r \in late' : RequestKnows(journal', r)
    <3>1. RequestKnows(journal', Request(p))
      BY <1>1, <1>2, <2>2, RequestIsKnown, KnownStaysKnown DEF SnapshotInv
    <3> QED BY <2>1, <2>2, <3>1 DEF MayArriveLate
  <2>3. ASSUME NEW p \in Holder, MayArriveLate([op |-> "heartbeat", from |-> p, id |-> cli[p].id])
        PROVE  \A r \in late' : RequestKnows(journal', r)
    <3>1. RequestKnows(journal', [op |-> "heartbeat", from |-> p, id |-> cli[p].id])
      BY DEF RequestKnows
    <3> QED BY <2>1, <2>3, <3>1 DEF MayArriveLate
  <2>4. CASE late' \subseteq late
    BY <2>1, <2>4
  <2> QED BY <2>2, <2>3, <2>4
          DEF Next, Start, CliStep, Begin, LeaseHeartbeatStart, CheckFails, StepStart, ExecuteStep,
              StepDone, VerifyInputs, StopHeartbeat, LastCall, RpcFails, ConfirmBreaking, Heartbeat,
              HeartbeatFails, Crash, PidChanges, cliVars, Arrive, EditConfig, ClockTick, vars
<1>5. CommittedSnapshot' /\ HasNewest'
  <2>1. ASSUME NEW r, RequestOK(r), RequestKnows(journal, r), Serve(r) PROVE CommittedSnapshot' /\ HasNewest'
    BY <1>1, <1>2, <2>1, ServeKeepsSnapshot DEF SnapshotInv
  <2>2. ASSUME UNCHANGED <<journal, resources>> PROVE CommittedSnapshot' /\ HasNewest'
    <3>1. Committed' = Committed
      BY <2>2 DEF Committed
    <3> QED BY <1>1, <1>2, <2>2, <3>1, SameCommitSameSnapshot DEF SnapshotInv
  <2>3. ASSUME NEW p \in Holder, cli[p].pc \in RpcPc, Serve(Request(p)) PROVE CommittedSnapshot' /\ HasNewest'
    BY <1>1, <2>1, <2>3, RequestShape, RequestIsKnown DEF SnapshotInv
  <2>4. ASSUME NEW r \in late, Arrive(r) PROVE CommittedSnapshot' /\ HasNewest'
    BY <1>1, <2>1, <2>2, <2>4 DEF Arrive, CliTyped, SnapshotInv, storeVars
  <2>5. ASSUME NEW p \in Holder, CliStep(p) PROVE CommittedSnapshot' /\ HasNewest'
    BY <2>2, <2>3, <2>5 DEF CliStep, Begin, LeaseHeartbeatStart, CheckFails, StepStart, ExecuteStep, StepDone,
                    VerifyInputs, StopHeartbeat, LastCall, RpcFails, RpcPc, storeVars
  <2>6. CASE ~(\E p \in Holder : CliStep(p)) /\ ~(\E r \in late : Arrive(r))
    <3>1. UNCHANGED <<journal, resources>>
      BY <2>6 DEF Next, Start, ConfirmBreaking, Heartbeat, HeartbeatApply, HeartbeatFails, Crash, PidChanges,
                  ProcessAppears, ProcessDies, EditConfig, ClockTick, Tick, vars, storeVars
    <3> QED BY <2>2, <3>1
  <2> QED BY <2>4, <2>5, <2>6
<1> QED BY <1>3, <1>4, <1>5 DEF SnapshotInv

LEMMA SnapshotInvInit == Init => SnapshotInv
<1> SUFFICES ASSUME Init PROVE SnapshotInv
  OBVIOUS
<1>1. \A p \in Holder : cli[p].pc = "off"
  BY DEF Init, NotStarted
<1>2. Committed = {} /\ resources = NoSnapshot /\ late = {}
  BY DEF Init, StoreInit, Committed
<1> QED BY <1>1, <1>2 DEF SnapshotInv, CliKnows, OperationPc, CommittedSnapshot, HasNewest

LEMMA SnapshotInvariance == Spec => []SnapshotInv
<1>1. CliInv /\ SnapshotInv /\ [Next]_vars => SnapshotInv'
  BY SnapshotInvStep
<1> QED BY <1>1, SnapshotInvInit, CliInvariance, PTL DEF Spec

\* Whoever committed, resumed, arrived late or was overtaken: table resources
\* shows the hash of the newest committed row and the mode of an operation
\* begun no later than it (run, journal_context, beginApply, finishApply), for
\* any number of invocations, rows and configurations.
THEOREM CommitsMatchTheJournal == Spec => []CommittedSnapshot
<1>1. SnapshotInv => CommittedSnapshot
  BY DEF SnapshotInv
<1> QED BY <1>1, SnapshotInvariance, PTL

-----------------------------------------------------------------------------
(* Exclusive execution, while heartbeats are in time and RPCs answered.    *)

\* Between the heartbeat that starts the worker and the end of the worker.
Working == {"confirm", "decline", "step", "exec", "ran", "failed", "verify", "stop"}

\* The lease of a working invocation is valid, renewed by its worker, and
\* protects a row that nobody has ended or reported as failed.
Protected(p) ==
    /\ cli[p].hb = "on"
    /\ RequireApplyLease(cli[p].id, p)
    /\ journal[Len(journal)].status = "running"

ExclusionInv ==
    /\ late = {}
    /\ \A p \in Holder : cli[p].pc \notin {"off", "exited"} => p \in alive
    /\ \A p \in Holder : cli[p].pc \in Working => Protected(p)

\* A valid lease of a live process turns every other caller away.
LEMMA OthersAreRefused ==
    ASSUME StoreInv, NEW p \in Holder, p \in alive, NEW id, RequireApplyLease(id, p),
           NEW r, r.from # p
    PROVE  ~Serve(r)
<1>1. Incomplete # {} /\ lease.holder = p /\ lease.left > 0 /\ p # NoHolder
  BY StoreAssumption DEF RequireApplyLease
<1>2. LeaseBlocks(r.from)
  BY <1>1 DEF LeaseBlocks
<1> QED BY <1>1, <1>2 DEF Serve, ResumeApply, CanResume, BeginApply, CanBegin, HeartbeatApply,
           AdvanceApply, FinishApply, RequireApplyLease, AbortApply, AbortApplyTorn, CanAbort

\* So whoever is served is the only one at work.
LEMMA ServedIsAlone ==
    ASSUME StoreInv, CliTyped, ExclusionInv, NEW p \in Holder, cli[p].pc \in RpcPc, Serve(Request(p)),
           NEW q \in Holder, q # p
    PROVE  cli[q].pc \notin Working
<1> SUFFICES ASSUME cli[q].pc \in Working PROVE FALSE
  OBVIOUS
<1>1. Request(p).from = p
  BY RequestShape
<1>2. q \in alive /\ RequireApplyLease(cli[q].id, q)
  BY DEF ExclusionInv, Protected, Working
<1> QED BY <1>1, <1>2, OthersAreRefused

\* A heartbeat or a checkpoint that was answered renews the protection.
LEMMA RenewedIsProtected ==
    ASSUME StoreInv, NEW p \in Holder, NEW id, cli'[p].hb = "on", cli'[p].id = id,
           \/ HeartbeatApply(id, p) /\ journal[Len(journal)].status = "running"
           \/ \E step : AdvanceApply(id, p, step, "running")
    PROVE  Protected(p)'
<1>1. /\ RequireApplyLease(id, p) /\ Current = Len(journal) /\ id = Len(journal) /\ id \in DOMAIN journal
      /\ Incomplete # {} /\ UpsertLease(p)
  <2>1. RequireApplyLease(id, p) /\ UpsertLease(p)
    BY DEF HeartbeatApply, AdvanceApply
  <2> QED BY <2>1, LeaseMeansOwner
<1>2. lease'.holder = p /\ lease'.left > 0
  BY <1>1, StoreAssumption DEF UpsertLease
<1>3. CASE HeartbeatApply(id, p) /\ journal[Len(journal)].status = "running"
  <2>1. Incomplete' # {} /\ Current' = id /\ journal'[Len(journal')].status = "running"
    BY <1>1, <1>3 DEF HeartbeatApply, Incomplete, Current
  <2> QED BY <1>2, <2>1 DEF Protected, RequireApplyLease
<1>4. ASSUME NEW step, AdvanceApply(id, p, step, "running") PROVE Protected(p)'
  <2>1. UpdateJournal(id, step, "running") /\ TypeOK /\ owner' = owner
    BY <1>4 DEF AdvanceApply, StoreInv
  <2>2. DOMAIN journal' = DOMAIN journal /\ journal'[id].status = "running" /\ \A g \in DOMAIN journal : g # id => journal'[g] = journal[g]
    BY <1>1, <2>1, UpdatedRow
  <2>3. Len(journal') = Len(journal)
    BY <2>1 DEF UpdateJournal, TypeOK
  <2>4. Incomplete' = {id}
    <3>1. \A g \in Incomplete : g = id
      BY <1>1 DEF StoreInv, OnlyNewestIncomplete
    <3> QED BY <1>1, <2>2, <3>1 DEF Incomplete, IncompleteStatus
  <2>5. Current' = id
    <3>1. id <= id
      BY <1>1 DEF StoreInv, TypeOK
    <3> QED BY <2>4, <3>1 DEF Current
  <2> QED BY <1>1, <1>2, <2>2, <2>3, <2>4, <2>5 DEF Protected, RequireApplyLease
<1> QED BY <1>3, <1>4

\* Steps that leave the tables alone leave every protection alone.
LEMMA ProtectionStays ==
    ASSUME NEW q \in Holder, Protected(q), UNCHANGED <<journal, lease>>, cli'[q] = cli[q]
    PROVE  Protected(q)'
BY DEF Protected, RequireApplyLease, Incomplete, Current

\* The heartbeat of a protected worker is accepted.
LEMMA ProtectedIsAccepted ==
    ASSUME NEW p \in Holder, Protected(p)
    PROVE  Accepts([op |-> "heartbeat", from |-> p, id |-> cli[p].id])
BY DEF Protected, Accepts

LEMMA NothingArrivesLate ==
    ASSUME ~Unreliable, ExclusionInv, [Next]_vars
    PROVE  late' = {}
BY DEF ExclusionInv, MayArriveLate, Next, Start, CliStep, Begin, LeaseHeartbeatStart, CheckFails, StepStart,
       ExecuteStep, StepDone, VerifyInputs, StopHeartbeat, LastCall, RpcFails, ConfirmBreaking, Heartbeat,
       HeartbeatFails, Crash, PidChanges, cliVars, Arrive, EditConfig, ClockTick, vars

\* One invocation moves: it leaves the tables alone, or it was served.
LEMMA MoverKeepsExclusion ==
    ASSUME StoreInv, CliTyped, ExclusionInv, late' = {}, NEW p \in Holder,
           NEW c, cli' = [cli EXCEPT ![p] = c],
           \/ UNCHANGED <<journal, lease>>
           \/ cli[p].pc \in RpcPc /\ Serve(Request(p)),
           alive' = alive \/ (c.pc = "exited" /\ alive' = alive \ {p})
              \/ (alive' = alive \cup {p}),
           c.pc \notin {"off", "exited"} => p \in alive',
           c.pc \in Working => Protected(p)'
    PROVE  ExclusionInv'
<1>1. cli'[p] = c /\ \A q \in Holder : q # p => cli'[q] = cli[q]
  BY DEF CliTyped
<1>2. ASSUME NEW q \in Holder, cli'[q].pc \notin {"off", "exited"} PROVE q \in alive'
  BY <1>1, <1>2 DEF ExclusionInv
<1>3. ASSUME NEW q \in Holder, q # p, cli'[q].pc \in Working PROVE Protected(q)'
  <2>1. Protected(q) /\ cli'[q] = cli[q]
    BY <1>1, <1>3 DEF ExclusionInv
  <2>2. UNCHANGED <<journal, lease>>
    BY <1>1, <1>3, ServedIsAlone
  <2> QED BY <2>1, <2>2, ProtectionStays
<1> QED BY <1>1, <1>2, <1>3 DEF ExclusionInv

LEMMA CliStepKeepsExclusion ==
    ASSUME ~Unreliable, StoreInv, CliTyped, Verdicts, ExclusionInv, late' = {}, NEW p \in Holder,
           CliStep(p) \/ ConfirmBreaking(p) \/ HeartbeatFails(p) \/ Crash(p)
    PROVE  ExclusionInv'
<1> DEFINE c == cli[p]
<1>1. c \in CliRecord /\ cli \in [Holder -> CliRecord]
  BY DEF CliTyped
<1>2. (c.pc \notin {"off", "exited"} => p \in alive) /\ (c.pc \in Working => Protected(p))
  BY DEF ExclusionInv
<1>3. ASSUME NEW d, cli' = [cli EXCEPT ![p] = d], UNCHANGED storeVars, c.pc \notin {"off", "exited"},
             d.pc \in Working => c.pc \in Working /\ d.hb = c.hb /\ d.id = c.id
      PROVE  ExclusionInv'
  <2>1. UNCHANGED <<journal, lease>> /\ alive' = alive
    BY <1>3 DEF storeVars
  <2>2. d.pc \in Working => Protected(p)'
    <3>1. cli'[p] = d
      BY <1>1, <1>3
    <3> QED BY <1>2, <1>3, <2>1, <3>1 DEF Protected, RequireApplyLease, Incomplete, Current
  <2> QED BY <1>2, <1>3, <2>1, <2>2, MoverKeepsExclusion
<1>4. ASSUME NEW d, cli' = [cli EXCEPT ![p] = d], c.pc \in RpcPc, Serve(Request(p)),
             d.pc \in Working => Protected(p)'
      PROVE  ExclusionInv'
  <2>1. alive' = alive
    BY <1>4 DEF Serve, ResumeApply, BeginApply, HeartbeatApply, AdvanceApply, FinishApply, AbortApply, AbortApplyTorn
  <2>2. p \in alive
    BY <1>2, <1>4 DEF RpcPc
  <2> QED BY <1>4, <2>1, <2>2, MoverKeepsExclusion
<1>5. Exited(c).pc = "exited"
  BY <1>1 DEF Exited, CliRecord
<1>6. CASE CheckFails(p) \/ RpcFails(p)
  <2>1. cli' = [cli EXCEPT ![p] = Exited(c)] /\ UNCHANGED storeVars /\ c.pc \notin {"off", "exited"}
    BY <1>6 DEF CheckFails, RpcFails, RpcPc
  <2> QED BY <1>3, <1>5, <2>1 DEF Working
<1>7. CASE LastCall(p)
  <2>1. cli' = [cli EXCEPT ![p] = Exited(c)] /\ Serve(Request(p)) /\ c.pc \in RpcPc
    BY <1>7 DEF LastCall, RpcPc
  <2> QED BY <1>4, <1>5, <2>1 DEF Working
<1>8. CASE Crash(p)
  <2>1. cli' = [cli EXCEPT ![p] = Exited(c)] /\ UNCHANGED <<journal, lease>> /\ alive' = alive \ {p}
    BY <1>8 DEF Crash, ProcessDies
  <2> QED BY <1>5, <2>1, MoverKeepsExclusion DEF Working
<1>9. CASE Begin(p)
  <2>1. PICK d : d.pc = "lease" /\ cli' = [cli EXCEPT ![p] = d]
    BY <1>9, BeginTyped
  <2>2. Serve(Request(p)) /\ c.pc \in RpcPc
    BY <1>9 DEF Begin, RpcPc
  <2> QED BY <1>4, <2>1, <2>2 DEF Working
<1>10. CASE LeaseHeartbeatStart(p)
  <2>1. PICK d : cli' = [cli EXCEPT ![p] = d]
    BY <1>10, CliStepTyped DEF CliStep
  <2>2. c.pc = "lease" /\ c.pc \in RpcPc /\ Serve(Request(p)) /\ cli'[p].hb = "on" /\ cli'[p].id = c.id
    BY <1>1, <1>10 DEF LeaseHeartbeatStart, RpcPc, CliRecord
  <2>3. HeartbeatApply(c.id, p)
    <3>1. Request(p) = [op |-> "heartbeat", from |-> p, id |-> c.id]
      BY <2>2 DEF Request
    <3> QED BY <2>2, <3>1 DEF Serve
  <2>4. journal[Len(journal)].status = "running"
    <3>1. Incomplete # {} /\ owner[Len(journal)] = p /\ journal[Len(journal)].status \in IncompleteStatus
      BY <2>3, LeaseMeansOwner DEF HeartbeatApply
    <3>2. ~FailedBy(p)
      BY <2>2 DEF Verdicts, FailedStops
    <3> QED BY <3>1, <3>2 DEF FailedBy, IncompleteStatus
  <2>5. Protected(p)'
    BY <2>2, <2>3, <2>4, RenewedIsProtected
  <2> QED BY <1>4, <2>1, <2>2, <2>5
<1>11. CASE ConfirmBreaking(p)
  <2>1. PICK d : cli' = [cli EXCEPT ![p] = d]
    BY <1>11, CliStepTyped
  <2>2. c.pc = "confirm" /\ cli'[p].hb = c.hb /\ cli'[p].id = c.id /\ cli'[p] = d /\ UNCHANGED storeVars
    BY <1>1, <1>11, <2>1 DEF ConfirmBreaking, CliRecord
  <2> QED BY <1>3, <2>1, <2>2 DEF Working
<1>12. CASE HeartbeatFails(p)
  <2>1. c.hb = "on" /\ ~Accepts([op |-> "heartbeat", from |-> p, id |-> c.id]) /\ UNCHANGED storeVars
    BY <1>12 DEF HeartbeatFails
  <2>2. c.pc \notin Working
    BY <1>2, <2>1, ProtectedIsAccepted
  <2>3. PICK d : cli' = [cli EXCEPT ![p] = d]
    BY <1>12, CliStepTyped
  <2>4. d.pc = c.pc
    BY <1>1, <1>12, <2>3 DEF HeartbeatFails, CliRecord
  <2>5. UNCHANGED <<journal, lease>> /\ alive' = alive
    BY <2>1 DEF storeVars
  <2> QED BY <1>2, <2>2, <2>3, <2>4, <2>5, MoverKeepsExclusion
<1>13. CASE StepStart(p) \/ StepDone(p)
  <2>1. PICK d : cli' = [cli EXCEPT ![p] = d]
    BY <1>13, CliStepTyped DEF CliStep
  <2>2. c.pc \in {"step", "ran"} /\ Serve(Request(p)) /\ cli'[p].hb = c.hb /\ cli'[p].id = c.id
    BY <1>1, <1>13 DEF StepStart, StepDone, CliRecord
  <2>3. c.hb = "on"
    BY <1>2, <2>2 DEF Working, Protected
  <2>4. AdvanceApply(c.id, p, StepsOf(c.mode)[c.pos], "running")
    <3>1. Request(p) = [op |-> "step", from |-> p, id |-> c.id, step |-> StepsOf(c.mode)[c.pos], status |-> "running"]
      BY <2>2 DEF Request
    <3> QED BY <2>2, <3>1 DEF Serve
  <2>5. Protected(p)'
    BY <2>2, <2>3, <2>4, RenewedIsProtected
  <2> QED BY <1>4, <2>1, <2>2, <2>5 DEF RpcPc
<1>14. CASE ExecuteStep(p)
  <2>1. PICK d : cli' = [cli EXCEPT ![p] = d]
    BY <1>14, CliStepTyped DEF CliStep
  <2>2. c.pc = "exec" /\ cli'[p].hb = c.hb /\ cli'[p].id = c.id /\ cli'[p] = d /\ UNCHANGED storeVars
    BY <1>1, <1>14, <2>1 DEF ExecuteStep, CliRecord
  <2> QED BY <1>3, <2>1, <2>2 DEF Working
<1>15. CASE VerifyInputs(p)
  <2>1. \/ cli' = [cli EXCEPT ![p] = Exited(c)]
        \/ cli' = [cli EXCEPT ![p] = [c EXCEPT !.pc = "stop"]]
    BY <1>15 DEF VerifyInputs
  <2>2. c.pc = "verify" /\ UNCHANGED storeVars
    BY <1>15 DEF VerifyInputs
  <2>3. LET d == [c EXCEPT !.pc = "stop"] IN d.hb = c.hb /\ d.id = c.id
    BY <1>1 DEF CliRecord
  <2> QED BY <1>3, <1>5, <2>1, <2>2, <2>3 DEF Working
<1>16. CASE StopHeartbeat(p)
  <2>1. \/ cli' = [cli EXCEPT ![p] = Exited(c)]
        \/ cli' = [cli EXCEPT ![p] = [c EXCEPT !.pc = "finish", !.hb = "off"]]
    BY <1>16 DEF StopHeartbeat
  <2>2. c.pc = "stop" /\ UNCHANGED storeVars
    BY <1>16 DEF StopHeartbeat
  <2>3. [c EXCEPT !.pc = "finish", !.hb = "off"].pc = "finish"
    BY <1>1 DEF CliRecord
  <2> QED BY <1>3, <1>5, <2>1, <2>2, <2>3 DEF Working
<1> QED BY <1>6, <1>7, <1>8, <1>9, <1>10, <1>11, <1>12, <1>13, <1>14, <1>15, <1>16 DEF CliStep

LEMMA ExclusionInvStep ==
    ASSUME Timely, ~Unreliable, CliInv, ExclusionInv, [Next]_vars
    PROVE  ExclusionInv'
<1>1. StoreInv /\ CliTyped /\ Verdicts
  BY DEF CliInv
<1>2. late' = {}
  BY NothingArrivesLate
<1>3. ASSUME NEW p \in Holder, NEW cmd \in Command, Start(p, cmd) PROVE ExclusionInv'
  <2>1. PICK d : cli' = [cli EXCEPT ![p] = d]
    BY <1>1, <1>3, StartTyped
  <2>2. d.pc \in {"abort", "exited", "begin"}
    BY <1>1, <1>3, <2>1, StartTyped DEF CliTyped
  <2>3. UNCHANGED <<journal, lease>> /\ alive' = alive \cup {p}
    BY <1>3 DEF Start, ProcessAppears
  <2> QED BY <1>1, <1>2, <2>1, <2>2, <2>3, MoverKeepsExclusion DEF Working
<1>4. ASSUME NEW p \in Holder, CliStep(p) \/ ConfirmBreaking(p) \/ HeartbeatFails(p) \/ Crash(p)
      PROVE  ExclusionInv'
  BY <1>1, <1>2, <1>4, CliStepKeepsExclusion
<1>5. ASSUME NEW p \in Holder, Heartbeat(p) PROVE ExclusionInv'
  <2>1. cli[p].hb = "on" /\ HeartbeatApply(cli[p].id, p) /\ cli' = cli /\ alive' = alive
    BY <1>5 DEF Heartbeat, cliVars, HeartbeatApply
  <2>2. ASSUME NEW q \in Holder, cli[q].pc \in Working PROVE Protected(q)'
    <3>1. q \in alive /\ Protected(q)
      BY <2>2 DEF ExclusionInv, Working
    <3>2. q = p
      BY <2>1, <3>1 DEF Protected, RequireApplyLease, HeartbeatApply
    <3> QED BY <1>1, <2>1, <3>1, <3>2, RenewedIsProtected DEF Protected
  <2> QED BY <1>2, <2>1, <2>2 DEF ExclusionInv
<1>6. ASSUME NEW p \in Holder, PidChanges(p) PROVE ExclusionInv'
  <2>1. cli[p].pc = "exited" /\ cli' = cli /\ UNCHANGED <<journal, lease>> /\ \A q \in alive : q # p => q \in alive'
    BY <1>6 DEF PidChanges, cliVars, ProcessDies, ProcessAppears
  <2> QED BY <1>2, <2>1, ProtectionStays DEF ExclusionInv
<1>7. CASE EditConfig \/ UNCHANGED vars
  <2>1. cli' = cli /\ UNCHANGED <<journal, lease, alive>>
    BY <1>7 DEF EditConfig, storeVars, vars
  <2> QED BY <1>2, <2>1, ProtectionStays DEF ExclusionInv
<1>8. CASE ClockTick
  <2>1. /\ cli' = cli /\ UNCHANGED <<journal, alive>> /\ lease.left > 0 /\ lease'.holder = lease.holder /\ lease'.left = lease.left - 1
        /\ ~ \E p \in Holder : lease.holder = p /\ lease.left = 1 /\ cli[p].hb = "on"
    BY <1>1, <1>8 DEF ClockTick, Tick, cliVars, StoreInv, TypeOK, Lease
  <2>2. ASSUME NEW q \in Holder, cli[q].pc \in Working PROVE Protected(q)'
    <3>1. Protected(q)
      BY <2>2 DEF ExclusionInv
    <3>2. lease.left # 1 /\ lease.left \in Nat
      BY <1>1, <2>1, <3>1 DEF Protected, RequireApplyLease, StoreInv, TypeOK, Lease
    <3>3. lease'.left > 0
      BY <2>1, <3>2
    <3> QED BY <2>1, <3>1, <3>3 DEF Protected, RequireApplyLease, Incomplete, Current
  <2> QED BY <1>2, <2>1, <2>2 DEF ExclusionInv
<1>9. ASSUME NEW r \in late PROVE FALSE
  BY <1>9 DEF ExclusionInv
<1> QED BY <1>3, <1>4, <1>5, <1>6, <1>7, <1>8, <1>9 DEF Next

LEMMA ExclusionInvInit == Init => ExclusionInv
<1> SUFFICES ASSUME Init PROVE ExclusionInv
  OBVIOUS
<1>1. \A p \in Holder : cli[p].pc = "off"
  BY DEF Init, NotStarted
<1> QED BY <1>1 DEF Init, ExclusionInv, Working

LEMMA ExclusionInvSuffices ==
    ASSUME StoreInv, ExclusionInv
    PROVE  ExecutionProtected
<1>1. \A p \in Holder : cli[p].pc = "exec" => Protected(p)
  BY DEF ExclusionInv, Working
<1>2. ExclusiveExecution
  BY <1>1 DEF ExclusiveExecution, Protected, RequireApplyLease
<1>3. ASSUME NEW p \in Holder, cli[p].pc = "exec"
      PROVE  cli[p].id = Len(journal) /\ owner[Len(journal)] = p /\ journal[Len(journal)].status = "running"
  BY <1>1, <1>3, LeaseMeansOwner DEF Protected
<1> QED BY <1>2, <1>3 DEF ExecutionProtected, ExecutionIsJournalled

\* While heartbeats are in time and RPCs are answered, an invocation inside a
\* step is alone, and the row it works on stays running and its own: the lease
\* of stack.begin, renewed by LeaseHeartbeat, is a lock (leaseBlocks,
\* requireApplyLease), for any number of invocations.
THEOREM ExecutionIsExclusive ==
    ASSUME Timely, ~Unreliable
    PROVE  Spec => []ExecutionProtected
<1>1. CliInv /\ ExclusionInv /\ [Next]_vars => ExclusionInv'
  BY ExclusionInvStep
<1>2. CliInv /\ ExclusionInv => ExecutionProtected
  BY ExclusionInvSuffices DEF CliInv
<1> QED BY <1>1, <1>2, ExclusionInvInit, CliInvariance, PTL DEF Spec
=============================================================================
