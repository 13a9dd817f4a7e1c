-------------------------- MODULE ApplyStoreProofs --------------------------
(***************************************************************************)
(* Proofs about ApplyStore, for any set of holders, hashes and steps, any  *)
(* TTL and any number of journal rows.                                     *)
(***************************************************************************)
EXTENDS ApplyStore, SequenceTheorems, TLAPS

\* The inductive invariant.  OnlyNewestIncomplete pins Current to the last
\* row, which LeaseNamesOwner needs to speak about the right owner.
StoreInv == TypeOK /\ OnlyNewestIncomplete /\ LeaseNamesOwner

-----------------------------------------------------------------------------
(* Lemmas about the queries and the updates. *)

\* incompleteJournal's "ORDER BY generation DESC LIMIT 1" returns the last row.
LEMMA CurrentIsLast ==
    ASSUME TypeOK, OnlyNewestIncomplete, Incomplete # {}
    PROVE  /\ Current = Len(journal)
           /\ Len(journal) \in DOMAIN journal
           /\ journal[Len(journal)].status \in IncompleteStatus
<1>1. PICK g \in Incomplete : TRUE
  OBVIOUS
<1>2. g = Len(journal) /\ g \in DOMAIN journal /\ journal[g].status \in IncompleteStatus
  BY <1>1 DEF OnlyNewestIncomplete, Incomplete
<1>3. \A k \in Incomplete : k <= g
  BY <1>2 DEF OnlyNewestIncomplete, TypeOK
<1>4. Current \in Incomplete
  BY <1>1, <1>3 DEF Current
<1> QED BY <1>2, <1>4 DEF OnlyNewestIncomplete

LEMMA RowOfJournal ==
    ASSUME TypeOK, NEW g \in DOMAIN journal
    PROVE  journal[g] \in Row
BY DEF TypeOK

\* updateJournal changes step and status of one row and nothing else.
LEMMA UpdateJournalEffect ==
    ASSUME TypeOK, NEW id \in DOMAIN journal, NEW step \in Step,
           NEW status \in Status, UpdateJournal(id, step, status)
    PROVE  /\ journal' \in Seq(Row)
           /\ Len(journal') = Len(journal)
           /\ DOMAIN journal' = DOMAIN journal
           /\ journal'[id].status = status
           /\ \A g \in DOMAIN journal : g # id => journal'[g] = journal[g]
<1>1. journal[id] \in Row
  BY RowOfJournal
<1> DEFINE r == [journal[id] EXCEPT !.step = step, !.status = status]
<1>2. r \in Row /\ r.status = status
  BY <1>1 DEF Row
<1>3. journal' = [journal EXCEPT ![id] = r]
  BY DEF UpdateJournal
<1> HIDE DEF r
<1>4. journal \in Seq(Row) /\ id \in 1..Len(journal)
  BY DEF TypeOK
<1>5. /\ journal' \in Seq(Row)
      /\ Len(journal') = Len(journal)
      /\ \A g \in 1..Len(journal) : journal'[g] = IF g = id THEN r ELSE journal[g]
  BY <1>2, <1>3, <1>4, ExceptSeq
<1> QED BY <1>2, <1>4, <1>5

\* A row that leaves the incomplete states leaves nothing incomplete behind.
LEMMA EndedMeansIdle ==
    ASSUME StoreInv, Incomplete # {}, NEW status \in {"done", "aborted"},
           UpdateJournal(Current, journal[Current].step, status)
    PROVE  /\ journal' \in Seq(Row)
           /\ Len(journal') = Len(journal)
           /\ Incomplete' = {}
<1>1. Current = Len(journal) /\ Current \in DOMAIN journal
  BY CurrentIsLast DEF StoreInv
<1>2. journal[Current].step \in Step
  BY <1>1, RowOfJournal DEF StoreInv, Row
<1>3. status \in Status /\ status \notin IncompleteStatus
  BY DEF Status, IncompleteStatus
<1>4. /\ journal' \in Seq(Row)
      /\ Len(journal') = Len(journal)
      /\ DOMAIN journal' = DOMAIN journal
      /\ journal'[Current].status = status
      /\ \A g \in DOMAIN journal : g # Current => journal'[g] = journal[g]
  BY <1>1, <1>2, <1>3, UpdateJournalEffect DEF StoreInv
<1>5. \A g \in DOMAIN journal : g # Current => journal[g].status \notin IncompleteStatus
  BY <1>1 DEF StoreInv, OnlyNewestIncomplete, Incomplete
<1>6. Incomplete' = {}
  BY <1>3, <1>4, <1>5 DEF Incomplete
<1> QED BY <1>4, <1>6

\* Rewriting the current row with an incomplete status keeps it the only one.
LEMMA RewrittenStaysNewest ==
    ASSUME StoreInv, Incomplete # {}, NEW step \in Step,
           NEW status \in IncompleteStatus, UpdateJournal(Current, step, status)
    PROVE  /\ journal' \in Seq(Row)
           /\ Len(journal') = Len(journal)
           /\ OnlyNewestIncomplete'
<1>1. Current = Len(journal) /\ Current \in DOMAIN journal
  BY CurrentIsLast DEF StoreInv
<1>2. status \in Status
  BY DEF Status
<1>3. /\ journal' \in Seq(Row)
      /\ Len(journal') = Len(journal)
      /\ DOMAIN journal' = DOMAIN journal
      /\ \A g \in DOMAIN journal : g # Current => journal'[g] = journal[g]
  BY <1>1, <1>2, UpdateJournalEffect DEF StoreInv
<1>4. OnlyNewestIncomplete'
  BY <1>1, <1>3 DEF StoreInv, OnlyNewestIncomplete, Incomplete
<1> QED BY <1>3, <1>4

-----------------------------------------------------------------------------
(* The invariant is inductive: one lemma per RPC, one for the environment. *)

LEMMA ResumeKeepsInv ==
    ASSUME StoreInv, NEW h \in Holder, NEW hash \in Hash, NEW mode \in Mode,
           ResumeApply(h, hash, mode)
    PROVE  StoreInv'
<1>0. Incomplete # {}
  BY DEF ResumeApply, CanResume
<1>1. Current = Len(journal) /\ Current \in DOMAIN journal /\ journal[Current].step \in Step
  BY <1>0, CurrentIsLast, RowOfJournal DEF StoreInv, Row
<1>2. /\ journal' \in Seq(Row)
      /\ Len(journal') = Len(journal)
      /\ OnlyNewestIncomplete'
  BY <1>0, <1>1, RewrittenStaysNewest DEF ResumeApply, IncompleteStatus
<1>3. lease' \in Lease /\ lease'.holder = h
  BY StoreAssumption DEF ResumeApply, UpsertLease, Lease
<1>4. owner' \in Seq(Holder) /\ Len(owner') = Len(owner) /\ owner'[Len(journal)] = h
  BY <1>1 DEF ResumeApply, StoreInv, TypeOK
<1>5. TypeOK'
  BY <1>2, <1>3, <1>4 DEF ResumeApply, StoreInv, TypeOK
<1>6. LeaseNamesOwner'
  BY <1>2, <1>3, <1>4 DEF LeaseNamesOwner
<1> QED BY <1>2, <1>5, <1>6 DEF StoreInv

LEMMA BeginKeepsInv ==
    ASSUME StoreInv, NEW h \in Holder, NEW hash \in Hash, NEW mode \in Mode,
           NEW purge \in BOOLEAN, BeginApply(h, hash, mode, purge)
    PROVE  StoreInv'
<1> DEFINE row == [status |-> "running", step |-> InitialStep, hash |-> hash,
                   mode |-> mode, purge |-> purge]
<1>1. row \in Row
  BY StoreAssumption DEF Row, Status, IncompleteStatus
<1>2. journal' = Append(journal, row) /\ owner' = Append(owner, h)
  BY DEF BeginApply
<1>3. /\ journal' \in Seq(Row)
      /\ Len(journal') = Len(journal) + 1
      /\ \A g \in DOMAIN journal : journal'[g] = journal[g]
      /\ DOMAIN journal' = 1..(Len(journal) + 1)
  <2> HIDE DEF row
  <2> QED BY <1>1, <1>2 DEF StoreInv, TypeOK
<1>4. owner' \in Seq(Holder) /\ Len(owner') = Len(journal') /\ owner'[Len(journal')] = h
  BY <1>2, <1>3 DEF StoreInv, TypeOK
<1>5. lease' \in Lease /\ lease'.holder = h
  BY StoreAssumption DEF BeginApply, UpsertLease, Lease
<1>6. TypeOK'
  BY <1>3, <1>4, <1>5 DEF BeginApply, StoreInv, TypeOK
<1>7. \A g \in DOMAIN journal : journal[g].status \notin IncompleteStatus
  BY DEF BeginApply, CanBegin, Incomplete
<1>8. OnlyNewestIncomplete'
  BY <1>3, <1>7 DEF OnlyNewestIncomplete, Incomplete, StoreInv, TypeOK
<1>9. LeaseNamesOwner'
  BY <1>4, <1>5 DEF LeaseNamesOwner
<1> QED BY <1>6, <1>8, <1>9 DEF StoreInv

LEMMA HeartbeatKeepsInv ==
    ASSUME StoreInv, NEW h \in Holder, NEW id \in 1..MaxGen, HeartbeatApply(id, h)
    PROVE  StoreInv'
<1>1. lease' \in Lease /\ lease'.holder = lease.holder
  BY StoreAssumption DEF HeartbeatApply, RequireApplyLease, UpsertLease, Lease
<1> QED BY <1>1 DEF HeartbeatApply, StoreInv, TypeOK, OnlyNewestIncomplete,
                    LeaseNamesOwner, Incomplete

LEMMA AdvanceKeepsInv ==
    ASSUME StoreInv, NEW h \in Holder, NEW id \in 1..MaxGen, NEW step \in Step,
           NEW status \in IncompleteStatus, AdvanceApply(id, h, step, status)
    PROVE  StoreInv'
<1>1. Incomplete # {} /\ Current = id
  BY DEF AdvanceApply, RequireApplyLease
<1>2. /\ journal' \in Seq(Row)
      /\ Len(journal') = Len(journal)
      /\ OnlyNewestIncomplete'
  BY <1>1, RewrittenStaysNewest DEF AdvanceApply
<1>3. lease' \in Lease /\ lease'.holder = lease.holder
  BY StoreAssumption DEF AdvanceApply, RequireApplyLease, UpsertLease, Lease
<1>4. TypeOK'
  BY <1>2, <1>3 DEF AdvanceApply, StoreInv, TypeOK
<1>5. LeaseNamesOwner'
  BY <1>1, <1>2, <1>3 DEF AdvanceApply, StoreInv, LeaseNamesOwner
<1> QED BY <1>2, <1>4, <1>5 DEF StoreInv

\* The three ways to end an operation leave no incomplete row, so the lease
\* may be gone, or (torn abort) left behind.
LEMMA EndKeepsInv ==
    ASSUME StoreInv, Incomplete' = {}, journal' \in Seq(Row),
           Len(journal') = Len(journal), lease' \in Lease,
           resources' \in Snapshot, UNCHANGED <<alive, owner>>
    PROVE  StoreInv'
BY DEF StoreInv, TypeOK, OnlyNewestIncomplete, LeaseNamesOwner

LEMMA FinishKeepsInv ==
    ASSUME StoreInv, NEW h \in Holder, NEW id \in 1..MaxGen,
           NEW snapshot \in Snapshot, FinishApply(id, h, snapshot)
    PROVE  StoreInv' /\ Incomplete' = {}
<1>1. Incomplete # {} /\ Current = id
  BY DEF FinishApply, RequireApplyLease
<1>2. Incomplete' = {} /\ journal' \in Seq(Row) /\ Len(journal') = Len(journal)
  BY <1>1, EndedMeansIdle DEF FinishApply
<1>3. lease' \in Lease
  BY StoreAssumption DEF FinishApply, NoLease, Lease
<1> QED BY <1>2, <1>3, EndKeepsInv DEF FinishApply

LEMMA AbortKeepsInv ==
    ASSUME StoreInv, NEW h \in Holder, AbortApply(h) \/ AbortApplyTorn(h)
    PROVE  StoreInv' /\ Incomplete' = {}
<1>1. Incomplete # {}
  BY DEF AbortApply, AbortApplyTorn, CanAbort
<1>2. Incomplete' = {} /\ journal' \in Seq(Row) /\ Len(journal') = Len(journal)
  BY <1>1, EndedMeansIdle DEF AbortApply, AbortApplyTorn
<1>3. lease' \in Lease
  BY StoreAssumption DEF AbortApply, AbortApplyTorn, NoLease, Lease, StoreInv, TypeOK
<1> QED BY <1>2, <1>3, EndKeepsInv DEF AbortApply, AbortApplyTorn, StoreInv, TypeOK

LEMMA EnvironmentKeepsInv ==
    ASSUME StoreInv,
           Tick \/ \E h \in Holder : ProcessAppears(h) \/ ProcessDies(h)
    PROVE  StoreInv'
<1>1. CASE Tick
  <2>1. lease' \in Lease /\ lease'.holder = lease.holder
    BY <1>1, StoreAssumption DEF Tick, StoreInv, TypeOK, Lease
  <2> QED BY <1>1, <2>1 DEF Tick, StoreInv, TypeOK, OnlyNewestIncomplete,
                            LeaseNamesOwner, Incomplete
<1>2. CASE \E h \in Holder : ProcessAppears(h) \/ ProcessDies(h)
  BY <1>2 DEF ProcessAppears, ProcessDies, StoreInv, TypeOK,
              OnlyNewestIncomplete, LeaseNamesOwner, Incomplete
<1> QED BY <1>1, <1>2

LEMMA StoreInvInductive == StoreInv /\ [StoreNext]_storeVars => StoreInv'
<1> SUFFICES ASSUME StoreInv, [StoreNext]_storeVars PROVE StoreInv'
  OBVIOUS
<1>1. ASSUME NEW h \in Holder, NEW hash \in Hash, NEW mode \in Mode,
             NEW purge \in BOOLEAN,
             ResumeApply(h, hash, mode) \/ BeginApply(h, hash, mode, purge)
      PROVE  StoreInv'
  BY <1>1, ResumeKeepsInv, BeginKeepsInv
<1>2. ASSUME NEW h \in Holder, NEW id \in 1..MaxGen,
             \/ HeartbeatApply(id, h)
             \/ \E step \in Step, status \in IncompleteStatus :
                   AdvanceApply(id, h, step, status)
             \/ \E snapshot \in Snapshot : FinishApply(id, h, snapshot)
      PROVE  StoreInv'
  BY <1>2, HeartbeatKeepsInv, AdvanceKeepsInv, FinishKeepsInv
<1>3. ASSUME NEW h \in Holder, AbortApply(h) \/ AbortApplyTorn(h)
      PROVE  StoreInv'
  BY <1>3, AbortKeepsInv
<1>4. CASE Tick \/ \E h \in Holder : ProcessAppears(h) \/ ProcessDies(h)
  BY <1>4, EnvironmentKeepsInv
<1>5. CASE UNCHANGED storeVars
  BY <1>5 DEF storeVars, StoreInv, TypeOK, OnlyNewestIncomplete,
              LeaseNamesOwner, Incomplete
<1> QED BY <1>1, <1>2, <1>3, <1>4, <1>5 DEF StoreNext

LEMMA StoreInvInit == StoreInit => StoreInv
BY StoreAssumption DEF StoreInit, StoreInv, TypeOK, OnlyNewestIncomplete,
                       LeaseNamesOwner, Incomplete, NoLease, Lease

-----------------------------------------------------------------------------
(* What one step may do, from the invariant. *)

\* A row that is not the current one is not incomplete, and updateJournal on
\* the current row leaves it alone.
LEMMA UpdateCurrentKeepsTerminal ==
    ASSUME StoreInv, Incomplete # {}, NEW step \in Step, NEW status \in Status,
           UpdateJournal(Current, step, status)
    PROVE  TerminalRowsKept
<1>1. /\ Current = Len(journal)
      /\ Current \in DOMAIN journal
      /\ journal[Current].status \in IncompleteStatus
  BY CurrentIsLast DEF StoreInv
<1>2. /\ DOMAIN journal' = DOMAIN journal
      /\ \A g \in DOMAIN journal : g # Current => journal'[g] = journal[g]
  BY <1>1, UpdateJournalEffect DEF StoreInv
<1>3. journal[Current].status \notin {"done", "aborted"}
  BY <1>1 DEF IncompleteStatus
<1> QED BY <1>2, <1>3 DEF TerminalRowsKept

LEMMA CurrentStepTyped ==
    ASSUME StoreInv, Incomplete # {}
    PROVE  journal[Current].step \in Step
BY CurrentIsLast, RowOfJournal DEF StoreInv, Row

LEMMA TerminalRowsKeptStep == StoreInv /\ [StoreNext]_storeVars => [TerminalRowsKept]_storeVars
<1> SUFFICES ASSUME StoreInv, StoreNext PROVE TerminalRowsKept
  OBVIOUS
<1> USE DEF IncompleteStatus, Status
<1>1. ASSUME NEW h \in Holder, NEW hash \in Hash, NEW mode \in Mode,
             ResumeApply(h, hash, mode)
      PROVE  TerminalRowsKept
  BY <1>1, CurrentStepTyped, UpdateCurrentKeepsTerminal DEF ResumeApply, CanResume
<1>2. ASSUME NEW h \in Holder, NEW hash \in Hash, NEW mode \in Mode,
             NEW purge \in BOOLEAN, BeginApply(h, hash, mode, purge)
      PROVE  TerminalRowsKept
  <2> DEFINE row == [status |-> "running", step |-> InitialStep, hash |-> hash,
                     mode |-> mode, purge |-> purge]
  <2>1. journal' = Append(journal, row)
    BY <1>2 DEF BeginApply
  <2> HIDE DEF row
  <2> QED BY <2>1 DEF TerminalRowsKept, StoreInv, TypeOK
<1>3. ASSUME NEW h \in Holder, NEW id \in 1..MaxGen, NEW step \in Step,
             NEW status \in IncompleteStatus, AdvanceApply(id, h, step, status)
      PROVE  TerminalRowsKept
  BY <1>3, UpdateCurrentKeepsTerminal DEF AdvanceApply, RequireApplyLease
<1>4. ASSUME NEW h \in Holder, NEW id \in 1..MaxGen, NEW snapshot \in Snapshot,
             FinishApply(id, h, snapshot)
      PROVE  TerminalRowsKept
  BY <1>4, CurrentStepTyped, UpdateCurrentKeepsTerminal DEF FinishApply, RequireApplyLease
<1>5. ASSUME NEW h \in Holder, AbortApply(h) \/ AbortApplyTorn(h)
      PROVE  TerminalRowsKept
  BY <1>5, CurrentStepTyped, UpdateCurrentKeepsTerminal
     DEF AbortApply, AbortApplyTorn, CanAbort
<1>6. ASSUME UNCHANGED journal
      PROVE  TerminalRowsKept
  BY <1>6 DEF TerminalRowsKept
<1> QED BY <1>1, <1>2, <1>3, <1>4, <1>5, <1>6
        DEF StoreNext, HeartbeatApply, Tick, ProcessAppears, ProcessDies

\* Only the holder itself gets past leaseBlocks while its lease is live.
LEMMA LiveLeaseBlocksOthers ==
    ASSUME StoreInv, NEW h \in Holder, ~LeaseBlocks(h),
           lease.holder \in alive, lease.left > 0
    PROVE  lease.holder = h
BY StoreAssumption DEF StoreInv, TypeOK, LeaseBlocks

LEMMA LiveLeaseKeptStep == StoreInv /\ [StoreNext]_storeVars => [LiveLeaseKept]_storeVars
<1> SUFFICES ASSUME StoreInv, StoreNext, lease.holder \in alive, lease.left > 0,
                    lease'.holder # lease.holder
             PROVE  lease' = NoLease /\ Incomplete' = {}
  BY DEF LiveLeaseKept
<1>1. ASSUME NEW h \in Holder, UpsertLease(h), ~LeaseBlocks(h) \/ lease.holder = h
      PROVE  FALSE
  BY <1>1, LiveLeaseBlocksOthers DEF UpsertLease
<1>2. ASSUME NEW h \in Holder, NEW hash \in Hash, NEW mode \in Mode,
             NEW purge \in BOOLEAN,
             ResumeApply(h, hash, mode) \/ BeginApply(h, hash, mode, purge)
      PROVE  FALSE
  BY <1>1, <1>2 DEF ResumeApply, BeginApply, CanResume, CanBegin
<1>3. ASSUME NEW h \in Holder, NEW id \in 1..MaxGen,
             \/ HeartbeatApply(id, h)
             \/ \E step \in Step, status \in IncompleteStatus :
                   AdvanceApply(id, h, step, status)
      PROVE  FALSE
  BY <1>1, <1>3 DEF HeartbeatApply, AdvanceApply, RequireApplyLease
<1>4. ASSUME NEW h \in Holder, NEW id \in 1..MaxGen, NEW snapshot \in Snapshot,
             FinishApply(id, h, snapshot)
      PROVE  lease' = NoLease /\ Incomplete' = {}
  BY <1>4, FinishKeepsInv DEF FinishApply
<1>5. ASSUME NEW h \in Holder, AbortApply(h)
      PROVE  lease' = NoLease /\ Incomplete' = {}
  BY <1>5, AbortKeepsInv DEF AbortApply
<1>6. ASSUME lease'.holder = lease.holder
      PROVE  FALSE
  BY <1>6
<1>7. CASE Tick
  BY <1>7 DEF Tick, StoreInv, TypeOK, Lease
<1> QED BY <1>2, <1>3, <1>4, <1>5, <1>6, <1>7
        DEF StoreNext, AbortApplyTorn, ProcessAppears, ProcessDies

LEMMA CommitStepStep == StoreInv /\ [StoreNext]_storeVars => [CommitStep]_storeVars
<1> SUFFICES ASSUME StoreInv, StoreNext, resources' # resources PROVE CommitStep
  BY DEF CommitStep
<1>1. PICK h \in Holder, id \in 1..MaxGen, snapshot \in Snapshot :
          FinishApply(id, h, snapshot)
  BY DEF StoreNext, ResumeApply, BeginApply, HeartbeatApply, AdvanceApply,
         AbortApply, AbortApplyTorn, Tick, ProcessAppears, ProcessDies
<1>2. Incomplete # {} /\ Current = id /\ UpdateJournal(Current, journal[Current].step, "done")
  BY <1>1 DEF FinishApply, RequireApplyLease
<1>3. /\ Current = Len(journal)
      /\ Current \in DOMAIN journal
      /\ journal[Current].status \in IncompleteStatus
      /\ journal[Current].step \in Step
  BY <1>2, CurrentIsLast, CurrentStepTyped DEF StoreInv
<1>4. Len(journal') = Len(journal) /\ journal'[Current].status = "done"
  BY <1>2, <1>3, UpdateJournalEffect DEF StoreInv, Status
<1> QED BY <1>3, <1>4 DEF CommitStep

-----------------------------------------------------------------------------
(* The theorems. *)

\* The invariant holds whatever RPCs arrive, in whatever order.
LEMMA StoreInvariance == StoreSpec => []StoreInv
<1> QED BY StoreInvInit, StoreInvInductive, PTL DEF StoreSpec

\* The tables are well typed, and a row always has an owner.
THEOREM StoreTypeCorrect == StoreSpec => []TypeOK
<1>1. StoreInv => TypeOK
  BY DEF StoreInv
<1> QED BY <1>1, StoreInvariance, PTL

\* No INSERT of beginApply meets an incomplete row: the index
\* one_incomplete_journal_per_stack never fires.
THEOREM IncompleteIsNewest == StoreSpec => []OnlyNewestIncomplete
<1>1. StoreInv => OnlyNewestIncomplete
  BY DEF StoreInv
<1> QED BY <1>1, StoreInvariance, PTL

\* The lease of an incomplete operation names who began or last resumed it,
\* so requireApplyLease rejects every superseded caller.
THEOREM LeaseFollowsOwner == StoreSpec => []LeaseNamesOwner
<1>1. StoreInv => LeaseNamesOwner
  BY DEF StoreInv
<1> QED BY <1>1, StoreInvariance, PTL

\* No late RPC rewrites a done or aborted row.
THEOREM TerminalIsFinal == StoreSpec => TerminalRowsFrozen
<1> QED BY StoreInvariance, TerminalRowsKeptStep, PTL DEF StoreSpec, TerminalRowsFrozen

\* beginApply and abortApply never take a live, unexpired lease from another.
THEOREM LiveLeaseIsExclusive == StoreSpec => LiveLeaseProtects
<1> QED BY StoreInvariance, LiveLeaseKeptStep, PTL DEF StoreSpec, LiveLeaseProtects

\* finishApply is the only writer of table resources and ends its journal row
\* in the same transaction.
THEOREM CommitsAreJournalled == StoreSpec => CommitIsJournalled
<1> QED BY StoreInvariance, CommitStepStep, PTL DEF StoreSpec, CommitIsJournalled

\* The three together: whatever calls arrive in whatever order, terminal rows
\* stay, a live lease stays with its holder, and a commit ends its operation.
THEOREM StoreIsSound == StoreSpec => StoreSound
<1>1. StoreInv /\ [StoreNext]_storeVars => [TerminalRowsKept /\ LiveLeaseKept /\ CommitStep]_storeVars
  BY TerminalRowsKeptStep, LiveLeaseKeptStep, CommitStepStep
<1> QED BY <1>1, StoreInvariance, PTL DEF StoreSpec, StoreSound
=============================================================================
