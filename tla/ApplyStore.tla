----------------------------- MODULE ApplyStore -----------------------------
(***************************************************************************)
(* The apply journal and lease that the control plane (vz-supervisor)      *)
(* keeps in SQLite: tables journal, locks and resources, and the RPCs      *)
(* stack.begin, stack.heartbeat, stack.step, stack.finish and stack.abort  *)
(* that work on them (StateDatabase.swift, SupervisorRPCApply.swift).      *)
(*                                                                         *)
(* The tables are keyed by stack_id and no statement touches two stacks,   *)
(* so the module describes one stack.  Every RPC runs under reconcileLock  *)
(* and is one action.  The callers are arbitrary here: any holder may call *)
(* any RPC with any arguments at any time, which is more than the CLI does *)
(* (module Reconciler adds the CLI).                                       *)
(***************************************************************************)
EXTENDS Naturals, Sequences

CONSTANTS
    Holder,       \* lease holders, "host:pid" of a CLI process
    NoHolder,     \* no row in table locks
    Hash,         \* desired-state hashes
    Step,         \* names of reconcile steps
    InitialStep,  \* the step a fresh journal row starts with ('validate')
    Snapshot,     \* contents of table resources for the stack
    NoSnapshot,   \* the empty table
    TTL,          \* leaseDuration, in clock ticks
    MaxGen        \* bound on the number of journal rows

ASSUME StoreAssumption ==
    /\ NoHolder \notin Holder
    /\ InitialStep \in Step
    /\ NoSnapshot \in Snapshot
    /\ TTL \in Nat \ {0}
    /\ MaxGen \in Nat \ {0}

VARIABLES
    journal,    \* sequence of rows; the index is generation and id
    lease,      \* the row of table locks, or NoLease
    resources,  \* the committed snapshot
    alive,      \* holders whose PID answers kill(pid, 0)
    owner       \* history: who began or last resumed each journal row

storeVars == <<journal, lease, resources, alive, owner>>

Mode == {"up", "apply", "down", "resume"}
IncompleteStatus == {"running", "failed"}
Status == IncompleteStatus \cup {"done", "aborted"}

\* A journal row; hash, mode and purge are its payload.
Row == [status: Status, step: Step, hash: Hash, mode: Mode, purge: BOOLEAN]

\* expires_at is kept as the time left: left > 0 iff expires_at > now.
Lease == [holder: Holder \cup {NoHolder}, left: 0..TTL]
NoLease == [holder |-> NoHolder, left |-> 0]

TypeOK ==
    /\ journal \in Seq(Row)
    /\ lease \in Lease
    /\ resources \in Snapshot
    /\ alive \in SUBSET Holder
    /\ owner \in Seq(Holder)
    /\ Len(owner) = Len(journal)

-----------------------------------------------------------------------------
(* Queries. *)

\* incompleteJournal(stackID:), newest generation first.
Incomplete == {g \in DOMAIN journal : journal[g].status \in IncompleteStatus}
Current == CHOOSE g \in Incomplete : \A k \in Incomplete : k <= g

\* leaseBlocks(_:for:): a foreign lease blocks while unexpired and its PID lives.
LeaseBlocks(h) ==
    /\ lease.holder \notin {NoHolder, h}
    /\ lease.left > 0
    /\ lease.holder \in alive

\* requireApplyLease(id:stackID:holder:)
RequireApplyLease(id, h) ==
    /\ Incomplete # {}
    /\ Current = id
    /\ lease.holder = h
    /\ lease.left > 0

-----------------------------------------------------------------------------
(* Updates. *)

UpsertLease(h) == lease' = [holder |-> h, left |-> TTL]

\* updateJournal(id:step:status:error:)
UpdateJournal(id, step, status) ==
    journal' = [journal EXCEPT ![id].step = step, ![id].status = status]

\* Mutants of the resume guard: the lease, or the desired hash, is ignored.
CanResumeDespiteLease(h, hash, mode) ==
    Incomplete # {} /\ mode = "resume" /\ journal[Current].hash = hash

CanResumeAnyHash(h, hash, mode) ==
    Incomplete # {} /\ ~LeaseBlocks(h) /\ mode = "resume"

\* beginApply, branch for an existing incomplete journal: same generation,
\* same desired hash, the checkpoint stays where it was.
CanResume(h, hash, mode) ==
    /\ Incomplete # {}
    /\ ~LeaseBlocks(h)
    /\ mode = "resume"
    /\ journal[Current].hash = hash

ResumeApply(h, hash, mode) ==
    /\ CanResume(h, hash, mode)
    /\ UpsertLease(h)
    /\ UpdateJournal(Current, journal[Current].step, "running")
    /\ owner' = [owner EXCEPT ![Current] = h]
    /\ UNCHANGED <<resources, alive>>

\* beginApply, branch without an incomplete journal.  It does not look at
\* resume: a resume that finds nothing incomplete starts a fresh journal.
CanBegin(h) ==
    /\ Incomplete = {}
    /\ ~LeaseBlocks(h)
    /\ Len(journal) < MaxGen

BeginApply(h, hash, mode, purge) ==
    /\ CanBegin(h)
    /\ UpsertLease(h)
    /\ journal' = Append(journal, [status |-> "running", step |-> InitialStep,
                                   hash |-> hash, mode |-> mode, purge |-> purge])
    /\ owner' = Append(owner, h)
    /\ UNCHANGED <<resources, alive>>

\* heartbeatApply.  advanceApply interrupted between its two autocommitted
\* statements leaves exactly this effect too.
HeartbeatApply(id, h) ==
    /\ RequireApplyLease(id, h)
    /\ UpsertLease(h)
    /\ UNCHANGED <<journal, resources, alive, owner>>

\* advanceApply; "completed" checkpoints arrive with status "running".
AdvanceApply(id, h, step, status) ==
    /\ RequireApplyLease(id, h)
    /\ UpsertLease(h)
    /\ UpdateJournal(id, step, status)
    /\ UNCHANGED <<resources, alive, owner>>

\* finishApply, one transaction.  The checkpoint becomes 'done', a name outside
\* Step; the row is terminal and its step is never read again, so it is kept.
FinishApply(id, h, snapshot) ==
    /\ RequireApplyLease(id, h)
    /\ resources' = snapshot
    /\ UpdateJournal(id, journal[id].step, "done")
    /\ lease' = NoLease
    /\ UNCHANGED <<alive, owner>>

\* Mutant: abort does not ask for the lease.
CanAbortDespiteLease(h) == Incomplete # {}

\* abortApply runs without a transaction: the row is updated, then the lease
\* deleted.
CanAbort(h) ==
    /\ Incomplete # {}
    /\ ~LeaseBlocks(h)

AbortApply(h) ==
    /\ CanAbort(h)
    /\ UpdateJournal(Current, journal[Current].step, "aborted")
    /\ lease' = NoLease
    /\ UNCHANGED <<resources, alive, owner>>

\* The supervisor dies between the two statements of abortApply.
AbortApplyTorn(h) ==
    /\ CanAbort(h)
    /\ UpdateJournal(Current, journal[Current].step, "aborted")
    /\ UNCHANGED <<lease, resources, alive, owner>>

-----------------------------------------------------------------------------
(* Environment: the clock leaseNow() and the process table. *)

Tick ==
    /\ lease.left > 0
    /\ lease' = [lease EXCEPT !.left = @ - 1]
    /\ UNCHANGED <<journal, resources, alive, owner>>

\* A PID appears (a CLI starts, or the PID is reused) or disappears.
ProcessAppears(h) ==
    /\ h \notin alive
    /\ alive' = alive \cup {h}
    /\ UNCHANGED <<journal, lease, resources, owner>>

ProcessDies(h) ==
    /\ h \in alive
    /\ alive' = alive \ {h}
    /\ UNCHANGED <<journal, lease, resources, owner>>

-----------------------------------------------------------------------------
StoreInit ==
    /\ journal = << >>
    /\ lease = NoLease
    /\ resources = NoSnapshot
    /\ alive = {}
    /\ owner = << >>

StoreNext ==
    \/ \E h \in Holder, hash \in Hash, mode \in Mode, purge \in BOOLEAN :
          \/ ResumeApply(h, hash, mode)
          \/ BeginApply(h, hash, mode, purge)
    \/ \E h \in Holder, id \in 1..MaxGen :
          \/ HeartbeatApply(id, h)
          \/ \E step \in Step, status \in IncompleteStatus :
                AdvanceApply(id, h, step, status)
          \/ \E snapshot \in Snapshot : FinishApply(id, h, snapshot)
    \/ \E h \in Holder :
          \/ AbortApply(h)
          \/ AbortApplyTorn(h)
          \/ ProcessAppears(h)
          \/ ProcessDies(h)
    \/ Tick

StoreSpec == StoreInit /\ [][StoreNext]_storeVars

-----------------------------------------------------------------------------
(* Properties. *)

\* Every row but the newest is terminal: the partial unique index
\* one_incomplete_journal_per_stack is never violated by an INSERT, and
\* "ORDER BY generation DESC LIMIT 1" never has a choice.
OnlyNewestIncomplete == \A g \in Incomplete : g = Len(journal)

\* While an operation is incomplete the lease row exists (expired or not) and
\* names whoever began or last resumed it: a superseded CLI fails
\* requireApplyLease whatever it sends, however late.
LeaseNamesOwner ==
    Incomplete # {} => lease.holder = owner[Len(journal)]

\* A committed or aborted row is never touched again, by nobody's late
\* heartbeat, checkpoint, finish, resume or abort.
TerminalRowsKept ==
    \A g \in DOMAIN journal :
        journal[g].status \in {"done", "aborted"} =>
            g \in DOMAIN journal' /\ journal'[g] = journal[g]

TerminalRowsFrozen == [][TerminalRowsKept]_storeVars

\* A lease that is unexpired and whose PID lives is never handed to another
\* holder: a step after which it no longer names its holder has deleted it and
\* has ended the operation it protected.
LiveLeaseKept ==
    (/\ lease.holder \in alive
     /\ lease.left > 0
     /\ lease'.holder # lease.holder)
    => /\ lease' = NoLease
       /\ Incomplete' = {}

LiveLeaseProtects == [][LiveLeaseKept]_storeVars

\* The committed snapshot changes only in the step that turns the newest,
\* incomplete journal row into done.
CommitStep ==
    resources' # resources =>
        /\ Len(journal') = Len(journal)
        /\ journal[Len(journal)].status \in IncompleteStatus
        /\ journal'[Len(journal)].status = "done"

CommitIsJournalled == [][CommitStep]_storeVars

\* What no call may do to the tables of a stack, from whoever it comes and
\* however late: change a terminal row, take a live lease away, commit without
\* ending the operation (beginApply, resumeApply, requireApplyLease,
\* updateJournal, finishApply, abortApply).
StoreSound == [][TerminalRowsKept /\ LiveLeaseKept /\ CommitStep]_storeVars
=============================================================================
