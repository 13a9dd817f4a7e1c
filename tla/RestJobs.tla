----------------------------- MODULE RestJobs -----------------------------
(***************************************************************************)
(* The job table of the REST API (RestJobRunner) and the process pump that *)
(* runs one vzctl child per job (JobProcessRunner).                        *)
(*                                                                         *)
(* HTTP threads start and cancel jobs, a worker thread per job runs the    *)
(* child and writes its result.  The table is guarded by one lock; the     *)
(* worker holds it only inside update() and inside the closure cancelled,  *)
(* so a cancel can fall between any two of its steps.  The table is not    *)
(* persistent; logs and results are left out.                              *)
(***************************************************************************)
EXTENDS Integers, Sequences, FiniteSets

CONSTANTS
    Job,           \* job ids; a UUID is never used twice
    ActiveJobs,    \* limits.activeJobs
    RetainedJobs   \* limits.retainedJobs

ASSUME LimitsAssumption == ActiveJobs \in Nat /\ RetainedJobs \in Nat

VARIABLES
    status,     \* status in the table jobs; "none" before, "pruned" after
    order,      \* the sequence order
    cancelled,  \* the set cancelledJobs
    worker,     \* what run() does next
    child,      \* the child process
    failed,     \* jobs whose pump has set its local variable failure
    accepted    \* history: jobs whose cancellation was answered with 202

jobsVars == <<status, order, cancelled, worker, child, failed, accepted>>
table == <<status, order, cancelled>>

Active == {"queued", "running"}
Terminal == {"succeeded", "failed"}
JobStatus == Active \cup Terminal \cup {"none", "pruned"}
Worker == {"none", "dispatched", "check", "launch", "pump", "threw", "returned", "done"}
Alive == {"running", "terminated", "killed"}
Child == Alive \cup {"none", "exit 0", "exit 1"}

ActiveIn(st) == {j \in Job : st[j] \in Active}
RetainedIn(st) == {j \in Job : st[j] \in Active \cup Terminal}

AtLeastOne(n) == IF n = 0 THEN 1 ELSE n
Smaller(m, n) == IF m <= n THEN m ELSE n
ActiveLimit == AtLeastOne(Smaller(ActiveJobs, RetainedJobs))
RetainedLimit == AtLeastOne(RetainedJobs)

-----------------------------------------------------------------------------
(* The table.                                                                *)

\* The how manieth of a set of places in the order.
PlaceIn(S, i) == Cardinality({k \in S : k <= i})

\* The jobs at these places, in their order.
AtPlaces(ord, S) == [n \in 1..Cardinality(S) |-> ord[CHOOSE i \in S : PlaceIn(S, i) = n]]

\* pruneLocked: while there are too many jobs, the first finished one in the
\* order goes.
Evicted(st, ord) ==
    LET excess == Cardinality(RetainedIn(st)) - RetainedLimit
        finished == {k \in DOMAIN ord : st[ord[k]] \in Terminal}
    IN {k \in finished : PlaceIn(finished, k) <= excess}

Victims(st, ord) == {ord[k] : k \in Evicted(st, ord)}

PruneTo(st, ord, can) ==
    LET gone == Victims(st, ord)
    IN /\ status' = [j \in Job |-> IF j \in gone THEN "pruned" ELSE st[j]]
       /\ order' = AtPlaces(ord, DOMAIN ord \ Evicted(st, ord))
       /\ cancelled' = can \ gone

\* update(): nothing happens to a job that is no longer in the table.
Update(j, s) ==
    \/ /\ status[j] \in Active \cup Terminal
       /\ PruneTo([status EXCEPT ![j] = s], order,
                  IF s \in Terminal THEN cancelled \ {j} ELSE cancelled)
    \/ status[j] \notin Active \cup Terminal /\ UNCHANGED table

\* POST that starts a job; 429 when too many are active.
StartJob(j) ==
    /\ status[j] = "none"
    /\ Cardinality(ActiveIn(status)) < ActiveLimit
    /\ PruneTo([status EXCEPT ![j] = "queued"], Append(order, j), cancelled)
    /\ worker' = [worker EXCEPT ![j] = "dispatched"]
    /\ UNCHANGED <<child, failed, accepted>>

\* POST .../cancel of an active job; 404 and 409 change nothing.
Cancel(j) ==
    /\ status[j] \in Active
    /\ cancelled' = cancelled \cup {j}
    /\ accepted' = accepted \cup {j}
    /\ UNCHANGED <<status, order, worker, child, failed>>

-----------------------------------------------------------------------------
(* The worker.                                                               *)

RunBegins(j) ==
    /\ worker[j] = "dispatched"
    /\ Update(j, "running")
    /\ worker' = [worker EXCEPT ![j] = "check"]
    /\ UNCHANGED <<child, failed, accepted>>

\* resolveVzctl can throw; then a cancelled job is not launched.
CheckCancelled(j) ==
    /\ worker[j] = "check"
    /\ \/ worker' = [worker EXCEPT ![j] = "threw"]
       \/ j \notin cancelled /\ worker' = [worker EXCEPT ![j] = "launch"]
    /\ UNCHANGED <<table, child, failed, accepted>>

Launch(j) ==
    /\ worker[j] = "launch"
    /\ \/ /\ child' = [child EXCEPT ![j] = "running"]
          /\ worker' = [worker EXCEPT ![j] = "pump"]
       \/ /\ worker' = [worker EXCEPT ![j] = "threw"]
          /\ UNCHANGED child
    /\ UNCHANGED <<table, failed, accepted>>

\* Mutant: the pump gives up on a child that got SIGTERM.
RoundLeavingChild(j, fails) ==
    /\ worker[j] = "pump"
    /\ failed' = IF fails THEN failed \cup {j} ELSE failed
    /\ child' = IF child[j] \in Alive /\ fails THEN [child EXCEPT ![j] = "terminated"] ELSE child
    /\ worker' = IF j \in failed' THEN [worker EXCEPT ![j] = "threw"]
                 ELSE IF child[j] \in Alive THEN worker
                 ELSE [worker EXCEPT ![j] = "returned"]
    /\ UNCHANGED <<table, accepted>>

\* Mutant: a child that ignores SIGTERM is not killed.
SignalTermOnly(c) == "terminated"

\* SIGTERM first, SIGKILL two seconds later.
Signal(c) == IF c = "running" THEN "terminated" ELSE "killed"

\* One round of the pump.  While the child lives it is told to end if
\* something went wrong; when it has exited the pump is over.
Round(j, fails) ==
    /\ worker[j] = "pump"
    /\ failed' = IF fails THEN failed \cup {j} ELSE failed
    /\ IF child[j] \in Alive
       THEN /\ child' = IF j \in failed' THEN [child EXCEPT ![j] = Signal(@)] ELSE child
            /\ UNCHANGED worker
       ELSE /\ worker' = [worker EXCEPT ![j] = IF j \in failed' THEN "threw" ELSE "returned"]
            /\ UNCHANGED child
    /\ UNCHANGED <<table, accepted>>

\* The output limit, a read error, the deadline, or pipes that a descendant
\* keeps open; past the deadline every round is of this kind.
PumpFails(j) == Round(j, TRUE)
Pump(j) == Round(j, j \in cancelled)

\* Mutant: the exit code alone decides.
ResultOfExit(j) == IF child[j] = "exit 0" THEN "succeeded" ELSE "failed"

\* A cancellation that came after the last look at it still counts.
Result(j) == IF child[j] = "exit 0" /\ j \notin cancelled THEN "succeeded" ELSE "failed"

\* run() returns and its locals are gone.
WorkerEnds(j) ==
    /\ worker' = [worker EXCEPT ![j] = "done"]
    /\ failed' = failed \ {j}
    /\ UNCHANGED <<child, accepted>>

Returned(j) ==
    /\ worker[j] = "returned"
    /\ Update(j, Result(j))
    /\ WorkerEnds(j)

Threw(j) ==
    /\ worker[j] = "threw"
    /\ Update(j, "failed")
    /\ WorkerEnds(j)

-----------------------------------------------------------------------------
(* The child.                                                                *)

\* The child ends by itself or by a signal; SIGKILL cannot look like success.
ChildExits(j) ==
    /\ child[j] \in Alive
    /\ \E code \in IF child[j] = "killed" THEN {"exit 1"} ELSE {"exit 0", "exit 1"} :
         child' = [child EXCEPT ![j] = code]
    /\ UNCHANGED <<table, worker, failed, accepted>>

-----------------------------------------------------------------------------
JobsInit ==
    /\ status = [j \in Job |-> "none"]
    /\ order = << >> /\ cancelled = {}
    /\ worker = [j \in Job |-> "none"]
    /\ child = [j \in Job |-> "none"]
    /\ failed = {} /\ accepted = {}

WorkerStep(j) ==
    \/ RunBegins(j) \/ CheckCancelled(j) \/ Launch(j) \/ Pump(j) \/ PumpFails(j)
    \/ Returned(j) \/ Threw(j)

JobsNext ==
    \E j \in Job :
        \/ StartJob(j) \/ Cancel(j)
        \/ WorkerStep(j)
        \/ ChildExits(j)

JobsSpec == JobsInit /\ [][JobsNext]_jobsVars

\* Worker threads run, deadlines pass, and the kernel ends a killed process.
\* Nothing is assumed about when a child ends by itself.
JobsFairness ==
    \A j \in Job : /\ WF_jobsVars(WorkerStep(j))
                  /\ WF_jobsVars(PumpFails(j))
                  /\ WF_jobsVars(child[j] = "killed" /\ ChildExits(j))

-----------------------------------------------------------------------------
(* Properties.                                                               *)

\* The types, and no left-over cancellations: cancelledJobs holds active jobs
\* only, so it cannot grow (update, pruneLocked).
JobsTypeOK ==
    /\ status \in [Job -> JobStatus]
    /\ order \in Seq(Job)
    /\ cancelled \subseteq ActiveIn(status)
    /\ worker \in [Job -> Worker]
    /\ child \in [Job -> Child]
    /\ failed \subseteq Job /\ accepted \subseteq Job

\* The table stays within limits.retainedJobs although active jobs are never
\* evicted, and order lists exactly the jobs of the table, once each.
TableBounded ==
    /\ Len(order) <= RetainedLimit
    /\ {order[i] : i \in DOMAIN order} = RetainedIn(status)
    /\ Cardinality(RetainedIn(status)) = Len(order)

\* At most limits.activeJobs children run: a job leaves the active ones only
\* when its child is gone, also after a timeout or a cancellation.
ChildrenBounded ==
    /\ \A j \in Job : child[j] \in Alive => status[j] \in Active
    /\ Cardinality({j \in Job : child[j] \in Alive}) <= ActiveLimit

\* An active job is never evicted, and a finished one keeps its status
\* (docs/specs/supervisor-rest-v1.md: active jobs are never displaced).
FinishedKept ==
    \A j \in Job :
        /\ status[j] \in Active => status'[j] # "pruned"
        /\ status[j] \in Terminal => status'[j] \in {status[j], "pruned"}

\* A cancellation answered with 202 never ends as succeeded, at whatever
\* point of the child's exit it arrives.
CancelWins == \A j \in accepted : status[j] # "succeeded"

\* Every job ends: by itself, by its deadline or by its cancellation, even if
\* the child ignores SIGTERM.
JobsEnd == \A j \in Job : status[j] \in Active ~> status[j] \in Terminal

\* The table as a whole: after every step it is bounded, in order, free of
\* left-over cancellations and without a child outside an active job, and no
\* step evicts an active job or changes the result of a finished one.
JobTableSound == [][(JobsTypeOK /\ TableBounded /\ ChildrenBounded)' /\ FinishedKept]_jobsVars
=============================================================================
