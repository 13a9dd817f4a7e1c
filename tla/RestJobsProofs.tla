-------------------------- MODULE RestJobsProofs --------------------------
(***************************************************************************)
(* The life of a job of the REST server, for any number of jobs and any     *)
(* limits; the event stream's readers, for any number of events, types and  *)
(* timeouts; and the progress display of a run, for any number of messages. *)
(***************************************************************************)
EXTENDS RestJobs, EventStreams, Progress, SequenceTheorems, FiniteSetTheorems, WellFoundedInduction, TLAPS

\* Where the worker is decides the job's status; a child lives inside the
\* pump only.
Stage ==
    \A j \in Job :
        /\ worker[j] = "none" => status[j] = "none"
        /\ worker[j] = "dispatched" => status[j] = "queued"
        /\ worker[j] \in {"check", "launch", "pump", "threw", "returned"} => status[j] = "running"
        /\ worker[j] = "done" => status[j] \in Terminal \cup {"pruned"}
        /\ child[j] \in Alive => worker[j] = "pump"

\* An accepted cancellation of an active job has not been forgotten.
Remembered == \A j \in accepted : status[j] \in Active => j \in cancelled

JobTypes ==
    /\ status \in [Job -> JobStatus]
    /\ cancelled \subseteq Job
    /\ worker \in [Job -> Worker]
    /\ child \in [Job -> Child]
    /\ failed \subseteq Job /\ accepted \subseteq Job
    /\ \A j \in accepted : status[j] # "none"

JobInv == JobTypes /\ Stage /\ Remembered /\ CancelWins

-----------------------------------------------------------------------------
(* pruneLocked takes finished jobs only.                                     *)
LEMMA VictimsAreFinished ==
  ASSUME NEW st, NEW ord PROVE \A j \in Victims(st, ord) : st[j] \in Terminal
  BY DEF Victims, Evicted

\* What pruning does to one job.
LEMMA PruneEffect ==
  ASSUME NEW st \in [Job -> JobStatus], NEW ord, NEW can, PruneTo(st, ord, can)
  PROVE  /\ status' \in [Job -> JobStatus]
         /\ \A j \in Job : \/ status'[j] = st[j]
                           \/ st[j] \in Terminal /\ status'[j] = "pruned"
         /\ cancelled' \subseteq can
         /\ \A j \in can : j \in cancelled' \/ st[j] \in Terminal
<1>1. \A j \in Victims(st, ord) : st[j] \in Terminal
  BY VictimsAreFinished
<1>2. /\ status' = [j \in Job |-> IF j \in Victims(st, ord) THEN "pruned" ELSE st[j]]
      /\ cancelled' = can \ Victims(st, ord)
  BY DEF PruneTo
<1>3. status' \in [Job -> JobStatus]
  BY <1>2 DEF JobStatus
<1> QED
  BY <1>1, <1>2, <1>3

\* update() gives a job that is in the table its new status, and other jobs
\* stay or are evicted.
LEMMA UpdateEffect ==
  ASSUME JobTypes, NEW j \in Job, status[j] \in Active, NEW s \in Active \cup Terminal, Update(j, s)
  PROVE  /\ status' \in [Job -> JobStatus]
         /\ status'[j] = s \/ (s \in Terminal /\ status'[j] = "pruned")
         /\ \A k \in Job : k # j => \/ status'[k] = status[k]
                                    \/ status[k] \in Terminal /\ status'[k] = "pruned"
         /\ cancelled' \subseteq cancelled
         /\ \A k \in cancelled : k \in cancelled' \/ status'[k] \notin Active
<1> DEFINE st == [status EXCEPT ![j] = s]
           can == IF s \in Terminal THEN cancelled \ {j} ELSE cancelled
<1>1. PruneTo(st, order, can)
  BY DEF Update
<1>2. st \in [Job -> JobStatus] /\ st[j] = s /\ \A k \in Job : k # j => st[k] = status[k]
  BY DEF JobTypes, JobStatus
<1>3. can \subseteq cancelled /\ \A k \in cancelled : k \in can \/ (k = j /\ s \in Terminal)
  OBVIOUS
<1> HIDE DEF st, can
<1>4. /\ status' \in [Job -> JobStatus]
      /\ \A k \in Job : status'[k] = st[k] \/ (st[k] \in Terminal /\ status'[k] = "pruned")
      /\ cancelled' \subseteq can
      /\ \A k \in can : k \in cancelled' \/ st[k] \in Terminal
  BY <1>1, <1>2, PruneEffect
<1>5. \A k \in cancelled : k \in cancelled' \/ status'[k] \notin Active
  BY <1>2, <1>3, <1>4 DEF JobTypes, Terminal, Active
<1> QED
  BY <1>2, <1>3, <1>4, <1>5

-----------------------------------------------------------------------------
(* The invariant.                                                            *)

LEMMA JobInvInit == JobsInit => JobInv
  BY DEF JobsInit, JobInv, JobTypes, Stage, Remembered, CancelWins, JobStatus, Worker, Child, Alive

\* Steps that leave the table alone.
LEMMA OutsideTable ==
  ASSUME JobInv, UNCHANGED <<status, cancelled, accepted>>, failed' \subseteq Job,
         worker' \in [Job -> Worker], child' \in [Job -> Child], Stage'
  PROVE  JobInv'
  BY DEF JobInv, JobTypes, Remembered, CancelWins

LEMMA JobInvNext == JobInv /\ [JobsNext]_jobsVars => JobInv'
<1> SUFFICES ASSUME JobInv, [JobsNext]_jobsVars PROVE JobInv'
  OBVIOUS
<1>t. JobTypes /\ Stage /\ Remembered /\ CancelWins
  BY DEF JobInv
<1>1. ASSUME NEW j \in Job, StartJob(j) PROVE JobInv'
  <2> DEFINE st == [status EXCEPT ![j] = "queued"]
  <2>1. /\ status[j] = "none" /\ PruneTo(st, Append(order, j), cancelled)
        /\ worker' = [worker EXCEPT ![j] = "dispatched"] /\ UNCHANGED <<child, failed, accepted>>
    BY <1>1 DEF StartJob
  <2>2. st \in [Job -> JobStatus] /\ st[j] = "queued" /\ \A k \in Job : k # j => st[k] = status[k]
    BY <1>t DEF JobTypes, JobStatus, Active
  <2>3. worker[j] = "none" /\ j \notin accepted
    BY <2>1, <1>t DEF JobTypes, Stage, Worker, Terminal
  <2> HIDE DEF st
  <2>4. /\ status' \in [Job -> JobStatus]
        /\ \A k \in Job : status'[k] = st[k] \/ (st[k] \in Terminal /\ status'[k] = "pruned")
        /\ cancelled' \subseteq cancelled
        /\ \A k \in cancelled : k \in cancelled' \/ st[k] \in Terminal
    BY <2>1, <2>2, PruneEffect
  <2>5. JobTypes'
    BY <2>1, <2>2, <2>3, <2>4, <1>t DEF JobTypes, Worker, Terminal
  <2>6. Stage'
    BY <2>1, <2>2, <2>3, <2>4, <1>t DEF Stage, JobTypes, Terminal, Alive
  <2>7. Remembered' /\ CancelWins'
    BY <2>1, <2>2, <2>3, <2>4, <1>t DEF Remembered, CancelWins, JobTypes, Terminal, Active
  <2> QED
    BY <2>5, <2>6, <2>7 DEF JobInv
<1>2. ASSUME NEW j \in Job, Cancel(j) PROVE JobInv'
  BY <1>2, <1>t DEF Cancel, JobInv, JobTypes, Stage, Remembered, CancelWins, Active, Alive, Terminal
<1>3. ASSUME NEW j \in Job, NEW s \in Active \cup Terminal, NEW w \in Worker,
             status[j] \in Active, Update(j, s), worker' = [worker EXCEPT ![j] = w],
             UNCHANGED accepted, failed' \subseteq Job, child' \in [Job -> Child],
             \A k \in Job : k # j => child'[k] = child[k], child'[j] \notin Alive,
             s = "running" => w = "check", s \in Terminal => w = "done",
             s = "succeeded" => j \notin cancelled, s # "queued"
      PROVE  JobInv'
  <2>1. /\ status' \in [Job -> JobStatus]
        /\ status'[j] = s \/ (s \in Terminal /\ status'[j] = "pruned")
        /\ \A k \in Job : k # j => \/ status'[k] = status[k]
                                   \/ status[k] \in Terminal /\ status'[k] = "pruned"
        /\ cancelled' \subseteq cancelled
        /\ \A k \in cancelled : k \in cancelled' \/ status'[k] \notin Active
    BY <1>3, <1>t, UpdateEffect
  <2>2. JobTypes'
    BY <1>3, <2>1, <1>t DEF JobTypes, Terminal, Active
  <2>3. Stage'
    <3> SUFFICES ASSUME NEW k \in Job
                 PROVE  /\ worker'[k] = "none" => status'[k] = "none"
                        /\ worker'[k] = "dispatched" => status'[k] = "queued"
                        /\ worker'[k] \in {"check", "launch", "pump", "threw", "returned"}
                             => status'[k] = "running"
                        /\ worker'[k] = "done" => status'[k] \in Terminal \cup {"pruned"}
                        /\ child'[k] \in Alive => worker'[k] = "pump"
      BY DEF Stage
    <3>1. CASE k = j
      BY <3>1, <1>3, <2>1, <1>t DEF JobTypes, Terminal, Active
    <3>2. CASE k # j
      BY <3>2, <1>3, <2>1, <1>t DEF JobTypes, Stage, Terminal
    <3> QED
      BY <3>1, <3>2
  <2>4. Remembered'
    BY <1>3, <2>1, <1>t DEF Remembered, JobTypes, Terminal, Active
  <2>5. CancelWins'
    BY <1>3, <2>1, <1>t DEF CancelWins, Remembered, JobTypes, Terminal, Active
  <2> QED
    BY <2>2, <2>3, <2>4, <2>5 DEF JobInv
<1>4. ASSUME NEW j \in Job, RunBegins(j) PROVE JobInv'
  <2>1. status[j] = "queued" /\ child[j] \notin Alive
    BY <1>4, <1>t DEF RunBegins, Stage
  <2>2. Update(j, "running") /\ worker' = [worker EXCEPT ![j] = "check"] /\ UNCHANGED <<child, failed, accepted>>
    BY <1>4 DEF RunBegins
  <2> QED
    BY <2>1, <2>2, <1>3, <1>t DEF JobTypes, Active, Terminal, Worker
<1>5. ASSUME NEW j \in Job, Returned(j) \/ Threw(j) PROVE JobInv'
  <2>1. PICK s \in Terminal : Update(j, s) /\ (s = "succeeded" => j \notin cancelled)
    BY <1>5 DEF Returned, Threw, Result, Terminal
  <2>2. status[j] = "running"
    BY <1>5, <1>t DEF Returned, Threw, Stage
  <2>3. /\ worker' = [worker EXCEPT ![j] = "done"]
        /\ failed' = failed \ {j} /\ UNCHANGED <<child, accepted>>
    BY <1>5 DEF Returned, Threw, WorkerEnds
  <2>4. /\ child' \in [Job -> Child] /\ \A k \in Job : k # j => child'[k] = child[k]
        /\ child'[j] \notin Alive
    BY <1>5, <2>3, <1>t DEF JobTypes, Stage, Returned, Threw
  <2> QED
    BY <2>1, <2>2, <2>3, <2>4, <1>3, <1>t DEF JobTypes, Active, Terminal, Worker
<1>6. ASSUME NEW j \in Job, CheckCancelled(j) \/ Launch(j) PROVE JobInv'
  <2>1. UNCHANGED <<status, cancelled, accepted, failed>>
    BY <1>6 DEF CheckCancelled, Launch, table
  <2>2. worker' \in [Job -> Worker] /\ child' \in [Job -> Child] /\ Stage'
    BY ZenonT(40), <1>6, <1>t, <2>1 DEF CheckCancelled, Launch, JobTypes, Stage, Worker, Child, Alive
  <2> QED
    BY <2>1, <2>2, <1>t, OutsideTable DEF JobTypes
<1>7. ASSUME NEW j \in Job, Pump(j) \/ PumpFails(j) PROVE JobInv'
  <2>1. UNCHANGED <<status, cancelled, accepted>> /\ failed' \subseteq Job /\ worker[j] = "pump"
    BY <1>7, <1>t DEF Pump, PumpFails, Round, table, JobTypes
  <2>2. \/ worker' = worker /\ child' = child
        \/ worker' = worker /\ \E c \in Alive : child' = [child EXCEPT ![j] = c]
        \/ child[j] \notin Alive /\ child' = child
           /\ \E w \in {"threw", "returned"} : worker' = [worker EXCEPT ![j] = w]
    BY <1>7 DEF Pump, PumpFails, Round, Signal, Alive
  <2>3. worker' \in [Job -> Worker] /\ child' \in [Job -> Child]
    BY <2>2, <1>t DEF JobTypes, Worker, Child
  <2>4. Stage'
    BY <2>1, <2>2, <2>3, <1>t DEF JobTypes, Stage
  <2> QED
    BY <2>1, <2>3, <2>4, OutsideTable
<1>8. ASSUME NEW j \in Job, ChildExits(j) PROVE JobInv'
  <2>1. UNCHANGED <<status, cancelled, accepted, failed, worker>>
    BY <1>8 DEF ChildExits, table
  <2>2. PICK c \in {"exit 0", "exit 1"} : child' = [child EXCEPT ![j] = c]
    BY <1>8 DEF ChildExits
  <2>3. child' \in [Job -> Child] /\ Stage'
    BY <2>1, <2>2, <1>t DEF JobTypes, Stage, Child, Alive
  <2> QED
    BY <2>1, <2>3, <1>t, OutsideTable DEF JobTypes
<1>9. CASE UNCHANGED jobsVars
  BY <1>9, <1>t DEF jobsVars, JobInv, JobTypes, Stage, Remembered, CancelWins
<1> QED
  BY <1>1, <1>2, <1>4, <1>5, <1>6, <1>7, <1>8, <1>9 DEF JobsNext, WorkerStep

LEMMA JobInvariant == JobsSpec => []JobInv
  BY JobInvInit, JobInvNext, PTL DEF JobsSpec

\* POST .../cancel answered with 202: the job does not end as succeeded
\* (RestJobRunner.cancel, run), for any number of jobs and any limits.
THEOREM CancelIsFinal == JobsSpec => []CancelWins
<1>1. JobInv => CancelWins
  BY DEF JobInv
<1> QED
  BY <1>1, JobInvariant, PTL

-----------------------------------------------------------------------------
(* The limit on active jobs.                                                 *)

ActiveBounded == IsFiniteSet(ActiveIn(status)) /\ Cardinality(ActiveIn(status)) <= ActiveLimit

LEMMA LimitIsNat == ActiveLimit \in Nat /\ ActiveLimit > 0
  BY LimitsAssumption DEF ActiveLimit, AtLeastOne, Smaller

\* Only a start makes a job active.
LEMMA ActiveOnlyByStart ==
  ASSUME JobInv, [JobsNext]_jobsVars
  PROVE  \/ ActiveIn(status') \subseteq ActiveIn(status)
         \/ \E j \in Job : /\ Cardinality(ActiveIn(status)) < ActiveLimit
                           /\ ActiveIn(status') \subseteq ActiveIn(status) \cup {j}
<1>t. JobTypes /\ Stage
  BY DEF JobInv
<1>1. ASSUME NEW j \in Job, StartJob(j)
      PROVE  /\ Cardinality(ActiveIn(status)) < ActiveLimit
             /\ ActiveIn(status') \subseteq ActiveIn(status) \cup {j}
  <2> DEFINE st == [status EXCEPT ![j] = "queued"]
  <2>1. PruneTo(st, Append(order, j), cancelled) /\ Cardinality(ActiveIn(status)) < ActiveLimit
    BY <1>1 DEF StartJob
  <2>2. st \in [Job -> JobStatus] /\ \A k \in Job : k # j => st[k] = status[k]
    BY <1>t DEF JobTypes, JobStatus, Active
  <2> HIDE DEF st
  <2>3. \A k \in Job : status'[k] = st[k] \/ status'[k] = "pruned"
    BY <2>1, <2>2, PruneEffect
  <2> QED
    BY <2>1, <2>2, <2>3 DEF ActiveIn, Active
<1>2. ASSUME NEW j \in Job, RunBegins(j) \/ Returned(j) \/ Threw(j)
      PROVE  ActiveIn(status') \subseteq ActiveIn(status)
  <2>1. PICK s \in Active \cup Terminal : Update(j, s)
    BY <1>2 DEF RunBegins, Returned, Threw, Result, Active, Terminal
  <2>2. status[j] \in Active
    BY <1>2, <1>t DEF RunBegins, Returned, Threw, Stage, Active
  <2>3. \A k \in Job : k # j => status'[k] = status[k] \/ status'[k] = "pruned"
    BY <2>1, <2>2, <1>t, UpdateEffect
  <2> QED
    BY <2>2, <2>3 DEF ActiveIn, Active
<1>3. CASE UNCHANGED status
  BY <1>3
<1>4. ASSUME NEW j \in Job, Cancel(j) \/ CheckCancelled(j) \/ Launch(j) \/ Pump(j) \/ PumpFails(j) \/ ChildExits(j)
      PROVE  UNCHANGED status
  BY <1>4 DEF Cancel, CheckCancelled, Launch, Pump, PumpFails, Round, ChildExits, table
<1>5. CASE UNCHANGED jobsVars
  BY <1>5, <1>3 DEF jobsVars
<1> QED
  BY <1>1, <1>2, <1>3, <1>4, <1>5 DEF JobsNext, WorkerStep

LEMMA ActiveBoundedNext == JobInv /\ ActiveBounded /\ [JobsNext]_jobsVars => ActiveBounded'
<1> SUFFICES ASSUME JobInv, ActiveBounded, [JobsNext]_jobsVars PROVE ActiveBounded'
  OBVIOUS
<1> DEFINE now == ActiveIn(status)
           then == ActiveIn(status')
<1>0. ActiveBounded' <=> IsFiniteSet(then) /\ Cardinality(then) <= ActiveLimit
  BY DEF ActiveBounded, ActiveIn
<1>1. IsFiniteSet(now) /\ Cardinality(now) <= ActiveLimit /\ Cardinality(now) \in Nat
  BY FS_CardinalityType DEF ActiveBounded
<1>2. \/ then \subseteq now
      \/ \E j \in Job : Cardinality(now) < ActiveLimit /\ then \subseteq now \cup {j}
  BY ActiveOnlyByStart
<1> HIDE DEF now, then
<1>3. CASE then \subseteq now
  <2>1. IsFiniteSet(then) /\ Cardinality(then) <= Cardinality(now) /\ Cardinality(then) \in Nat
    BY <1>1, <1>3, FS_Subset, FS_CardinalityType
  <2> QED
    BY <1>0, <1>1, <2>1, LimitIsNat
<1>4. ASSUME NEW j \in Job, Cardinality(now) < ActiveLimit, then \subseteq now \cup {j}
      PROVE  ActiveBounded'
  <2>1. IsFiniteSet(now \cup {j}) /\ Cardinality(now \cup {j}) <= Cardinality(now) + 1
    <3>1. /\ IsFiniteSet(now \cup {j})
          /\ Cardinality(now \cup {j}) = IF j \in now THEN Cardinality(now) ELSE Cardinality(now) + 1
      BY <1>1, FS_AddElement, Zenon
    <3> QED
      BY <1>1, <3>1
  <2>2. /\ IsFiniteSet(then) /\ Cardinality(then) <= Cardinality(now \cup {j})
        /\ Cardinality(then) \in Nat /\ Cardinality(now \cup {j}) \in Nat
    BY <1>4, <2>1, FS_Subset, FS_CardinalityType
  <2> QED
    BY <1>0, <1>1, <1>4, <2>1, <2>2, LimitIsNat
<1> QED
  BY <1>2, <1>3, <1>4

LEMMA ActiveBoundedInit == JobsInit => ActiveBounded
<1> SUFFICES ASSUME JobsInit PROVE ActiveBounded
  OBVIOUS
<1>1. ActiveIn(status) = {}
  BY DEF JobsInit, ActiveIn, Active
<1>2. IsFiniteSet(ActiveIn(status)) /\ Cardinality(ActiveIn(status)) = 0
  BY <1>1, FS_EmptySet
<1> QED
  BY <1>2, LimitIsNat DEF ActiveBounded

LEMMA ChildrenFollow == JobInv /\ ActiveBounded => ChildrenBounded
<1> SUFFICES ASSUME JobInv, ActiveBounded PROVE ChildrenBounded
  OBVIOUS
<1>1. \A j \in Job : child[j] \in Alive => status[j] \in Active
  BY DEF JobInv, Stage, Active
<1> DEFINE alive == {j \in Job : child[j] \in Alive}
           active == ActiveIn(status)
<1>2. alive \subseteq active
  BY <1>1 DEF ActiveIn
<1>3. IsFiniteSet(active) /\ Cardinality(active) <= ActiveLimit
  BY DEF ActiveBounded
<1> HIDE DEF alive, active
<1>4. Cardinality(alive) <= Cardinality(active) /\ Cardinality(alive) \in Nat /\ Cardinality(active) \in Nat
  BY <1>2, <1>3, FS_Subset, FS_CardinalityType
<1>5. Cardinality(alive) <= ActiveLimit
  BY <1>3, <1>4, LimitIsNat
<1> QED
  BY <1>1, <1>5 DEF ChildrenBounded, alive

\* At most limits.activeJobs children run at any time, and a job with a living
\* child is active (JobProcessRunner.run returns only when its child is gone).
THEOREM ChildrenStayBounded == JobsSpec => []ChildrenBounded
  BY JobInvariant, ActiveBoundedInit, ActiveBoundedNext, ChildrenFollow, PTL DEF JobsSpec

-----------------------------------------------------------------------------
(* The table and its order.                                                  *)

\* The places of a finite set are numbered without a gap.
LEMMA PlacesCount ==
  ASSUME NEW S, S \subseteq Int, IsFiniteSet(S)
  PROVE  /\ Cardinality(S) \in Nat
         /\ \A i \in S : PlaceIn(S, i) \in 1 .. Cardinality(S)
         /\ \A i, k \in S : PlaceIn(S, i) = PlaceIn(S, k) => i = k
         /\ \A n \in 1 .. Cardinality(S) : \E i \in S : PlaceIn(S, i) = n
<1> DEFINE upto(i) == {n \in S : n <= i}
           N == Cardinality(S)
           P == [i \in S |-> PlaceIn(S, i)]
<1>1. N \in Nat BY FS_CardinalityType
<1>2. ASSUME NEW i \in S PROVE PlaceIn(S, i) \in 1 .. N
  <2>1. upto(i) \subseteq S /\ i \in upto(i) OBVIOUS
  <2> HIDE DEF upto
  <2>2. IsFiniteSet(upto(i)) /\ Cardinality(upto(i)) <= N BY <2>1, FS_Subset
  <2>3. Cardinality(upto(i)) \in Nat /\ Cardinality(upto(i)) # 0 BY <2>1, <2>2, FS_CardinalityType, FS_EmptySet
  <2>q. QED BY <1>1, <2>2, <2>3 DEF PlaceIn, upto
<1>3. ASSUME NEW i \in S, NEW k \in S, i < k PROVE PlaceIn(S, i) # PlaceIn(S, k)
  <2>0. i \in Int /\ k \in Int OBVIOUS
  <2>a. \A n \in S : n <= i => n <= k
    <3>1. ASSUME NEW n \in S, n <= i PROVE n <= k
      <4>1. n \in Int OBVIOUS
      <4>q. QED BY <4>1, <2>0, <3>1, <1>3
    <3>q. QED BY <3>1
  <2>b. k <= k /\ ~ (k <= i) BY <2>0, <1>3
  <2>1. upto(i) \subseteq upto(k) /\ k \in upto(k) /\ k \notin upto(i) /\ upto(k) \subseteq S BY <2>a, <2>b, Zenon
  <2> HIDE DEF upto
  <2>2. IsFiniteSet(upto(k)) BY <2>1, FS_Subset
  <2>3. Cardinality(upto(i)) # Cardinality(upto(k)) BY <2>1, <2>2, FS_Subset
  <2>q. QED BY <2>3 DEF PlaceIn, upto
<1>4. ASSUME NEW i \in S, NEW k \in S, PlaceIn(S, i) = PlaceIn(S, k) PROVE i = k
  <2>1. i \in Int /\ k \in Int OBVIOUS
  <2>2. i < k \/ k < i \/ i = k BY <2>1
  <2>q. QED BY <1>3, <1>4, <2>2
<1>5. P \in Injection(S, 1 .. N) BY <1>2, <1>4 DEF Injection, IsInjective
<1>6. IsFiniteSet(1 .. N) /\ Cardinality(1 .. N) = N BY <1>1, FS_Interval
<1>7. P \in Surjection(S, 1 .. N) BY <1>5, <1>6, FS_Injection
<1>8. \A n \in 1 .. N : \E i \in S : P[i] = n BY <1>7 DEF Surjection
<1>q. QED BY <1>1, <1>2, <1>4, <1>8

Earliest(S, e) == {k \in S : PlaceIn(S, k) <= e}

\* Those that come first, as many as are wanted or as there are.
LEMMA FirstPlaces ==
  ASSUME NEW S, S \subseteq Int, IsFiniteSet(S), NEW e \in Int
  PROVE  Cardinality(Earliest(S, e)) = IF e <= 0 THEN 0 ELSE IF e <= Cardinality(S) THEN e ELSE Cardinality(S)
<1> DEFINE F == Earliest(S, e)
           N == Cardinality(S)
           m == IF e <= 0 THEN 0 ELSE IF e <= N THEN e ELSE N
           P == [k \in F |-> PlaceIn(S, k)]
<1>0. N \in Nat /\ \A k \in S : PlaceIn(S, k) \in 1 .. N BY PlacesCount
<1>a. \A i, k \in S : PlaceIn(S, i) = PlaceIn(S, k) => i = k BY PlacesCount
<1> HIDE DEF N
<1>1. m \in 0 .. N BY <1>0
<1>2. ASSUME NEW k \in S PROVE k \in F <=> PlaceIn(S, k) \in 1 .. m
  <2>1. PlaceIn(S, k) \in 1 .. N BY <1>0
  <2>2. k \in F <=> PlaceIn(S, k) <= e BY DEF Earliest
  <2>q. QED BY <1>0, <2>1, <2>2
<1>3. F \subseteq S BY DEF Earliest
<1> HIDE DEF m, F
<1>4. P \in Injection(F, 1 .. m)
  <2>0. \A k \in F : PlaceIn(S, k) \in 1 .. m BY <1>2, <1>3
  <2>1. P \in [F -> 1 .. m] BY <2>0
  <2>2. \A i, k \in F : P[i] = P[k] => i = k BY <1>3, <1>a
  <2>q. QED BY <2>1, <2>2 DEF Injection, IsInjective
<1>5. P \in Surjection(F, 1 .. m)
  <2>1. ASSUME NEW n \in 1 .. m PROVE \E k \in F : P[k] = n
    <3>1. n \in 1 .. N BY <1>0, <1>1
    <3>2. PICK k \in S : PlaceIn(S, k) = n BY <3>1, PlacesCount DEF N
    <3>q. QED BY <1>2, <3>2
  <2>2. P \in [F -> 1 .. m] BY <1>4 DEF Injection
  <2>q. QED BY <2>1, <2>2 DEF Surjection
<1>6. IsFiniteSet(F) BY <1>3, FS_Subset
<1>7. Cardinality(1 .. m) = m BY <1>1, FS_Interval
<1>8. Cardinality(F) = Cardinality(1 .. m) BY <1>4, <1>5, <1>6, FS_Surjection
<1>q. QED BY <1>7, <1>8 DEF m, N, F

Distinct(s) == \A i, k \in DOMAIN s : s[i] = s[k] => i = k
Listed(s) == {s[i] : i \in DOMAIN s}

\* What is kept of the order: the same jobs in the same places.
LEMMA AtPlacesIs ==
  ASSUME NEW ord \in Seq(Job), Distinct(ord), NEW K \in SUBSET DOMAIN ord, NEW kept, kept = AtPlaces(ord, K)
  PROVE  kept \in Seq(Job) /\ Len(kept) = Cardinality(K) /\ Distinct(kept) /\ Listed(kept) = {ord[k] : k \in K}
<1> DEFINE N == Cardinality(K)
           at == [n \in 1 .. N |-> CHOOSE i \in K : PlaceIn(K, i) = n]
<1>1. DOMAIN ord = 1 .. Len(ord) /\ Len(ord) \in Nat /\ \A i \in 1 .. Len(ord) : ord[i] \in Job BY LenProperties, ElementOfSeq
<1>2. IsFiniteSet(K) /\ K \subseteq Int
  <2>1. IsFiniteSet(1 .. Len(ord)) BY <1>1, FS_Interval
  <2>q. QED BY <1>1, <2>1, FS_Subset
<1>3. N \in Nat /\ (\A i \in K : PlaceIn(K, i) \in 1 .. N) /\ (\A i, k \in K : PlaceIn(K, i) = PlaceIn(K, k) => i = k)
      /\ \A n \in 1 .. N : \E i \in K : PlaceIn(K, i) = n
      BY <1>2, PlacesCount
<1>4. \A n \in 1 .. N : at[n] \in K /\ PlaceIn(K, at[n]) = n BY <1>3
<1>5. kept = [n \in 1 .. N |-> ord[at[n]]] BY DEF AtPlaces
<1> HIDE DEF at
<1>6. kept \in [1 .. N -> Job] BY <1>1, <1>4, <1>5
<1>7. kept \in Seq(Job) /\ Len(kept) = N /\ DOMAIN kept = 1 .. N BY <1>3, <1>6
<1>8. ASSUME NEW n \in 1 .. N, NEW m \in 1 .. N, kept[n] = kept[m] PROVE n = m
  <2>1. ord[at[n]] = ord[at[m]] BY <1>5, <1>8
  <2>2. at[n] \in DOMAIN ord /\ at[m] \in DOMAIN ord BY <1>4
  <2>3. at[n] = at[m] BY <2>1, <2>2 DEF Distinct
  <2>q. QED BY <1>4, <2>3
<1>9. ASSUME NEW k \in K PROVE ord[k] \in Listed(kept)
  <2> DEFINE n == PlaceIn(K, k)
  <2>1. n \in 1 .. N BY <1>3
  <2>2. at[n] = k BY <1>3, <1>4, <2>1
  <2>q. QED BY <1>5, <1>7, <2>1, <2>2 DEF Listed
<1>10. \A n \in 1 .. N : kept[n] \in {ord[k] : k \in K} BY <1>4, <1>5
<1>q. QED BY <1>7, <1>8, <1>9, <1>10 DEF Distinct, Listed

\* As many jobs as a list names, if it names none twice.
LEMMA ListedCount ==
  ASSUME NEW ord \in Seq(Job), Distinct(ord), NEW K \in SUBSET DOMAIN ord
  PROVE  IsFiniteSet({ord[k] : k \in K}) /\ Cardinality({ord[k] : k \in K}) = Cardinality(K)
<1> DEFINE T == {ord[k] : k \in K}
           f == [k \in K |-> ord[k]]
<1>1. DOMAIN ord = 1 .. Len(ord) /\ Len(ord) \in Nat BY LenProperties
<1>2. IsFiniteSet(K)
  <2>1. IsFiniteSet(1 .. Len(ord)) BY <1>1, FS_Interval
  <2>q. QED BY <1>1, <2>1, FS_Subset
<1>3. f \in Surjection(K, T) BY DEF Surjection
<1>4. f \in Injection(K, T) BY DEF Injection, IsInjective, Distinct
<1>q. QED BY <1>2, <1>3, <1>4, FS_Surjection

\* The table and its order go together: each job of the table is in it once,
\* cancelledJobs names active jobs only, and there are not too many.
TableOf(st, ord, can) ==
    /\ ord \in Seq(Job) /\ Distinct(ord)
    /\ Listed(ord) = RetainedIn(st)
    /\ can \subseteq ActiveIn(st)

\* pruneLocked keeps this, and there is room for the active jobs.
LEMMA PruneSound ==
  ASSUME NEW st \in [Job -> JobStatus], NEW ord, NEW can, TableOf(st, ord, can),
         IsFiniteSet(ActiveIn(st)), Cardinality(ActiveIn(st)) <= RetainedLimit, PruneTo(st, ord, can)
  PROVE  TableOf(status', order', cancelled') /\ Len(order') <= RetainedLimit
<1> DEFINE D == DOMAIN ord
           F == {k \in D : st[ord[k]] \in Terminal}
           e == Cardinality(RetainedIn(st)) - RetainedLimit
           E == {k \in F : PlaceIn(F, k) <= e}
           K == D \ E
           gone == Victims(st, ord)
<1>0. ord \in Seq(Job) /\ Distinct(ord) /\ Listed(ord) = RetainedIn(st) /\ can \subseteq ActiveIn(st) BY DEF TableOf
<1>1. /\ status' = [j \in Job |-> IF j \in gone THEN "pruned" ELSE st[j]]
      /\ order' = AtPlaces(ord, K) /\ cancelled' = can \ gone /\ gone = {ord[k] : k \in E}
  BY DEF PruneTo, Victims, Evicted
<1>2. D = 1 .. Len(ord) /\ Len(ord) \in Nat /\ \A k \in D : ord[k] \in Job
  <2>1. D = 1 .. Len(ord) /\ Len(ord) \in Nat BY <1>0, LenProperties
  <2>2. \A k \in 1 .. Len(ord) : ord[k] \in Job BY <1>0, ElementOfSeq
  <2>q. QED BY <2>1, <2>2
<1>3. IsFiniteSet(D) /\ Cardinality(D) = Len(ord)
  <2> DEFINE l == Len(ord)
  <2>1. l \in Nat /\ D = 1 .. l BY <1>2
  <2> HIDE DEF l, D
  <2>2. IsFiniteSet(1 .. l) /\ Cardinality(1 .. l) = IF 1 > l THEN 0 ELSE l - 1 + 1 BY <2>1, FS_Interval
  <2>q. QED BY <2>1, <2>2 DEF l
<1>4. RetainedLimit \in Nat BY LimitsAssumption DEF RetainedLimit, AtLeastOne
<1>5. Cardinality(RetainedIn(st)) = Len(ord)
  <2>1. Listed(ord) = {ord[k] : k \in D} BY DEF Listed
  <2>2. Cardinality({ord[k] : k \in D}) = Cardinality(D) BY <1>0, ListedCount
  <2>q. QED BY <1>0, <1>3, <2>1, <2>2
<1>6. /\ F \subseteq D /\ E \subseteq F /\ \A k \in F : st[ord[k]] \in Terminal
      /\ \A k \in D : k \in F \/ st[ord[k]] \notin Terminal
  OBVIOUS
<1>7. gone \subseteq RetainedIn(st) /\ \A j \in gone : st[j] \in Terminal
  <2>1. \A j \in gone : st[j] \in Terminal BY VictimsAreFinished
  <2>2. \A j \in gone : j \in Job BY <1>1, <1>2, <1>6
  <2>q. QED BY <2>1, <2>2 DEF RetainedIn
<1>8. e \in Int /\ e = Len(ord) - RetainedLimit BY <1>2, <1>4, <1>5
<1>9. IsFiniteSet(F) /\ F \subseteq Int BY <1>2, <1>3, <1>6, FS_Subset
<1>10. Cardinality(E) = IF e <= 0 THEN 0 ELSE IF e <= Cardinality(F) THEN e ELSE Cardinality(F)
  <2>1. E = Earliest(F, e) BY DEF Earliest
  <2> HIDE DEF F, e, E
  <2>q. QED BY <1>8, <1>9, <2>1, FirstPlaces
<1> HIDE DEF D, F, e, E, gone
<1>11. K \subseteq D /\ \A k \in D : k \in K <=> k \notin E OBVIOUS
<1>12. /\ Cardinality(K) = Len(ord) - Cardinality(E)
       /\ Cardinality(D \ F) = Len(ord) - Cardinality(F)
       /\ Cardinality(F) \in Nat
  <2>1. D \cap E = E /\ D \cap F = F BY <1>6
  <2>2. Cardinality(K) = Cardinality(D) - Cardinality(D \cap E) BY <1>3, FS_Difference
  <2>3. Cardinality(D \ F) = Cardinality(D) - Cardinality(D \cap F) BY <1>3, FS_Difference
  <2>q. QED BY <1>3, <1>9, <2>1, <2>2, <2>3, FS_CardinalityType
<1>13. Cardinality(D \ F) <= RetainedLimit
  <2> DEFINE A == {ord[k] : k \in D \ F}
  <2>1. D \ F \in SUBSET DOMAIN ord BY DEF D
  <2>2. Cardinality(A) = Cardinality(D \ F) BY <1>0, <2>1, ListedCount
  <2>3. A \subseteq ActiveIn(st)
    <3>1. ASSUME NEW k \in D \ F PROVE ord[k] \in ActiveIn(st)
      <4>1. ord[k] \in Listed(ord) BY DEF D, Listed
      <4>2. ord[k] \in Job /\ st[ord[k]] \in Active \cup Terminal BY <1>0, <4>1 DEF RetainedIn
      <4>q. QED BY <1>6, <4>2 DEF ActiveIn
    <3>q. QED BY <3>1
  <2> HIDE DEF A
  <2>4. Cardinality(A) <= Cardinality(ActiveIn(st)) /\ Cardinality(A) \in Nat /\ Cardinality(ActiveIn(st)) \in Nat
    BY <2>3, FS_Subset, FS_CardinalityType
  <2>q. QED BY <1>4, <2>2, <2>4
<1>14. Cardinality(K) <= RetainedLimit BY <1>2, <1>4, <1>8, <1>10, <1>12, <1>13
<1>15. /\ order' \in Seq(Job) /\ Len(order') = Cardinality(K) /\ Distinct(order')
       /\ Listed(order') = {ord[k] : k \in K}
  <2>1. K \in SUBSET DOMAIN ord BY <1>11 DEF D
  <2> HIDE DEF K
  <2>q. QED BY <1>0, <1>1, <2>1, AtPlacesIs
<1>16. \A j \in Job : (status'[j] = st[j] /\ j \notin gone) \/ (status'[j] = "pruned" /\ j \in gone) BY <1>1
<1>17. \A j \in Job : j \in RetainedIn(status') <=> j \in RetainedIn(st) /\ j \notin gone
  BY <1>16 DEF RetainedIn, Active, Terminal
<1>18. \A j \in Job : j \in ActiveIn(status') <=> j \in ActiveIn(st)
  BY <1>7, <1>16 DEF ActiveIn, Active, Terminal
<1>19. \A k \in D : k \in K <=> ord[k] \notin gone
  <2>1. ASSUME NEW k \in D, ord[k] \in gone PROVE k \in E
    <3>1. PICK i \in E : ord[i] = ord[k] BY <1>1, <2>1
    <3>2. i \in D BY <1>6
    <3>q. QED BY <1>0, <3>1, <3>2 DEF Distinct, D
  <2>2. \A k \in E : ord[k] \in gone BY <1>1
  <2>q. QED BY <1>11, <2>1, <2>2
<1>20. Listed(ord) = {ord[k] : k \in D} BY DEF Listed, D
<1>21. Listed(order') = RetainedIn(status')
  <2>1. \A j \in Job : j \in {ord[k] : k \in K} <=> j \in Listed(ord) /\ j \notin gone
    BY <1>11, <1>19, <1>20
  <2>2. {ord[k] : k \in K} \subseteq Job BY <1>2, <1>11
  <2>3. RetainedIn(status') \subseteq Job BY DEF RetainedIn
  <2>q. QED BY <1>0, <1>15, <1>17, <2>1, <2>2, <2>3
<1>22. cancelled' \subseteq ActiveIn(status')
  <2>1. ActiveIn(st) \subseteq Job BY DEF ActiveIn
  <2>q. QED BY <1>0, <1>1, <1>18, <2>1
<1>q. QED BY <1>14, <1>15, <1>21, <1>22 DEF TableOf

-----------------------------------------------------------------------------
(* The table as a whole.                                                     *)

TableInv == TableOf(status, order, cancelled) /\ Len(order) <= RetainedLimit

LEMMA ActiveWithinRetained == ActiveLimit <= RetainedLimit /\ RetainedLimit \in Nat
  BY LimitsAssumption DEF ActiveLimit, RetainedLimit, AtLeastOne, Smaller

\* There is room for every set of jobs within the limit on active ones.
LEMMA RoomForActive ==
  ASSUME NEW A, IsFiniteSet(A), Cardinality(A) <= ActiveLimit
  PROVE  Cardinality(A) <= RetainedLimit
  BY FS_CardinalityType, LimitIsNat, ActiveWithinRetained

LEMMA TableInvInit == JobsInit => TableInv
<1> SUFFICES ASSUME JobsInit PROVE TableInv OBVIOUS
<1>1. order = << >> /\ cancelled = {} /\ \A j \in Job : status[j] = "none" BY DEF JobsInit
<1>2. RetainedIn(status) = {} BY <1>1 DEF RetainedIn, Active, Terminal
<1>3. order \in Seq(Job) /\ DOMAIN order = {} /\ Len(order) = 0 BY <1>1, EmptySeq
<1>4. Listed(order) = {} /\ Distinct(order) BY <1>3 DEF Listed, Distinct
<1>q. QED BY <1>1, <1>2, <1>3, <1>4, ActiveWithinRetained DEF TableInv, TableOf

\* A new job at the end of the order.
LEMMA AppendedTable ==
  ASSUME NEW st \in [Job -> JobStatus], NEW ord, NEW can, TableOf(st, ord, can),
         NEW j \in Job, st[j] = "none", NEW now, now = [st EXCEPT ![j] = "queued"]
  PROVE  now \in [Job -> JobStatus] /\ TableOf(now, Append(ord, j), can)
<1> DEFINE new == Append(ord, j)
<1>0. ord \in Seq(Job) /\ Distinct(ord) /\ Listed(ord) = RetainedIn(st) /\ can \subseteq ActiveIn(st) BY DEF TableOf
<1>1. now \in [Job -> JobStatus] /\ now[j] = "queued" /\ \A k \in Job : k # j => now[k] = st[k]
  BY DEF JobStatus, Active
<1>2. DOMAIN ord = 1 .. Len(ord) /\ Len(ord) \in Nat BY <1>0, LenProperties
<1>3. /\ new \in Seq(Job) /\ DOMAIN new = 1 .. Len(ord) + 1
      /\ \A k \in 1 .. Len(ord) : new[k] = ord[k]
      /\ new[Len(ord) + 1] = j
  <2>1. new \in Seq(Job) /\ Len(new) = Len(ord) + 1 /\ \A k \in 1 .. Len(ord) : new[k] = ord[k] BY <1>0, AppendProperties
  <2>2. new[Len(ord) + 1] = j BY <1>0, AppendProperties
  <2>3. DOMAIN new = 1 .. Len(new) BY <2>1, LenProperties
  <2> HIDE DEF new
  <2>q. QED BY <2>1, <2>2, <2>3
<1> HIDE DEF new
<1>4. \A i \in DOMAIN new : (i \in DOMAIN ord /\ new[i] = ord[i]) \/ (i \notin DOMAIN ord /\ i = Len(ord) + 1 /\ new[i] = j)
  BY <1>2, <1>3
<1>5. DOMAIN ord \subseteq DOMAIN new /\ Len(ord) + 1 \in DOMAIN new BY <1>2, <1>3
<1>6. \A i \in DOMAIN ord : ord[i] # j
  <2>1. j \notin RetainedIn(st) BY DEF RetainedIn, Active, Terminal
  <2>q. QED BY <1>0, <2>1 DEF Listed
<1>7. Distinct(new) BY <1>0, <1>4, <1>6 DEF Distinct
<1>8. Listed(new) = Listed(ord) \cup {j}
  <2>1. \A x \in Listed(new) : x \in Listed(ord) \cup {j} BY <1>4 DEF Listed
  <2>2. \A x \in Listed(ord) : x \in Listed(new) BY <1>3, <1>2, <1>5 DEF Listed
  <2>3. j \in Listed(new) BY <1>3, <1>5 DEF Listed
  <2>q. QED BY <2>1, <2>2, <2>3
<1>9. RetainedIn(now) = RetainedIn(st) \cup {j} BY <1>1 DEF RetainedIn, Active
<1>10. can \subseteq ActiveIn(now)
  <2>1. \A k \in ActiveIn(st) : k \in ActiveIn(now) BY <1>1 DEF ActiveIn, Active
  <2>q. QED BY <1>0, <2>1
<1>q. QED BY <1>0, <1>1, <1>3, <1>7, <1>8, <1>9, <1>10 DEF TableOf, new

\* An active job gets a new status; a finished one is no longer cancelled.
LEMMA UpdatedTable ==
  ASSUME NEW st \in [Job -> JobStatus], NEW ord, NEW can, TableOf(st, ord, can),
         NEW j \in Job, st[j] \in Active, NEW s \in Active \cup Terminal,
         NEW now \in [Job -> JobStatus], now[j] = s, \A k \in Job : k # j => now[k] = st[k],
         NEW left, \A k \in left : k \in can /\ ~ (k = j /\ s \in Terminal)
  PROVE  TableOf(now, ord, left)
<1>0. ord \in Seq(Job) /\ Distinct(ord) /\ Listed(ord) = RetainedIn(st) /\ can \subseteq ActiveIn(st) BY DEF TableOf
<1>1. now[j] = s /\ \A k \in Job : k # j => now[k] = st[k] OBVIOUS
<1>2. RetainedIn(now) = RetainedIn(st) BY <1>1 DEF RetainedIn
<1>4. \A k \in ActiveIn(st) : k \in ActiveIn(now) \/ (k = j /\ s \in Terminal) BY <1>1 DEF ActiveIn
<1>5. left \subseteq ActiveIn(now)
  <2>1. \A k \in left : k \in can /\ ~ (k = j /\ s \in Terminal) OBVIOUS
  <2>q. QED BY <1>0, <1>4, <2>1
<1>q. QED BY <1>0, <1>1, <1>2, <1>5 DEF TableOf

LEMMA TableInvNext == JobInv /\ ActiveBounded /\ TableInv /\ [JobsNext]_jobsVars => TableInv'
<1> SUFFICES ASSUME JobInv, ActiveBounded, TableInv, [JobsNext]_jobsVars PROVE TableInv' OBVIOUS
<1>t. JobTypes /\ Stage /\ status \in [Job -> JobStatus] BY DEF JobInv, JobTypes
<1>b. IsFiniteSet(ActiveIn(status)) /\ Cardinality(ActiveIn(status)) <= ActiveLimit
      /\ TableOf(status, order, cancelled) /\ Len(order) <= RetainedLimit
  BY DEF ActiveBounded, TableInv
<1>s. TableOf(status', order', cancelled') /\ Len(order') <= RetainedLimit => TableInv' BY DEF TableInv, TableOf, Distinct, Listed, RetainedIn, ActiveIn
<1>1. ASSUME NEW j \in Job, StartJob(j) PROVE TableInv'
  <2> DEFINE now == [status EXCEPT ![j] = "queued"]
             ord == Append(order, j)
  <2>1. PruneTo(now, ord, cancelled) /\ status[j] = "none" /\ Cardinality(ActiveIn(status)) < ActiveLimit BY <1>1 DEF StartJob
  <2>2. now \in [Job -> JobStatus] /\ TableOf(now, ord, cancelled) BY <1>t, <1>b, <2>1, AppendedTable
  <2>3. IsFiniteSet(ActiveIn(now)) /\ Cardinality(ActiveIn(now)) <= ActiveLimit
    <3> DEFINE A == ActiveIn(status)
               B == ActiveIn(now)
    <3>1. B \subseteq A \cup {j} BY <1>t DEF ActiveIn, Active
    <3> HIDE DEF A, B
    <3>2. IsFiniteSet(A) /\ Cardinality(A) \in Nat /\ Cardinality(A) < ActiveLimit BY <1>b, <2>1, FS_CardinalityType DEF A
    <3>3. /\ IsFiniteSet(A \cup {j})
          /\ Cardinality(A \cup {j}) = IF j \in A THEN Cardinality(A) ELSE Cardinality(A) + 1
      BY <3>2, FS_AddElement, Zenon
    <3>4. IsFiniteSet(B) /\ Cardinality(B) <= Cardinality(A \cup {j}) /\ Cardinality(B) \in Nat
      BY <3>1, <3>3, FS_Subset, FS_CardinalityType
    <3>5. Cardinality(B) <= ActiveLimit BY <3>2, <3>3, <3>4, LimitIsNat
    <3>q. QED BY <3>4, <3>5 DEF B
  <2> HIDE DEF now, ord
  <2>4. Cardinality(ActiveIn(now)) <= RetainedLimit BY <2>3, RoomForActive
  <2>q. QED BY <2>1, <2>2, <2>3, <2>4, <1>s, PruneSound
<1>2. ASSUME NEW j \in Job, Cancel(j) PROVE TableInv'
  BY <1>2, <1>b DEF Cancel, TableInv, TableOf, ActiveIn, RetainedIn, Distinct, Listed
<1>3. ASSUME NEW j \in Job, RunBegins(j) \/ Returned(j) \/ Threw(j) PROVE TableInv'
  <2>1. PICK s \in Active \cup Terminal : Update(j, s)
    BY <1>3 DEF RunBegins, Returned, Threw, Result, Active, Terminal
  <2>2. status[j] \in Active
    BY <1>3, <1>t DEF RunBegins, Returned, Threw, Stage, Active
  <2> DEFINE now == [status EXCEPT ![j] = s]
             left == IF s \in Terminal THEN cancelled \ {j} ELSE cancelled
  <2>3. PruneTo(now, order, left) BY <2>1, <2>2 DEF Update
  <2>n. now \in [Job -> JobStatus] /\ now[j] = s /\ \A k \in Job : k # j => now[k] = status[k] BY <1>t DEF JobStatus
  <2>l. \A k \in left : k \in cancelled /\ ~ (k = j /\ s \in Terminal) OBVIOUS
  <2> HIDE DEF now, left
  <2>0. TableOf(status, order, cancelled) BY <1>b
  <2>3a. TableOf(now, order, left) BY <1>t, <2>0, <2>2, <2>n, <2>l, UpdatedTable
  <2>3b. ActiveIn(now) \subseteq ActiveIn(status) BY <2>2, <2>n DEF ActiveIn
  <2>4. TableOf(now, order, left) /\ ActiveIn(now) \subseteq ActiveIn(status) BY <2>3a, <2>3b
  <2>5. IsFiniteSet(ActiveIn(now)) /\ Cardinality(ActiveIn(now)) <= ActiveLimit
    <3>1. IsFiniteSet(ActiveIn(now)) /\ Cardinality(ActiveIn(now)) <= Cardinality(ActiveIn(status))
      BY <1>b, <2>4, FS_Subset
    <3>2. Cardinality(ActiveIn(now)) \in Nat /\ Cardinality(ActiveIn(status)) \in Nat BY <1>b, <3>1, FS_CardinalityType
    <3>q. QED BY <1>b, <3>1, <3>2, LimitIsNat
  <2>6. Cardinality(ActiveIn(now)) <= RetainedLimit BY <2>5, RoomForActive
  <2>q. QED BY <2>3, <2>n, <2>4, <2>5, <2>6, <1>s, PruneSound
<1>4. CASE UNCHANGED table
  BY <1>4, <1>b, <1>s DEF table
<1>5. ASSUME NEW j \in Job, CheckCancelled(j) \/ Launch(j) \/ Pump(j) \/ PumpFails(j) \/ ChildExits(j)
      PROVE  UNCHANGED table
  BY <1>5 DEF CheckCancelled, Launch, Pump, PumpFails, Round, ChildExits
<1>6. CASE UNCHANGED jobsVars
  BY <1>6, <1>4 DEF jobsVars, table
<1>q. QED BY <1>1, <1>2, <1>3, <1>4, <1>5, <1>6 DEF JobsNext, WorkerStep

\* A table within its bound loses no job.
LEMMA NobodyEvicted ==
  ASSUME NEW st \in [Job -> JobStatus], NEW ord, NEW can, TableOf(st, ord, can), Len(ord) <= RetainedLimit
  PROVE  Victims(st, ord) = {}
<1> DEFINE F == {k \in DOMAIN ord : st[ord[k]] \in Terminal}
           e == Cardinality(RetainedIn(st)) - RetainedLimit
<1>0. ord \in Seq(Job) /\ Distinct(ord) /\ Listed(ord) = RetainedIn(st) BY DEF TableOf
<1>1. DOMAIN ord = 1 .. Len(ord) /\ Len(ord) \in Nat BY <1>0, LenProperties
<1>2. IsFiniteSet(DOMAIN ord) /\ Cardinality(DOMAIN ord) = Len(ord)
  <2> DEFINE l == Len(ord)
  <2>1. l \in Nat /\ DOMAIN ord = 1 .. l BY <1>1
  <2> HIDE DEF l
  <2>2. IsFiniteSet(1 .. l) /\ Cardinality(1 .. l) = IF 1 > l THEN 0 ELSE l - 1 + 1 BY <2>1, FS_Interval
  <2>q. QED BY <2>1, <2>2 DEF l
<1>3. Cardinality(RetainedIn(st)) = Len(ord)
  <2>1. Listed(ord) = {ord[k] : k \in DOMAIN ord} BY DEF Listed
  <2>2. Cardinality({ord[k] : k \in DOMAIN ord}) = Cardinality(DOMAIN ord) BY <1>0, ListedCount
  <2>q. QED BY <1>0, <1>2, <2>1, <2>2
<1>4. e \in Int /\ e <= 0 BY <1>1, <1>3, ActiveWithinRetained
<1>5. IsFiniteSet(F) /\ F \subseteq Int BY <1>1, <1>2, FS_Subset
<1>6. Evicted(st, ord) = {k \in F : PlaceIn(F, k) <= e} BY DEF Evicted
<1> HIDE DEF F, e
<1>7. Cardinality(F) \in Nat /\ \A k \in F : PlaceIn(F, k) \in 1 .. Cardinality(F) BY <1>5, PlacesCount
<1>8. \A k \in F : ~ (PlaceIn(F, k) <= e) BY <1>4, <1>7
<1>9. Evicted(st, ord) = {} BY <1>6, <1>8
<1>q. QED BY <1>9 DEF Victims

\* No step evicts an active job or changes the result of a finished one.
LEMMA FinishedStay == JobInv /\ TableInv /\ [JobsNext]_jobsVars => FinishedKept
<1> DEFINE kept(k) == /\ status[k] \in Active => status'[k] # "pruned"
                      /\ status[k] \in Terminal => status'[k] \in {status[k], "pruned"}
<1> SUFFICES ASSUME JobInv, TableInv, [JobsNext]_jobsVars, NEW k \in Job PROVE kept(k)
  BY DEF FinishedKept
<1>t. JobTypes /\ Stage /\ status \in [Job -> JobStatus] BY DEF JobInv, JobTypes
<1>b. TableOf(status, order, cancelled) /\ Len(order) <= RetainedLimit BY DEF TableInv
<1>1. ASSUME NEW j \in Job, StartJob(j) PROVE kept(k)
  <2> DEFINE st == [status EXCEPT ![j] = "queued"]
  <2>1. PruneTo(st, Append(order, j), cancelled) /\ status[j] = "none" BY <1>1 DEF StartJob
  <2>2. st \in [Job -> JobStatus] /\ (k # j => st[k] = status[k]) BY <1>t DEF JobStatus, Active
  <2> HIDE DEF st
  <2>3. status'[k] = st[k] \/ (st[k] \in Terminal /\ status'[k] = "pruned") BY <2>1, <2>2, PruneEffect
  <2>q. QED BY <2>1, <2>2, <2>3 DEF Active, Terminal
<1>2. ASSUME NEW j \in Job, RunBegins(j) \/ Returned(j) \/ Threw(j) PROVE kept(k)
  <2>1. PICK s \in Active \cup Terminal : Update(j, s)
    BY <1>2 DEF RunBegins, Returned, Threw, Result, Active, Terminal
  <2>2. status[j] \in Active
    BY <1>2, <1>t DEF RunBegins, Returned, Threw, Stage, Active
  <2> DEFINE now == [status EXCEPT ![j] = s]
             left == IF s \in Terminal THEN cancelled \ {j} ELSE cancelled
  <2>3. PruneTo(now, order, left) BY <2>1, <2>2 DEF Update
  <2>n. now \in [Job -> JobStatus] /\ now[j] = s /\ \A i \in Job : i # j => now[i] = status[i] BY <1>t DEF JobStatus
  <2>l. \A i \in left : i \in cancelled /\ ~ (i = j /\ s \in Terminal) OBVIOUS
  <2> HIDE DEF now, left
  <2>4. TableOf(now, order, left)
    BY <1>t, <1>b, <2>2, <2>n, <2>l, UpdatedTable
  <2>5. Victims(now, order) = {} BY <1>b, <2>n, <2>4, NobodyEvicted
  <2>6. status'[k] = now[k] BY <2>3, <2>5 DEF PruneTo
  <2>q. QED BY <2>2, <2>n, <2>6 DEF Active, Terminal
<1>3. CASE UNCHANGED status
  BY <1>3 DEF Active
<1>4. ASSUME NEW j \in Job, Cancel(j) \/ CheckCancelled(j) \/ Launch(j) \/ Pump(j) \/ PumpFails(j) \/ ChildExits(j)
      PROVE  UNCHANGED status
  BY <1>4 DEF Cancel, CheckCancelled, Launch, Pump, PumpFails, Round, ChildExits, table
<1>5. CASE UNCHANGED jobsVars
  BY <1>5, <1>3 DEF jobsVars
<1> HIDE DEF kept
<1>q. QED BY <1>1, <1>2, <1>3, <1>4, <1>5 DEF JobsNext, WorkerStep

\* The types, and that the table is bounded, in order, and free of left-over
\* cancellations.
LEMMA TableSafe == JobInv /\ TableInv => JobsTypeOK /\ TableBounded
<1> SUFFICES ASSUME JobInv, TableInv PROVE JobsTypeOK /\ TableBounded OBVIOUS
<1>1. /\ order \in Seq(Job) /\ Distinct(order) /\ Listed(order) = RetainedIn(status)
      /\ cancelled \subseteq ActiveIn(status) /\ Len(order) <= RetainedLimit
  BY DEF TableInv, TableOf
<1>2. JobsTypeOK BY <1>1 DEF JobsTypeOK, JobInv, JobTypes
<1>3. Cardinality(RetainedIn(status)) = Len(order)
  <2> DEFINE l == Len(order)
  <2>1. l \in Nat /\ DOMAIN order = 1 .. l BY <1>1, LenProperties
  <2>2. Cardinality({order[k] : k \in DOMAIN order}) = Cardinality(DOMAIN order) BY <1>1, ListedCount
  <2>3. RetainedIn(status) = {order[k] : k \in DOMAIN order} BY <1>1 DEF Listed
  <2> HIDE DEF l
  <2>4. Cardinality(1 .. l) = IF 1 > l THEN 0 ELSE l - 1 + 1 BY <2>1, FS_Interval
  <2>q. QED BY <2>1, <2>2, <2>3, <2>4 DEF l
<1>4. TableBounded BY <1>1, <1>3 DEF TableBounded, Listed
<1>q. QED BY <1>2, <1>4

\* After every step the table is bounded and in order, no cancellation is left
\* over, no child lives outside an active job, and no step evicts an active
\* job or changes the result of a finished one (RestJobRunner.update,
\* pruneLocked), for any number of jobs and any limits.
THEOREM JobTableIsSound == JobsSpec => JobTableSound
<1>1. JobsInit => JobInv /\ ActiveBounded /\ TableInv
  BY JobInvInit, ActiveBoundedInit, TableInvInit
<1> DEFINE Sound == JobsTypeOK /\ TableBounded /\ ChildrenBounded
           All == JobInv /\ ActiveBounded /\ TableInv
<1>2. All /\ [JobsNext]_jobsVars => All'
  BY JobInvNext, ActiveBoundedNext, TableInvNext
<1>3. All => Sound
  BY TableSafe, ChildrenFollow
<1>4. All /\ [JobsNext]_jobsVars => FinishedKept
  BY FinishedStay
<1> HIDE DEF All, Sound
<1>5. JobsSpec => []All
  BY <1>1, <1>2, PTL DEF JobsSpec, All
<1>6. JobsSpec => [][Sound' /\ FinishedKept]_jobsVars
  BY <1>3, <1>4, <1>5, PTL DEF JobsSpec
<1>q. QED BY <1>6 DEF JobTableSound, Sound

-----------------------------------------------------------------------------
(* Event streams.                                                          *)

EsPcs    == {"off", "handshake", "live", "none", "exit"}
EsSubs   == {"none", "on", "dropped", "closed"}
EsCodes  == {NoEs, "ok", "unhealthy", "invalid"}
EsLogs   == Seq(EsTypes)
EsFrames == Seq(Nat)
EsStates == [kind : EsKinds, filter : SUBSET EsTypes, log : EsLogs, from : Nat, pc : EsPcs, sub : EsSubs, calls : SUBSET Nat,
             over : SUBSET (Nat \X Nat), queue : EsFrames, cut : Nat, got : Nat, call : SUBSET Nat, kept : SUBSET Nat,
             out : EsFrames, maimed : SUBSET Nat, split : BOOLEAN, code : EsCodes, stop : BOOLEAN, ticks : Nat,
             last_codes : SUBSET {"VM_NOT_RUNNING"}, said : SUBSET EsVms]

EsIds(log, from, filter) == {i \in 1..Len(log) : i > from /\ log[i] \in filter}
InSeq(x, s) == \E i \in 1..Len(s) : s[i] = x
Swaps(kind, over, x, y) == kind = "ui" /\ <<x, y>> \in over

\* What has been sent, s, and what waits for its emitter, c, of the events X:
\* in order but for swaps, without a gap before what has been sent but for
\* swaps, and all of it while the subscription stands.
Flow(s, c, X, sub, kind, over) ==
  /\ \A i, j \in 1..Len(s) : i < j => s[i] < s[j] \/ Swaps(kind, over, s[j], s[i])
  /\ \A i \in 1..Len(s) : s[i] \in X /\ s[i] \notin c
  /\ c \subseteq X /\ (kind # "ui" => c = {})
  /\ \A x \in X, i \in 1..Len(s) : x < s[i] => InSeq(x, s) \/ Swaps(kind, over, x, s[i])
  /\ \A x \in c : /\ \A i \in 1..Len(s) : x < s[i] => <<x, s[i]>> \in over
                  /\ \A y \in c : x < y => <<x, y>> \in over
  /\ sub = "on" => \A x \in X : InSeq(x, s) \/ x \in c

\* The line of events subscribe while no timeout has fallen into a character.
Gathered(got, call, kept) == kept \cup call = 1..got /\ kept \cap call = {} /\ ~EsSplit(kept)

EsGood(e) ==
  /\ e \in EsStates /\ e.from <= Len(e.log)
  /\ e.kind # "watch" =>
       /\ Flow(e.out \o e.queue, e.calls, EsIds(e.log, e.from, e.filter), e.sub, e.kind, e.over)
       /\ e.pc \in {"off", "handshake"} => e.sub = "none"
       /\ e.sub = "none" => e.out = << >> /\ e.queue = << >> /\ e.calls = {}
       /\ ~e.split => e.code # "invalid" /\ e.maimed = {}
       /\ e.kind = "subscribe" /\ ~e.split => Gathered(e.got, e.call, e.kept)

LEMMA EsTyped ==
  ASSUME NEW e \in EsStates
  PROVE  /\ e.log \in EsLogs /\ e.from \in Nat /\ e.queue \in EsFrames /\ e.out \in EsFrames /\ e.calls \in SUBSET Nat
         /\ e.over \in SUBSET (Nat \X Nat) /\ e.got \in Nat /\ e.call \in SUBSET Nat /\ e.kept \in SUBSET Nat
         /\ e.sub \in EsSubs /\ e.kind \in EsKinds /\ e.pc \in EsPcs /\ e.filter \in SUBSET EsTypes /\ e.split \in BOOLEAN
         /\ Len(e.log) \in Nat /\ Len(e.queue) \in Nat /\ Len(e.out) \in Nat
<1>1. /\ e.log \in EsLogs /\ e.from \in Nat /\ e.queue \in EsFrames /\ e.out \in EsFrames /\ e.calls \in SUBSET Nat
      /\ e.over \in SUBSET (Nat \X Nat) /\ e.got \in Nat /\ e.call \in SUBSET Nat /\ e.kept \in SUBSET Nat
      /\ e.sub \in EsSubs /\ e.kind \in EsKinds /\ e.pc \in EsPcs /\ e.filter \in SUBSET EsTypes /\ e.split \in BOOLEAN
  BY DEF EsStates
<1> QED BY <1>1 DEF EsLogs, EsFrames

LEMMA NothingSent ==
  ASSUME NEW X, NEW sub, NEW kind, NEW over, sub # "on" \/ X = {}
  PROVE  Flow(<< >>, {}, X, sub, kind, over)
BY DEF Flow

LEMMA NothingYet ==
  ASSUME NEW log \in EsLogs, NEW filter PROVE EsIds(log, Len(log), filter) = {}
<1>1. Len(log) \in Nat
  BY DEF EsLogs
<1> QED BY <1>1 DEF EsIds

LEMMA EsInitGood == EsInit => EsGood(es)
<1> SUFFICES ASSUME EsInit PROVE EsGood(es)
  OBVIOUS
<1>1. PICK kind \in EsKinds, filter \in SUBSET EsTypes :
        es = [kind |-> kind, filter |-> filter, log |-> << >>, from |-> 0, pc |-> "off", sub |-> "none", calls |-> {}, over |-> {},
              queue |-> << >>, cut |-> EsPieces, got |-> 0, call |-> {}, kept |-> {}, out |-> << >>, maimed |-> {}, split |-> FALSE,
              code |-> NoEs, stop |-> FALSE, ticks |-> 0, last_codes |-> {}, said |-> {}]
  BY DEF EsInit
<1>2. << >> \in EsLogs /\ << >> \in EsFrames /\ "off" \in EsPcs /\ "none" \in EsSubs /\ NoEs \in EsCodes /\ EsPieces \in Nat
  BY DEF EsLogs, EsFrames, EsPcs, EsSubs, EsCodes, EsPieces
<1>3. es \in EsStates
  BY <1>1, <1>2 DEF EsStates
<1>4. /\ es.from = 0 /\ es.log = << >> /\ es.pc = "off" /\ es.sub = "none" /\ es.out = << >> /\ es.queue = << >> /\ es.calls = {}
      /\ es.code = NoEs /\ es.maimed = {} /\ es.got = 0 /\ es.call = {} /\ es.kept = {}
  BY <1>1
<1>5. << >> \o << >> = << >>
  OBVIOUS
<1>6. Flow(es.out \o es.queue, es.calls, EsIds(es.log, es.from, es.filter), es.sub, es.kind, es.over)
  BY <1>4, <1>5, NothingSent
<1>7. Gathered(0, {}, {})
  BY DEF Gathered, EsSplit
<1> QED BY <1>3, <1>4, <1>6, <1>7, EventStreamsAssumption DEF EsGood

\* A new event is later than all the others.
LEMMA LaterIds ==
  ASSUME NEW log \in EsLogs, NEW from \in Nat, from <= Len(log), NEW filter, NEW type \in EsTypes
  PROVE  /\ EsIds(Append(log, type), from, filter) = EsIds(log, from, filter) \cup {n \in {Len(log) + 1} : type \in filter}
         /\ \A x \in EsIds(log, from, filter) : x \in Nat /\ x < Len(log) + 1
         /\ Append(log, type) \in EsLogs /\ Len(Append(log, type)) = Len(log) + 1 /\ Len(log) + 1 \in Nat
<1>1. Len(log) \in Nat
  BY DEF EsLogs
<1>2. /\ Append(log, type) \in EsLogs /\ Len(Append(log, type)) = Len(log) + 1
      /\ Append(log, type)[Len(log) + 1] = type /\ \A i \in 1..Len(log) : Append(log, type)[i] = log[i]
  BY <1>1 DEF EsLogs
<1>3. 1..(Len(log) + 1) = (1..Len(log)) \cup {Len(log) + 1}
  BY <1>1
<1>4. Len(log) + 1 > from
  BY <1>1
<1>5. \A x \in EsIds(log, from, filter) : x \in Nat /\ x < Len(log) + 1
  BY <1>1 DEF EsIds
<1> DEFINE new == Append(log, type)
           n == Len(log) + 1
<1>6. new[n] = type /\ Len(new) = n /\ 1..n = (1..Len(log)) \cup {n} /\ n > from /\ \A i \in 1..Len(log) : new[i] = log[i]
  BY <1>2, <1>3, <1>4
<1> HIDE DEF new, n
<1>7. EsIds(new, from, filter) = EsIds(log, from, filter) \cup {m \in {n} : type \in filter}
  BY <1>6 DEF EsIds
<1> QED BY <1>1, <1>2, <1>5, <1>7 DEF new, n

LEMMA AppendedIn ==
  ASSUME NEW s \in EsFrames, NEW n \in Nat
  PROVE  /\ Append(s, n) \in EsFrames /\ Len(s) \in Nat /\ Len(Append(s, n)) = Len(s) + 1 /\ Append(s, n)[Len(s) + 1] = n
         /\ 1..Len(Append(s, n)) = (1..Len(s)) \cup {Len(s) + 1} /\ \A i \in 1..Len(s) : Append(s, n)[i] = s[i] /\ s[i] \in Nat
         /\ \A x : InSeq(x, Append(s, n)) <=> InSeq(x, s) \/ x = n
<1>1. /\ Append(s, n) \in EsFrames /\ Len(s) \in Nat /\ Len(Append(s, n)) = Len(s) + 1 /\ Append(s, n)[Len(s) + 1] = n
      /\ \A i \in 1..Len(s) : Append(s, n)[i] = s[i] /\ s[i] \in Nat
  BY DEF EsFrames
<1>2. 1..Len(Append(s, n)) = (1..Len(s)) \cup {Len(s) + 1}
  BY <1>1
<1> DEFINE t == Append(s, n)
<1>3. t[Len(s) + 1] = n /\ 1..Len(t) = (1..Len(s)) \cup {Len(s) + 1} /\ \A i \in 1..Len(s) : t[i] = s[i]
  BY <1>1, <1>2
<1> HIDE DEF t
<1>4. \A x : InSeq(x, t) <=> InSeq(x, s) \/ x = n
  BY <1>3 DEF InSeq
<1> QED BY <1>1, <1>2, <1>4 DEF t

\* An event nobody is sent.
LEMMA EmitsToNobody ==
  ASSUME NEW s \in EsFrames, NEW c, NEW X, NEW sub, NEW kind, NEW over, NEW n \in Nat,
         \A x \in X : x \in Nat /\ x < n, Flow(s, c, X, sub, kind, over), sub # "on"
  PROVE  Flow(s, c, X \cup {n}, sub, kind, over)
<1>1. Len(s) \in Nat /\ \A i \in 1..Len(s) : s[i] \in Nat /\ s[i] < n
  BY DEF Flow, EsFrames
<1> QED BY <1>1 DEF Flow

\* One that waits for its emitter, over which it is emitted later.
LEMMA EmitsToUi ==
  ASSUME NEW s \in EsFrames, NEW c, NEW X, NEW sub, NEW over, NEW n \in Nat,
         \A x \in X : x \in Nat /\ x < n, Flow(s, c, X, sub, "ui", over)
  PROVE  Flow(s, c \cup {n}, X \cup {n}, sub, "ui", over \cup {<<x, n>> : x \in c})
<1> DEFINE over2 == over \cup {<<x, n>> : x \in c}
<1>1. Len(s) \in Nat /\ \A i \in 1..Len(s) : s[i] \in X /\ s[i] \in Nat /\ s[i] < n /\ s[i] # n
  BY DEF Flow, EsFrames
<1>2. \A p \in over : p \in over2
  OBVIOUS
<1>3. \A x \in c : <<x, n>> \in over2 /\ x \in Nat /\ x < n
  BY DEF Flow
<1> HIDE DEF over2
<1>4. \A x, y : Swaps("ui", over, x, y) => Swaps("ui", over2, x, y)
  BY <1>2 DEF Swaps
<1>5. \A x \in c \cup {n} : /\ \A i \in 1..Len(s) : x < s[i] => <<x, s[i]>> \in over2
                            /\ \A y \in c \cup {n} : x < y => <<x, y>> \in over2
  BY <1>1, <1>2, <1>3 DEF Flow
<1>6. \A i, j \in 1..Len(s) : i < j => s[i] < s[j] \/ Swaps("ui", over2, s[j], s[i])
  BY <1>4 DEF Flow
<1>7. \A i \in 1..Len(s) : s[i] \in X \cup {n} /\ s[i] \notin c \cup {n}
  BY <1>1 DEF Flow
<1>8. \A x \in X \cup {n}, i \in 1..Len(s) : x < s[i] => InSeq(x, s) \/ Swaps("ui", over2, x, s[i])
  <2> SUFFICES ASSUME NEW x \in X \cup {n}, NEW i \in 1..Len(s), x < s[i] PROVE InSeq(x, s) \/ Swaps("ui", over2, x, s[i])
    OBVIOUS
  <2>1. x \in X
    BY <1>1
  <2> QED BY <1>4, <2>1 DEF Flow
<1>9. (c \cup {n}) \subseteq X \cup {n}
  BY DEF Flow
<1>10. sub = "on" => \A x \in X \cup {n} : InSeq(x, s) \/ x \in c \cup {n}
  BY DEF Flow
<1>11. Flow(s, c \cup {n}, X \cup {n}, sub, "ui", over2)
  BY <1>5, <1>6, <1>7, <1>8, <1>9, <1>10 DEF Flow
<1> QED BY <1>11 DEF over2

\* One that is sent, wholly or in part, even if it is the last.
LEMMA EmitsFrame ==
  ASSUME NEW s \in EsFrames, NEW X, NEW sub, NEW kind, NEW over, NEW n \in Nat,
         \A x \in X : x \in Nat /\ x < n, Flow(s, {}, X, "on", kind, over)
  PROVE  Flow(Append(s, n), {}, X \cup {n}, sub, kind, over)
<1> DEFINE t == Append(s, n)
<1>1. /\ Len(s) \in Nat /\ 1..Len(t) = (1..Len(s)) \cup {Len(s) + 1} /\ t[Len(s) + 1] = n
      /\ \A i \in 1..Len(s) : t[i] = s[i] /\ s[i] \in Nat
      /\ \A x : InSeq(x, t) <=> InSeq(x, s) \/ x = n
  BY AppendedIn
<1> HIDE DEF t
<1>2. \A i \in 1..Len(s) : s[i] \in X /\ s[i] < n
  BY DEF Flow
<1>3. \A i, j \in 1..Len(t) : i < j => t[i] < t[j] \/ Swaps(kind, over, t[j], t[i])
  <2> SUFFICES ASSUME NEW i \in 1..Len(t), NEW j \in 1..Len(t), i < j PROVE t[i] < t[j] \/ Swaps(kind, over, t[j], t[i])
    OBVIOUS
  <2>1. i \in 1..Len(s)
    BY <1>1
  <2>2. CASE j \in 1..Len(s)
    BY <1>1, <2>1, <2>2 DEF Flow
  <2>3. CASE j = Len(s) + 1
    BY <1>1, <1>2, <2>1, <2>3
  <2> QED BY <1>1, <2>2, <2>3
<1>4. \A i \in 1..Len(t) : t[i] \in X \cup {n}
  BY <1>1, <1>2
<1>5. \A x \in X \cup {n} : InSeq(x, t)
  BY <1>1 DEF Flow
<1> QED BY <1>3, <1>4, <1>5 DEF Flow, t

\* The emitter comes to the handler.
LEMMA CallsHandler ==
  ASSUME NEW s \in EsFrames, NEW c, NEW X, NEW over, NEW z \in c, \A x \in X : x \in Nat, Flow(s, c, X, "on", "ui", over)
  PROVE  Flow(Append(s, z), c \ {z}, X, "on", "ui", over)
<1> DEFINE t == Append(s, z)
<1>1. z \in X /\ z \in Nat /\ c \subseteq X
  BY DEF Flow
<1>2. /\ Len(s) \in Nat /\ 1..Len(t) = (1..Len(s)) \cup {Len(s) + 1} /\ t[Len(s) + 1] = z
      /\ \A i \in 1..Len(s) : t[i] = s[i] /\ s[i] \in Nat
      /\ \A x : InSeq(x, t) <=> InSeq(x, s) \/ x = z
  BY <1>1, AppendedIn
<1> HIDE DEF t
<1>3. \A i \in 1..Len(s) : s[i] \in X /\ s[i] \notin c /\ (z < s[i] => <<z, s[i]>> \in over)
  BY DEF Flow
<1>4. \A i, j \in 1..Len(t) : i < j => t[i] < t[j] \/ Swaps("ui", over, t[j], t[i])
  <2> SUFFICES ASSUME NEW i \in 1..Len(t), NEW j \in 1..Len(t), i < j PROVE t[i] < t[j] \/ Swaps("ui", over, t[j], t[i])
    OBVIOUS
  <2>1. i \in 1..Len(s)
    BY <1>2
  <2>2. CASE j \in 1..Len(s)
    BY <1>2, <2>1, <2>2 DEF Flow
  <2>3. CASE j = Len(s) + 1
    <3>1. t[i] = s[i] /\ t[j] = z /\ s[i] # z /\ s[i] \in Nat
      BY <1>2, <1>3, <2>1, <2>3
    <3>2. s[i] < z \/ <<z, s[i]>> \in over
      BY <1>1, <1>3, <2>1, <3>1
    <3> QED BY <3>1, <3>2 DEF Swaps
  <2> QED BY <1>2, <2>2, <2>3
<1>5. \A i \in 1..Len(t) : t[i] \in X /\ t[i] \notin c \ {z}
  BY <1>1, <1>2, <1>3
<1>6. \A x \in X : InSeq(x, t) \/ x \in c \ {z}
  BY <1>2 DEF Flow
<1>7. \A x \in c \ {z} : /\ \A i \in 1..Len(t) : x < t[i] => <<x, t[i]>> \in over
                         /\ \A y \in c \ {z} : x < y => <<x, y>> \in over
  <2>1. \A x \in c : /\ \A i \in 1..Len(s) : x < s[i] => <<x, s[i]>> \in over
                     /\ \A y \in c : x < y => <<x, y>> \in over
    BY DEF Flow
  <2> QED BY <1>2, <2>1
<1>8. \A x \in X, i \in 1..Len(t) : x < t[i] => InSeq(x, t) \/ Swaps("ui", over, x, t[i])
  BY <1>6, <1>7 DEF Swaps
<1> QED BY <1>1, <1>4, <1>5, <1>6, <1>7, <1>8 DEF Flow, t

\* The end of the subscription.
LEMMA Ends ==
  ASSUME NEW s, NEW c, NEW X, NEW sub, NEW kind, NEW over, NEW end, end # "on", Flow(s, c, X, sub, kind, over)
  PROVE  Flow(s, {}, X, end, kind, over)
BY DEF Flow

LEMMA Joined ==
  ASSUME NEW o \in EsFrames, NEW q \in EsFrames
  PROVE  /\ o \o q \in EsFrames /\ Len(o \o q) = Len(o) + Len(q) /\ Len(o) \in Nat /\ Len(q) \in Nat
         /\ \A i \in 1..Len(o) + Len(q) : (o \o q)[i] = IF i <= Len(o) THEN o[i] ELSE q[i - Len(o)]
<1>1. o \in Seq(Nat) /\ q \in Seq(Nat)
  BY DEF EsFrames
<1> QED BY <1>1, ConcatProperties DEF EsFrames

LEMMA FirstFrameOut ==
  ASSUME NEW o \in EsFrames, NEW q \in EsFrames, q # << >>
  PROVE  Append(o, Head(q)) \o Tail(q) = o \o q /\ Append(o, Head(q)) \in EsFrames /\ Tail(q) \in EsFrames /\ o \o q \in EsFrames
<1>1. /\ Len(o) \in Nat /\ Len(q) \in Nat /\ Len(q) > 0 /\ Head(q) = q[1] /\ q[1] \in Nat /\ Tail(q) \in EsFrames
      /\ Append(o, Head(q)) \in EsFrames /\ o \o q \in EsFrames
  BY DEF EsFrames
<1> DEFINE l == Append(o, Head(q))
           r == Tail(q)
<1>2. /\ Len(l) = Len(o) + 1 /\ l[Len(o) + 1] = q[1] /\ (\A i \in 1..Len(o) : l[i] = o[i])
      /\ Len(r) = Len(q) - 1 /\ (\A i \in 1..Len(r) : r[i] = q[i + 1])
  BY <1>1 DEF EsFrames
<1>3. l \in EsFrames /\ r \in EsFrames
  BY <1>1
<1> HIDE DEF l, r
<1>4. /\ l \o r \in EsFrames /\ Len(l \o r) = Len(l) + Len(r)
      /\ \A i \in 1..Len(l) + Len(r) : (l \o r)[i] = IF i <= Len(l) THEN l[i] ELSE r[i - Len(l)]
  BY <1>3, Joined
<1>5. /\ o \o q \in EsFrames /\ Len(o \o q) = Len(o) + Len(q)
      /\ \A i \in 1..Len(o) + Len(q) : (o \o q)[i] = IF i <= Len(o) THEN o[i] ELSE q[i - Len(o)]
  BY <1>3, Joined
<1>6. Len(l \o r) = Len(o \o q)
  BY <1>1, <1>2, <1>4, <1>5
<1>7. ASSUME NEW i \in 1..Len(l \o r) PROVE (l \o r)[i] = (o \o q)[i]
  <2>1. i \in Nat /\ i >= 1 /\ i \in 1..Len(l) + Len(r) /\ i \in 1..Len(o) + Len(q)
    BY <1>1, <1>4, <1>5, <1>6
  <2>2. (l \o r)[i] = IF i <= Len(l) THEN l[i] ELSE r[i - Len(l)]
    BY <1>4, <2>1
  <2>3. (o \o q)[i] = IF i <= Len(o) THEN o[i] ELSE q[i - Len(o)]
    BY <1>5, <2>1
  <2>4. CASE i <= Len(o)
    BY <1>1, <1>2, <2>1, <2>2, <2>3, <2>4
  <2>5. CASE i = Len(o) + 1
    BY <1>1, <1>2, <2>2, <2>3, <2>5
  <2>6. CASE i > Len(o) + 1
    <3>1. i - Len(l) \in 1..Len(r) /\ i - Len(l) + 1 = i - Len(o)
      BY <1>1, <1>2, <2>1, <2>6
    <3>2. ~(i <= Len(l)) /\ ~(i <= Len(o))
      BY <1>1, <1>2, <2>1, <2>6
    <3> QED BY <1>2, <2>2, <2>3, <3>1, <3>2
  <2> QED BY <1>1, <2>1, <2>4, <2>5, <2>6
<1>8. l \o r = o \o q
  BY <1>4, <1>5, <1>6, <1>7, SeqEqual DEF EsFrames
<1> QED BY <1>1, <1>8 DEF l, r

LEMMA FrameIn ==
  ASSUME NEW o \in EsFrames, NEW q \in EsFrames, NEW n \in Nat
  PROVE  o \o Append(q, n) = Append(o \o q, n) /\ Append(q, n) \in EsFrames /\ o \o q \in EsFrames
BY DEF EsFrames

LEMMA EsMeans == EsGood(es) => NoEventLost
<1> SUFFICES ASSUME EsGood(es), es.kind # "watch" PROVE NoEventLost
  BY DEF NoEventLost
<1> DEFINE o == es.out
           q == es.queue
           s == o \o q
           X == EsIds(es.log, es.from, es.filter)
<1>1. X = EsExpected
  BY DEF EsIds, EsExpected
<1>2. o \in EsFrames /\ q \in EsFrames
  BY EsTyped DEF EsGood
<1>3. Flow(s, es.calls, X, es.sub, es.kind, es.over) /\ (~es.split => es.code # "invalid" /\ es.maimed = {})
  BY DEF EsGood
<1>4. /\ Len(o) \in Nat /\ Len(q) \in Nat /\ Len(s) = Len(o) + Len(q) /\ DOMAIN o = 1..Len(o) /\ DOMAIN q = 1..Len(q)
      /\ (\A i \in 1..Len(o) : s[i] = o[i]) /\ \A i \in 1..Len(q) : s[Len(o) + i] = q[i]
  <2>1. o \in Seq(Nat) /\ q \in Seq(Nat)
    BY <1>2 DEF EsFrames
  <2>2. /\ Len(s) = Len(o) + Len(q) /\ Len(o) \in Nat /\ Len(q) \in Nat
        /\ \A i \in 1..Len(o) + Len(q) : s[i] = IF i <= Len(o) THEN o[i] ELSE q[i - Len(o)]
    BY <1>2, Joined
  <2>3. DOMAIN o = 1..Len(o) /\ DOMAIN q = 1..Len(q)
    BY <2>1
  <2> HIDE DEF s, o, q
  <2>4. \A i \in 1..Len(o) : s[i] = o[i]
    BY <2>2
  <2>5. ASSUME NEW i \in 1..Len(q) PROVE s[Len(o) + i] = q[i]
    <3>1. Len(o) + i \in 1..Len(o) + Len(q) /\ ~(Len(o) + i <= Len(o)) /\ Len(o) + i - Len(o) = i
      BY <2>2
    <3> QED BY <2>2, <3>1
  <2> QED BY <2>2, <2>3, <2>4, <2>5
<1> HIDE DEF s, o, q
<1>5. \A i \in 1..Len(o) : i \in 1..Len(s) /\ s[i] = o[i]
  BY <1>4
<1>6. \A i \in 1..Len(q) : Len(o) + i \in 1..Len(s) /\ s[Len(o) + i] = q[i]
  BY <1>4
<1>7. \A x : InSeq(x, s) => x \in Range(o) \/ \E i \in 1..Len(q) : q[i] = x /\ x \in Range(q)
  <2> SUFFICES ASSUME NEW i \in 1..Len(s), s[i] \notin Range(o) PROVE \E k \in 1..Len(q) : q[k] = s[i] /\ s[i] \in Range(q)
    BY DEF InSeq
  <2>1. i \notin 1..Len(o)
    BY <1>4 DEF Range
  <2>2. i - Len(o) \in 1..Len(q) /\ s[Len(o) + (i - Len(o))] = q[i - Len(o)] /\ Len(o) + (i - Len(o)) = i
    BY <1>4, <2>1
  <2> QED BY <1>4, <2>2 DEF Range
<1>8. \A x, y : Swaps(es.kind, es.over, x, y) <=> EsSwapped(x, y)
  BY DEF Swaps, EsSwapped
<1> HIDE DEF X
<1>9. \A i, j \in DOMAIN o : i < j => o[i] < o[j] \/ EsSwapped(o[j], o[i])
  BY <1>3, <1>4, <1>5, <1>8 DEF Flow
<1>10. Range(o) \subseteq X
  BY <1>3, <1>4, <1>5 DEF Flow, Range
<1>11. ASSUME NEW x \in X, NEW y \in Range(o), x < y PROVE x \in Range(o) \/ EsSwapped(x, y)
  <2>1. PICK i \in 1..Len(o) : o[i] = y
    BY <1>4 DEF Range
  <2>2. InSeq(x, s) \/ EsSwapped(x, y)
    BY <1>3, <1>5, <1>8, <1>11, <2>1 DEF Flow
  <2>3. ASSUME NEW k \in 1..Len(q), q[k] = x PROVE EsSwapped(x, y)
    <3>1. i < Len(o) + k /\ s[i] = y /\ s[Len(o) + k] = x /\ i \in 1..Len(s) /\ Len(o) + k \in 1..Len(s)
      BY <1>4, <1>5, <1>6, <2>1, <2>3
    <3>2. y < x \/ EsSwapped(x, y)
      BY <1>3, <1>8, <3>1 DEF Flow
    <3>3. x \in Nat /\ y \in Nat
      BY <1>2, <2>1, <2>3 DEF EsFrames
    <3> QED BY <1>11, <3>2, <3>3
  <2> QED BY <1>7, <2>2, <2>3
<1>12. es.sub = "on" => X \subseteq Range(o) \cup Range(q) \cup es.calls
  BY <1>3, <1>7 DEF Flow
<1> QED BY <1>1, <1>3, <1>9, <1>10, <1>11, <1>12 DEF NoEventLost, o, q

\* What a step of the control plane or of the transport leaves alone.
LEMMA Reader ==
  ASSUME EsGood(es), NEW e \in EsStates, e.kind = es.kind, e.from <= Len(e.log),
         e.split = es.split, e.code = es.code, e.maimed = es.maimed, e.got = es.got, e.call = es.call, e.kept = es.kept,
         e.kind # "watch" =>
           /\ Flow(e.out \o e.queue, e.calls, EsIds(e.log, e.from, e.filter), e.sub, e.kind, e.over)
           /\ e.pc \in {"off", "handshake"} => e.sub = "none"
           /\ e.sub = "none" => e.out = << >> /\ e.queue = << >> /\ e.calls = {}
  PROVE  EsGood(e)
BY DEF EsGood

\* What a step of the reader leaves alone that passes no frame.
LEMMA Control ==
  ASSUME EsGood(es), NEW e \in EsStates, e.kind = es.kind, e.from = es.from, e.log = es.log, e.filter = es.filter,
         e.out = es.out, e.queue = es.queue, e.calls = es.calls, e.sub = es.sub, e.over = es.over,
         e.kind # "watch" /\ e.pc \in {"off", "handshake"} => e.sub = "none",
         e.kind # "watch" /\ ~e.split => e.code # "invalid" /\ e.maimed = {},
         e.kind = "subscribe" /\ ~e.split => Gathered(e.got, e.call, e.kept)
  PROVE  EsGood(e)
BY DEF EsGood

LEMMA SubscribeStep ==
  ASSUME EsGood(es), subscribe PROVE EsGood(es')
<1>1. es \in EsStates /\ es.pc = "handshake" /\ es' = [es EXCEPT !.pc = "live", !.sub = "on", !.from = Len(es.log)]
  BY DEF EsGood, subscribe
<1>2. "live" \in EsPcs /\ "on" \in EsSubs /\ Len(es.log) \in Nat /\ es.log \in EsLogs
  BY <1>1, EsTyped DEF EsPcs, EsSubs
<1>3. es' \in EsStates
  BY <1>1, <1>2 DEF EsStates
<1>4. /\ es'.kind = es.kind /\ es'.filter = es.filter /\ es'.log = es.log /\ es'.from = Len(es.log) /\ es'.pc = "live" /\ es'.sub = "on"
      /\ es'.calls = es.calls /\ es'.queue = es.queue /\ es'.out = es.out /\ es'.split = es.split /\ es'.code = es.code
      /\ es'.maimed = es.maimed /\ es'.got = es.got /\ es'.call = es.call /\ es'.kept = es.kept
  BY <1>1 DEF EsStates
<1>5. ASSUME es.kind # "watch"
      PROVE  Flow(es'.out \o es'.queue, es'.calls, EsIds(es'.log, es'.from, es'.filter), es'.sub, es'.kind, es'.over)
  <2>1. es.out = << >> /\ es.queue = << >> /\ es.calls = {}
    BY <1>1, <1>5 DEF EsGood
  <2>2. EsIds(es'.log, es'.from, es'.filter) = {}
    BY <1>2, <1>4, NothingYet
  <2>3. << >> \o << >> = << >>
    OBVIOUS
  <2> QED BY <1>4, <2>1, <2>2, <2>3, NothingSent
<1>6. es'.from <= Len(es'.log)
  BY <1>2, <1>4
<1>7. es'.pc \notin {"off", "handshake"} /\ es'.sub # "none"
  BY <1>4
<1> QED BY <1>3, <1>4, <1>5, <1>6, <1>7, Reader

LEMMA StreamStep ==
  ASSUME EsGood(es), streamEvents PROVE EsGood(es')
<1>1. CASE es.kind = "ui" /\ es.pc = "handshake" /\ es' = [es EXCEPT !.pc = "live"]
  <2>1. es \in EsStates /\ "live" \in EsPcs
    BY DEF EsGood, EsPcs
  <2>2. es' \in EsStates
    BY <1>1, <2>1 DEF EsStates
  <2>3. /\ es'.kind = es.kind /\ es'.filter = es.filter /\ es'.log = es.log /\ es'.from = es.from /\ es'.pc = "live" /\ es'.sub = es.sub
        /\ es'.calls = es.calls /\ es'.queue = es.queue /\ es'.out = es.out /\ es'.over = es.over /\ es'.split = es.split /\ es'.code = es.code
        /\ es'.maimed = es.maimed /\ es'.got = es.got /\ es'.call = es.call /\ es'.kept = es.kept
    BY <1>1, <2>1 DEF EsStates
  <2>4. es'.kind # "subscribe" /\ (~es'.split => es'.code # "invalid" /\ es'.maimed = {})
    BY <1>1, <2>3 DEF EsGood
  <2> QED BY <2>2, <2>3, <2>4, Control
<1>2. CASE es.kind = "ui" /\ es.pc = "live" /\ es.sub = "none" /\ es' = [es EXCEPT !.sub = "on", !.from = Len(es.log)]
  <2>1. es \in EsStates /\ "on" \in EsSubs /\ Len(es.log) \in Nat /\ es.log \in EsLogs
    BY EsTyped DEF EsGood, EsSubs
  <2>2. es' \in EsStates
    BY <1>2, <2>1 DEF EsStates
  <2>3. /\ es'.kind = es.kind /\ es'.filter = es.filter /\ es'.log = es.log /\ es'.from = Len(es.log) /\ es'.pc = "live" /\ es'.sub = "on"
        /\ es'.calls = es.calls /\ es'.queue = es.queue /\ es'.out = es.out /\ es'.split = es.split /\ es'.code = es.code
        /\ es'.maimed = es.maimed /\ es'.got = es.got /\ es'.call = es.call /\ es'.kept = es.kept
    BY <1>2, <2>1 DEF EsStates
  <2>4. es.out = << >> /\ es.queue = << >> /\ es.calls = {}
    BY <1>2 DEF EsGood
  <2>5. EsIds(es'.log, es'.from, es'.filter) = {}
    BY <2>1, <2>3, NothingYet
  <2>6. << >> \o << >> = << >>
    OBVIOUS
  <2>7. Flow(es'.out \o es'.queue, es'.calls, EsIds(es'.log, es'.from, es'.filter), es'.sub, es'.kind, es'.over)
    BY <2>3, <2>4, <2>5, <2>6, NothingSent
  <2>8. es'.from <= Len(es'.log)
    BY <2>1, <2>3
  <2>9. es'.pc \notin {"off", "handshake"} /\ es'.sub # "none"
    BY <2>3
  <2> QED BY <2>2, <2>3, <2>7, <2>8, <2>9, Reader
<1> QED BY <1>1, <1>2 DEF streamEvents

\* How a new event changes the state, but for its delivery.
LEMMA EmitKeeps ==
  ASSUME EsGood(es), NEW type \in EsTypes, NEW e \in EsStates, e.kind = es.kind, e.filter = es.filter, e.from = es.from, e.pc = es.pc,
         e.log = Append(es.log, type),
         e.split = es.split, e.code = es.code, e.maimed = es.maimed, e.got = es.got, e.call = es.call, e.kept = es.kept,
         e.sub = es.sub \/ (es.sub = "on" /\ e.sub # "none"), e.sub = "none" => e.out = es.out /\ e.queue = es.queue /\ e.calls = es.calls,
         e.kind # "watch" =>
           Flow(e.out \o e.queue, e.calls, EsIds(es.log, es.from, es.filter) \cup {n \in {EsNewest} : type \in es.filter}, e.sub, e.kind, e.over)
  PROVE  EsGood(e)
<1>1. es \in EsStates /\ es.from <= Len(es.log)
  BY DEF EsGood
<1>2. es.log \in EsLogs /\ es.from \in Nat /\ Len(es.log) \in Nat
  BY <1>1, EsTyped
<1>3. /\ EsIds(e.log, e.from, e.filter) = EsIds(es.log, es.from, es.filter) \cup {n \in {EsNewest} : type \in es.filter}
      /\ Len(e.log) = Len(es.log) + 1
  BY <1>1, <1>2, LaterIds DEF EsNewest
<1>4. e.from <= Len(e.log)
  BY <1>1, <1>2, <1>3
<1>5. e.kind # "watch" /\ e.pc \in {"off", "handshake"} => e.sub = "none"
  BY DEF EsGood
<1>6. e.kind # "watch" /\ e.sub = "none" => e.out = << >> /\ e.queue = << >> /\ e.calls = {}
  BY DEF EsGood
<1> QED BY <1>3, <1>4, <1>5, <1>6, Reader

LEMMA EmitStep ==
  ASSUME EsGood(es), emit PROVE EsGood(es')
<1> DEFINE X == EsIds(es.log, es.from, es.filter)
           s == es.out \o es.queue
           n == EsNewest
<1>1. es \in EsStates /\ es.from <= Len(es.log)
  BY DEF EsGood
<1>2. PICK type \in EsTypes :
        \/ ~EsServed(type) /\ es' = [es EXCEPT !.log = Append(@, type)]
        \/ /\ EsServed(type) /\ es.kind = "ui"
           /\ es' = [es EXCEPT !.log = Append(@, type), !.calls = @ \cup {EsNewest}, !.over = @ \cup {<<x, EsNewest>> : x \in es.calls}]
        \/ EsServed(type) /\ es.kind # "ui" /\ es' = [es EXCEPT !.log = Append(@, type), !.queue = Append(@, EsNewest)]
        \/ /\ EsServed(type) /\ es.kind \in {"subscribe", "watch"}
           /\ \/ es' = [es EXCEPT !.log = Append(@, type), !.sub = "dropped"]
              \/ \E k \in 1 .. EsPieces - 1 :
                   es' = [es EXCEPT !.log = Append(@, type), !.sub = "dropped", !.queue = Append(@, EsNewest), !.cut = k]
  BY DEF emit
<1>3. /\ es.log \in EsLogs /\ es.from \in Nat /\ es.queue \in EsFrames /\ es.out \in EsFrames /\ es.calls \in SUBSET Nat
      /\ es.over \in SUBSET (Nat \X Nat)
  BY <1>1, EsTyped
<1>4. Append(es.log, type) \in EsLogs /\ n \in Nat /\ \A x \in X : x \in Nat /\ x < n
  BY <1>1, <1>3, LaterIds DEF EsNewest
<1>5. Append(es.queue, n) \in EsFrames /\ es.out \o Append(es.queue, n) = Append(s, n) /\ s \in EsFrames
  BY <1>3, <1>4, FrameIn
<1>6. "dropped" \in EsSubs /\ 1 .. EsPieces - 1 \subseteq Nat
  BY DEF EsSubs, EsPieces
<1>7. es.kind # "watch" => Flow(s, es.calls, X, es.sub, es.kind, es.over) /\ (EsServed(type) <=> es.sub = "on" /\ type \in es.filter)
  BY DEF EsGood, EsServed
<1> HIDE DEF X, s, n
<1>8. CASE ~EsServed(type) /\ es' = [es EXCEPT !.log = Append(@, type)]
  <2>1. es' \in EsStates
    BY <1>1, <1>4, <1>8 DEF EsStates
  <2>2. /\ es'.kind = es.kind /\ es'.filter = es.filter /\ es'.from = es.from /\ es'.pc = es.pc /\ es'.log = Append(es.log, type)
        /\ es'.sub = es.sub /\ es'.calls = es.calls /\ es'.queue = es.queue /\ es'.out = es.out /\ es'.over = es.over /\ es'.split = es.split
        /\ es'.code = es.code /\ es'.maimed = es.maimed /\ es'.got = es.got /\ es'.call = es.call /\ es'.kept = es.kept
    BY <1>1, <1>8 DEF EsStates
  <2>3. ASSUME es.kind # "watch" PROVE Flow(s, es.calls, X \cup {m \in {n} : type \in es.filter}, es.sub, es.kind, es.over)
    <3>1. CASE type \in es.filter
      <4>1. es.sub # "on" /\ X \cup {m \in {n} : type \in es.filter} = X \cup {n}
        BY <1>7, <1>8, <2>3, <3>1
      <4>2. Flow(s, es.calls, X \cup {n}, es.sub, es.kind, es.over)
        BY <1>4, <1>5, <1>7, <2>3, <4>1, EmitsToNobody
      <4> QED BY <4>1, <4>2
    <3>2. CASE type \notin es.filter
      <4>1. X \cup {m \in {n} : type \in es.filter} = X
        BY <3>2
      <4> QED BY <1>7, <2>3, <4>1
    <3> QED BY <3>1, <3>2
  <2> QED BY <2>1, <2>2, <2>3, EmitKeeps DEF X, s, n
<1>9. CASE /\ EsServed(type) /\ es.kind = "ui"
           /\ es' = [es EXCEPT !.log = Append(@, type), !.calls = @ \cup {EsNewest}, !.over = @ \cup {<<x, EsNewest>> : x \in es.calls}]
  <2> DEFINE over2 == es.over \cup {<<x, n>> : x \in es.calls}
  <2>1. es' = [es EXCEPT !.log = Append(es.log, type), !.calls = es.calls \cup {n}, !.over = over2]
    BY <1>9 DEF n
  <2>2. over2 \in SUBSET (Nat \X Nat) /\ es.calls \cup {n} \in SUBSET Nat
    BY <1>3, <1>4
  <2>3. X \cup {m \in {n} : type \in es.filter} = X \cup {n}
    BY <1>7, <1>9
  <2>4. Flow(s, es.calls \cup {n}, X \cup {n}, es.sub, "ui", over2)
    BY <1>4, <1>5, <1>7, <1>9, EmitsToUi
  <2> HIDE DEF over2
  <2>5. es' \in EsStates
    BY <1>1, <1>4, <2>1, <2>2 DEF EsStates
  <2>6. /\ es'.kind = es.kind /\ es'.filter = es.filter /\ es'.from = es.from /\ es'.pc = es.pc /\ es'.log = Append(es.log, type)
        /\ es'.sub = es.sub /\ es'.calls = es.calls \cup {n} /\ es'.queue = es.queue /\ es'.out = es.out /\ es'.over = over2 /\ es'.split = es.split
        /\ es'.code = es.code /\ es'.maimed = es.maimed /\ es'.got = es.got /\ es'.call = es.call /\ es'.kept = es.kept
    BY <1>1, <2>1 DEF EsStates
  <2>7. es'.sub = "on" /\ es'.kind = "ui"
    BY <1>7, <1>9, <2>6
  <2> QED BY <2>3, <2>4, <2>5, <2>6, <2>7, EmitKeeps DEF X, s, n
<1>10. ASSUME EsServed(type), es.kind # "ui", NEW sub \in {"on", "dropped"}, NEW cut \in Nat,
              es' = [es EXCEPT !.log = Append(es.log, type), !.sub = sub, !.queue = Append(es.queue, n), !.cut = cut], es.sub = "on"
       PROVE  EsGood(es')
  <2>1. es' \in EsStates
    <3>1. sub \in EsSubs
      BY DEF EsSubs
    <3> QED BY <1>1, <1>4, <1>5, <1>10, <3>1 DEF EsStates
  <2>2. /\ es'.kind = es.kind /\ es'.filter = es.filter /\ es'.from = es.from /\ es'.pc = es.pc /\ es'.log = Append(es.log, type)
        /\ es'.sub = sub /\ es'.calls = es.calls /\ es'.queue = Append(es.queue, n) /\ es'.out = es.out /\ es'.over = es.over /\ es'.split = es.split
        /\ es'.code = es.code /\ es'.maimed = es.maimed /\ es'.got = es.got /\ es'.call = es.call /\ es'.kept = es.kept
    BY <1>1, <1>10 DEF EsStates
  <2>3. ASSUME es.kind # "watch" PROVE Flow(Append(s, n), es.calls, X \cup {m \in {n} : type \in es.filter}, sub, es.kind, es.over)
    <3>1. X \cup {m \in {n} : type \in es.filter} = X \cup {n}
      BY <1>7, <1>10, <2>3
    <3>2. es.calls = {}
      BY <1>7, <1>10, <2>3 DEF Flow
    <3>3. Flow(Append(s, n), {}, X \cup {n}, sub, es.kind, es.over)
      BY <1>4, <1>5, <1>7, <1>10, <2>3, <3>2, EmitsFrame
    <3> QED BY <3>1, <3>2, <3>3
  <2>4. es'.sub # "none"
    BY <2>2
  <2> QED BY <1>5, <1>10, <2>1, <2>2, <2>3, <2>4, EmitKeeps DEF X, s, n
<1>11. EsServed(type) => es.sub = "on"
  BY DEF EsServed
<1>12. CASE EsServed(type) /\ es.kind # "ui" /\ es' = [es EXCEPT !.log = Append(@, type), !.queue = Append(@, EsNewest)]
  <2>1. es' = [es EXCEPT !.log = Append(es.log, type), !.sub = "on", !.queue = Append(es.queue, n), !.cut = es.cut] /\ es.cut \in Nat
    BY <1>1, <1>11, <1>12 DEF n, EsStates
  <2> QED BY <1>10, <1>11, <1>12, <2>1
<1>13. CASE /\ EsServed(type) /\ es.kind \in {"subscribe", "watch"}
            /\ \E k \in 1 .. EsPieces - 1 :
                 es' = [es EXCEPT !.log = Append(@, type), !.sub = "dropped", !.queue = Append(@, EsNewest), !.cut = k]
  <2>1. PICK k \in Nat : es' = [es EXCEPT !.log = Append(es.log, type), !.sub = "dropped", !.queue = Append(es.queue, n), !.cut = k]
    BY <1>6, <1>13 DEF n
  <2> QED BY <1>10, <1>11, <1>13, <2>1
<1>14. CASE EsServed(type) /\ es.kind \in {"subscribe", "watch"} /\ es' = [es EXCEPT !.log = Append(@, type), !.sub = "dropped"]
  <2>1. es' \in EsStates
    BY <1>1, <1>4, <1>6, <1>14 DEF EsStates
  <2>2. /\ es'.kind = es.kind /\ es'.filter = es.filter /\ es'.from = es.from /\ es'.pc = es.pc /\ es'.log = Append(es.log, type)
        /\ es'.sub = "dropped" /\ es'.calls = es.calls /\ es'.queue = es.queue /\ es'.out = es.out /\ es'.over = es.over /\ es'.split = es.split
        /\ es'.code = es.code /\ es'.maimed = es.maimed /\ es'.got = es.got /\ es'.call = es.call /\ es'.kept = es.kept
    BY <1>1, <1>14 DEF EsStates
  <2>3. ASSUME es.kind # "watch" PROVE Flow(s, es.calls, X \cup {m \in {n} : type \in es.filter}, "dropped", es.kind, es.over)
    <3>1. X \cup {m \in {n} : type \in es.filter} = X \cup {n} /\ es.calls = {}
      BY <1>7, <1>14, <2>3 DEF Flow
    <3>2. Flow(s, {}, X, "dropped", es.kind, es.over)
      BY <1>7, <2>3, <3>1, Ends
    <3>3. Flow(s, {}, X \cup {n}, "dropped", es.kind, es.over)
      BY <1>4, <1>5, <3>2, EmitsToNobody
    <3> QED BY <3>1, <3>3
  <2> QED BY <1>11, <1>14, <2>1, <2>2, <2>3, EmitKeeps DEF X, s, n
<1> QED BY <1>2, <1>8, <1>9, <1>12, <1>13, <1>14

LEMMA CallStep ==
  ASSUME EsGood(es), NEW x \in es.calls, call_listener(x) PROVE EsGood(es')
<1>1. es \in EsStates /\ es.sub = "on" /\ es' = [es EXCEPT !.calls = es.calls \ {x}, !.queue = Append(es.queue, x)] /\ es.from <= Len(es.log)
  BY DEF EsGood, call_listener
<1>2. es.calls \in SUBSET Nat /\ x \in Nat /\ es.queue \in EsFrames /\ es.out \in EsFrames /\ es.log \in EsLogs /\ Len(es.log) \in Nat
  BY <1>1, EsTyped
<1>3. Append(es.queue, x) \in EsFrames /\ es.out \o Append(es.queue, x) = Append(es.out \o es.queue, x) /\ es.out \o es.queue \in EsFrames
  BY <1>2, FrameIn
<1>4. es.calls \ {x} \in SUBSET Nat
  BY <1>2
<1>5. es' \in EsStates
  BY <1>1, <1>3, <1>4 DEF EsStates
<1>6. /\ es'.kind = es.kind /\ es'.filter = es.filter /\ es'.log = es.log /\ es'.from = es.from /\ es'.pc = es.pc /\ es'.sub = es.sub
      /\ es'.calls = es.calls \ {x} /\ es'.queue = Append(es.queue, x) /\ es'.out = es.out /\ es'.over = es.over /\ es'.split = es.split
      /\ es'.code = es.code /\ es'.maimed = es.maimed /\ es'.got = es.got /\ es'.call = es.call /\ es'.kept = es.kept
  BY <1>1 DEF EsStates
<1>7. ASSUME es.kind # "watch"
      PROVE  Flow(es'.out \o es'.queue, es'.calls, EsIds(es'.log, es'.from, es'.filter), es'.sub, es'.kind, es'.over)
  <2> DEFINE X == EsIds(es.log, es.from, es.filter)
  <2>1. Flow(es.out \o es.queue, es.calls, X, "on", es.kind, es.over)
    BY <1>1, <1>7 DEF EsGood
  <2>2. es.kind = "ui"
    BY <2>1 DEF Flow
  <2>3. \A y \in X : y \in Nat
    BY <1>2 DEF EsIds
  <2> HIDE DEF X
  <2>4. Flow(Append(es.out \o es.queue, x), es.calls \ {x}, X, "on", "ui", es.over)
    BY <1>3, <2>1, <2>2, <2>3, CallsHandler
  <2> QED BY <1>1, <1>3, <1>6, <2>2, <2>4 DEF X
<1>8. es'.from <= Len(es'.log)
  BY <1>1, <1>6
<1>9. es'.sub # "none" /\ (es'.kind # "watch" => es'.pc \notin {"off", "handshake"})
  BY <1>1, <1>6 DEF EsGood
<1> QED BY <1>5, <1>6, <1>7, <1>8, <1>9, Reader

LEMMA StopsStep ==
  ASSUME EsGood(es), supervisor_stops PROVE EsGood(es')
<1>1. es \in EsStates /\ es.pc = "live" /\ es' = [es EXCEPT !.sub = "closed", !.calls = {}] /\ es.from <= Len(es.log)
  BY DEF EsGood, supervisor_stops
<1>2. "closed" \in EsSubs /\ {} \in SUBSET Nat
  BY DEF EsSubs
<1>3. es' \in EsStates
  BY <1>1, <1>2 DEF EsStates
<1>4. /\ es'.kind = es.kind /\ es'.filter = es.filter /\ es'.log = es.log /\ es'.from = es.from /\ es'.pc = es.pc /\ es'.sub = "closed"
      /\ es'.calls = {} /\ es'.queue = es.queue /\ es'.out = es.out /\ es'.over = es.over /\ es'.split = es.split
      /\ es'.code = es.code /\ es'.maimed = es.maimed /\ es'.got = es.got /\ es'.call = es.call /\ es'.kept = es.kept
  BY <1>1 DEF EsStates
<1>5. ASSUME es.kind # "watch"
      PROVE  Flow(es'.out \o es'.queue, es'.calls, EsIds(es'.log, es'.from, es'.filter), es'.sub, es'.kind, es'.over)
  <2>1. Flow(es.out \o es.queue, es.calls, EsIds(es.log, es.from, es.filter), es.sub, es.kind, es.over)
    BY <1>5 DEF EsGood
  <2> QED BY <1>4, <2>1, Ends
<1>6. es'.pc \notin {"off", "handshake"} /\ es'.sub # "none" /\ es'.from <= Len(es'.log)
  BY <1>1, <1>4
<1> QED BY <1>3, <1>4, <1>5, <1>6, Reader

LEMMA ArrivesStep ==
  ASSUME EsGood(es), EsArrives PROVE EsGood(es')
<1> DEFINE g == es.got + 1
           c == es.call \cup {g}
<1>1. es \in EsStates /\ es.pc = "live" /\ es' = [es EXCEPT !.got = g, !.call = c]
  BY DEF EsGood, EsArrives
<1>2. g \in Nat /\ c \in SUBSET Nat /\ es.got \in Nat
  BY <1>1, EsTyped
<1>3. es.kind = "subscribe" /\ ~es.split => Gathered(g, c, es.kept)
  <2> SUFFICES ASSUME es.kind = "subscribe", ~es.split PROVE Gathered(g, c, es.kept)
    OBVIOUS
  <2>1. Gathered(es.got, es.call, es.kept)
    BY DEF EsGood
  <2>2. 1..g = (1..es.got) \cup {g} /\ g \notin 1..es.got
    BY <1>2
  <2> HIDE DEF g
  <2> QED BY <2>1, <2>2 DEF Gathered
<1> HIDE DEF g, c
<1>4. es' \in EsStates
  BY <1>1, <1>2 DEF EsStates
<1>5. /\ es'.kind = es.kind /\ es'.filter = es.filter /\ es'.log = es.log /\ es'.from = es.from /\ es'.pc = es.pc /\ es'.sub = es.sub
      /\ es'.calls = es.calls /\ es'.queue = es.queue /\ es'.out = es.out /\ es'.over = es.over /\ es'.split = es.split
      /\ es'.code = es.code /\ es'.maimed = es.maimed /\ es'.got = g /\ es'.call = c /\ es'.kept = es.kept
  BY <1>1 DEF EsStates
<1>6. es'.kind # "watch" => (es'.pc \in {"off", "handshake"} => es'.sub = "none") /\ (~es'.split => es'.code # "invalid" /\ es'.maimed = {})
  BY <1>5 DEF EsGood
<1> QED BY <1>3, <1>4, <1>5, <1>6, Control

\* Connecting, ending and being told to: no frame moves.
LEMMA EsPcStep ==
  ASSUME EsGood(es), NEW pc \in EsPcs, NEW code \in EsCodes \ {"invalid"}, NEW stop \in BOOLEAN,
         es' = [es EXCEPT !.pc = pc, !.code = code, !.stop = stop], es.kind # "watch" /\ pc \in {"off", "handshake"} => es.sub = "none"
  PROVE  EsGood(es')
<1>1. es \in EsStates
  BY DEF EsGood
<1>2. es' \in EsStates
  BY <1>1 DEF EsStates
<1>3. /\ es'.kind = es.kind /\ es'.filter = es.filter /\ es'.log = es.log /\ es'.from = es.from /\ es'.pc = pc /\ es'.sub = es.sub
      /\ es'.calls = es.calls /\ es'.queue = es.queue /\ es'.out = es.out /\ es'.over = es.over /\ es'.split = es.split
      /\ es'.code = code /\ es'.maimed = es.maimed /\ es'.got = es.got /\ es'.call = es.call /\ es'.kept = es.kept
  BY <1>1 DEF EsStates
<1>4. es'.kind # "watch" => /\ es'.pc \in {"off", "handshake"} => es'.sub = "none"
                            /\ ~es'.split => es'.code # "invalid" /\ es'.maimed = {}
                            /\ es'.kind = "subscribe" /\ ~es'.split => Gathered(es'.got, es'.call, es'.kept)
  BY <1>3 DEF EsGood
<1>5. es'.kind = "subscribe" => es'.kind # "watch"
  OBVIOUS
<1> QED BY <1>2, <1>3, <1>4, <1>5, Control

LEMMA EsExitStep ==
  ASSUME EsGood(es), NEW code \in EsCodes \ {"invalid"}, es' = EsExit(code) PROVE EsGood(es')
<1>1. es \in EsStates /\ "exit" \in EsPcs
  BY DEF EsGood, EsPcs
<1>2. es' = [es EXCEPT !.pc = "exit", !.code = code, !.stop = es.stop] /\ es.stop \in BOOLEAN
  BY <1>1 DEF EsExit, EsStates
<1> QED BY <1>1, <1>2, EsPcStep

LEMMA ConnectStep ==
  ASSUME EsGood(es), NEW kind \in EsKinds, EsConnect(kind) PROVE EsGood(es')
<1>1. es \in EsStates /\ "handshake" \in EsPcs /\ es.pc = "off" /\ es' = [es EXCEPT !.pc = "handshake"]
  BY DEF EsGood, EsPcs, EsConnect
<1>2. es' \in EsStates
  BY <1>1 DEF EsStates
<1>3. /\ es'.kind = es.kind /\ es'.filter = es.filter /\ es'.log = es.log /\ es'.from = es.from /\ es'.sub = es.sub
      /\ es'.calls = es.calls /\ es'.queue = es.queue /\ es'.out = es.out /\ es'.over = es.over /\ es'.split = es.split
      /\ es'.code = es.code /\ es'.maimed = es.maimed /\ es'.got = es.got /\ es'.call = es.call /\ es'.kept = es.kept
  BY <1>1 DEF EsStates
<1>4. es'.kind # "watch" => /\ es'.sub = "none"
                            /\ ~es'.split => es'.code # "invalid" /\ es'.maimed = {}
                            /\ es'.kind = "subscribe" /\ ~es'.split => Gathered(es'.got, es'.call, es'.kept)
  BY <1>1, <1>3 DEF EsGood
<1>5. es'.kind = "subscribe" => es'.kind # "watch"
  OBVIOUS
<1> QED BY <1>2, <1>3, <1>4, <1>5, Control

\* A flag is set, or a command that is not watch leaves.
LEMMA FlagStep ==
  ASSUME EsGood(es), es' = [es EXCEPT !.stop = TRUE] PROVE EsGood(es')
<1>1. es \in EsStates
  BY DEF EsGood
<1>2. es' \in EsStates
  BY <1>1 DEF EsStates
<1>3. /\ es'.kind = es.kind /\ es'.filter = es.filter /\ es'.log = es.log /\ es'.from = es.from /\ es'.pc = es.pc /\ es'.sub = es.sub
      /\ es'.calls = es.calls /\ es'.queue = es.queue /\ es'.out = es.out /\ es'.over = es.over /\ es'.split = es.split
      /\ es'.code = es.code /\ es'.maimed = es.maimed /\ es'.got = es.got /\ es'.call = es.call /\ es'.kept = es.kept
  BY <1>1 DEF EsStates
<1> QED BY <1>2, <1>3 DEF EsGood

LEMMA LeavesStep ==
  ASSUME EsGood(es), es' = [es EXCEPT !.pc = "exit"] PROVE EsGood(es')
<1>1. es \in EsStates /\ "exit" \in EsPcs
  BY DEF EsGood, EsPcs
<1>2. es' \in EsStates
  BY <1>1 DEF EsStates
<1>3. /\ es'.kind = es.kind /\ es'.filter = es.filter /\ es'.log = es.log /\ es'.from = es.from /\ es'.pc = "exit" /\ es'.sub = es.sub
      /\ es'.calls = es.calls /\ es'.queue = es.queue /\ es'.out = es.out /\ es'.over = es.over /\ es'.split = es.split
      /\ es'.code = es.code /\ es'.maimed = es.maimed /\ es'.got = es.got /\ es'.call = es.call /\ es'.kept = es.kept
  BY <1>1 DEF EsStates
<1> QED BY <1>2, <1>3 DEF EsGood

\* A frame is written out.
LEMMA WrittenTyped ==
  ASSUME EsGood(es), es.queue # << >>
  PROVE  /\ EsWritten \in EsStates /\ EsPassed \in EsStates /\ Head(es.queue) \in Nat
         /\ EsWritten.out \o EsWritten.queue = es.out \o es.queue
         /\ EsWritten.kind = es.kind /\ EsWritten.filter = es.filter /\ EsWritten.log = es.log /\ EsWritten.from = es.from
         /\ EsWritten.pc = es.pc /\ EsWritten.sub = es.sub /\ EsWritten.calls = es.calls /\ EsWritten.over = es.over
         /\ EsWritten.split = es.split /\ EsWritten.code = es.code /\ EsWritten.maimed = es.maimed /\ EsWritten.got = 0
         /\ EsWritten.call = {} /\ EsWritten.kept = {} /\ EsPassed.kind = es.kind /\ EsPassed.log = es.log /\ EsPassed.from = es.from
<1> DEFINE r == Tail(es.queue)
           l == Append(es.out, Head(es.queue))
<1>1. es \in EsStates
  BY DEF EsGood
<1>2. es.queue \in EsFrames /\ es.out \in EsFrames
  BY <1>1, EsTyped
<1>3. l \o r = es.out \o es.queue /\ l \in EsFrames /\ r \in EsFrames
  BY <1>2, FirstFrameOut
<1>8. Head(es.queue) \in Nat
  BY <1>2 DEF EsFrames
<1>4. EsWritten = [es EXCEPT !.queue = r, !.got = 0, !.call = {}, !.kept = {}, !.out = l]
  BY DEF EsWritten
<1>5. EsPassed = [es EXCEPT !.queue = r, !.got = 0, !.call = {}, !.kept = {}]
  BY DEF EsPassed
<1> HIDE DEF l, r
<1>6. EsWritten \in EsStates /\ EsPassed \in EsStates
  BY <1>1, <1>3, <1>4, <1>5 DEF EsStates
<1>7. /\ EsWritten.out = l /\ EsWritten.queue = r
      /\ EsWritten.kind = es.kind /\ EsWritten.filter = es.filter /\ EsWritten.log = es.log /\ EsWritten.from = es.from
      /\ EsWritten.pc = es.pc /\ EsWritten.sub = es.sub /\ EsWritten.calls = es.calls /\ EsWritten.over = es.over
      /\ EsWritten.split = es.split /\ EsWritten.code = es.code /\ EsWritten.maimed = es.maimed /\ EsWritten.got = 0
      /\ EsWritten.call = {} /\ EsWritten.kept = {} /\ EsPassed.kind = es.kind /\ EsPassed.log = es.log /\ EsPassed.from = es.from
  BY <1>1, <1>4, <1>5 DEF EsStates
<1> QED BY <1>3, <1>6, <1>7, <1>8

LEMMA GatheredFresh == Gathered(0, {}, {})
BY DEF Gathered, EsSplit

\* The fields that a read sets.
LEMMA MaimedSet ==
  ASSUME NEW e \in EsStates, NEW m \in SUBSET Nat
  PROVE  [e EXCEPT !.maimed = m] \in EsStates
BY DEF EsStates

LEMMA KeptSet ==
  ASSUME NEW e \in EsStates, NEW k \in SUBSET Nat
  PROVE  [e EXCEPT !.call = {}, !.kept = k] \in EsStates
BY DEF EsStates

LEMMA WrittenStep ==
  ASSUME EsGood(es), es.pc = "live", es.queue # << >>, NEW maimed \in SUBSET Nat, es' = [EsWritten EXCEPT !.maimed = maimed],
         es.kind # "watch" /\ ~es.split => maimed = {}
  PROVE  EsGood(es')
<1> DEFINE w == EsWritten
<1>1. w \in EsStates /\ w.out \o w.queue = es.out \o es.queue /\ w.pc = "live"
  BY WrittenTyped
<1>2. /\ w.kind = es.kind /\ w.filter = es.filter /\ w.log = es.log /\ w.from = es.from /\ w.sub = es.sub /\ w.calls = es.calls
      /\ w.over = es.over /\ w.split = es.split /\ w.code = es.code /\ w.got = 0 /\ w.call = {} /\ w.kept = {}
  BY WrittenTyped
<1> HIDE DEF w
<1>3. es' = [w EXCEPT !.maimed = maimed]
  BY DEF w
<1>4. es' \in EsStates
  BY <1>1, <1>3, MaimedSet
<1>5. /\ es'.kind = w.kind /\ es'.filter = w.filter /\ es'.log = w.log /\ es'.from = w.from /\ es'.pc = w.pc /\ es'.sub = w.sub
      /\ es'.calls = w.calls /\ es'.queue = w.queue /\ es'.out = w.out /\ es'.over = w.over /\ es'.split = w.split
      /\ es'.code = w.code /\ es'.maimed = maimed /\ es'.got = w.got /\ es'.call = w.call /\ es'.kept = w.kept
  BY <1>1, <1>3 DEF EsStates
<1>6. es'.out \o es'.queue = es.out \o es.queue
  BY <1>1, <1>5
<1>7. es'.from <= Len(es'.log)
  BY <1>2, <1>5 DEF EsGood
<1>8. ASSUME es.kind # "watch"
      PROVE  /\ Flow(es'.out \o es'.queue, es'.calls, EsIds(es'.log, es'.from, es'.filter), es'.sub, es'.kind, es'.over)
             /\ ~es'.split => es'.code # "invalid" /\ es'.maimed = {}
             /\ es'.sub # "none"
  <2>1. Flow(es.out \o es.queue, es.calls, EsIds(es.log, es.from, es.filter), es.sub, es.kind, es.over)
    BY <1>8 DEF EsGood
  <2>2. es.sub # "none" /\ (~es.split => es.code # "invalid")
    BY <1>8 DEF EsGood
  <2> QED BY <1>2, <1>5, <1>6, <1>8, <2>1, <2>2
<1>9. Gathered(es'.got, es'.call, es'.kept) /\ es'.pc = "live"
  BY <1>1, <1>2, <1>5, GatheredFresh
<1> QED BY <1>2, <1>4, <1>5, <1>7, <1>8, <1>9 DEF EsGood

\* The whole line has all its pieces and no broken character.
LEMMA LineWhole ==
  ASSUME NEW call \in SUBSET Nat, NEW kept \in SUBSET Nat, Gathered(EsPieces, call, kept)
  PROVE  kept \cup call = EsWhole /\ ~EsSplit(call) /\ EsEvent(kept \cup call)
<1>1. kept \cup call = {1, 2, 3, 4} /\ kept \cap call = {} /\ ~EsSplit(kept) /\ EsWhole = {1, 2, 3, 4}
  <2>1. 1..EsPieces = {1, 2, 3, 4}
    BY DEF EsPieces
  <2> QED BY <2>1 DEF Gathered, EsWhole
<1>2. ~EsSplit(call)
  BY <1>1 DEF EsSplit
<1>3. EsEvent({1, 2, 3, 4})
  BY DEF EsEvent, EsSplit, EsPieces
<1> QED BY <1>1, <1>2, <1>3

LEMMA ReadsStep ==
  ASSUME EsGood(es), es.kind = "subscribe", es.pc = "live", EsNewline, EsReadsLine PROVE EsGood(es')
<1> DEFINE line == es.kept \cup es.call
           m == es.maimed \cup {x \in {Head(es.queue)} : line # EsWhole}
<1>1. es \in EsStates /\ es.queue # << >> /\ es.got = EsPieces /\ es.call \in SUBSET Nat /\ es.kept \in SUBSET Nat
  BY EsTyped DEF EsGood, EsNewline
<1>2. ~es.split => line = EsWhole /\ ~EsSplit(es.call) /\ EsEvent(line)
  BY <1>1, LineWhole DEF EsGood
<1>3. CASE EsSplit(es.call) \/ ~EsEvent(line)
  <2>1. es.split = TRUE
    BY <1>1, <1>2, <1>3, EsTyped
  <2>2. es' = [es EXCEPT !.pc = "exit", !.code = "invalid"] /\ "invalid" \in EsCodes /\ "exit" \in EsPcs
    BY <1>3 DEF EsReadsLine, EsExit, EsCodes, EsPcs
  <2>3. es' \in EsStates
    BY <1>1, <2>2 DEF EsStates
  <2>4. /\ es'.kind = es.kind /\ es'.filter = es.filter /\ es'.log = es.log /\ es'.from = es.from /\ es'.pc = "exit" /\ es'.sub = es.sub
        /\ es'.calls = es.calls /\ es'.queue = es.queue /\ es'.out = es.out /\ es'.over = es.over /\ es'.split = es.split
    BY <1>1, <2>2 DEF EsStates
  <2> QED BY <2>1, <2>3, <2>4, Control
<1>4. CASE ~(EsSplit(es.call) \/ ~EsEvent(line))
  <2>1. es' = [EsWritten EXCEPT !.maimed = EsWritten.maimed \cup {x \in {Head(es.queue)} : line # EsWhole}]
    BY <1>4 DEF EsReadsLine
  <2>2. EsWritten.maimed = es.maimed /\ Head(es.queue) \in Nat
    BY <1>1, WrittenTyped
  <2>3. es' = [EsWritten EXCEPT !.maimed = m]
    BY <2>1, <2>2
  <2>4. m \in SUBSET Nat
    <3>1. es.maimed \in SUBSET Nat
      BY <1>1 DEF EsStates
    <3> QED BY <2>2, <3>1
  <2>5. ~es.split => m = {}
    BY <1>2 DEF EsGood
  <2> QED BY <1>1, <2>3, <2>4, <2>5, WrittenStep
<1> QED BY <1>3, <1>4

LEMMA TimeoutStep ==
  ASSUME EsGood(es), es.kind = "subscribe", es.pc = "live", ~EsNewline,
         es' = [es EXCEPT !.call = {}, !.kept = IF EsSplit(es.call) THEN @ ELSE @ \cup es.call,
                          !.split = IF EsSplit(es.call) THEN TRUE ELSE @]
  PROVE  EsGood(es')
<1>1. es \in EsStates /\ es.call \in SUBSET Nat /\ es.kept \in SUBSET Nat
  BY EsTyped DEF EsGood
<1>2. ASSUME NEW k \in SUBSET Nat, es' = [es EXCEPT !.call = {}, !.kept = k] \/ es' = [es EXCEPT !.call = {}, !.kept = k, !.split = TRUE],
             es' = [es EXCEPT !.call = {}, !.kept = k] /\ ~es.split => Gathered(es.got, {}, k)
      PROVE  EsGood(es')
  <2> DEFINE p == [es EXCEPT !.call = {}, !.kept = k]
  <2>1. p \in EsStates
    BY <1>1, KeptSet
  <2>2. /\ p.kind = es.kind /\ p.filter = es.filter /\ p.log = es.log /\ p.from = es.from /\ p.pc = es.pc /\ p.sub = es.sub
        /\ p.calls = es.calls /\ p.queue = es.queue /\ p.out = es.out /\ p.over = es.over
        /\ p.code = es.code /\ p.maimed = es.maimed /\ p.got = es.got /\ p.call = {} /\ p.kept = k /\ p.split = es.split
    BY <1>1 DEF EsStates
  <2> HIDE DEF p
  <2>3. CASE es' = p
    <3>1. p.pc \notin {"off", "handshake"}
      BY <2>2
    <3>2. ~p.split => p.code # "invalid" /\ p.maimed = {}
      BY <2>2 DEF EsGood
    <3>3. ~p.split => Gathered(p.got, p.call, p.kept)
      BY <1>2, <2>2, <2>3 DEF p
    <3>4. EsGood(p)
      BY <2>1, <2>2, <3>1, <3>2, <3>3, Control
    <3> QED BY <2>3, <3>4
  <2>4. CASE es' = [p EXCEPT !.split = TRUE]
    <3> DEFINE f == [p EXCEPT !.split = TRUE]
    <3>1. f \in EsStates /\ f.split
      BY <2>1 DEF EsStates
    <3>2. /\ f.kind = p.kind /\ f.filter = p.filter /\ f.log = p.log /\ f.from = p.from /\ f.pc = p.pc /\ f.sub = p.sub
          /\ f.calls = p.calls /\ f.queue = p.queue /\ f.out = p.out /\ f.over = p.over
      BY <2>1 DEF EsStates
    <3> HIDE DEF f
    <3>3. f.pc \notin {"off", "handshake"}
      BY <2>2, <3>2
    <3>4. EsGood(f)
      BY <2>2, <3>1, <3>2, <3>3, Control
    <3> QED BY <2>4, <3>4 DEF f
  <2> QED BY <1>2, <2>3, <2>4 DEF p
<1>3. CASE EsSplit(es.call)
  <2>1. es' = [es EXCEPT !.call = {}, !.kept = es.kept, !.split = TRUE]
    BY <1>3
  <2>2. es' # [es EXCEPT !.call = {}, !.kept = es.kept] \/ es.split
    BY <1>1, <2>1 DEF EsStates
  <2> QED BY <1>1, <1>2, <2>1, <2>2
<1>4. CASE ~EsSplit(es.call)
  <2>1. es' = [es EXCEPT !.call = {}, !.kept = es.kept \cup es.call]
    BY <1>1, <1>4 DEF EsStates
  <2>2. ~es.split => Gathered(es.got, {}, es.kept \cup es.call)
    <3> SUFFICES ASSUME ~es.split PROVE Gathered(es.got, {}, es.kept \cup es.call)
      OBVIOUS
    <3>1. Gathered(es.got, es.call, es.kept)
      BY DEF EsGood
    <3> QED BY <1>4, <3>1 DEF Gathered, EsSplit
  <2>3. es.kept \cup es.call \in SUBSET Nat
    BY <1>1
  <2> QED BY <1>2, <2>1, <2>2, <2>3
<1> QED BY <1>3, <1>4

LEMMA EsCodesOk == "ok" \in EsCodes \ {"invalid"} /\ "unhealthy" \in EsCodes \ {"invalid"}
BY DEF EsCodes

LEMMA SubscribeReads ==
  ASSUME EsGood(es), events_subscribe PROVE EsGood(es')
<1>1. es.kind = "subscribe" /\ es.pc = "live"
  BY DEF events_subscribe
<1>2. CASE es' = EsExit("ok")
  BY <1>2, EsCodesOk, EsExitStep
<1>3. CASE EsNewline /\ EsReadsLine
  BY <1>1, <1>3, ReadsStep
<1>4. CASE ~EsNewline /\ es' = [es EXCEPT !.call = {}, !.kept = IF EsSplit(es.call) THEN @ ELSE @ \cup es.call,
                                             !.split = IF EsSplit(es.call) THEN TRUE ELSE @]
  BY <1>1, <1>4, TimeoutStep
<1>5. CASE es' = EsExit("unhealthy")
  BY <1>5, EsCodesOk, EsExitStep
<1> QED BY <1>2, <1>3, <1>4, <1>5 DEF events_subscribe

\* stack watch is typed, and no more.
LEMMA WatchStep ==
  ASSUME EsGood(es), watch_tick \/ run_watch \/ watch_subscribe_fails PROVE EsGood(es')
<1>1. es \in EsStates /\ es.from <= Len(es.log) /\ es.kind = "watch"
  BY DEF EsGood, watch_tick, run_watch, watch_subscribe_fails
<1> SUFFICES es' \in EsStates /\ es'.kind = es.kind /\ es'.from = es.from /\ es'.log = es.log
  BY <1>1 DEF EsGood
<1>2. "none" \in EsPcs /\ "exit" \in EsPcs /\ "ok" \in EsCodes /\ {} \in SUBSET Nat
  BY DEF EsPcs, EsCodes
<1>3. CASE watch_tick
  <2>1. PICK warned \in SUBSET EsVms :
          es' = [es EXCEPT !.ticks = @ + 1, !.said = @ \cup (IF es.last_codes = {} THEN warned ELSE {}),
                           !.last_codes = IF warned = {} THEN {} ELSE {"VM_NOT_RUNNING"}]
    BY <1>3 DEF watch_tick
  <2> DEFINE said == es.said \cup (IF es.last_codes = {} THEN warned ELSE {})
             codes == IF warned = {} THEN {} ELSE {"VM_NOT_RUNNING"}
  <2>2. es.said \in SUBSET EsVms /\ es.ticks \in Nat
    BY <1>1 DEF EsStates
  <2>3. said \in SUBSET EsVms /\ codes \in SUBSET {"VM_NOT_RUNNING"} /\ es.ticks + 1 \in Nat
    BY <2>2
  <2>4. es' = [es EXCEPT !.ticks = es.ticks + 1, !.said = said, !.last_codes = codes]
    BY <2>1
  <2> HIDE DEF said, codes
  <2> QED BY <1>1, <2>3, <2>4 DEF EsStates
<1>4. CASE run_watch
  <2>1. CASE es' = EsExit("ok")
    BY <1>1, <1>2, <2>1 DEF EsExit, EsStates
  <2>2. CASE es' = [es EXCEPT !.pc = "none"]
    BY <1>1, <1>2, <2>2 DEF EsStates
  <2>3. CASE es' = [es EXCEPT !.call = {}]
    BY <1>1, <1>2, <2>3 DEF EsStates
  <2>4. CASE es.queue # << >> /\ (es' = EsWritten \/ es' = EsPassed)
    BY <2>4, WrittenTyped
  <2>5. CASE EsNewline /\ (es' = EsWritten \/ es' = EsPassed)
    BY <2>4, <2>5 DEF EsNewline
  <2> QED BY <1>4, <2>1, <2>2, <2>3, <2>5 DEF run_watch
<1>5. CASE watch_subscribe_fails
  BY <1>1, <1>2, <1>5 DEF watch_subscribe_fails, EsStates
<1> QED BY <1>3, <1>4, <1>5

LEMMA PlainWritten ==
  ASSUME EsGood(es), es.kind # "watch", es.pc = "live", EsNewline, es' = EsWritten PROVE EsGood(es')
<1>1. es.queue # << >> /\ es \in EsStates
  BY DEF EsNewline, EsGood
<1>2. EsWritten.maimed = es.maimed /\ EsWritten \in EsStates /\ es.maimed \in SUBSET Nat
  BY <1>1, WrittenTyped DEF EsStates
<1>3. es' = [EsWritten EXCEPT !.maimed = es.maimed]
  BY <1>2 DEF EsStates
<1>4. ~es.split => es.maimed = {}
  BY DEF EsGood
<1> QED BY <1>1, <1>2, <1>3, <1>4, WrittenStep

LEMMA UiReads ==
  ASSUME EsGood(es), subscribe_events PROVE EsGood(es')
<1>1. es \in EsStates /\ es.kind = "ui" /\ es.pc = "live" /\ es.from <= Len(es.log)
  BY DEF EsGood, subscribe_events
<1>2. CASE EsNewline /\ es' = EsWritten
  BY <1>1, <1>2, PlainWritten
<1>3. CASE es' = [es EXCEPT !.pc = "off", !.sub = "none", !.calls = {}, !.queue = << >>, !.got = 0, !.call = {}, !.out = << >>]
  <2>1. "off" \in EsPcs /\ "none" \in EsSubs /\ << >> \in EsFrames /\ {} \in SUBSET Nat
    BY DEF EsPcs, EsSubs, EsFrames
  <2>2. es' \in EsStates
    BY <1>1, <1>3, <2>1 DEF EsStates
  <2>3. /\ es'.kind = "ui" /\ es'.log = es.log /\ es'.from = es.from /\ es'.pc = "off" /\ es'.sub = "none" /\ es'.calls = {}
        /\ es'.queue = << >> /\ es'.out = << >> /\ es'.split = es.split /\ es'.code = es.code /\ es'.maimed = es.maimed
    BY <1>1, <1>3 DEF EsStates
  <2>4. << >> \o << >> = << >>
    OBVIOUS
  <2>5. Flow(es'.out \o es'.queue, es'.calls, EsIds(es'.log, es'.from, es'.filter), es'.sub, es'.kind, es'.over)
    BY <2>3, <2>4, NothingSent
  <2>6. ~es'.split => es'.code # "invalid" /\ es'.maimed = {}
    BY <1>1, <2>3 DEF EsGood
  <2> QED BY <1>1, <2>2, <2>3, <2>5, <2>6 DEF EsGood
<1> QED BY <1>2, <1>3 DEF subscribe_events

LEMMA GuestReads ==
  ASSUME EsGood(es), subscribe_guest_logs PROVE EsGood(es')
<1>1. CASE es.kind = "guest" /\ es.pc = "live" /\ EsNewline /\ es' = EsWritten
  BY <1>1, PlainWritten
<1>2. CASE es' = [es EXCEPT !.pc = "exit"]
  BY <1>2, LeavesStep
<1> QED BY <1>1, <1>2 DEF subscribe_guest_logs

LEMMA EsStep == EsGood(es) /\ [EsNext]_es => EsGood(es')
<1> SUFFICES ASSUME EsGood(es), [EsNext]_es PROVE EsGood(es')
  OBVIOUS
<1>1. CASE subscribe
  BY <1>1, SubscribeStep
<1>2. CASE streamEvents
  BY <1>2, StreamStep
<1>3. CASE emit
  BY <1>3, EmitStep
<1>4. CASE supervisor_stops
  BY <1>4, StopsStep
<1>5. CASE EsArrives
  BY <1>5, ArrivesStep
<1>6. CASE EsInterrupt
  BY <1>6, FlagStep DEF EsInterrupt
<1>7. CASE \E x \in es.calls : call_listener(x)
  BY <1>7, CallStep
<1>8. CASE \E kind \in EsKinds : EsConnect(kind)
  BY <1>8, ConnectStep
<1>9. CASE subscribe_fails
  BY <1>9, EsCodesOk, EsExitStep DEF subscribe_fails
<1>10. CASE events_subscribe
  BY <1>10, SubscribeReads
<1>11. CASE watch_tick \/ run_watch \/ watch_subscribe_fails
  BY <1>11, WatchStep
<1>12. CASE subscribe_events
  BY <1>12, UiReads
<1>13. CASE subscribe_guest_logs
  BY <1>13, GuestReads
<1>14. CASE unsubscribe_guest_logs
  BY <1>14, FlagStep DEF unsubscribe_guest_logs
<1>15. CASE UNCHANGED es
  BY <1>15
<1> QED BY <1>1, <1>2, <1>3, <1>4, <1>5, <1>6, <1>7, <1>8, <1>9, <1>10, <1>11, <1>12, <1>13, <1>14, <1>15 DEF EsNext

\* events subscribe and the application's subscriptions, for any number of
\* events, types, timeouts, failed writes and overlapping emissions: what the
\* reader has written out repeats no event and misses none before its last
\* one, in the order of emission but for the application's events whose
\* emissions overlap; while the subscription stands every other one is on
\* its way; and the command takes no frame for an invalid one, nor loses a
\* piece of it, unless a timeout falls into the middle of a character
\* (SupervisorEvents.emit, the read loop of events.rs that keeps its line
\* over a timeout, the application's event streams).
THEOREM NoEventIsLost == EsSpec => []NoEventLost
<1> DEFINE Inv == EsGood(es)
<1>1. EsInit => Inv
  BY EsInitGood
<1>2. Inv /\ [EsNext]_es => Inv'
  BY EsStep
<1>3. Inv => NoEventLost
  BY EsMeans
<1> HIDE DEF Inv
<1> QED BY <1>1, <1>2, <1>3, PTL DEF EsSpec

-----------------------------------------------------------------------------
(* The progress display.                                                   *)

\* An account of the jobs, and the part of it that log lines do not touch.
IsAccount(s) == s = [jobs |-> s.jobs, current |-> s.current, logs |-> s.logs, finished |-> s.finished]
View(s) == <<s.jobs, s.current, s.finished>>

PgIds    == PgLeaves \cup {NoPg}
PgKinds  == {"plan", "start", "progress", "done", "skip", "fail", "log", "finished"}
PgMsgs   == [kind : PgKinds, id : PgIds, specs : SUBSET PgLeaves, from : Nat \cup {NoPg, "ok", "fail"}]
PgChans  == Seq(PgMsgs)

IsPg(p) == p = [rep |-> p.rep, chan |-> p.chan, sent |-> p.sent, lines |-> p.lines, worker |-> p.worker, done |-> p.done,
                disp |-> p.disp, pc |-> p.pc, follow |-> p.follow, result |-> p.result, percent |-> p.percent]

\* The dashboard's account, after what is still in the channel, shows what
\* the worker's shows: t is what it goes through.
Passes(t, s, c) ==
  /\ DOMAIN t = 0..Len(c) /\ t[0] = s
  /\ \A i \in 0..Len(c) : IsAccount(t[i])
  /\ \A i \in 1..Len(c) : t[i] = apply(t[i - 1], c[i])
Catches(s, c, r) == \E t : Passes(t, s, c) /\ View(t[Len(c)]) = View(r)

LEMMA SameFields ==
  ASSUME NEW s, NEW t, View(s) = View(t) PROVE s.jobs = t.jobs /\ s.current = t.current /\ s.finished = t.finished
BY DEF View

LEMMA JobsOf ==
  ASSUME NEW s, IsAccount(s), NEW x
  PROVE  /\ IsAccount([s EXCEPT !.jobs = x]) /\ IsAccount([s EXCEPT !.current = x])
         /\ IsAccount([s EXCEPT !.logs = x]) /\ IsAccount([s EXCEPT !.finished = x])
         /\ View([s EXCEPT !.jobs = x]) = <<x, s.current, s.finished>>
         /\ View([s EXCEPT !.current = x]) = <<s.jobs, x, s.finished>>
         /\ View([s EXCEPT !.logs = x]) = View(s)
         /\ View([s EXCEPT !.finished = x]) = <<s.jobs, s.current, x>>
BY DEF IsAccount, View

\* Two accounts that differ in their log lines only.
Alike(s, t) == IsAccount(s) /\ IsAccount(t) /\ View(s) = View(t)

LEMMA SetAlike ==
  ASSUME NEW s, NEW t, Alike(s, t), NEW id, NEW a, NEW b, NEW c PROVE Alike(set_job(s, id, a, b, c), set_job(t, id, a, b, c))
<1>1. s.jobs = t.jobs /\ s.current = t.current /\ s.finished = t.finished /\ IsAccount(s) /\ IsAccount(t)
  BY SameFields DEF Alike
<1>2. CASE id \notin DOMAIN s.jobs
  BY <1>1, <1>2 DEF set_job, Alike
<1>3. CASE id \in DOMAIN s.jobs
  <2> DEFINE x == [s.jobs EXCEPT ![id] = [status |-> a, progress |-> b, detail |-> c]]
  <2>1. set_job(s, id, a, b, c) = [s EXCEPT !.jobs = x] /\ set_job(t, id, a, b, c) = [t EXCEPT !.jobs = x]
    BY <1>1, <1>3 DEF set_job
  <2> HIDE DEF x
  <2>2. IsAccount([s EXCEPT !.jobs = x]) /\ View([s EXCEPT !.jobs = x]) = <<x, s.current, s.finished>>
    BY <1>1, JobsOf
  <2>3. IsAccount([t EXCEPT !.jobs = x]) /\ View([t EXCEPT !.jobs = x]) = <<x, t.current, t.finished>>
    BY <1>1, JobsOf
  <2> QED BY <1>1, <2>1, <2>2, <2>3 DEF Alike
<1> QED BY <1>2, <1>3

LEMMA CurrentAlike ==
  ASSUME NEW s, NEW t, Alike(s, t), NEW id PROVE Alike(set_current(s, id), set_current(t, id))
<1>1. s.jobs = t.jobs /\ s.current = t.current /\ s.finished = t.finished /\ IsAccount(s) /\ IsAccount(t)
  BY SameFields DEF Alike
<1>2. IsAccount([s EXCEPT !.current = id]) /\ View([s EXCEPT !.current = id]) = <<s.jobs, id, s.finished>>
  BY <1>1, JobsOf
<1>3. IsAccount([t EXCEPT !.current = id]) /\ View([t EXCEPT !.current = id]) = <<t.jobs, id, t.finished>>
  BY <1>1, JobsOf
<1> QED BY <1>1, <1>2, <1>3 DEF Alike, set_current

LEMMA LeaveAlike ==
  ASSUME NEW s, NEW t, Alike(s, t), NEW id PROVE Alike(leave_current(s, id), leave_current(t, id))
<1>1. s.jobs = t.jobs /\ s.current = t.current
  BY SameFields DEF Alike
<1>2. last_running_job(s) = last_running_job(t)
  BY <1>1 DEF last_running_job
<1>3. Alike(set_current(s, last_running_job(s)), set_current(t, last_running_job(s)))
  BY CurrentAlike
<1> QED BY <1>1, <1>2, <1>3 DEF leave_current

LEMMA LogsAlike ==
  ASSUME NEW s, IsAccount(s), NEW line PROVE IsAccount(push_log(s, line)) /\ View(push_log(s, line)) = View(s)
<1> DEFINE x == IF Len(Append(s.logs, line)) > MAX_LOG_LINES THEN Tail(Append(s.logs, line)) ELSE Append(s.logs, line)
<1>1. push_log(s, line) = [s EXCEPT !.logs = x]
  BY DEF push_log
<1> HIDE DEF x
<1>2. IsAccount([s EXCEPT !.logs = x]) /\ View([s EXCEPT !.logs = x]) = View(s)
  BY JobsOf
<1> QED BY <1>1, <1>2

LEMMA ApplyAlike ==
  ASSUME NEW s, NEW t, Alike(s, t), NEW m \in PgMsgs PROVE Alike(apply(s, m), apply(t, m))
<1>1. s.jobs = t.jobs /\ s.current = t.current /\ s.finished = t.finished /\ IsAccount(s) /\ IsAccount(t)
  BY SameFields DEF Alike
<1>2. job_of(s, m.id) = job_of(t, m.id)
  BY <1>1 DEF job_of
<1> DEFINE p == job_of(s, m.id).progress
           d == job_of(s, m.id).detail
           set(u, a, b, c) == set_job(u, m.id, a, b, c)
<1>3. \A a, b, c : Alike(set(s, a, b, c), set(t, a, b, c))
  BY SetAlike
<1>4. \A a, b, c : Alike(set_current(set(s, a, b, c), m.id), set_current(set(t, a, b, c), m.id))
  BY <1>3, CurrentAlike
<1>5. \A a, b, c : Alike(leave_current(set(s, a, b, c), m.id), leave_current(set(t, a, b, c), m.id))
  BY <1>3, LeaveAlike
<1>6. CASE m.kind = "plan"
  <2> DEFINE x == [j \in DOMAIN s.jobs \cup m.specs |-> IF j \in DOMAIN s.jobs THEN s.jobs[j] ELSE JobState]
  <2>1. apply(s, m) = [s EXCEPT !.jobs = x] /\ apply(t, m) = [t EXCEPT !.jobs = x]
    BY <1>1, <1>6 DEF apply, install_specs
  <2> HIDE DEF x
  <2>2. IsAccount([s EXCEPT !.jobs = x]) /\ View([s EXCEPT !.jobs = x]) = <<x, s.current, s.finished>>
    BY <1>1, JobsOf
  <2>3. IsAccount([t EXCEPT !.jobs = x]) /\ View([t EXCEPT !.jobs = x]) = <<x, t.current, t.finished>>
    BY <1>1, JobsOf
  <2> QED BY <1>1, <2>1, <2>2, <2>3 DEF Alike
<1>7. CASE m.kind = "start"
  <2>1. \/ apply(s, m) = s /\ apply(t, m) = t
        \/ /\ apply(s, m) = set_current(set(s, "running", p, d), m.id)
           /\ apply(t, m) = set_current(set(t, "running", p, d), m.id)
    BY <1>1, <1>2, <1>7 DEF apply
  <2> HIDE DEF set, p, d
  <2> QED BY <1>4, <2>1
<1>8. CASE m.kind = "progress"
  <2>1. \/ apply(s, m) = s /\ apply(t, m) = t
        \/ /\ apply(s, m) = set_current(set(s, "running", "part", "detail"), m.id)
           /\ apply(t, m) = set_current(set(t, "running", "part", "detail"), m.id)
    BY <1>1, <1>2, <1>8 DEF apply
  <2> HIDE DEF set, p, d
  <2> QED BY <1>4, <2>1
<1>9. CASE m.kind = "done"
  <2>1. /\ apply(s, m) = leave_current(set(s, "done", "full", d), m.id)
        /\ apply(t, m) = leave_current(set(t, "done", "full", d), m.id)
    BY <1>1, <1>2, <1>9 DEF apply
  <2> HIDE DEF set, p, d
  <2> QED BY <1>5, <2>1
<1>10. CASE m.kind = "skip"
  <2>1. /\ apply(s, m) = leave_current(set(s, "skipped", "full", "reason"), m.id)
        /\ apply(t, m) = leave_current(set(t, "skipped", "full", "reason"), m.id)
    BY <1>1, <1>2, <1>10 DEF apply
  <2> HIDE DEF set, p, d
  <2> QED BY <1>5, <2>1
<1>11. CASE m.kind = "fail"
  <2>1. /\ apply(s, m) = set_current(set(s, "failed", p, "error"), m.id)
        /\ apply(t, m) = set_current(set(t, "failed", p, "error"), m.id)
    BY <1>1, <1>2, <1>11 DEF apply
  <2> HIDE DEF set, p, d
  <2> QED BY <1>4, <2>1
<1>12. CASE m.kind = "log"
  <2>1. apply(s, m) = push_log(s, m.from) /\ apply(t, m) = push_log(t, m.from)
    BY <1>12 DEF apply
  <2> QED BY <1>1, <2>1, LogsAlike DEF Alike
<1>13. CASE m.kind = "finished"
  <2> DEFINE x == m.from
  <2>1. apply(s, m) = [s EXCEPT !.finished = x] /\ apply(t, m) = [t EXCEPT !.finished = x]
    BY <1>13 DEF apply
  <2> HIDE DEF x
  <2>2. IsAccount([s EXCEPT !.finished = x]) /\ View([s EXCEPT !.finished = x]) = <<s.jobs, s.current, x>>
    BY <1>1, JobsOf
  <2>3. IsAccount([t EXCEPT !.finished = x]) /\ View([t EXCEPT !.finished = x]) = <<t.jobs, t.current, x>>
    BY <1>1, JobsOf
  <2> QED BY <1>1, <2>1, <2>2, <2>3 DEF Alike
<1> QED BY <1>6, <1>7, <1>8, <1>9, <1>10, <1>11, <1>12, <1>13 DEF PgMsgs, PgKinds

\* A message more at the end of the channel.
LEMMA MoreToPass ==
  ASSUME NEW s, NEW c \in PgChans, NEW r, IsAccount(r), Catches(s, c, r), NEW m \in PgMsgs
  PROVE  Catches(s, Append(c, m), apply(r, m)) /\ (m.kind = "log" => Catches(s, Append(c, m), r))
<1> DEFINE n == Len(c)
           d == Append(c, m)
<1>1. PICK t : Passes(t, s, c) /\ View(t[n]) = View(r)
  BY DEF Catches
<1>2. n \in Nat /\ d \in PgChans /\ Len(d) = n + 1 /\ d[n + 1] = m /\ \A i \in 1..n : d[i] = c[i]
  BY DEF PgChans
<1> DEFINE x == apply(t[n], m)
           u == [i \in 0..(n + 1) |-> IF i = n + 1 THEN x ELSE t[i]]
<1> HIDE DEF n, d
<1>3. Alike(t[n], r)
  <2>1. n \in 0..n
    BY <1>2
  <2>2. IsAccount(t[n])
    BY <1>1, <2>1 DEF Passes, n
  <2> QED BY <1>1, <2>2 DEF Alike
<1>4. Alike(x, apply(r, m)) /\ (m.kind = "log" => View(x) = View(r))
  <2>1. Alike(x, apply(r, m))
    BY <1>3, ApplyAlike
  <2>2. m.kind = "log" => x = push_log(t[n], m.from)
    BY DEF apply
  <2>3. m.kind = "log" => View(x) = View(t[n])
    BY <1>3, <2>2, LogsAlike DEF Alike
  <2> QED BY <1>3, <2>1, <2>3 DEF Alike
<1> HIDE DEF x
<1>5. /\ DOMAIN u = 0..(n + 1) /\ u[n + 1] = x /\ \A i \in 0..n : u[i] = t[i]
  BY <1>2
<1> HIDE DEF u
<1>6. DOMAIN t = 0..n /\ t[0] = s /\ (\A i \in 0..n : IsAccount(t[i])) /\ (\A i \in 1..n : t[i] = apply(t[i - 1], c[i]))
  BY <1>1 DEF Passes, n
<1>7. u[0] = s
  BY <1>2, <1>5, <1>6
<1>8. \A i \in 0..(n + 1) : IsAccount(u[i])
  <2>1. IsAccount(x)
    BY <1>4 DEF Alike
  <2>2. \A i \in 0..(n + 1) : i \in 0..n \/ i = n + 1
    BY <1>2
  <2> QED BY <1>5, <1>6, <2>1, <2>2
<1>9. ASSUME NEW i \in 1..(n + 1) PROVE u[i] = apply(u[i - 1], d[i])
  <2>1. CASE i = n + 1
    <3>1. i - 1 = n /\ n \in 0..n
      BY <1>2, <2>1
    <3>2. u[i - 1] = t[n] /\ d[i] = m /\ u[i] = x
      BY <1>2, <1>5, <2>1, <3>1
    <3> QED BY <3>2 DEF x
  <2>2. CASE i \in 1..n
    <3>1. i - 1 \in 0..n /\ i \in 0..n
      BY <1>2, <2>2
    <3>2. u[i - 1] = t[i - 1] /\ u[i] = t[i] /\ d[i] = c[i] /\ t[i] = apply(t[i - 1], c[i])
      BY <1>2, <1>5, <1>6, <2>2, <3>1
    <3> QED BY <3>2
  <2> QED BY <1>2, <2>1, <2>2
<1>10. Passes(u, s, d)
  BY <1>2, <1>5, <1>7, <1>8, <1>9 DEF Passes
<1>11. View(u[Len(d)]) = View(apply(r, m)) /\ (m.kind = "log" => View(u[Len(d)]) = View(r))
  BY <1>2, <1>4, <1>5 DEF Alike
<1>12. Catches(s, d, apply(r, m)) /\ (m.kind = "log" => Catches(s, d, r))
  BY <1>10, <1>11 DEF Catches
<1> QED BY <1>12 DEF d

\* The first message is taken.
LEMMA LessToPass ==
  ASSUME NEW s, NEW c \in PgChans, NEW r, Catches(s, c, r), c # << >>
  PROVE  Catches(apply(s, Head(c)), Tail(c), r) /\ IsAccount(apply(s, Head(c)))
<1> DEFINE n == Len(c)
           d == Tail(c)
           a == apply(s, Head(c))
<1>1. PICK t : Passes(t, s, c) /\ View(t[n]) = View(r)
  BY DEF Catches
<1>2. n \in Nat /\ n > 0 /\ d \in PgChans /\ Len(d) = n - 1 /\ Head(c) = c[1] /\ \A i \in 1..(n - 1) : d[i] = c[i + 1]
  BY DEF PgChans
<1> DEFINE u == [i \in 0..(n - 1) |-> t[i + 1]]
<1>3. DOMAIN t = 0..n /\ t[0] = s /\ (\A i \in 0..n : IsAccount(t[i])) /\ (\A i \in 1..n : t[i] = apply(t[i - 1], c[i]))
  BY <1>1 DEF Passes
<1> HIDE DEF n, d
<1>4. a = t[1] /\ IsAccount(a)
  <2>1. 1 \in 1..n /\ 1 - 1 = 0 /\ 1 \in 0..n
    BY <1>2
  <2> QED BY <1>2, <1>3, <2>1
<1> HIDE DEF a
<1>5. DOMAIN u = 0..(n - 1) /\ \A i \in 0..(n - 1) : u[i] = t[i + 1]
  OBVIOUS
<1> HIDE DEF u
<1>6. u[0] = a
  <2>1. 0 \in 0..(n - 1) /\ 0 + 1 = 1
    BY <1>2
  <2> QED BY <1>4, <1>5, <2>1
<1>7. \A i \in 0..(n - 1) : IsAccount(u[i])
  <2>1. \A i \in 0..(n - 1) : i + 1 \in 0..n
    BY <1>2
  <2> QED BY <1>3, <1>5, <2>1
<1>8. ASSUME NEW i \in 1..(n - 1) PROVE u[i] = apply(u[i - 1], d[i])
  <2>1. i \in 0..(n - 1) /\ i - 1 \in 0..(n - 1) /\ (i - 1) + 1 = i /\ i + 1 \in 1..n /\ (i + 1) - 1 = i
    BY <1>2
  <2>2. u[i] = t[i + 1] /\ u[i - 1] = t[i] /\ d[i] = c[i + 1] /\ t[i + 1] = apply(t[i], c[i + 1])
    BY <1>2, <1>3, <1>5, <2>1
  <2> QED BY <2>2
<1>9. Passes(u, a, d)
  BY <1>2, <1>5, <1>6, <1>7, <1>8 DEF Passes
<1>10. u[Len(d)] = t[n]
  <2>1. n - 1 \in 0..(n - 1) /\ (n - 1) + 1 = n
    BY <1>2
  <2> QED BY <1>2, <1>5, <2>1
<1>11. Catches(a, d, r)
  BY <1>1, <1>9, <1>10 DEF Catches
<1> QED BY <1>4, <1>11 DEF a, d

LEMMA NothingToPass ==
  ASSUME NEW s, NEW r, Catches(s, << >>, r) PROVE View(s) = View(r)
<1>1. Len(<< >>) = 0
  OBVIOUS
<1> QED BY <1>1 DEF Catches, Passes

\* The planned jobs, and the current one is none of those that are done.
Over == {"done", "skipped"}
Sane(s) ==
  /\ DOMAIN s.jobs \subseteq PgLeaves /\ s.current \in PgIds
  /\ s.current \in DOMAIN s.jobs => s.jobs[s.current].status \notin Over

\* What the last frame of a run with result r shows of the account s.
Marked(s, r) == IF r # "ok" /\ s.current # NoPg THEN apply(s, PgMsg("fail", s.current, {}, NoPg)) ELSE s

\* A set of jobs has a last one.
LEMMA LastOne ==
  ASSUME NEW T \in SUBSET PgLeaves, T # {} PROVE \E j \in T : \A k \in T : k <= j
<1> DEFINE n == Cardinality(PgLeaves)
           M == {m \in Nat : \E k \in T : m = n - k}
           R == OpToRel(<, Nat)
<1>1. n \in Nat /\ PgLeaves = 1..n
  BY ProgressAssumption, FS_CardinalityType
<1> HIDE DEF n
<1>2. M \subseteq Nat /\ M # {}
  <2>1. PICK k \in T : TRUE
    OBVIOUS
  <2>2. n - k \in Nat
    BY <1>1
  <2> QED BY <2>2
<1>3. \A x, y \in Nat : y < x => <<y, x>> \in R
  BY DEF OpToRel
<1>4. IsWellFoundedOn(R, Nat)
  BY NatLessThanWellFounded
<1> HIDE DEF M, R
<1>5. PICK m \in M : \A y \in M : ~(<<y, m>> \in R)
  BY <1>2, <1>4, WFMin
<1>6. PICK j \in T : m = n - j
  BY DEF M
<1>7. ASSUME NEW k \in T PROVE k <= j
  <2>1. n - k \in M /\ n - k \in Nat /\ m \in Nat /\ k \in Nat /\ j \in Nat
    BY <1>1, <1>2 DEF M
  <2>2. ~(n - k < m)
    BY <1>3, <1>5, <2>1
  <2> QED BY <1>1, <1>6, <2>1, <2>2
<1> QED BY <1>7

LEMMA LastRunning ==
  ASSUME NEW s, DOMAIN s.jobs \subseteq PgLeaves
  PROVE  \/ last_running_job(s) = NoPg
         \/ last_running_job(s) \in DOMAIN s.jobs /\ s.jobs[last_running_job(s)].status = "running"
<1> DEFINE T == {j \in DOMAIN s.jobs : s.jobs[j].status = "running"}
<1>1. last_running_job(s) = IF T = {} THEN NoPg ELSE CHOOSE j \in T : \A k \in T : k <= j
  BY DEF last_running_job
<1>2. T # {} => \E j \in T : \A k \in T : k <= j
  BY LastOne
<1>3. T # {} => last_running_job(s) \in T
  <2> HIDE DEF T
  <2> QED BY <1>1, <1>2
<1> QED BY <1>1, <1>3

\* What a message does to one job.
LEMMA SetOne ==
  ASSUME NEW s, IsAccount(s), NEW id, NEW a, NEW b, NEW c
  PROVE  LET t == set_job(s, id, a, b, c)
         IN  /\ IsAccount(t) /\ DOMAIN t.jobs = DOMAIN s.jobs /\ t.current = s.current /\ t.finished = s.finished
             /\ \A j \in DOMAIN s.jobs : j # id => t.jobs[j] = s.jobs[j]
             /\ id \in DOMAIN s.jobs => t.jobs[id] = [status |-> a, progress |-> b, detail |-> c]
<1> DEFINE x == [s.jobs EXCEPT ![id] = [status |-> a, progress |-> b, detail |-> c]]
<1>1. set_job(s, id, a, b, c) = IF id \in DOMAIN s.jobs THEN [s EXCEPT !.jobs = x] ELSE s
  BY DEF set_job
<1>2. /\ DOMAIN x = DOMAIN s.jobs /\ \A j \in DOMAIN s.jobs : j # id => x[j] = s.jobs[j]
      /\ id \in DOMAIN s.jobs => x[id] = [status |-> a, progress |-> b, detail |-> c]
  OBVIOUS
<1> HIDE DEF x
<1>3. LET y == [s EXCEPT !.jobs = x] IN IsAccount(y) /\ y.jobs = x /\ y.current = s.current /\ y.finished = s.finished
  BY DEF IsAccount
<1> QED BY <1>1, <1>2, <1>3

LEMMA SetCurrent ==
  ASSUME NEW s, IsAccount(s), NEW id
  PROVE  LET t == set_current(s, id) IN IsAccount(t) /\ t.jobs = s.jobs /\ t.current = id /\ t.finished = s.finished
BY DEF set_current, IsAccount

\* The last frame changes the current job only, keeps every share of the work, and makes the group fail.
LEMMA MarkKeeps ==
  ASSUME NEW s, IsAccount(s), Sane(s), NEW r
  PROVE  LET t == Marked(s, r)
         IN  /\ t.current = s.current /\ t.finished = s.finished /\ percent(t.jobs) = percent(s.jobs)
             /\ \A j \in DOMAIN s.jobs : s.jobs[j].status \in Over => t.jobs[j] = s.jobs[j]
             /\ r = "fail" /\ s.current \in DOMAIN s.jobs => group_status(t.jobs) = "failed"
<1> DEFINE id == s.current
           m == PgMsg("fail", id, {}, NoPg)
           u == set_job(s, id, "failed", job_of(s, id).progress, "error")
           t == set_current(u, id)
<1>1. CASE ~(r # "ok" /\ id # NoPg)
  <2>1. Marked(s, r) = s
    BY <1>1 DEF Marked
  <2>2. ~(r = "fail" /\ id \in DOMAIN s.jobs)
    BY <1>1, ProgressAssumption DEF Sane
  <2> QED BY <2>1, <2>2
<1>2. CASE r # "ok" /\ id # NoPg
  <2>1. Marked(s, r) = apply(s, m)
    BY <1>2 DEF Marked
  <2>2. m.kind = "fail" /\ m.id = id
    BY DEF PgMsg
  <2>3. apply(s, m) = t
    BY <2>2 DEF apply
  <2>4. /\ IsAccount(u) /\ DOMAIN u.jobs = DOMAIN s.jobs /\ u.current = s.current /\ u.finished = s.finished
        /\ \A j \in DOMAIN s.jobs : j # id => u.jobs[j] = s.jobs[j]
        /\ id \in DOMAIN s.jobs => u.jobs[id] = [status |-> "failed", progress |-> job_of(s, id).progress, detail |-> "error"]
    BY SetOne
  <2>5. t.jobs = u.jobs /\ t.current = id /\ t.finished = u.finished
    BY <2>4, SetCurrent
  <2> HIDE DEF u, t, m
  <2>6. \A j \in DOMAIN s.jobs : s.jobs[j].status \in Over => t.jobs[j] = s.jobs[j]
    BY <2>4, <2>5 DEF Sane
  <2>7. \A j \in DOMAIN s.jobs : fraction(t.jobs[j]) = fraction(s.jobs[j])
    <3>1. ASSUME id \in DOMAIN s.jobs PROVE fraction(t.jobs[id]) = fraction(s.jobs[id])
      <4>1. t.jobs[id].status = "failed" /\ t.jobs[id].progress = s.jobs[id].progress
        BY <2>4, <2>5, <3>1 DEF job_of
      <4>2. s.jobs[id].status \notin {"done", "skipped"}
        BY <3>1 DEF Sane, Over
      <4> QED BY <4>1, <4>2 DEF fraction
    <3> QED BY <2>4, <2>5, <3>1
  <2>8. percent(t.jobs) = percent(s.jobs)
    <3>1. DOMAIN t.jobs = DOMAIN s.jobs
      BY <2>4, <2>5
    <3>2. /\ {j \in DOMAIN t.jobs : fraction(t.jobs[j]) >= 1} = {j \in DOMAIN s.jobs : fraction(s.jobs[j]) >= 1}
          /\ {j \in DOMAIN t.jobs : fraction(t.jobs[j]) = 2} = {j \in DOMAIN s.jobs : fraction(s.jobs[j]) = 2}
      BY <2>7, <3>1
    <3>3. HalvesDone(t.jobs) = HalvesDone(s.jobs)
      BY <3>2 DEF HalvesDone
    <3> QED BY <3>1, <3>3 DEF percent
  <2>9. ASSUME id \in DOMAIN s.jobs PROVE group_status(t.jobs) = "failed"
    <3>1. id \in DOMAIN t.jobs /\ t.jobs[id].status = "failed"
      BY <2>4, <2>5, <2>9
    <3>2. "failed" \in {t.jobs[j].status : j \in DOMAIN t.jobs}
      BY <3>1
    <3> QED BY <3>2 DEF group_status
  <2> QED BY <2>1, <2>3, <2>4, <2>5, <2>6, <2>8, <2>9
<1> QED BY <1>1, <1>2

\* The worker's end and its result, and what the display has shown by then.
PgEnd(p) ==
  /\ p.worker \in {"run", "panicked"} => p.rep.finished = NoPg /\ p.done = NoPg
  /\ p.worker = "finished" => p.rep.finished \in {"ok", "fail"} /\ p.done = NoPg
  /\ p.worker = "gone" => p.done \in {"ok", "fail"} /\ p.rep.finished \in {NoPg, p.done}
  /\ p.worker \in {"run", "panicked", "finished", "gone"}
PgShown(p) ==
  /\ p.pc \in {"loop", "drain"} => Catches(p.disp, p.chan, p.rep)
  /\ p.pc = "drain" => p.worker = "gone" /\ p.result = p.done
  /\ p.pc \in {"final", "joined"} /\ p.result # "stopped" => p.worker = "gone" /\ p.result = p.done
  /\ p.pc = "final" /\ p.result # "stopped" => View(p.disp) = View(p.rep)
  /\ p.pc = "joined" /\ p.result # "stopped" => View(p.disp) = View(IF p.follow THEN p.rep ELSE Marked(p.rep, p.result))
PgGood(p) ==
  /\ IsPg(p) /\ IsAccount(p.rep) /\ IsAccount(p.disp) /\ p.chan \in PgChans /\ p.lines \in Nat
  /\ p.percent = percent(p.rep.jobs) /\ Sane(p.rep) /\ PgEnd(p) /\ PgShown(p)

LEMMA NothingDone ==
  ASSUME NEW X \in SUBSET PgLeaves PROVE percent([j \in X |-> JobState]) = 0
<1> DEFINE jobs == [j \in X |-> JobState]
<1>1. DOMAIN jobs = X /\ \A j \in X : jobs[j] = JobState
  OBVIOUS
<1> HIDE DEF jobs
<1>2. fraction(JobState) = 0
  BY ProgressAssumption DEF fraction, JobState
<1>3. {j \in DOMAIN jobs : fraction(jobs[j]) >= 1} = {} /\ {j \in DOMAIN jobs : fraction(jobs[j]) = 2} = {}
  BY <1>1, <1>2
<1>4. Cardinality({}) = 0
  BY FS_EmptySet
<1>5. HalvesDone(jobs) = 0
  BY <1>3, <1>4 DEF HalvesDone
<1>6. IsFiniteSet(X)
  BY ProgressAssumption, FS_Subset
<1>7. Cardinality(X) \in Nat /\ (X # {} => Cardinality(X) # 0)
  BY <1>6, FS_CardinalityType, FS_EmptySet
<1> DEFINE n == Cardinality(X)
<1> HIDE DEF n
<1>8. X # {} => n \in Nat /\ n > 0
  BY <1>7 DEF n
<1>9. X # {} => 0 \div n = 0
  BY <1>8
<1>10. percent(jobs) = IF X = {} THEN 0 ELSE (50 * 0) \div n
  BY <1>1, <1>5 DEF percent, n
<1>11. 50 * 0 = 0
  OBVIOUS
<1>12. percent(jobs) = 0
  BY <1>9, <1>10, <1>11
<1> QED BY <1>12 DEF jobs

LEMMA PgInitGood == PgInit => PgGood(pg)
<1> SUFFICES ASSUME PgInit PROVE PgGood(pg)
  OBVIOUS
<1> DEFINE X == PgLeaves \ PgLate
           r == ProgressState(X)
           s == ProgressState({})
           m == PgMsg("plan", NoPg, X, NoPg)
           jobs == [j \in X |-> JobState]
           t == [i \in 0..1 |-> IF i = 0 THEN s ELSE apply(s, m)]
<1>1. r = [jobs |-> jobs, current |-> NoPg, logs |-> << >>, finished |-> NoPg]
  BY DEF ProgressState, install_specs
<1>2. s = [jobs |-> [j \in {} |-> JobState], current |-> NoPg, logs |-> << >>, finished |-> NoPg]
  BY DEF ProgressState, install_specs
<1>3. m \in PgMsgs /\ m.kind = "plan" /\ m.specs = X
  BY DEF PgMsgs, PgMsg, PgKinds, PgIds
<1>4. apply(s, m) = install_specs(s, X)
  BY <1>3 DEF apply
<1>5. install_specs(s, X) = r
  BY <1>1, <1>2 DEF install_specs
<1>6. IsAccount(r) /\ IsAccount(s) /\ r.finished = NoPg
  <2>1. \A a : IsAccount([jobs |-> a, current |-> NoPg, logs |-> << >>, finished |-> NoPg])
    BY DEF IsAccount
  <2>2. IsAccount(r) /\ IsAccount(s)
    <3> DEFINE a == [j \in {} |-> JobState]
    <3>1. s = [jobs |-> a, current |-> NoPg, logs |-> << >>, finished |-> NoPg]
      BY <1>2
    <3> HIDE DEF a, jobs, r, s
    <3> QED BY <1>1, <2>1, <3>1
  <2> QED BY <1>1, <2>2
<1>7. <<m>> \in PgChans /\ Len(<<m>>) = 1 /\ <<m>>[1] = m
  BY <1>3 DEF PgChans
<1> HIDE DEF r, s, m, X, jobs
<1>8. Catches(s, <<m>>, r)
  <2>1. DOMAIN t = 0..1 /\ t[0] = s /\ t[1] = r
    BY <1>4, <1>5
  <2> HIDE DEF t
  <2>2. \A i \in 0..1 : i = 0 \/ i = 1
    OBVIOUS
  <2>3. \A i \in 1..1 : i = 1 /\ i - 1 = 0
    OBVIOUS
  <2>4. \A i \in 0..1 : IsAccount(t[i])
    BY <1>6, <2>1, <2>2
  <2>5. \A i \in 1..1 : t[i] = apply(t[i - 1], <<m>>[i])
    BY <1>4, <1>5, <1>7, <2>1, <2>3
  <2>6. Passes(t, s, <<m>>)
    BY <1>7, <2>1, <2>4, <2>5 DEF Passes
  <2> QED BY <1>7, <2>1, <2>6 DEF Catches
<1>9. percent(r.jobs) = 0
  BY <1>1, NothingDone DEF X, jobs
<1>10. PgEnd(pg) /\ PgShown(pg)
  <2>1. /\ pg.rep = r /\ pg.chan = <<m>> /\ pg.disp = s /\ pg.worker = "run" /\ pg.done = NoPg /\ pg.pc = "loop" /\ pg.result = NoPg
    BY DEF PgInit, r, s, m, X
  <2> QED BY <1>6, <1>8, <2>1 DEF PgEnd, PgShown
<1>11. /\ IsPg(pg) /\ pg.rep = r /\ pg.chan = <<m>> /\ pg.disp = s /\ pg.lines = 0 /\ pg.percent = 0
  BY DEF PgInit, r, s, m, X, IsPg
<1>12. Sane(r)
  <2>1. DOMAIN r.jobs = X /\ r.current = NoPg /\ X \subseteq PgLeaves
    BY <1>1 DEF jobs, X
  <2> QED BY <2>1, ProgressAssumption DEF Sane, PgIds
<1> QED BY <1>6, <1>7, <1>9, <1>10, <1>11, <1>12 DEF PgGood

\* What the steps change.
WithReport(p, r, c, n, k) == [p EXCEPT !.rep = r, !.percent = n, !.sent = k, !.chan = c]
WithEnd(p, w, d)          == [p EXCEPT !.worker = w, !.done = d]
WithPc(p, x, r, f)        == [p EXCEPT !.pc = x, !.result = r, !.follow = f]
WithChan(p, c, d, l)      == [p EXCEPT !.chan = c, !.disp = d, !.lines = l]

LEMMA PgKept ==
  ASSUME NEW p, IsPg(p), NEW r, NEW c, NEW n, NEW k, NEW q, q = WithReport(p, r, c, n, k)
  PROVE  /\ IsPg(q) /\ q.rep = r /\ q.chan = c /\ q.percent = n /\ q.lines = p.lines /\ q.worker = p.worker /\ q.done = p.done
         /\ q.disp = p.disp /\ q.pc = p.pc /\ q.result = p.result
<1>1. q = [rep |-> r, chan |-> c, sent |-> k, lines |-> p.lines, worker |-> p.worker, done |-> p.done,
           disp |-> p.disp, pc |-> p.pc, follow |-> p.follow, result |-> p.result, percent |-> n]
  BY DEF IsPg, WithReport
<1> QED BY <1>1 DEF IsPg

\* A message of the worker.
LEMMA PublishStep ==
  ASSUME PgGood(pg), pg.worker = "run", NEW m \in PgMsgs
  PROVE  LET q == publish(m)
         IN  /\ IsPg(q) /\ q.rep = apply(pg.rep, m) /\ q.chan = Append(pg.chan, m) /\ q.percent = percent(q.rep.jobs)
             /\ q.lines = pg.lines /\ q.worker = pg.worker /\ q.done = pg.done /\ q.disp = pg.disp /\ q.pc = pg.pc /\ q.result = pg.result
             /\ IsAccount(q.rep) /\ q.chan \in PgChans /\ PgShown(q)
<1> DEFINE r == apply(pg.rep, m)
           c == Append(pg.chan, m)
           n == percent(r.jobs)
           k == pg.sent + 1
           q == [pg EXCEPT !.rep = r, !.percent = n, !.sent = k, !.chan = c]
<1>1. publish(m) = q
  <2>1. PgSend([pg EXCEPT !.rep = r, !.percent = n, !.sent = k], m) = [[pg EXCEPT !.rep = r, !.percent = n, !.sent = k] EXCEPT !.chan = Append(@, m)]
    BY DEF PgSend
  <2>2. publish(m) = PgSend([pg EXCEPT !.rep = r, !.percent = n, !.sent = k], m)
    BY DEF publish
  <2>3. [pg EXCEPT !.rep = r, !.percent = n, !.sent = k].chan = pg.chan
    BY DEF PgGood, IsPg
  <2> HIDE DEF r, n, k
  <2> QED BY <2>1, <2>2, <2>3
<1> HIDE DEF r, c, n, k
<1>2. /\ IsPg(q) /\ q.rep = r /\ q.chan = c /\ q.percent = n /\ q.lines = pg.lines /\ q.worker = pg.worker /\ q.done = pg.done
      /\ q.disp = pg.disp /\ q.pc = pg.pc /\ q.result = pg.result
  <2>1. IsPg(pg) /\ q = WithReport(pg, r, c, n, k)
    BY DEF PgGood, WithReport
  <2> HIDE DEF q
  <2> QED BY <2>1, PgKept
<1> HIDE DEF q
<1>3. IsAccount(r)
  <2>1. Alike(pg.rep, pg.rep)
    BY DEF Alike, PgGood
  <2> QED BY <2>1, ApplyAlike DEF r, Alike
<1>4. c \in PgChans
  BY DEF PgGood, PgChans, c
<1>5. pg.pc \in {"loop", "drain"} => Catches(pg.disp, c, r)
  <2> SUFFICES ASSUME pg.pc \in {"loop", "drain"} PROVE Catches(pg.disp, c, r)
    OBVIOUS
  <2>1. Catches(pg.disp, pg.chan, pg.rep) /\ pg.chan \in PgChans /\ IsAccount(pg.rep)
    BY DEF PgGood, PgShown
  <2> QED BY <2>1, MoreToPass DEF c, r
<1>6. PgShown(q)
  BY <1>2, <1>5 DEF PgShown, PgGood
<1> QED BY <1>1, <1>2, <1>3, <1>4, <1>6 DEF r, c, n

\* None but the last message says that the run is over.
LEMMA ApplyFinished ==
  ASSUME NEW s, IsAccount(s), NEW m \in PgMsgs
  PROVE  /\ m.kind # "finished" => apply(s, m).finished = s.finished
         /\ m.kind = "finished" => apply(s, m).finished = m.from
<1>1. \A x : [s EXCEPT !.jobs = x].finished = s.finished /\ [s EXCEPT !.current = x].finished = s.finished
             /\ [s EXCEPT !.logs = x].finished = s.finished /\ [s EXCEPT !.finished = x].finished = x
  BY DEF IsAccount
<1>2. m.kind = "finished" => apply(s, m).finished = m.from
  BY <1>1 DEF apply
<1>3. \A a, b, c : IsAccount(set_job(s, m.id, a, b, c)) /\ set_job(s, m.id, a, b, c).finished = s.finished
  <2> SUFFICES ASSUME NEW a, NEW b, NEW c PROVE IsAccount(set_job(s, m.id, a, b, c)) /\ set_job(s, m.id, a, b, c).finished = s.finished
    OBVIOUS
  <2> DEFINE x == [s.jobs EXCEPT ![m.id] = [status |-> a, progress |-> b, detail |-> c]]
  <2>1. set_job(s, m.id, a, b, c) = [s EXCEPT !.jobs = x] \/ set_job(s, m.id, a, b, c) = s
    BY DEF set_job
  <2> HIDE DEF x
  <2>2. IsAccount([s EXCEPT !.jobs = x])
    BY JobsOf
  <2> QED BY <1>1, <2>1, <2>2
<1>4. ASSUME NEW t, IsAccount(t), NEW x PROVE set_current(t, x).finished = t.finished /\ leave_current(t, x).finished = t.finished
  <2>1. \A y : set_current(t, y).finished = t.finished
    BY <1>4 DEF set_current, IsAccount
  <2> QED BY <2>1 DEF leave_current
<1> DEFINE p == job_of(s, m.id).progress
           d == job_of(s, m.id).detail
           set(a, b, c) == set_job(s, m.id, a, b, c)
<1>5. \A a, b, c : set_current(set(a, b, c), m.id).finished = s.finished /\ leave_current(set(a, b, c), m.id).finished = s.finished
  BY <1>3, <1>4
<1>6. m.kind # "finished" =>
        \/ apply(s, m) = s \/ apply(s, m) = install_specs(s, m.specs) \/ apply(s, m) = push_log(s, m.from)
        \/ \E a, b, c : apply(s, m) = set_current(set(a, b, c), m.id) \/ apply(s, m) = leave_current(set(a, b, c), m.id)
  BY DEF apply, PgMsgs, PgKinds
<1>7. install_specs(s, m.specs).finished = s.finished
  BY <1>1 DEF install_specs
<1>8. push_log(s, m.from).finished = s.finished
  BY <1>1 DEF push_log
<1> HIDE DEF set
<1> QED BY <1>2, <1>5, <1>6, <1>7, <1>8

\* Every message keeps the account sane.
LEMMA SaneKept ==
  ASSUME NEW s, IsAccount(s), Sane(s), NEW m \in PgMsgs PROVE Sane(apply(s, m))
<1> DEFINE id == m.id
           p == job_of(s, id).progress
           d == job_of(s, id).detail
           set(a, b, c) == set_job(s, id, a, b, c)
<1>1. id \in PgIds /\ m.specs \subseteq PgLeaves
  BY DEF PgMsgs
<1>2. \A a, b, c : /\ IsAccount(set(a, b, c)) /\ DOMAIN set(a, b, c).jobs = DOMAIN s.jobs /\ set(a, b, c).current = s.current
                   /\ \A j \in DOMAIN s.jobs : j # id => set(a, b, c).jobs[j] = s.jobs[j]
                   /\ id \in DOMAIN s.jobs => set(a, b, c).jobs[id].status = a
  <2> SUFFICES ASSUME NEW a, NEW b, NEW c
               PROVE  LET t == set_job(s, id, a, b, c)
                      IN  /\ IsAccount(t) /\ DOMAIN t.jobs = DOMAIN s.jobs /\ t.current = s.current
                          /\ \A j \in DOMAIN s.jobs : j # id => t.jobs[j] = s.jobs[j]
                          /\ id \in DOMAIN s.jobs => t.jobs[id].status = a
    OBVIOUS
  <2> DEFINE t == set_job(s, id, a, b, c)
  <2>1. /\ IsAccount(t) /\ DOMAIN t.jobs = DOMAIN s.jobs /\ t.current = s.current
        /\ \A j \in DOMAIN s.jobs : j # id => t.jobs[j] = s.jobs[j]
        /\ id \in DOMAIN s.jobs => t.jobs[id] = [status |-> a, progress |-> b, detail |-> c]
    BY SetOne
  <2> HIDE DEF t
  <2> QED BY <2>1 DEF t
<1> HIDE DEF set
<1>3. ASSUME NEW a \in {"running", "failed"}, NEW b, NEW c PROVE Sane(set_current(set(a, b, c), id))
  <2> DEFINE u == set(a, b, c)
             t == set_current(u, id)
  <2>2. IsAccount(u) /\ DOMAIN u.jobs = DOMAIN s.jobs
    BY <1>2
  <2> HIDE DEF u
  <2>3. t.jobs = u.jobs /\ t.current = id
    BY <2>2, SetCurrent
  <2>4. id \in DOMAIN s.jobs => u.jobs[id].status \notin Over
    BY <1>2 DEF Over, u
  <2> HIDE DEF t
  <2>5. Sane(t)
    BY <1>1, <2>2, <2>3, <2>4 DEF Sane
  <2> QED BY <2>5 DEF t, u
<1>4. ASSUME NEW a, NEW b, NEW c PROVE Sane(leave_current(set(a, b, c), id))
  <2> DEFINE u == set(a, b, c)
             l == last_running_job(u)
             t == set_current(u, l)
  <2>1. IsAccount(u) /\ DOMAIN u.jobs = DOMAIN s.jobs /\ u.current = s.current /\ \A j \in DOMAIN s.jobs : j # id => u.jobs[j] = s.jobs[j]
    BY <1>2
  <2>2. DOMAIN s.jobs \subseteq PgLeaves /\ s.current \in PgIds
    BY DEF Sane
  <2> HIDE DEF u
  <2>3. l = NoPg \/ (l \in DOMAIN u.jobs /\ u.jobs[l].status = "running")
    BY <2>1, <2>2, LastRunning
  <2> HIDE DEF l
  <2>4. t.jobs = u.jobs /\ t.current = l
    BY <2>1, SetCurrent
  <2> HIDE DEF t
  <2>5. NoPg \notin PgLeaves /\ NoPg \in PgIds /\ PgLeaves \subseteq PgIds
    BY ProgressAssumption DEF PgIds
  <2>6. Sane(t)
    BY <2>1, <2>2, <2>3, <2>4, <2>5 DEF Sane, Over
  <2>7. s.current # id => Sane(u)
    BY <2>1, <2>2 DEF Sane
  <2>8. leave_current(u, id) = IF s.current = id THEN t ELSE u
    BY <2>1 DEF leave_current, t, l
  <2>9. Sane(leave_current(u, id))
    BY <2>6, <2>7, <2>8
  <2> QED BY <2>9 DEF u
<1>5. \A x : LET t == [s EXCEPT !.jobs = x] IN t.jobs = x /\ t.current = s.current
  BY DEF IsAccount
<1>6. \A x : LET t == [s EXCEPT !.logs = x] IN t.jobs = s.jobs /\ t.current = s.current
  BY DEF IsAccount
<1>7. \A x : LET t == [s EXCEPT !.finished = x] IN t.jobs = s.jobs /\ t.current = s.current
  BY DEF IsAccount
<1>8. CASE m.kind = "plan"
  <2> DEFINE x == [j \in DOMAIN s.jobs \cup m.specs |-> IF j \in DOMAIN s.jobs THEN s.jobs[j] ELSE JobState]
             t == [s EXCEPT !.jobs = x]
  <2>1. apply(s, m) = t
    BY <1>8 DEF apply, install_specs
  <2>2. /\ DOMAIN x = DOMAIN s.jobs \cup m.specs /\ (\A j \in DOMAIN s.jobs : x[j] = s.jobs[j])
        /\ \A j \in DOMAIN x : j \in DOMAIN s.jobs \/ x[j].status \notin Over
    BY DEF JobState, Over
  <2> HIDE DEF x
  <2>3. t.jobs = x /\ t.current = s.current
    BY <1>5
  <2> HIDE DEF t
  <2>4. Sane(t)
    BY <1>1, <2>2, <2>3 DEF Sane
  <2> QED BY <2>1, <2>4
<1>9. CASE m.kind = "log"
  <2>1. PICK x : apply(s, m) = [s EXCEPT !.logs = x]
    BY <1>9 DEF apply, push_log
  <2>2. apply(s, m).jobs = s.jobs /\ apply(s, m).current = s.current
    BY <1>6, <2>1
  <2> QED BY <2>2 DEF Sane
<1>10. CASE m.kind = "finished"
  <2>1. apply(s, m) = [s EXCEPT !.finished = m.from]
    BY <1>10 DEF apply
  <2>2. apply(s, m).jobs = s.jobs /\ apply(s, m).current = s.current
    BY <1>7, <2>1
  <2> QED BY <2>2 DEF Sane
<1>11. CASE m.kind \in {"start", "progress", "done", "skip", "fail"}
  <2>1. \/ apply(s, m) = s
        \/ apply(s, m) = set_current(set("running", p, d), id)
        \/ apply(s, m) = set_current(set("running", "part", "detail"), id)
        \/ apply(s, m) = leave_current(set("done", "full", d), id)
        \/ apply(s, m) = leave_current(set("skipped", "full", "reason"), id)
        \/ apply(s, m) = set_current(set("failed", p, "error"), id)
    BY <1>11 DEF apply, set
  <2> HIDE DEF p, d
  <2> QED BY <1>3, <1>4, <2>1
<1> QED BY <1>8, <1>9, <1>10, <1>11 DEF PgMsgs, PgKinds

\* A message about a job.
LEMMA JobStep ==
  ASSUME PgGood(pg), PgWorks, NEW m \in PgMsgs, m.kind # "finished", pg' = publish(m) PROVE PgGood(pg')
<1>1. pg.worker = "run" /\ pg.rep.finished = NoPg /\ pg.done = NoPg /\ IsAccount(pg.rep) /\ IsAccount(pg.disp) /\ pg.lines \in Nat
  BY DEF PgWorks, PgGood, PgEnd
<1>2. /\ IsPg(pg') /\ pg'.rep = apply(pg.rep, m) /\ pg'.percent = percent(pg'.rep.jobs) /\ pg'.lines = pg.lines /\ pg'.worker = pg.worker
      /\ pg'.done = pg.done /\ pg'.disp = pg.disp /\ IsAccount(pg'.rep) /\ pg'.chan \in PgChans /\ PgShown(pg')
  BY <1>1, PublishStep
<1>3. apply(pg.rep, m).finished = NoPg
  BY <1>1, ApplyFinished
<1>4. Sane(pg'.rep)
  BY <1>1, <1>2, SaneKept DEF PgGood
<1> QED BY <1>1, <1>2, <1>3, <1>4 DEF PgGood, PgEnd

\* An update that leaves the accounts and the channel alone.
LEMMA PgEndKept ==
  ASSUME NEW p, IsPg(p), NEW w, NEW d, NEW q, q = WithEnd(p, w, d)
  PROVE  /\ IsPg(q) /\ q.rep = p.rep /\ q.chan = p.chan /\ q.percent = p.percent /\ q.lines = p.lines /\ q.worker = w /\ q.done = d
         /\ q.disp = p.disp /\ q.pc = p.pc /\ q.result = p.result
<1>1. q = [rep |-> p.rep, chan |-> p.chan, sent |-> p.sent, lines |-> p.lines, worker |-> w, done |-> d,
           disp |-> p.disp, pc |-> p.pc, follow |-> p.follow, result |-> p.result, percent |-> p.percent]
  BY DEF IsPg, WithEnd
<1> QED BY <1>1 DEF IsPg

LEMMA PgPcKept ==
  ASSUME NEW p, IsPg(p), NEW x, NEW r, NEW f, NEW q, q = WithPc(p, x, r, f)
  PROVE  /\ IsPg(q) /\ q.rep = p.rep /\ q.chan = p.chan /\ q.percent = p.percent /\ q.lines = p.lines /\ q.worker = p.worker /\ q.done = p.done
         /\ q.disp = p.disp /\ q.pc = x /\ q.result = r /\ q.follow = f
<1>1. q = [rep |-> p.rep, chan |-> p.chan, sent |-> p.sent, lines |-> p.lines, worker |-> p.worker, done |-> p.done,
           disp |-> p.disp, pc |-> x, follow |-> f, result |-> r, percent |-> p.percent]
  BY DEF IsPg, WithPc
<1> QED BY <1>1 DEF IsPg

LEMMA PgChanKept ==
  ASSUME NEW p, IsPg(p), NEW c, NEW d, NEW l, NEW q, q = WithChan(p, c, d, l)
  PROVE  /\ IsPg(q) /\ q.rep = p.rep /\ q.chan = c /\ q.percent = p.percent /\ q.lines = l /\ q.worker = p.worker /\ q.done = p.done
         /\ q.disp = d /\ q.pc = p.pc /\ q.result = p.result
<1>1. q = [rep |-> p.rep, chan |-> c, sent |-> p.sent, lines |-> l, worker |-> p.worker, done |-> p.done,
           disp |-> d, pc |-> p.pc, follow |-> p.follow, result |-> p.result, percent |-> p.percent]
  BY DEF IsPg, WithChan
<1> QED BY <1>1 DEF IsPg

LEMMA PgParts ==
  ASSUME PgGood(pg)
  PROVE  /\ IsPg(pg) /\ IsAccount(pg.rep) /\ IsAccount(pg.disp) /\ pg.chan \in PgChans /\ pg.lines \in Nat
         /\ pg.percent = percent(pg.rep.jobs) /\ Sane(pg.rep) /\ PgEnd(pg) /\ PgShown(pg)
BY DEF PgGood

LEMMA JobsStep ==
  ASSUME PgGood(pg), add_jobs \/ job_start \/ job_progress \/ job_done \/ job_skip \/ job_fail PROVE PgGood(pg')
<1>1. NoPg \in PgIds /\ NoPg \in Nat \cup {NoPg, "ok", "fail"} /\ PgLeaves \subseteq PgIds /\ PgLate \subseteq PgLeaves /\ {} \in SUBSET PgLeaves
  BY ProgressAssumption DEF PgIds
<1>2. {"plan", "start", "progress", "done", "skip", "fail"} \subseteq PgKinds
  BY DEF PgKinds
<1>3. PICK kind \in {"plan", "start", "progress", "done", "skip", "fail"}, id \in PgIds, specs \in SUBSET PgLeaves :
        PgWorks /\ pg' = publish(PgMsg(kind, id, specs, NoPg))
  <2>1. CASE add_jobs
    <3>1. PICK j \in PgLate : PgWorks /\ pg' = publish(PgMsg("plan", NoPg, {j}, NoPg))
      BY <2>1 DEF add_jobs
    <3>2. {j} \in SUBSET PgLeaves
      BY <1>1, <3>1
    <3> QED BY <1>1, <3>1, <3>2
  <2>2. CASE job_start
    BY <1>1, <2>2 DEF job_start
  <2>3. CASE job_progress
    BY <1>1, <2>3 DEF job_progress
  <2>4. CASE job_done
    BY <1>1, <2>4 DEF job_done
  <2>5. CASE job_skip
    BY <1>1, <2>5 DEF job_skip
  <2>6. CASE job_fail
    BY <1>1, <2>6 DEF job_fail
  <2> QED BY <2>1, <2>2, <2>3, <2>4, <2>5, <2>6
<1> DEFINE m == PgMsg(kind, id, specs, NoPg)
<1>4. m \in PgMsgs /\ m.kind = kind
  BY <1>1, <1>2, <1>3 DEF PgMsg, PgMsgs
<1>5. m.kind # "finished"
  BY <1>3, <1>4
<1> HIDE DEF m
<1>6. PgWorks /\ pg' = publish(m)
  BY <1>3 DEF m
<1> QED BY <1>4, <1>5, <1>6, JobStep

LEMMA LinesStep ==
  ASSUME PgGood(pg), spawn_event_listener PROVE PgGood(pg')
<1> DEFINE m == PgMsg("log", NoPg, {}, pg.lines)
           c == Append(pg.chan, m)
           l == pg.lines + 1
<1>1. /\ IsPg(pg) /\ IsAccount(pg.rep) /\ IsAccount(pg.disp) /\ pg.chan \in PgChans /\ pg.lines \in Nat
      /\ pg.percent = percent(pg.rep.jobs) /\ Sane(pg.rep) /\ PgEnd(pg) /\ PgShown(pg)
  BY PgParts
<1>2. m \in PgMsgs /\ m.kind = "log"
  <2>1. "log" \in PgKinds /\ NoPg \in PgIds /\ {} \in SUBSET PgLeaves /\ pg.lines \in Nat \cup {NoPg, "ok", "fail"}
    BY <1>1 DEF PgKinds, PgIds
  <2> QED BY <2>1 DEF PgMsg, PgMsgs
<1>3. pg' = WithChan(pg, c, pg.disp, l)
  <2>1. pg' = [[pg EXCEPT !.lines = l] EXCEPT !.chan = Append(@, m)]
    BY DEF spawn_event_listener, PgSend
  <2> HIDE DEF m, l
  <2> QED BY <1>1, <2>1 DEF IsPg, c, WithChan
<1>4. c \in PgChans /\ l \in Nat
  BY <1>1, <1>2 DEF PgChans
<1>5. pg.pc \in {"loop", "drain"} /\ Catches(pg.disp, pg.chan, pg.rep)
  BY <1>1 DEF spawn_event_listener, PgShown
<1> HIDE DEF m
<1>6. Catches(pg.disp, c, pg.rep)
  BY <1>1, <1>2, <1>5, MoreToPass
<1> HIDE DEF c, l
<1>7. /\ IsPg(pg') /\ pg'.rep = pg.rep /\ pg'.chan = c /\ pg'.percent = pg.percent /\ pg'.lines = l /\ pg'.worker = pg.worker
      /\ pg'.done = pg.done /\ pg'.disp = pg.disp /\ pg'.pc = pg.pc /\ pg'.result = pg.result
  BY <1>1, <1>3, PgChanKept
<1>8. PgShown(pg')
  BY <1>1, <1>5, <1>6, <1>7 DEF PgShown
<1>9. PgEnd(pg')
  BY <1>1, <1>7 DEF PgEnd
<1> QED BY <1>1, <1>4, <1>7, <1>8, <1>9 DEF PgGood

LEMMA FinishedStep ==
  ASSUME PgGood(pg), finished PROVE PgGood(pg')
<1>1. PICK ok \in {"ok", "fail"} : pg.worker = "run" /\ pg' = [publish(PgMsg("finished", NoPg, {}, ok)) EXCEPT !.worker = "finished"]
  BY DEF finished
<1> DEFINE m == PgMsg("finished", NoPg, {}, ok)
           q == publish(m)
<1>2. m \in PgMsgs /\ m.kind = "finished" /\ m.from = ok
  <2>1. "finished" \in PgKinds /\ NoPg \in PgIds /\ {} \in SUBSET PgLeaves /\ ok \in Nat \cup {NoPg, "ok", "fail"}
    BY DEF PgKinds, PgIds
  <2> QED BY <2>1 DEF PgMsg, PgMsgs
<1> HIDE DEF m
<1>3. /\ IsPg(q) /\ q.rep = apply(pg.rep, m) /\ q.percent = percent(q.rep.jobs)
      /\ q.lines = pg.lines /\ q.worker = pg.worker /\ q.done = pg.done /\ q.disp = pg.disp /\ q.pc = pg.pc /\ q.result = pg.result
      /\ IsAccount(q.rep) /\ q.chan \in PgChans /\ PgShown(q)
  BY <1>1, <1>2, PublishStep
<1>4. pg' = [q EXCEPT !.worker = "finished"]
  BY <1>1 DEF m
<1> HIDE DEF q
<1>5. pg' = WithEnd(q, "finished", q.done)
  BY <1>3, <1>4 DEF WithEnd, IsPg
<1>6. /\ IsPg(pg') /\ pg'.rep = q.rep /\ pg'.chan = q.chan /\ pg'.percent = q.percent /\ pg'.lines = q.lines /\ pg'.worker = "finished"
      /\ pg'.done = q.done /\ pg'.disp = q.disp /\ pg'.pc = q.pc /\ pg'.result = q.result
  BY <1>3, <1>5, PgEndKept
<1>7. /\ IsAccount(pg.rep) /\ IsAccount(pg.disp) /\ pg.lines \in Nat /\ pg.done = NoPg /\ Sane(pg.rep)
  BY <1>1, PgParts DEF PgEnd
<1>11. Sane(pg'.rep)
  BY <1>2, <1>3, <1>6, <1>7, SaneKept
<1>8. pg'.rep.finished = ok
  BY <1>2, <1>3, <1>6, <1>7, ApplyFinished
<1>9. PgEnd(pg')
  BY <1>3, <1>6, <1>7, <1>8 DEF PgEnd
<1>10. PgShown(pg')
  <2>1. pg'.rep = q.rep /\ pg'.disp = q.disp /\ pg'.chan = q.chan /\ pg'.pc = pg.pc /\ pg'.result = pg.result
    BY <1>3, <1>6
  <2>2. pg.pc \notin {"drain"} /\ (pg.pc \in {"final", "joined"} => pg.result = "stopped")
    BY <1>1, PgParts DEF PgShown
  <2>3. pg.pc \in {"loop", "drain"} => Catches(q.disp, q.chan, q.rep)
    BY <1>3 DEF PgShown
  <2> QED BY <2>1, <2>2, <2>3 DEF PgShown
<1> QED BY <1>3, <1>6, <1>7, <1>9, <1>10, <1>11 DEF PgGood

\* The worker ends with d.
LEMMA RunEndsStep ==
  ASSUME PgGood(pg), NEW w, NEW d, pg' = WithEnd(pg, w, d), pg.worker # "gone",
         PgEnd([rep |-> pg.rep, worker |-> w, done |-> d])
  PROVE  PgGood(pg')
<1>1. /\ IsPg(pg) /\ IsAccount(pg.rep) /\ IsAccount(pg.disp) /\ pg.chan \in PgChans /\ pg.lines \in Nat
      /\ pg.percent = percent(pg.rep.jobs) /\ Sane(pg.rep) /\ PgEnd(pg) /\ PgShown(pg)
  BY PgParts
<1>2. /\ IsPg(pg') /\ pg'.rep = pg.rep /\ pg'.chan = pg.chan /\ pg'.percent = pg.percent /\ pg'.lines = pg.lines /\ pg'.worker = w
      /\ pg'.done = d /\ pg'.disp = pg.disp /\ pg'.pc = pg.pc /\ pg'.result = pg.result
  BY <1>1, PgEndKept
<1>3. PgEnd(pg')
  BY <1>2 DEF PgEnd
<1>4. PgShown(pg')
  BY <1>1, <1>2 DEF PgShown
<1> QED BY <1>1, <1>2, <1>3, <1>4 DEF PgGood

LEMMA ReturnsStep ==
  ASSUME PgGood(pg), PgReturns \/ PgPanics PROVE PgGood(pg')
<1>1. IsPg(pg) /\ PgEnd(pg)
  BY PgParts
<1>2. CASE pg.worker = "finished" /\ pg' = [pg EXCEPT !.worker = "gone", !.done = pg.rep.finished]
  <2>1. pg' = WithEnd(pg, "gone", pg.rep.finished)
    BY <1>2 DEF WithEnd
  <2>2. PgEnd([rep |-> pg.rep, worker |-> "gone", done |-> pg.rep.finished])
    BY <1>1, <1>2 DEF PgEnd
  <2> QED BY <1>2, <2>1, <2>2, RunEndsStep
<1>3. CASE pg.worker = "run" /\ pg' = [pg EXCEPT !.worker = "gone", !.done = "fail"]
  <2>1. pg' = WithEnd(pg, "gone", "fail")
    BY <1>3 DEF WithEnd
  <2>2. PgEnd([rep |-> pg.rep, worker |-> "gone", done |-> "fail"])
    BY <1>1, <1>3 DEF PgEnd
  <2> QED BY <1>3, <2>1, <2>2, RunEndsStep
<1>4. CASE pg.worker = "run" /\ pg' = [pg EXCEPT !.worker = "panicked"]
  <2>1. pg' = WithEnd(pg, "panicked", pg.done)
    BY <1>1, <1>4 DEF WithEnd, IsPg
  <2>2. PgEnd([rep |-> pg.rep, worker |-> "panicked", done |-> pg.done])
    BY <1>1, <1>4 DEF PgEnd
  <2> QED BY <1>4, <2>1, <2>2, RunEndsStep
<1> QED BY <1>2, <1>3, <1>4 DEF PgReturns, PgPanics

\* The dashboard moves on without a message.
LEMMA PcStep ==
  ASSUME PgGood(pg), NEW x, NEW r, NEW f, pg' = WithPc(pg, x, r, f),
         x \in {"loop", "drain"} => pg.pc \in {"loop", "drain"},
         x = "drain" => pg.worker = "gone" /\ r = pg.done,
         x \in {"final", "joined"} /\ r # "stopped" => pg.worker = "gone" /\ r = pg.done /\ View(pg.disp) = View(pg.rep),
         x = "joined" => f = TRUE
  PROVE  PgGood(pg')
<1>1. /\ IsPg(pg) /\ IsAccount(pg.rep) /\ IsAccount(pg.disp) /\ pg.chan \in PgChans /\ pg.lines \in Nat
      /\ pg.percent = percent(pg.rep.jobs) /\ Sane(pg.rep) /\ PgEnd(pg) /\ PgShown(pg)
  BY PgParts
<1>2. /\ IsPg(pg') /\ pg'.rep = pg.rep /\ pg'.chan = pg.chan /\ pg'.percent = pg.percent /\ pg'.lines = pg.lines
      /\ pg'.worker = pg.worker /\ pg'.done = pg.done /\ pg'.disp = pg.disp /\ pg'.pc = x /\ pg'.result = r /\ pg'.follow = f
  BY <1>1, PgPcKept
<1>3. PgEnd(pg')
  BY <1>1, <1>2 DEF PgEnd
<1>4. PgShown(pg')
  BY <1>1, <1>2 DEF PgShown
<1> QED BY <1>1, <1>2, <1>3, <1>4 DEF PgGood

LEMMA TakesStep ==
  ASSUME PgGood(pg), pg.pc \in {"loop", "drain"}, pg.chan # << >>, pg' = print_plain_message(pg) PROVE PgGood(pg')
<1> DEFINE d == apply(pg.disp, Head(pg.chan))
           c == Tail(pg.chan)
<1>1. /\ IsPg(pg) /\ IsAccount(pg.rep) /\ IsAccount(pg.disp) /\ pg.chan \in PgChans /\ pg.lines \in Nat
      /\ pg.percent = percent(pg.rep.jobs) /\ Sane(pg.rep) /\ PgEnd(pg) /\ PgShown(pg)
  BY PgParts
<1>2. Catches(pg.disp, pg.chan, pg.rep)
  BY <1>1 DEF PgShown
<1>3. Catches(d, c, pg.rep) /\ IsAccount(d)
  BY <1>1, <1>2, LessToPass
<1>4. c \in PgChans
  BY <1>1 DEF PgChans
<1>5. pg' = WithChan(pg, c, d, pg.lines)
  BY <1>1 DEF print_plain_message, WithChan, IsPg
<1> HIDE DEF c, d
<1>6. /\ IsPg(pg') /\ pg'.rep = pg.rep /\ pg'.chan = c /\ pg'.percent = pg.percent /\ pg'.lines = pg.lines /\ pg'.worker = pg.worker
      /\ pg'.done = pg.done /\ pg'.disp = d /\ pg'.pc = pg.pc /\ pg'.result = pg.result
  BY <1>1, <1>5, PgChanKept
<1>7. PgEnd(pg')
  BY <1>1, <1>6 DEF PgEnd
<1>8. PgShown(pg')
  BY <1>1, <1>3, <1>6 DEF PgShown
<1> QED BY <1>1, <1>3, <1>4, <1>6, <1>7, <1>8 DEF PgGood

LEMMA SessionStep ==
  ASSUME PgGood(pg), run_ui_session PROVE PgGood(pg')
<1>1. IsPg(pg) /\ PgEnd(pg) /\ PgShown(pg) /\ pg.pc \in {"loop", "drain"}
  BY PgParts DEF run_ui_session
<1>2. CASE pg.pc = "loop" /\ pg.done # NoPg /\ pg' = [pg EXCEPT !.pc = "drain", !.result = pg.done]
  <2>1. pg' = WithPc(pg, "drain", pg.done, pg.follow)
    BY <1>1, <1>2 DEF WithPc, IsPg
  <2>2. pg.worker = "gone"
    BY <1>1, <1>2 DEF PgEnd
  <2> QED BY <1>1, <2>1, <2>2, PcStep
<1>3. CASE pg' = [pg EXCEPT !.pc = "final", !.result = "stopped"]
  <2>1. pg' = WithPc(pg, "final", "stopped", pg.follow)
    BY <1>1, <1>3 DEF WithPc, IsPg
  <2> QED BY <2>1, PcStep
<1>4. CASE pg.chan # << >> /\ pg' = print_plain_message(pg)
  BY <1>1, <1>4, TakesStep
<1>5. CASE pg.pc = "drain" /\ pg.chan = << >> /\ pg' = [pg EXCEPT !.pc = "final"]
  <2>1. pg' = WithPc(pg, "final", pg.result, pg.follow)
    BY <1>1, <1>5 DEF WithPc, IsPg
  <2>2. Catches(pg.disp, << >>, pg.rep) /\ pg.worker = "gone" /\ pg.result = pg.done
    BY <1>1, <1>5 DEF PgShown
  <2>3. View(pg.disp) = View(pg.rep)
    BY <2>2, NothingToPass
  <2> QED BY <2>1, <2>2, <2>3, PcStep
<1> QED BY <1>2, <1>3, <1>4, <1>5 DEF run_ui_session

LEMMA DrawStep ==
  ASSUME PgGood(pg), draw_final PROVE PgGood(pg')
<1>1. /\ IsPg(pg) /\ IsAccount(pg.rep) /\ IsAccount(pg.disp) /\ pg.chan \in PgChans /\ pg.lines \in Nat
      /\ pg.percent = percent(pg.rep.jobs) /\ Sane(pg.rep) /\ PgEnd(pg) /\ PgShown(pg) /\ pg.pc = "final"
  BY PgParts DEF draw_final
<1>2. CASE pg.follow /\ pg' = [pg EXCEPT !.pc = "joined"]
  <2>1. pg' = WithPc(pg, "joined", pg.result, TRUE)
    <3>1. pg' = [pg EXCEPT !.pc = "joined", !.result = pg.result, !.follow = pg.follow]
      BY <1>1, <1>2 DEF IsPg
    <3> QED BY <1>2, <3>1 DEF WithPc
  <2>2. pg.result # "stopped" => pg.worker = "gone" /\ pg.result = pg.done /\ View(pg.disp) = View(pg.rep)
    BY <1>1 DEF PgShown
  <2> QED BY <2>1, <2>2, PcStep
<1>3. CASE ~pg.follow /\ pg' = [pg EXCEPT !.pc = "joined", !.disp = mark_failed(@)]
  <2> DEFINE d == Marked(pg.disp, pg.result)
             e == Marked(pg.rep, pg.result)
  <2>1. mark_failed(pg.disp) = d
    BY DEF mark_failed, Marked
  <2> HIDE DEF d, e
  <2>2. pg' = [pg EXCEPT !.pc = "joined", !.disp = d]
    BY <1>3, <2>1
  <2>3. /\ IsPg(pg') /\ pg'.rep = pg.rep /\ pg'.chan = pg.chan /\ pg'.percent = pg.percent /\ pg'.lines = pg.lines
        /\ pg'.worker = pg.worker /\ pg'.done = pg.done /\ pg'.disp = d /\ pg'.pc = "joined" /\ pg'.result = pg.result
        /\ pg'.follow = pg.follow
    BY <1>1, <2>2 DEF IsPg
  <2>4. IsAccount(d)
    <3>1. Alike(pg.disp, pg.disp)
      BY <1>1 DEF Alike
    <3>2. pg.disp.current \in PgIds => PgMsg("fail", pg.disp.current, {}, NoPg) \in PgMsgs
      BY DEF PgMsg, PgMsgs, PgKinds
    <3>3. CASE pg.disp.current \in PgIds
      BY <1>1, <3>1, <3>2, <3>3, ApplyAlike DEF d, Marked, Alike
    <3>4. CASE pg.disp.current \notin PgIds
      <4> DEFINE s == pg.disp
                 m == PgMsg("fail", s.current, {}, NoPg)
                 u == set_job(s, s.current, "failed", job_of(s, s.current).progress, "error")
      <4>1. m.kind = "fail" /\ m.id = s.current
        BY DEF PgMsg
      <4>2. apply(s, m) = set_current(u, s.current)
        BY <4>1 DEF apply
      <4>3. IsAccount(u)
        BY <1>1, SetOne
      <4>4. IsAccount(set_current(u, s.current))
        BY <4>3, SetCurrent
      <4> QED BY <1>1, <4>2, <4>4 DEF d, Marked
    <3> QED BY <3>3, <3>4
  <2>5. pg.result # "stopped" => pg.worker = "gone" /\ pg.result = pg.done /\ View(d) = View(e)
    <3> SUFFICES ASSUME pg.result # "stopped" PROVE pg.worker = "gone" /\ pg.result = pg.done /\ View(d) = View(e)
      OBVIOUS
    <3>1. pg.worker = "gone" /\ pg.result = pg.done /\ View(pg.disp) = View(pg.rep)
      BY <1>1 DEF PgShown
    <3>2. pg.disp.current = pg.rep.current /\ Alike(pg.disp, pg.rep)
      BY <1>1, <3>1, SameFields DEF Alike
    <3>3. PgMsg("fail", pg.rep.current, {}, NoPg) \in PgMsgs
      BY <1>1 DEF PgMsg, PgMsgs, PgKinds, Sane
    <3>4. Alike(d, e)
      BY <3>2, <3>3, ApplyAlike DEF d, e, Marked
    <3> QED BY <3>1, <3>4 DEF Alike
  <2>6. PgEnd(pg')
    BY <1>1, <2>3 DEF PgEnd
  <2>7. PgShown(pg')
    <3>1. ~pg'.follow
      BY <1>3, <2>3
    <3>2. pg'.result # "stopped" => View(pg'.disp) = View(IF pg'.follow THEN pg'.rep ELSE Marked(pg'.rep, pg'.result))
      BY <2>3, <2>5, <3>1 DEF e
    <3> QED BY <2>3, <2>5, <3>2 DEF PgShown
  <2> QED BY <1>1, <2>3, <2>4, <2>6, <2>7 DEF PgGood
<1> QED BY <1>2, <1>3 DEF draw_final

LEMMA DisplayMeans == PgGood(pg) => FinalDisplayComplete
<1> SUFFICES ASSUME PgGood(pg), pg.pc = "joined", pg.result # "stopped" PROVE FinalDisplayComplete
  BY DEF FinalDisplayComplete
<1> DEFINE e == Marked(pg.rep, pg.result)
           shown == IF pg.follow THEN pg.rep ELSE mark_failed(pg.rep)
<1>1. mark_failed(pg.rep) = e
  BY DEF mark_failed, Marked
<1>2. View(pg.disp) = View(shown)
  BY <1>1 DEF PgGood, PgShown
<1>3. pg.percent = percent(pg.rep.jobs) /\ pg.rep.finished \in {NoPg, pg.result} /\ IsAccount(pg.rep) /\ Sane(pg.rep)
  BY PgParts DEF PgShown, PgEnd
<1>4. /\ e.current = pg.rep.current /\ e.finished = pg.rep.finished /\ percent(e.jobs) = percent(pg.rep.jobs)
      /\ \A j \in DOMAIN pg.rep.jobs : pg.rep.jobs[j].status \in Over => e.jobs[j] = pg.rep.jobs[j]
      /\ pg.result = "fail" /\ pg.rep.current \in DOMAIN pg.rep.jobs => group_status(e.jobs) = "failed"
  BY <1>3, MarkKeeps
<1> HIDE DEF e
<1>5. /\ shown.current = pg.rep.current /\ shown.finished = pg.rep.finished /\ percent(shown.jobs) = percent(pg.rep.jobs)
      /\ \A j \in DOMAIN pg.rep.jobs : pg.rep.jobs[j].status \in Over => shown.jobs[j] = pg.rep.jobs[j]
      /\ pg.result = "fail" /\ ~pg.follow /\ pg.rep.current \in DOMAIN pg.rep.jobs => group_status(shown.jobs) = "failed"
  <2>1. CASE pg.follow
    BY <2>1
  <2>2. CASE ~pg.follow
    <3>1. shown = e
      BY <1>1, <2>2
    <3> HIDE DEF shown
    <3> QED BY <1>4, <3>1
  <2> QED BY <2>1, <2>2
<1> HIDE DEF shown
<1>6. pg.disp.jobs = shown.jobs /\ pg.disp.current = shown.current /\ pg.disp.finished = shown.finished
  BY <1>2, SameFields
<1> QED BY <1>3, <1>5, <1>6 DEF FinalDisplayComplete, shown, Over

LEMMA PgStep == PgGood(pg) /\ [PgNext]_pg => PgGood(pg')
<1> SUFFICES ASSUME PgGood(pg), [PgNext]_pg PROVE PgGood(pg')
  OBVIOUS
<1>1. CASE add_jobs \/ job_start \/ job_progress \/ job_done \/ job_skip \/ job_fail
  BY <1>1, JobsStep
<1>2. CASE spawn_event_listener
  BY <1>2, LinesStep
<1>3. CASE finished
  BY <1>3, FinishedStep
<1>4. CASE PgReturns \/ PgPanics
  BY <1>4, ReturnsStep
<1>5. CASE run_ui_session
  BY <1>5, SessionStep
<1>6. CASE is_ctrl_c
  <2>1. IsPg(pg) /\ PgShown(pg) /\ pg.pc = "loop" /\ pg' = [pg EXCEPT !.follow = TRUE]
    BY <1>6, PgParts DEF is_ctrl_c
  <2>2. pg' = WithPc(pg, "loop", pg.result, TRUE)
    BY <2>1 DEF WithPc, IsPg
  <2> QED BY <2>1, <2>2, PcStep
<1>9. CASE draw_final
  BY <1>9, DrawStep
<1>7. CASE draw_fails
  <2>1. IsPg(pg) /\ pg' = [pg EXCEPT !.pc = "lost", !.result = "draw"]
    BY <1>7, PgParts DEF draw_fails
  <2>2. pg' = WithPc(pg, "lost", "draw", pg.follow)
    BY <2>1 DEF WithPc, IsPg
  <2> QED BY <2>2, PcStep
<1>8. CASE UNCHANGED pg
  BY <1>8
<1> QED BY <1>1, <1>2, <1>3, <1>4, <1>5, <1>6, <1>7, <1>8, <1>9 DEF PgNext

\* The dashboard of apply, up and down, for any jobs, messages and lines of
\* other threads: when the session ends with the worker's result, it shows
\* the jobs, the current job, the outcome and the percentage of the worker's
\* own account, with the job that was current marked as failed if the run
\* failed, and that job is none the worker has reported as done or skipped
\* (run_ui_session looks at the result before the channel and empties the
\* channel before draw_final; leave_current moves on to a running job).
THEOREM FinalDisplayIsComplete == PgSpec => []FinalDisplayComplete
<1> DEFINE Inv == PgGood(pg)
<1>1. PgInit => Inv
  BY PgInitGood
<1>2. Inv /\ [PgNext]_pg => Inv'
  BY PgStep
<1>3. Inv => FinalDisplayComplete
  BY DisplayMeans
<1> HIDE DEF Inv
<1> QED BY <1>1, <1>2, <1>3, PTL DEF PgSpec
============================================================================
