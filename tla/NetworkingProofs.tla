-------------------------- MODULE NetworkingProofs --------------------------
(***************************************************************************)
(* The host's side of networking: recovery after changes of the host's     *)
(* network, the edge service with what the control plane pushes to it, and *)
(* the processes the edge service embeds.                                  *)
(***************************************************************************)
EXTENDS NetworkRecovery, EdgeServer, EdgeProcesses, TLAPS

-----------------------------------------------------------------------------
(* NetworkResilienceController.                                            *)

NrStates == {"stabilizing", "offline", "suspended", "recovering", "healthy", "captive", "conflict", "degraded"}

NrTypes ==
  nr \in [path : NrPaths \cup {NoNr}, known : NrPaths \cup {NoNr}, awake : BOOLEAN, stopped : BOOLEAN,
          gen : NrGens, state : NrStates, tasks : SUBSET NrGens, job : NrJobs \cup {NoNr},
          tried : NrGens \cup {NoNr}, fallbacks : [NrGens -> Nat], fine : NrGens \cup {NoNr},
          vm : [NrVms -> BOOLEAN], user : Nat]

\* No generation is ahead of the current one; jobs start in the order of
\* their generations, so a generation found healthy has no older job left
\* that could write over its state.
NrOrdered ==
  /\ \A g \in nr.tasks : g <= nr.gen
  /\ nr.job # NoNr => nr.job.gen <= nr.gen
  /\ nr.fine # NoNr => nr.fine <= nr.gen
  /\ (nr.fine = nr.gen /\ nr.job # NoNr) => nr.job.gen = nr.gen
  /\ nr.tried # NoNr => nr.tried <= nr.gen /\ (nr.job # NoNr => nr.tried <= nr.job.gen)
  /\ nr.path = NoNr => nr.known = NoNr

\* lastFallbackGeneration is written before the fallback begins.
NrOnce ==
  /\ \A g \in NrGens : nr.fallbacks[g] <= 1 /\ (nr.fallbacks[g] # 0 => nr.tried # NoNr /\ g <= nr.tried)
  /\ (nr.job # NoNr /\ nr.job.pc = "fallback") => nr.tried = nr.job.gen /\ nr.fallbacks[nr.job.gen] = 0

\* Someone looks after the current generation.
NrTended ==
  /\ (~nr.stopped /\ nr.awake /\ NrSat) =>
       \/ nr.gen \in nr.tasks \/ (nr.job # NoNr /\ nr.job.gen = nr.gen)
       \/ nr.fine = nr.gen /\ (nr.job = NoNr => nr.state = "healthy")
  /\ ~NrSat => nr.gen \notin nr.tasks /\ nr.job = NoNr

NrInv == NrTypes /\ NrOrdered /\ NrOnce /\ NrTended

LEMMA NrFacts ==
  ASSUME NrTypes
  PROVE  /\ nr.gen \in NrGens /\ NrGens \subseteq Nat
         /\ nr.gen < MaxNrGen => nr.gen + 1 \in NrGens
         /\ nr.job # NoNr => nr.job \in NrJobs /\ nr.job.gen \in NrGens
         /\ nr.tasks \subseteq NrGens
         /\ NoNr \notin NrGens
         /\ \A j \in NrJobs : j # NoNr
<1>1. nr.gen \in NrGens /\ MaxNrGen \in Nat /\ nr.tasks \subseteq NrGens
  BY NrAssumption DEF NrTypes
<1>2. nr.gen < MaxNrGen => nr.gen + 1 \in NrGens
  BY <1>1 DEF NrGens
<1>3. nr.job # NoNr => nr.job \in NrJobs /\ nr.job.gen \in NrGens
  BY DEF NrTypes, NrJobs
<1>4. NrGens \subseteq Nat
  BY <1>1 DEF NrGens
<1> QED BY <1>1, <1>2, <1>3, <1>4, NrAssumption

\* The fields the invariant is about; all but path, vm and user.
NrSame(n) ==
  /\ n.known = nr.known /\ n.awake = nr.awake /\ n.stopped = nr.stopped /\ n.gen = nr.gen
  /\ n.tried = nr.tried /\ n.fallbacks = nr.fallbacks /\ n.fine = nr.fine

\* Sleep, wake, a new path and the end of the controller: a new generation.
LEMMA NewGeneration ==
  ASSUME NrInv, nr.gen < MaxNrGen, nr'.gen = nr.gen + 1, nr'.job = nr.job, nr'.tried = nr.tried,
         nr'.fallbacks = nr.fallbacks, nr'.fine = nr.fine, nr'.path = nr.path, nr.path = NoNr => nr'.known = NoNr,
         nr'.tasks \in {nr.tasks, nr.tasks \cup {nr.gen + 1}},
         (~nr'.stopped /\ nr'.awake /\ NrSat') => nr'.tasks = nr.tasks \cup {nr.gen + 1},
         ~NrSat' => nr'.tasks = nr.tasks /\ nr.job = NoNr
  PROVE  NrOrdered' /\ NrOnce' /\ NrTended'
<1>1. NrTypes /\ NrOrdered /\ NrOnce /\ NrTended
  BY DEF NrInv
<1>2. /\ nr.gen \in Nat /\ nr.tasks \subseteq Nat
      /\ nr.job # NoNr => nr.job.gen \in Nat
      /\ nr.fine # NoNr => nr.fine \in Nat
      /\ nr.tried # NoNr => nr.tried \in Nat
      /\ NoNr \notin NrGens /\ nr'.gen \in NrGens
  BY <1>1, NrFacts DEF NrTypes
<1>3. nr'.gen \notin nr.tasks /\ \A g \in nr'.tasks : g <= nr'.gen
  BY <1>1, <1>2 DEF NrOrdered
<1>4. nr'.fine # nr'.gen /\ (nr'.fine # NoNr => nr'.fine <= nr'.gen)
  BY <1>1, <1>2 DEF NrOrdered
<1>5. NrOrdered'
  BY <1>1, <1>2, <1>3, <1>4 DEF NrOrdered
<1>6. NrOnce'
  BY <1>1 DEF NrOnce
<1>7. NrTended'
  BY <1>3, <1>4 DEF NrTended
<1> QED BY <1>5, <1>6, <1>7

\* A job goes on.
LEMMA JobGoesOn ==
  ASSUME NrInv, NrSame(nr'), nr'.path = nr.path, nr'.tasks = nr.tasks,
         nr.job # NoNr, nr'.job # NoNr, nr'.job.gen = nr.job.gen, nr'.job.pc # "fallback"
  PROVE  NrOrdered' /\ NrOnce' /\ NrTended'
<1>1. NrOrdered /\ NrOnce /\ NrTended
  BY DEF NrInv
<1>2. NrOrdered' /\ NrOnce'
  BY <1>1 DEF NrSame, NrOrdered, NrOnce
<1>3. NrSat' = NrSat
  BY DEF NrSame, NrSat
<1>4. NrTended'
  BY <1>1, <1>3 DEF NrSame, NrTended
<1> QED BY <1>2, <1>4

\* A job ends, to be repeated or because its generation is over.
LEMMA JobEnds ==
  ASSUME NrInv, NrSame(nr'), nr'.path = nr.path, nr'.job = NoNr, nr.job # NoNr,
         \/ nr'.tasks = nr.tasks \cup {nr.job.gen}
         \/ nr'.tasks = nr.tasks /\ ~NrActive(nr.job.gen)
  PROVE  NrOrdered' /\ NrOnce' /\ NrTended'
<1>1. NrTypes /\ NrOrdered /\ NrOnce /\ NrTended
  BY DEF NrInv
<1>2. NrOrdered'
  BY <1>1 DEF NrSame, NrOrdered
<1>3. NrOnce'
  BY <1>1 DEF NrSame, NrOnce
<1>4. NrSat' = NrSat /\ NrSat
  BY <1>1 DEF NrSame, NrSat, NrTended
<1>5. NrTended'
  BY <1>1, <1>4 DEF NrSame, NrTended, NrActive, NrOrdered
<1> QED BY <1>2, <1>3, <1>5

\* A probe of the job's generation finds everything healthy.
LEMMA JobIsHealthy ==
  ASSUME NrInv, nr.job # NoNr, nr' = NrHealthy([nr EXCEPT !.state = "healthy"])
  PROVE  NrInv'
<1>1. NrTypes /\ NrOrdered /\ NrOnce /\ NrTended
  BY DEF NrInv
<1>2. NrTypes'
  BY <1>1, NrFacts DEF NrTypes, NrHealthy, NrStates
<1>3. /\ nr'.known = nr.known /\ nr'.awake = nr.awake /\ nr'.stopped = nr.stopped /\ nr'.gen = nr.gen
      /\ nr'.tried = nr.tried /\ nr'.fallbacks = nr.fallbacks /\ nr'.path = nr.path /\ nr'.tasks = nr.tasks
      /\ nr'.fine = nr.job.gen /\ nr'.job = NoNr /\ nr'.state = "healthy"
  BY <1>1 DEF NrTypes, NrHealthy
<1>4. NrOrdered' /\ NrOnce'
  BY <1>1, <1>3 DEF NrOrdered, NrOnce
<1>5. NrSat' = NrSat
  BY <1>3 DEF NrSat
<1>6. NrTended'
  BY <1>1, <1>3, <1>5 DEF NrTended, NrOrdered
<1> QED BY <1>2, <1>4, <1>6 DEF NrInv

LEMMA JobRetries ==
  ASSUME NrInv, nr.job # NoNr, NEW s \in NrStates, nr' = schedulePassiveRetry([nr EXCEPT !.state = s])
  PROVE  NrInv'
<1>1. NrTypes'
  BY NrFacts DEF NrInv, NrTypes, schedulePassiveRetry
<1>2. NrSame(nr') /\ nr'.path = nr.path /\ nr'.job = NoNr /\ nr'.tasks = nr.tasks \cup {nr.job.gen}
  BY DEF NrInv, NrTypes, schedulePassiveRetry, NrSame
<1> QED BY <1>1, <1>2, JobEnds DEF NrInv

LEMMA RetryOfSelf ==
  ASSUME NrTypes PROVE nr.state \in NrStates /\ nr = [nr EXCEPT !.state = nr.state]
  BY DEF NrTypes

LEMMA RecoverStep == ASSUME NrInv, recover PROVE NrInv'
<1>1. NrTypes /\ NrOrdered /\ NrOnce /\ NrTended
  BY DEF NrInv
<1>2. PICK g \in nr.tasks : nr' = NrAttempt([nr EXCEPT !.tasks = @ \ {g}], g)
  BY DEF recover
<1>3. nr.job = NoNr /\ g \in NrGens /\ g \in Nat /\ nr.gen \in Nat
  BY <1>1, NrFacts DEF recover
<1>4. CASE ~NrActive(g)
  <2>1. nr' = [nr EXCEPT !.tasks = @ \ {g}, !.job = NoNr]
    BY <1>1, <1>2, <1>4 DEF NrAttempt, NrTypes
  <2>2. NrSame(nr') /\ nr'.path = nr.path /\ nr'.job = NoNr /\ nr'.state = nr.state /\ nr'.tasks = nr.tasks \ {g}
    BY <1>1, <2>1 DEF NrTypes, NrSame
  <2>3. NrTypes'
    BY <1>1, <2>1 DEF NrTypes
  <2>4. NrOrdered' /\ NrOnce'
    BY <1>1, <1>3, <2>2 DEF NrSame, NrOrdered, NrOnce
  <2>5. NrSat' = NrSat
    BY <2>2 DEF NrSame, NrSat
  <2>6. NrTended'
    BY <1>1, <1>3, <1>4, <2>2, <2>5 DEF NrSame, NrTended, NrActive
  <2> QED BY <2>3, <2>4, <2>6 DEF NrInv
<1>5. CASE NrActive(g)
  <2> DEFINE job == [gen |-> g, pc |-> "probe", vms |-> {}]
  <2>1. job \in NrJobs /\ job.gen = g /\ job.pc = "probe" /\ job # NoNr
    BY <1>1, <1>3, NrFacts DEF NrJobs, NrPcs
  <2>2. nr' = [nr EXCEPT !.tasks = @ \ {g}, !.state = "recovering", !.job = job]
    BY <1>1, <1>2, <1>5 DEF NrAttempt, NrTypes
  <2> HIDE DEF job
  <2>3. NrSame(nr') /\ nr'.path = nr.path /\ nr'.job = job /\ nr'.tasks = nr.tasks \ {g}
    BY <1>1, <2>2 DEF NrTypes, NrSame
  <2>4. NrTypes'
    BY <1>1, <2>1, <2>2 DEF NrTypes, NrStates
  <2>5. g = nr.gen /\ NrSat
    BY <1>5 DEF NrActive
  <2>6. NrOrdered' /\ NrOnce'
    BY <1>1, <1>3, <2>1, <2>3, <2>5 DEF NrSame, NrOrdered, NrOnce
  <2>7. NrTended'
    BY <2>1, <2>3, <2>5 DEF NrSame, NrTended, NrSat
  <2> QED BY <2>4, <2>6, <2>7 DEF NrInv
<1> QED BY <1>4, <1>5

LEMMA BackoffStep == ASSUME NrInv, backoff_ends PROVE NrInv'
<1> DEFINE g == nr.job.gen
           job == [gen |-> g, pc |-> "probe", vms |-> {}]
<1>1. NrTypes /\ nr.job # NoNr /\ g \in NrGens /\ nr' = NrAttempt(nr, g)
  BY NrFacts DEF NrInv, backoff_ends, NrAt
<1>2. CASE NrActive(g)
  <2>1. job \in NrJobs /\ job.gen = g /\ job.pc = "probe" /\ job # NoNr
    BY <1>1, NrFacts DEF NrJobs, NrPcs
  <2>2. nr' = [nr EXCEPT !.state = "recovering", !.job = job]
    BY <1>1, <1>2 DEF NrAttempt
  <2> HIDE DEF job
  <2>3. NrTypes'
    BY <1>1, <2>1, <2>2 DEF NrTypes, NrStates
  <2>4. NrSame(nr') /\ nr'.path = nr.path /\ nr'.job = job /\ nr'.tasks = nr.tasks
    BY <1>1, <2>2 DEF NrTypes, NrSame
  <2> QED BY <1>1, <2>1, <2>3, <2>4, JobGoesOn DEF NrInv
<1>3. CASE ~NrActive(g)
  <2>1. nr' = [nr EXCEPT !.job = NoNr]
    BY <1>1, <1>3 DEF NrAttempt
  <2>2. NrTypes' /\ NrSame(nr') /\ nr'.path = nr.path /\ nr'.job = NoNr /\ nr'.tasks = nr.tasks
    BY <1>1, <2>1 DEF NrTypes, NrSame
  <2> QED BY <1>1, <1>3, <2>2, JobEnds DEF NrInv
<1> QED BY <1>2, <1>3

\* A step within a job.
LEMMA NextPc ==
  ASSUME NrInv, nr.job # NoNr, NEW s \in NrStates, NEW pc \in NrPcs, pc # "fallback",
         nr' = [nr EXCEPT !.state = s, !.job.pc = pc]
  PROVE  NrInv'
<1>1. NrTypes /\ nr.job \in NrJobs
  BY NrFacts DEF NrInv
<1>2. [nr.job EXCEPT !.pc = pc] \in NrJobs /\ [nr.job EXCEPT !.pc = pc].gen = nr.job.gen /\ [nr.job EXCEPT !.pc = pc].pc = pc
  BY <1>1 DEF NrJobs
<1>3. nr'.job = [nr.job EXCEPT !.pc = pc] /\ NrSame(nr') /\ nr'.path = nr.path /\ nr'.tasks = nr.tasks
  BY <1>1 DEF NrTypes, NrSame
<1>4. NrTypes'
  BY <1>1, <1>2 DEF NrTypes
<1>5. nr'.job # NoNr
  BY <1>2, <1>3, NrAssumption
<1> QED BY <1>2, <1>3, <1>4, <1>5, JobGoesOn DEF NrInv

LEMMA NextPcOfSelf ==
  ASSUME NrInv, nr.job # NoNr, NEW pc \in NrPcs, pc # "fallback", nr' = [nr EXCEPT !.job.pc = pc]
  PROVE  NrInv'
<1>1. nr.state \in NrStates /\ nr' = [nr EXCEPT !.state = nr.state, !.job.pc = pc]
  BY DEF NrInv, NrTypes
<1> QED BY <1>1, NextPc

LEMMA FinishStep == ASSUME NrInv, finishDegraded PROVE NrInv'
<1>1. NrTypes /\ NrOrdered /\ NrOnce /\ NrTended /\ nr.job # NoNr /\ nr.job \in NrJobs /\ nr.job.gen \in NrGens
  BY NrFacts DEF NrInv, finishDegraded, NrAt
<1>2. CASE nr.tried = nr.job.gen
  BY <1>1, <1>2, RetryOfSelf, JobRetries DEF finishDegraded
<1>3. CASE nr.tried # nr.job.gen
  <2> DEFINE job == [nr.job EXCEPT !.pc = "fallback"]
  <2>1. nr' = [nr EXCEPT !.tried = nr.job.gen, !.job.pc = "fallback"]
    BY <1>3 DEF finishDegraded
  <2>2. job \in NrJobs /\ job.gen = nr.job.gen /\ job # NoNr
    BY <1>1, NrFacts DEF NrJobs, NrPcs
  <2>3. /\ nr'.known = nr.known /\ nr'.awake = nr.awake /\ nr'.stopped = nr.stopped /\ nr'.gen = nr.gen
        /\ nr'.fallbacks = nr.fallbacks /\ nr'.fine = nr.fine /\ nr'.path = nr.path /\ nr'.tasks = nr.tasks
        /\ nr'.job = job /\ nr'.tried = nr.job.gen
    BY <1>1, <2>1 DEF NrTypes
  <2>4. NrTypes'
    BY <1>1, <2>1, <2>2 DEF NrTypes
  <2> HIDE DEF job
  <2>5. /\ nr.job.gen \in Nat /\ nr.gen \in Nat /\ NrGens \subseteq Nat /\ NoNr \notin NrGens
        /\ nr.tried # NoNr => nr.tried \in Nat /\ nr.tried < nr.job.gen
        /\ nr.fallbacks \in [NrGens -> Nat]
    BY <1>1, <1>3, NrFacts DEF NrOrdered, NrTypes
  <2>6. NrOrdered'
    BY <1>1, <2>2, <2>3, <2>5 DEF NrOrdered
  <2>7. nr.fallbacks[nr.job.gen] = 0
    BY <1>1, <2>5 DEF NrOnce
  <2>8. \A g \in NrGens : nr.fallbacks[g] # 0 => g <= nr.job.gen
    <3> SUFFICES ASSUME NEW g \in NrGens, nr.fallbacks[g] # 0 PROVE g <= nr.job.gen
      OBVIOUS
    <3>1. nr.tried # NoNr /\ g <= nr.tried
      BY <1>1 DEF NrOnce
    <3> QED BY <2>5, <3>1
  <2>9. NrOnce'
    BY <1>1, <2>2, <2>3, <2>5, <2>7, <2>8 DEF NrOnce
  <2>10. NrTended'
    BY <1>1, <2>2, <2>3 DEF NrTended, NrSat
  <2> QED BY <2>4, <2>6, <2>9, <2>10 DEF NrInv
<1> QED BY <1>2, <1>3

LEMMA FallbackStep == ASSUME NrInv, fallback_begins PROVE NrInv'
<1> DEFINE job == [nr.job EXCEPT !.vms = {v \in NrVms : nr.vm[v]}, !.pc = "stopping"]
           g == nr.job.gen
<1>1. /\ NrTypes /\ NrOrdered /\ NrOnce /\ NrTended /\ nr.job # NoNr /\ nr.job \in NrJobs /\ g \in NrGens
      /\ nr.job.pc = "fallback"
  BY NrFacts DEF NrInv, fallback_begins, NrAt
<1>2. job \in NrJobs /\ job.gen = g /\ job.pc = "stopping" /\ job # NoNr
  BY <1>1, NrFacts DEF NrJobs, NrPcs
<1>3. nr' = [nr EXCEPT !.job = job, !.fallbacks[g] = @ + 1]
  BY <1>1 DEF fallback_begins, NrTypes
<1> HIDE DEF job
<1>4. /\ nr'.known = nr.known /\ nr'.awake = nr.awake /\ nr'.stopped = nr.stopped /\ nr'.gen = nr.gen
      /\ nr'.tried = nr.tried /\ nr'.fine = nr.fine /\ nr'.path = nr.path /\ nr'.tasks = nr.tasks
      /\ nr'.job = job /\ nr'.fallbacks = [nr.fallbacks EXCEPT ![g] = @ + 1]
  BY <1>1, <1>3 DEF NrTypes
<1>5. NrTypes'
  <2> DEFINE counts == [nr.fallbacks EXCEPT ![g] = @ + 1]
  <2>1. counts \in [NrGens -> Nat] /\ nr' = [nr EXCEPT !.job = job, !.fallbacks = counts]
    BY <1>1, <1>3 DEF NrTypes
  <2> HIDE DEF counts
  <2> QED BY <1>1, <1>2, <2>1 DEF NrTypes
<1>6. nr.tried = g /\ nr.fallbacks[g] = 0 /\ NrGens \subseteq Nat /\ NoNr \notin NrGens
  BY <1>1, NrFacts DEF NrOnce
<1>7. NrOrdered'
  BY <1>1, <1>2, <1>4 DEF NrOrdered
<1>8. NrOnce'
  BY <1>1, <1>2, <1>4, <1>6 DEF NrOnce, NrTypes
<1>9. NrTended'
  BY <1>1, <1>2, <1>4 DEF NrTended, NrSat
<1> QED BY <1>5, <1>7, <1>8, <1>9 DEF NrInv

\* Steps of the host and the VMs that the controller does not see.
LEMMA UnseenStep ==
  ASSUME NrInv, NrTypes', NrSame(nr'), nr'.job = nr.job, nr'.tasks = nr.tasks, nr'.state = nr.state, nr'.path = nr.path \/ nr'.path # NoNr
  PROVE  NrInv'
<1>1. NrOrdered' /\ NrOnce'
  BY DEF NrInv, NrSame, NrOrdered, NrOnce
<1>2. NrTended'
  BY DEF NrInv, NrSame, NrTended, NrSat
<1> QED BY <1>1, <1>2 DEF NrInv

LEMMA NrInvInit == NrInit => NrInv
<1> SUFFICES ASSUME NrInit PROVE NrInv
  OBVIOUS
<1>1. 0 \in NrGens /\ NoNr \notin NrGens
  BY NrAssumption DEF NrGens
<1>2. NrTypes
  BY <1>1 DEF NrInit, NrTypes, NrStates
<1>3. /\ nr.path = NoNr /\ nr.known = NoNr /\ nr.gen = 0 /\ nr.tasks = {} /\ nr.job = NoNr /\ nr.tried = NoNr /\ nr.fine = NoNr
      /\ nr.fallbacks = [g \in NrGens |-> 0]
  BY DEF NrInit
<1>4. NrOrdered /\ NrOnce /\ NrTended
  BY <1>1, <1>3 DEF NrOrdered, NrOnce, NrTended, NrSat
<1> QED BY <1>2, <1>4 DEF NrInv

LEMMA NrInvStep == NrInv /\ [NrNext]_nr => NrInv'
<1> SUFFICES ASSUME NrInv, [NrNext]_nr PROVE NrInv'
  OBVIOUS
<1>t. NrTypes /\ NrOrdered /\ NrTended
  BY DEF NrInv
<1>1. CASE path_changes
  <2>1. PICK p \in NrPaths : nr' = [nr EXCEPT !.path = p]
    BY <1>1 DEF path_changes
  <2>2. NrTypes' /\ NrSame(nr') /\ nr'.job = nr.job /\ nr'.tasks = nr.tasks /\ nr'.state = nr.state /\ nr'.path = p
    BY <1>t, <2>1 DEF NrTypes, NrSame
  <2> QED BY <2>2, UnseenStep, NrAssumption
<1>2. CASE receive
  <2>1. NrTypes'
    BY ZenonT(40), <1>t, <1>2, NrFacts DEF receive, NrEvent, NrTypes, NrStates
  <2>2. /\ nr'.gen = nr.gen + 1 /\ nr'.job = nr.job /\ nr'.tried = nr.tried /\ nr'.fallbacks = nr.fallbacks
        /\ nr'.fine = nr.fine /\ nr'.path = nr.path /\ nr'.known = nr.path
        /\ nr'.tasks = IF nr.path.sat THEN nr.tasks \cup {nr.gen + 1} ELSE nr.tasks
    BY <1>t, <1>2 DEF receive, NrEvent, NrTypes
  <2>3. nr.job = NoNr /\ nr.path # NoNr /\ nr.gen < MaxNrGen
    BY <1>t, <1>2 DEF receive, NrOrdered
  <2>4. NrSat' = nr.path.sat /\ nr.path.sat \in BOOLEAN
    BY <1>t, <2>2, <2>3, NrAssumption DEF NrSat, NrTypes
  <2> QED BY <2>1, <2>2, <2>3, <2>4, NewGeneration DEF NrInv
<1>3. CASE willSleep
  <2>1. NrTypes'
    BY <1>t, <1>3, NrFacts DEF willSleep, NrEvent, NrTypes, NrStates
  <2>2. /\ nr'.gen = nr.gen + 1 /\ nr'.job = nr.job /\ nr'.tried = nr.tried /\ nr'.fallbacks = nr.fallbacks
        /\ nr'.fine = nr.fine /\ nr'.path = nr.path /\ nr'.known = nr.known /\ nr'.tasks = nr.tasks /\ nr'.awake = FALSE
    BY <1>t, <1>3 DEF willSleep, NrEvent, NrTypes
  <2>3. NrSat' = NrSat /\ nr.gen < MaxNrGen
    BY <1>3, <2>2 DEF NrSat, willSleep
  <2>4. ~NrSat => nr.job = NoNr
    BY <1>t DEF NrTended
  <2>5. nr.path = NoNr => nr.known = NoNr
    BY <1>t DEF NrOrdered
  <2> QED BY <2>1, <2>2, <2>3, <2>4, <2>5, NewGeneration DEF NrInv
<1>4. CASE didWake
  <2>1. NrTypes'
    BY <1>t, <1>4, NrFacts DEF didWake, NrEvent, NrTypes, NrStates
  <2>2. /\ nr'.gen = nr.gen + 1 /\ nr'.job = nr.job /\ nr'.tried = nr.tried /\ nr'.fallbacks = nr.fallbacks
        /\ nr'.fine = nr.fine /\ nr'.path = nr.path /\ nr'.known = nr.known
        /\ nr'.tasks = IF NrSat THEN nr.tasks \cup {nr.gen + 1} ELSE nr.tasks
    BY <1>t, <1>4 DEF didWake, NrEvent, NrTypes
  <2>3. NrSat' = NrSat /\ nr.gen < MaxNrGen
    BY <1>4, <2>2 DEF NrSat, didWake
  <2>4. ~NrSat => nr.job = NoNr
    BY <1>t DEF NrTended
  <2>5. nr.path = NoNr => nr.known = NoNr
    BY <1>t DEF NrOrdered
  <2> QED BY <2>1, <2>2, <2>3, <2>4, <2>5, NewGeneration DEF NrInv
<1>5. CASE controller_stops
  <2>1. NrTypes'
    BY <1>t, <1>5, NrFacts DEF controller_stops, NrTypes
  <2>2. /\ nr'.gen = nr.gen + 1 /\ nr'.job = nr.job /\ nr'.tried = nr.tried /\ nr'.fallbacks = nr.fallbacks
        /\ nr'.fine = nr.fine /\ nr'.path = nr.path /\ nr'.known = nr.known /\ nr'.tasks = nr.tasks /\ nr'.stopped = TRUE
    BY <1>t, <1>5 DEF controller_stops, NrTypes
  <2>3. NrSat' = NrSat /\ nr.gen < MaxNrGen
    BY <1>5, <2>2 DEF NrSat, controller_stops
  <2>4. ~NrSat => nr.job = NoNr
    BY <1>t DEF NrTended
  <2>5. nr.path = NoNr => nr.known = NoNr
    BY <1>t DEF NrOrdered
  <2> QED BY <2>1, <2>2, <2>3, <2>4, <2>5, NewGeneration DEF NrInv
<1>6. CASE recover
  BY <1>6, RecoverStep
<1>7. CASE probe_returns
  <2>1. nr.job # NoNr
    BY <1>7 DEF probe_returns, NrAt
  <2>2. CASE nr' = NrHealthy([nr EXCEPT !.state = "healthy"])
    BY <2>1, <2>2, JobIsHealthy
  <2>3. CASE \E s \in NrStates : nr' = schedulePassiveRetry([nr EXCEPT !.state = s])
    BY <2>1, <2>3, JobRetries
  <2>4. ASSUME NEW pc \in {"backoff", "last", "finish"}, nr' = [[nr EXCEPT !.state = "degraded"] EXCEPT !.job.pc = pc] PROVE NrInv'
    <3>1. nr' = [nr EXCEPT !.state = "degraded", !.job.pc = pc]
      BY <1>t, <2>4 DEF NrTypes
    <3> QED BY <2>1, <3>1, NextPc DEF NrPcs, NrStates
  <2> QED BY <1>7, <2>2, <2>3, <2>4 DEF probe_returns, NrResults, NrStates
<1>8. CASE backoff_ends
  BY <1>8, BackoffStep
<1>9. CASE budget_ends
  <2>1. nr.job # NoNr
    BY <1>9 DEF budget_ends, NrAt
  <2>2. CASE NrActive(nr.job.gen)
    BY <1>9, <2>1, <2>2, NextPcOfSelf DEF budget_ends, NrPcs
  <2>3. CASE ~NrActive(nr.job.gen)
    <3>1. nr' = [nr EXCEPT !.job = NoNr]
      BY <1>9, <2>3 DEF budget_ends
    <3>2. NrTypes' /\ NrSame(nr') /\ nr'.path = nr.path /\ nr'.job = NoNr /\ nr'.tasks = nr.tasks
      BY <1>t, <3>1 DEF NrTypes, NrSame
    <3> QED BY <2>1, <2>3, <3>2, JobEnds DEF NrInv
  <2> QED BY <2>2, <2>3
<1>10. CASE finishDegraded
  BY <1>10, FinishStep
<1>11. CASE fallback_declined \/ fallback_fails
  <2>1. nr.job # NoNr /\ nr' = schedulePassiveRetry(nr)
    BY <1>11 DEF fallback_declined, fallback_fails, NrAt
  <2> QED BY <1>t, <2>1, RetryOfSelf, JobRetries
<1>12. CASE fallback_begins
  BY <1>12, FallbackStep
<1>13. ASSUME NEW v, NEW up \in BOOLEAN, nr' = [nr EXCEPT !.vm[v] = up] PROVE NrInv'
  <2>1. NrTypes'
    BY <1>t, <1>13 DEF NrTypes
  <2>2. NrSame(nr') /\ nr'.job = nr.job /\ nr'.tasks = nr.tasks /\ nr'.state = nr.state /\ nr'.path = nr.path
    BY <1>t, <1>13 DEF NrTypes, NrSame
  <2> QED BY <2>1, <2>2, UnseenStep
<1>14. CASE fallback_stops \/ fallback_starts
  BY <1>13, <1>14 DEF fallback_stops, fallback_starts
<1>15. CASE fallback_recreates \/ fallback_succeeds
  BY <1>15, NextPcOfSelf DEF fallback_recreates, fallback_succeeds, NrAt, NrPcs
<1>16. CASE second_probe
  <2>1. nr.job # NoNr
    BY <1>16 DEF second_probe, NrAt
  <2>2. PICK s \in NrResults : nr' = IF s = "healthy" THEN NrHealthy([nr EXCEPT !.state = s]) ELSE schedulePassiveRetry([nr EXCEPT !.state = s])
    BY <1>16 DEF second_probe
  <2>3. s \in NrStates
    BY DEF NrResults, NrStates
  <2> QED BY <2>1, <2>2, <2>3, JobIsHealthy, JobRetries
<1>17. CASE user_acts
  <2>1. PICK v \in NrVms : nr' = [nr EXCEPT !.vm[v] = ~@, !.user = @ + 1]
    BY <1>17 DEF user_acts
  <2> DEFINE up == ~nr.vm[v]
           n == nr.user + 1
  <2>2. up \in BOOLEAN /\ n \in Nat
    BY <1>t DEF NrTypes
  <2>3. nr' = [nr EXCEPT !.vm[v] = up, !.user = n]
    BY <2>1
  <2> HIDE DEF up, n
  <2>4. NrTypes'
    BY <1>t, <2>2, <2>3 DEF NrTypes
  <2>5. NrSame(nr') /\ nr'.job = nr.job /\ nr'.tasks = nr.tasks /\ nr'.state = nr.state /\ nr'.path = nr.path
    BY <1>t, <2>3 DEF NrTypes, NrSame
  <2> QED BY <2>4, <2>5, UnseenStep
<1>18. CASE UNCHANGED nr
  BY <1>18 DEF NrInv, NrTypes, NrOrdered, NrOnce, NrTended, NrSat
<1> QED BY <1>1, <1>2, <1>3, <1>4, <1>5, <1>6, <1>7, <1>8, <1>9, <1>10, <1>11, <1>12, <1>14, <1>15, <1>16, <1>17, <1>18 DEF NrNext

\* However sleep, wake, new paths, probes and fallbacks interleave, on any
\* number of paths, VMs and generations: the current generation of a host
\* that is awake with a usable path is known to be healthy or looked after,
\* and VMs are restarted at most once per generation (receive, recover,
\* finishDegraded, attemptNetworkFallback).
THEOREM RecoveryIsSound == NrSpec => []RecoverySound
<1>1. NrInv => RecoverySound
  BY DEF NrInv, NrTended, NrOnce, RecoverySound
<1> QED BY <1>1, NrInvInit, NrInvStep, PTL DEF NrSpec

-----------------------------------------------------------------------------
(* EdgeServer: what vz-edge does with one push after the other.            *)

EdState ==
  [want : EdDesired, dbgen : Nat, thread : [EdThreads -> EdCallers \cup {NoEd}], lock : EdThreads \cup {NoEd},
   calls : SUBSET EdPushes, last : {"none", "ok", "failed"}, up : BOOLEAN, gen : Nat, desired : EdDesired,
   error : BOOLEAN, manifest : EdPushes \cup {NoEd}, job : EdJobs \cup {NoEd}, procs : EdIngress, served : EdServed,
   aliases : SUBSET EdCidrs, rules : SUBSET EdRules, host : EdHosts, kills : Nat, cut : BOOLEAN]

\* The rules on the host cover the networks of a, and so does every set of
\* rules that may still come and is not old.
Ruled(a, h) ==
  /\ h.overtaken \/ \A c \in a : EdProtects(h.rules, c)
  /\ \A r \in h.slowRules : r.old \/ \A c \in a : EdProtects(r.rules, c)

Guarded(a, h) == (\A c \in a : c \in h.aliases \/ c \in h.lost) /\ Ruled(a, h)

\* Every address vz-edge knows of is covered by a rule it knows of as well.
Covered(e) == (\A c \in e.aliases : EdProtects(e.rules, c)) /\ Guarded(e.aliases, e.host)

\* The rules of d are in force, and only a call given up earlier can change that.
RulesStand(h, d) ==
  d.cidrs = {} \/ ((h.rules = targetFirewall(d) \/ h.overtaken) /\ \A r \in h.slowRules : r.old)

\* How far an apply has come is what has been put in place.
Staged(e) ==
  e.job # NoEd =>
    /\ e.job.pc # "firewall" => targetFirewall(e.job.desired) \subseteq e.rules /\ Ruled(e.job.desired.cidrs, e.host)
    /\ e.job.pc \notin {"firewall", "alias"} => e.job.desired.cidrs \subseteq e.aliases
    /\ e.job.pc \in {"listeners", "remove", "rules", "unlink", "move"} => e.procs = e.job.desired.ingress
    /\ e.job.pc \in {"remove", "rules", "unlink", "move"} => EdServes(e.served, e.job.desired)
    /\ e.job.pc \in {"rules", "unlink", "move"} => e.aliases \subseteq e.job.desired.cidrs
    /\ e.job.pc \in {"unlink", "move"} => e.job.mode = "new" /\ RulesStand(e.host, e.job.desired)
    /\ e.job.mode = "restore" => e.manifest = [gen |-> e.job.gen, desired |-> e.job.desired]
    /\ e.job.mode = "rollback" => e.error

\* LastGoodServed as a property of any state.
Serving(e) ==
  (e.up /\ e.job = NoEd /\ ~e.error /\ e.gen > 0) =>
    /\ e.procs = e.desired.ingress /\ EdServes(e.served, e.desired) /\ e.aliases = e.desired.cidrs
    /\ RulesStand(e.host, e.desired)
    /\ e.manifest = [gen |-> e.gen, desired |-> e.desired]

DownIsEmpty(e) == ~e.up => e.gen = 0 /\ e.job = NoEd /\ e.aliases = {} /\ e.cut

EdgePart(e) == Covered(e) /\ Staged(e) /\ Serving(e) /\ DownIsEmpty(e)

\* The fields of vz-edge and the host.
SameEdge(e, n) ==
  /\ n.up = e.up /\ n.gen = e.gen /\ n.desired = e.desired /\ n.error = e.error /\ n.manifest = e.manifest
  /\ n.job = e.job /\ n.procs = e.procs /\ n.served = e.served /\ n.aliases = e.aliases /\ n.rules = e.rules
  /\ n.host = e.host

LEMMA SameEdgeKeeps ==
  ASSUME NEW e, NEW n, EdgePart(e), SameEdge(e, n), n.up \/ n.cut = e.cut
  PROVE  EdgePart(n)
<1>1. Covered(n) /\ Serving(n)
  BY DEF EdgePart, SameEdge, Covered, Serving
<1>2. Staged(n)
  BY DEF EdgePart, SameEdge, Staged
<1>3. DownIsEmpty(n)
  BY DEF EdgePart, SameEdge, DownIsEmpty
<1> QED BY <1>1, <1>2, <1>3 DEF EdgePart

-----------------------------------------------------------------------------
(* The pushes.                                                             *)

Waits(e, t) == e.thread[t] # NoEd /\ e.thread[t].pc = "wait"

\* Someone will push the database's state.
Dirty(e) == \E t \in EdThreads : e.thread[t] # NoEd /\ e.thread[t].pc = "push"

Quiet(e) == e.last = "ok" /\ ~e.cut /\ \A t \in EdThreads : ~Waits(e, t)

\* Who waits holds edgeReconcileLock and the newest generation, so its push is
\* what the database says, unless another push is to follow; once it is
\* answered, whatever an earlier caller left behind is older and refused.
PushPart(e) ==
  /\ \A t \in EdThreads : Waits(e, t) => e.lock = t /\ e.thread[t].gen = e.dbgen
  /\ \A c \in e.calls : c.gen <= e.dbgen
  /\ (e.job # NoEd /\ e.job.mode = "new") => e.job.gen <= e.dbgen
  /\ ((\E t \in EdThreads : Waits(e, t)) /\ ~Dirty(e)) =>
       /\ \A c \in e.calls : c.gen = e.dbgen => c.desired = e.want
       /\ (e.job # NoEd /\ e.job.mode = "new" /\ e.job.gen = e.dbgen) => e.job.desired = e.want
  /\ Quiet(e) => e.job = NoEd /\ (\A c \in e.calls : c.gen <= e.gen) /\ (Dirty(e) \/ e.desired = e.want)

\* The control plane's fields.
SamePushes(e, n) ==
  /\ n.want = e.want /\ n.dbgen = e.dbgen /\ n.thread = e.thread /\ n.lock = e.lock /\ n.calls = e.calls
  /\ n.last = e.last /\ n.cut = e.cut

\* Steps of an apply that keep the job, or end it.
LEMMA ApplyKeepsPushes ==
  ASSUME NEW e, NEW n, PushPart(e), SamePushes(e, n), e.job # NoEd,
         n.job = NoEd \/ (n.job.mode = e.job.mode /\ n.job.gen = e.job.gen /\ n.job.desired = e.job.desired) \/ n.job.mode # "new"
  PROVE  PushPart(n)
<1>1. Dirty(n) = Dirty(e) /\ Quiet(n) = Quiet(e) /\ \A t \in EdThreads : Waits(n, t) = Waits(e, t)
  BY DEF SamePushes, Dirty, Quiet, Waits
<1>2. ~Quiet(e)
  BY DEF PushPart
<1> QED BY <1>1, <1>2 DEF PushPart, SamePushes

\* A failed push: nobody waits any more.
LEMMA FailedPush ==
  ASSUME NEW e \in EdState, NEW t \in EdThreads, e.thread[t] # NoEd
  PROVE  /\ EdFailed(e, t) \in EdState
         /\ SameEdge(e, EdFailed(e, t)) /\ EdFailed(e, t).cut = e.cut
         /\ EdFailed(e, t).calls = e.calls /\ EdFailed(e, t).dbgen = e.dbgen
         /\ EdFailed(e, t).last = "failed" /\ EdFailed(e, t).lock = NoEd
         /\ ~Waits(EdFailed(e, t), t)
         /\ \A s \in EdThreads : s # t => EdFailed(e, t).thread[s] = e.thread[s]
<1> DEFINE n == EdFailed(e, t)
           again == EdThread("push", "rollback", 0)
<1>1. e.thread[t] \in EdCallers /\ e.thread[t].snap \in EdIngress
  BY DEF EdState, EdCallers
<1>2. again \in EdCallers /\ again # NoEd /\ again.pc = "push"
  BY EdgeServerAssumption DEF EdThread, EdCallers, EdIngress
<1> HIDE DEF again
<1>3. CASE e.thread[t].kind = "ingress"
  <2>1. n = [e EXCEPT !.want.ingress = e.thread[t].snap, !.thread[t] = again, !.last = "failed", !.lock = NoEd]
    BY <1>3 DEF EdFailed, EdState, again
  <2>2. [e.want EXCEPT !.ingress = e.thread[t].snap] \in EdDesired
    BY <1>1 DEF EdState, EdDesired
  <2>3. [e.thread EXCEPT ![t] = again] \in [EdThreads -> EdCallers \cup {NoEd}]
    BY <1>2 DEF EdState
  <2>4. n \in EdState
    BY ZenonT(40), <2>1, <2>2, <2>3 DEF EdState
  <2>5. /\ SameEdge(e, n) /\ n.cut = e.cut /\ n.calls = e.calls /\ n.dbgen = e.dbgen /\ n.last = "failed" /\ n.lock = NoEd
        /\ n.thread = [e.thread EXCEPT ![t] = again]
    BY <2>1 DEF EdState, SameEdge
  <2> HIDE DEF n
  <2>6. ~Waits(n, t) /\ \A s \in EdThreads : s # t => n.thread[s] = e.thread[s]
    BY <1>2, <2>5 DEF EdState, Waits
  <2> QED BY <2>4, <2>5, <2>6 DEF n
<1>4. CASE e.thread[t].kind # "ingress"
  <2>1. n = [e EXCEPT !.thread[t] = NoEd, !.last = "failed", !.lock = NoEd]
    BY <1>4 DEF EdFailed, EdState
  <2>2. n \in EdState
    <3>1. [e.thread EXCEPT ![t] = NoEd] \in [EdThreads -> EdCallers \cup {NoEd}]
      BY DEF EdState
    <3> QED BY ZenonT(40), <2>1, <3>1 DEF EdState
  <2>3. /\ SameEdge(e, n) /\ n.cut = e.cut /\ n.calls = e.calls /\ n.dbgen = e.dbgen /\ n.last = "failed" /\ n.lock = NoEd
        /\ n.thread = [e.thread EXCEPT ![t] = NoEd]
    BY <2>1 DEF EdState, SameEdge
  <2> HIDE DEF n
  <2>4. ~Waits(n, t) /\ \A s \in EdThreads : s # t => n.thread[s] = e.thread[s]
    BY <2>3 DEF EdState, Waits
  <2> QED BY <2>2, <2>3, <2>4 DEF n
<1> QED BY <1>3, <1>4

LEMMA FailedPushIsOver ==
  ASSUME NEW e \in EdState, NEW t \in EdThreads, e.thread[t] # NoEd, PushPart(e), e.lock \in {t, NoEd}
  PROVE  PushPart(EdFailed(e, t))
<1> DEFINE n == EdFailed(e, t)
<1>1. /\ n.calls = e.calls /\ n.dbgen = e.dbgen /\ n.last = "failed" /\ n.job = e.job /\ ~Waits(n, t)
      /\ \A s \in EdThreads : s # t => n.thread[s] = e.thread[s]
  BY FailedPush DEF SameEdge
<1> HIDE DEF n
<1>2. \A s \in EdThreads : ~Waits(n, s)
  BY <1>1, EdgeServerAssumption DEF PushPart, Waits
<1>3. ~Quiet(n)
  BY <1>1 DEF Quiet
<1>4. PushPart(n)
  BY <1>1, <1>2, <1>3 DEF PushPart
<1> QED BY <1>4 DEF n

\* The thread that waits for generation g.
WaitsFor(e, g) == {t \in EdThreads : e.thread[t] # NoEd /\ e.thread[t].pc = "wait" /\ e.thread[t].gen = g}

LEMMA AnswerNo ==
  ASSUME NEW e \in EdState, NEW g, PushPart(e)
  PROVE  EdAnswer(e, g, FALSE) \in EdState /\ SameEdge(e, EdAnswer(e, g, FALSE)) /\ EdAnswer(e, g, FALSE).cut = e.cut
         /\ PushPart(EdAnswer(e, g, FALSE))
<1> DEFINE t == CHOOSE x \in WaitsFor(e, g) : TRUE
<1>1. CASE WaitsFor(e, g) = {}
  <2>1. EdAnswer(e, g, FALSE) = e
    BY <1>1 DEF EdAnswer, WaitsFor
  <2> QED BY <2>1 DEF SameEdge
<1>2. CASE WaitsFor(e, g) # {}
  <2>1. EdAnswer(e, g, FALSE) = EdFailed(e, t)
    BY <1>2 DEF EdAnswer, WaitsFor
  <2>2. t \in WaitsFor(e, g)
    BY <1>2
  <2> HIDE DEF t
  <2>3. t \in EdThreads /\ e.thread[t] # NoEd /\ Waits(e, t)
    BY <2>2 DEF WaitsFor, Waits
  <2>4. e.lock = t
    BY <2>3 DEF PushPart
  <2>5. EdFailed(e, t) \in EdState /\ SameEdge(e, EdFailed(e, t)) /\ EdFailed(e, t).cut = e.cut
    BY <2>3, FailedPush
  <2>6. PushPart(EdFailed(e, t))
    BY <2>3, <2>4, FailedPushIsOver
  <2> QED BY <2>1, <2>5, <2>6
<1> QED BY <1>1, <1>2

Succeeds(n, t) == [n EXCEPT !.thread[t] = NoEd, !.lock = NoEd, !.last = "ok", !.cut = FALSE]

LEMMA SuccessFields ==
  ASSUME NEW n \in EdState, NEW t \in EdThreads
  PROVE  /\ Succeeds(n, t) \in EdState /\ SameEdge(n, Succeeds(n, t)) /\ ~Succeeds(n, t).cut
         /\ Succeeds(n, t).want = n.want /\ Succeeds(n, t).dbgen = n.dbgen /\ Succeeds(n, t).calls = n.calls
         /\ Succeeds(n, t).last = "ok" /\ Succeeds(n, t).thread = [n.thread EXCEPT ![t] = NoEd]
<1>1. [n.thread EXCEPT ![t] = NoEd] \in [EdThreads -> EdCallers \cup {NoEd}]
  BY DEF EdState
<1>2. Succeeds(n, t) \in EdState
  BY <1>1 DEF EdState, Succeeds
<1> QED BY <1>2 DEF EdState, SameEdge, Succeeds

\* A push that succeeds: vz-edge has its state and no job.
LEMMA AnswerYes ==
  ASSUME NEW e \in EdState, NEW n \in EdState, PushPart(e), e.job # NoEd, e.job.mode = "new", SamePushes(e, n),
         n.job = NoEd, n.gen = e.job.gen, n.desired = e.job.desired
  PROVE  LET a == EdAnswer(n, e.job.gen, TRUE)
         IN  a \in EdState /\ SameEdge(n, a) /\ (a.cut = n.cut \/ ~a.cut) /\ PushPart(a)
<1> DEFINE g == e.job.gen
           a == EdAnswer(n, g, TRUE)
           t == CHOOSE x \in WaitsFor(n, g) : TRUE
<1>1. CASE WaitsFor(n, g) = {}
  <2>1. a = n
    BY <1>1 DEF EdAnswer, WaitsFor
  <2>2. PushPart(n)
    BY ApplyKeepsPushes
  <2> QED BY <2>1, <2>2 DEF SameEdge
<1>2. CASE WaitsFor(n, g) # {}
  <2>1. a = Succeeds(n, t)
    BY <1>2 DEF EdAnswer, WaitsFor, Succeeds
  <2>2. t \in WaitsFor(n, g)
    BY <1>2
  <2> HIDE DEF t, a
  <2>3. t \in EdThreads /\ Waits(e, t) /\ e.thread[t].gen = g
    BY <2>2 DEF WaitsFor, Waits, SamePushes
  <2>4. e.lock = t /\ g = e.dbgen
    BY <2>3 DEF PushPart
  <2>5. /\ a \in EdState /\ SameEdge(n, a) /\ ~a.cut /\ a.want = n.want /\ a.dbgen = n.dbgen /\ a.calls = n.calls
        /\ a.last = "ok" /\ a.thread = [n.thread EXCEPT ![t] = NoEd]
    BY <2>1, <2>3, SuccessFields
  <2>6. /\ SameEdge(n, a) /\ ~a.cut /\ a.want = e.want /\ a.dbgen = e.dbgen /\ a.calls = e.calls /\ a.last = "ok"
        /\ a.thread = [e.thread EXCEPT ![t] = NoEd]
    BY <2>5 DEF SamePushes
  <2>7. a.job = NoEd /\ a.gen = e.dbgen /\ a.desired = e.job.desired
    BY <2>4, <2>6 DEF SameEdge
  <2>8. e.thread \in [EdThreads -> EdCallers \cup {NoEd}]
    BY DEF EdState
  <2> HIDE DEF g
  <2>9. \A s \in EdThreads : a.thread[s] = IF s = t THEN NoEd ELSE e.thread[s]
    BY <2>6, <2>8
  <2>10. \A s \in EdThreads : ~Waits(a, s)
    BY <2>4, <2>9 DEF PushPart, Waits
  <2>11. Dirty(e) => Dirty(a)
    BY <2>3, <2>9 DEF Dirty, Waits
  <2>12. Dirty(a) \/ a.desired = a.want
    BY <2>3, <2>4, <2>6, <2>7, <2>11 DEF PushPart, g
  <2>13. PushPart(a)
    BY <2>6, <2>7, <2>10, <2>12 DEF PushPart
  <2> QED BY <2>5, <2>6, <2>13 DEF a, g
<1> QED BY <1>1, <1>2

-----------------------------------------------------------------------------
(* Every step keeps both parts.                                            *)

EdInv == ed \in EdState /\ EdgePart(ed) /\ PushPart(ed)

\* A thread begins, has written or starts over: it will push what it wrote.
LEMMA CallerMoves ==
  ASSUME NEW e \in EdState, NEW n, NEW t \in EdThreads, NEW c \in EdCallers, PushPart(e), ~Waits(e, t),
         n.thread = [e.thread EXCEPT ![t] = c], c.pc = "push" \/ (c.pc = "write" /\ e.thread[t] = NoEd /\ n.want = e.want),
         n.dbgen = e.dbgen, n.lock = e.lock, n.calls = e.calls, n.last = e.last, n.cut = e.cut, SameEdge(e, n)
  PROVE  PushPart(n)
<1>1. e.thread \in [EdThreads -> EdCallers \cup {NoEd}] /\ c # NoEd
  BY EdgeServerAssumption DEF EdState
<1>2. n.thread[t] = c /\ \A s \in EdThreads : s # t => n.thread[s] = e.thread[s]
  BY <1>1
<1>3. \A s \in EdThreads : Waits(n, s) <=> Waits(e, s)
  BY <1>2 DEF Waits
<1>4. Quiet(n) <=> Quiet(e)
  BY <1>3 DEF Quiet
<1>5. Dirty(n) \/ (~Dirty(e) /\ n.want = e.want)
  BY <1>1, <1>2 DEF Dirty
<1>6. \A s \in EdThreads : Waits(n, s) => n.lock = s /\ n.thread[s].gen = n.dbgen
  BY <1>2, <1>3 DEF PushPart, Waits
<1> QED BY <1>3, <1>4, <1>5, <1>6 DEF PushPart, SameEdge

LEMMA MutateStep == ASSUME EdInv, NEW t \in EdThreads, mutate(t) PROVE EdInv'
<1> DEFINE c == EdThread("push", "keep", 0)
<1>1. PICK cidrs \in SUBSET EdCidrs : ed' = [ed EXCEPT !.want.cidrs = cidrs, !.thread[t] = c]
  BY DEF mutate
<1>2. ed \in EdState /\ EdgePart(ed) /\ PushPart(ed) /\ ed.thread[t] = NoEd
  BY DEF EdInv, mutate
<1>3. c \in EdCallers /\ c.pc = "push"
  BY DEF EdThread, EdCallers, EdIngress
<1> HIDE DEF c
<1>4. [ed.want EXCEPT !.cidrs = cidrs] \in EdDesired /\ [ed.thread EXCEPT ![t] = c] \in [EdThreads -> EdCallers \cup {NoEd}]
  BY <1>2, <1>3 DEF EdState, EdDesired
<1>5. ed' \in EdState
  BY ZenonT(40), <1>1, <1>2, <1>4 DEF EdState
<1>6. /\ SameEdge(ed, ed') /\ ed'.thread = [ed.thread EXCEPT ![t] = c] /\ ed'.dbgen = ed.dbgen /\ ed'.lock = ed.lock
      /\ ed'.calls = ed.calls /\ ed'.last = ed.last /\ ed'.cut = ed.cut
  BY <1>1, <1>2 DEF EdState, SameEdge
<1>7. PushPart(ed')
  BY <1>2, <1>3, <1>6, CallerMoves DEF Waits
<1> QED BY <1>2, <1>5, <1>6, <1>7, SameEdgeKeeps DEF EdInv

LEMMA SnapshotStep == ASSUME EdInv, NEW t \in EdThreads, edgeProjectMutationSnapshot(t) PROVE EdInv'
<1> DEFINE c == EdThread("write", "ingress", ed.want.ingress)
<1>1. ed' = [ed EXCEPT !.thread[t] = c]
  BY DEF edgeProjectMutationSnapshot
<1>2. ed \in EdState /\ EdgePart(ed) /\ PushPart(ed) /\ ed.thread[t] = NoEd
  BY DEF EdInv, edgeProjectMutationSnapshot
<1>3. c \in EdCallers /\ c.pc = "write"
  <2>1. ed.want.ingress \in EdIngress
    BY <1>2 DEF EdState, EdDesired
  <2> QED BY <2>1 DEF EdThread, EdCallers
<1> HIDE DEF c
<1>4. [ed.thread EXCEPT ![t] = c] \in [EdThreads -> EdCallers \cup {NoEd}]
  BY <1>2, <1>3 DEF EdState
<1>5. ed' \in EdState
  BY <1>1, <1>2, <1>4 DEF EdState
<1>6. /\ SameEdge(ed, ed') /\ ed'.thread = [ed.thread EXCEPT ![t] = c] /\ ed'.dbgen = ed.dbgen /\ ed'.lock = ed.lock
      /\ ed'.calls = ed.calls /\ ed'.last = ed.last /\ ed'.cut = ed.cut /\ ed'.want = ed.want
  BY <1>1, <1>2 DEF EdState, SameEdge
<1>7. PushPart(ed')
  BY <1>2, <1>3, <1>6, CallerMoves DEF Waits
<1> QED BY <1>2, <1>5, <1>6, <1>7, SameEdgeKeeps DEF EdInv

LEMMA SetIngressStep == ASSUME EdInv, NEW t \in EdThreads, setEdgeIngress(t) PROVE EdInv'
<1> DEFINE c == [ed.thread[t] EXCEPT !.pc = "push"]
<1>1. PICK i \in EdIngress : ed' = [ed EXCEPT !.want.ingress = i, !.thread[t].pc = "push"]
  BY DEF setEdgeIngress
<1>2. ed \in EdState /\ EdgePart(ed) /\ PushPart(ed) /\ ed.thread[t] # NoEd /\ ed.thread[t].pc = "write"
  BY DEF EdInv, setEdgeIngress
<1>3. c \in EdCallers /\ c.pc = "push"
  <2>1. ed.thread[t] \in EdCallers
    BY <1>2 DEF EdState
  <2> QED BY <2>1 DEF EdCallers
<1>4. ed' = [ed EXCEPT !.want.ingress = i, !.thread[t] = c]
  BY <1>1, <1>2 DEF EdState
<1> HIDE DEF c
<1>5. [ed.want EXCEPT !.ingress = i] \in EdDesired /\ [ed.thread EXCEPT ![t] = c] \in [EdThreads -> EdCallers \cup {NoEd}]
  BY <1>2, <1>3 DEF EdState, EdDesired
<1>6. ed' \in EdState
  BY <1>2, <1>4, <1>5 DEF EdState
<1>7. /\ SameEdge(ed, ed') /\ ed'.thread = [ed.thread EXCEPT ![t] = c] /\ ed'.dbgen = ed.dbgen /\ ed'.lock = ed.lock
      /\ ed'.calls = ed.calls /\ ed'.last = ed.last /\ ed'.cut = ed.cut
  BY <1>2, <1>4 DEF EdState, SameEdge
<1>8. PushPart(ed')
  BY <1>2, <1>3, <1>7, CallerMoves DEF Waits
<1> QED BY <1>2, <1>6, <1>7, <1>8, SameEdgeKeeps DEF EdInv

\* The next push: nobody else waits, and it carries what the database says.
LEMMA PushStep == ASSUME EdInv, NEW t \in EdThreads, reconcileEdgeThrowing(t) PROVE EdInv'
<1> DEFINE g == ed.dbgen + 1
           e == [ed EXCEPT !.dbgen = g]
           c == [ed.thread[t] EXCEPT !.pc = "wait", !.gen = g]
           call == [gen |-> g, desired |-> ed.want]
<1>1. /\ ed \in EdState /\ EdgePart(ed) /\ PushPart(ed) /\ ed.thread[t] # NoEd /\ ed.thread[t].pc = "push" /\ ed.lock = NoEd
      /\ ed.dbgen \in Nat /\ g \in Nat
  BY DEF EdInv, reconcileEdgeThrowing, EdState
<1>2. \/ ed' = EdFailed(e, t)
      \/ ed' = [e EXCEPT !.lock = t, !.thread[t] = [@ EXCEPT !.pc = "wait", !.gen = g], !.calls = @ \cup {call}]
  BY DEF reconcileEdgeThrowing
<1>n. \A s \in EdThreads : ~Waits(ed, s)
  BY <1>1, EdgeServerAssumption DEF PushPart
<1>d. /\ \A x \in ed.calls : x.gen \in Nat /\ x.gen <= g /\ x.gen # g
      /\ (ed.job # NoEd /\ ed.job.mode = "new") => ed.job.gen <= g /\ ed.job.gen # g
  <2>1. (ed.job # NoEd => ed.job.gen \in Nat) /\ \A x \in ed.calls : x.gen \in Nat
    BY <1>1 DEF EdState, EdJobs, EdPushes
  <2> QED BY <1>1, <2>1 DEF PushPart
<1>3. CASE ed' = EdFailed(e, t)
  <2>1. e \in EdState
    BY <1>1 DEF EdState
  <2>2. SameEdge(ed, e) /\ e.cut = ed.cut /\ e.thread = ed.thread /\ e.calls = ed.calls /\ e.dbgen = g /\ e.lock = NoEd
        /\ e.want = ed.want /\ e.last = ed.last
    BY <1>1 DEF EdState, SameEdge
  <2> HIDE DEF e, g
  <2>3. (\A s \in EdThreads : ~Waits(e, s)) /\ (Dirty(ed) <=> Dirty(e)) /\ (Quiet(e) <=> Quiet(ed))
    BY <1>n, <2>2 DEF Waits, Dirty, Quiet
  <2>4. PushPart(e)
    BY <1>1, <1>d, <2>2, <2>3 DEF PushPart, SameEdge
  <2>5. PushPart(ed') /\ ed' \in EdState /\ SameEdge(e, ed') /\ ed'.cut = e.cut
    BY <1>1, <1>3, <2>1, <2>2, <2>4, FailedPush, FailedPushIsOver
  <2>6. EdgePart(e)
    BY <1>1, <2>2, SameEdgeKeeps
  <2> QED BY <2>5, <2>6, SameEdgeKeeps DEF EdInv
<1>4. CASE ed' = [e EXCEPT !.lock = t, !.thread[t] = [@ EXCEPT !.pc = "wait", !.gen = g], !.calls = @ \cup {call}]
  <2>1. c \in EdCallers /\ c.pc = "wait" /\ c.gen = g /\ c # NoEd
    <3>1. ed.thread[t] \in EdCallers
      BY <1>1 DEF EdState
    <3> QED BY <1>1, <3>1, EdgeServerAssumption DEF EdCallers
  <2>2. call \in EdPushes /\ call.gen = g /\ call.desired = ed.want
    BY <1>1 DEF EdPushes, EdState
  <2>3. ed' = [ed EXCEPT !.dbgen = g, !.lock = t, !.thread[t] = c, !.calls = @ \cup {call}]
    BY <1>1, <1>4 DEF EdState
  <2> HIDE DEF c, call, e, g
  <2>4. [ed.thread EXCEPT ![t] = c] \in [EdThreads -> EdCallers \cup {NoEd}]
    BY <1>1, <2>1 DEF EdState
  <2>5. ed' \in EdState
    BY ZenonT(40), <1>1, <2>2, <2>3, <2>4 DEF EdState
  <2>6. /\ SameEdge(ed, ed') /\ ed'.thread = [ed.thread EXCEPT ![t] = c] /\ ed'.dbgen = g /\ ed'.lock = t
        /\ ed'.calls = ed.calls \cup {call} /\ ed'.last = ed.last /\ ed'.cut = ed.cut /\ ed'.want = ed.want
    BY <1>1, <2>3 DEF EdState, SameEdge
  <2>7. \A s \in EdThreads : ed'.thread[s] = IF s = t THEN c ELSE ed.thread[s]
    BY <1>1, <2>6 DEF EdState
  <2>8. \A s \in EdThreads : Waits(ed', s) => s = t
    BY <1>n, <2>7 DEF Waits
  <2>9. Waits(ed', t) /\ ~Quiet(ed')
    BY <2>1, <2>7 DEF Waits, Quiet
  <2>10. \A x \in ed'.calls : x.gen <= g /\ (x.gen = g => x.desired = ed.want)
    BY <1>1, <1>d, <2>2, <2>6
  <2>11. PushPart(ed')
    BY <1>d, <2>1, <2>6, <2>7, <2>8, <2>9, <2>10 DEF PushPart, SameEdge
  <2> QED BY <1>1, <2>5, <2>6, <2>11, SameEdgeKeeps DEF EdInv
<1> QED BY <1>2, <1>3, <1>4

LEMMA TimeoutStep == ASSUME EdInv, NEW t \in EdThreads, push_times_out(t) PROVE EdInv'
<1>1. ed \in EdState /\ EdgePart(ed) /\ PushPart(ed) /\ ed.thread[t] # NoEd /\ ed.lock = t /\ ed' = EdFailed(ed, t)
  BY DEF EdInv, push_times_out, PushPart, Waits
<1>2. PushPart(ed') /\ ed' \in EdState /\ SameEdge(ed, ed') /\ ed'.cut = ed.cut
  BY <1>1, FailedPush, FailedPushIsOver
<1> QED BY <1>1, <1>2, SameEdgeKeeps DEF EdInv

LEMMA RestartStep == ASSUME EdInv, control_plane_restarts PROVE EdInv'
<1> DEFINE first == CHOOSE t \in EdThreads : TRUE
           c == EdThread("push", "keep", 0)
           threads == [t \in EdThreads |-> IF t = first THEN c ELSE NoEd]
<1>1. ed \in EdState /\ EdgePart(ed) /\ PushPart(ed)
  BY DEF EdInv
<1>2. ed' = [ed EXCEPT !.lock = NoEd, !.last = "failed", !.thread = threads]
  BY DEF control_plane_restarts
<1>3. c \in EdCallers /\ c.pc = "push"
  BY DEF EdThread, EdCallers, EdIngress
<1> HIDE DEF c, first
<1>4. threads \in [EdThreads -> EdCallers \cup {NoEd}] /\ \A t \in EdThreads : threads[t] \in {c, NoEd}
  BY <1>3
<1> HIDE DEF threads
<1>5. ed' \in EdState
  BY <1>1, <1>2, <1>4 DEF EdState
<1>6. SameEdge(ed, ed') /\ ed'.cut = ed.cut /\ ed'.calls = ed.calls /\ ed'.dbgen = ed.dbgen /\ ed'.last = "failed" /\ ed'.thread = threads
  BY <1>1, <1>2 DEF EdState, SameEdge
<1>7. (\A t \in EdThreads : ~Waits(ed', t)) /\ ~Quiet(ed')
  BY <1>3, <1>4, <1>6 DEF Waits, Quiet
<1>8. PushPart(ed')
  BY <1>1, <1>6, <1>7 DEF PushPart, SameEdge
<1> QED BY <1>1, <1>5, <1>6, <1>8, SameEdgeKeeps DEF EdInv

LEMMA TargetRules ==
  ASSUME NEW d \in EdDesired
  PROVE  /\ targetFirewall(d) \subseteq EdRules
         /\ \A c \in d.cidrs : EdProtects(targetFirewall(d), c)
         /\ \A r \in targetFirewall(d) : r[1] \in d.cidrs
         /\ targetFirewall(d) = {} <=> d.cidrs = {}
<1>1. d.cidrs \subseteq EdCidrs /\ d.ingress \in EdIngress
  BY DEF EdDesired
<1>2. \A c \in d.cidrs : EdRule(c, d) \in EdRules /\ EdRule(c, d)[1] = c
  BY <1>1 DEF EdRule, EdRules
<1>3. targetFirewall(d) = {EdRule(c, d) : c \in d.cidrs}
  BY DEF targetFirewall
<1> QED BY <1>2, <1>3 DEF EdProtects

LEMMA NextStage ==
  ASSUME ed \in EdState, ed.job # NoEd, NEW pc \in EdPcs
  PROVE  LET j == [ed.job EXCEPT !.pc = pc]
         IN  /\ j \in EdJobs /\ j # NoEd /\ j.pc = pc
             /\ j.mode = ed.job.mode /\ j.gen = ed.job.gen /\ j.desired = ed.job.desired
             /\ ed.job.desired \in EdDesired /\ ed.job.desired.cidrs \subseteq EdCidrs /\ ed.job.desired.ingress \in EdIngress
             /\ ed.job.mode \in {"new", "rollback", "restore"} /\ ed.job.gen \in Nat /\ ed.job.pc \in EdPcs
<1>1. ed.job \in EdJobs
  BY DEF EdState
<1>2. ed.job.desired \in EdDesired
  BY <1>1 DEF EdJobs
<1>3. ed.job.desired.cidrs \subseteq EdCidrs /\ ed.job.desired.ingress \in EdIngress
  BY <1>2 DEF EdDesired
<1> QED BY <1>1, <1>2, <1>3, EdgeServerAssumption DEF EdJobs

\* What the helper does for vz-edge, and what a call given up leaves behind.
LEMMA HostRules ==
  ASSUME NEW h \in EdHosts, NEW rules \in SUBSET EdRules
  PROVE  LET n == EdHostRules(h, rules)
         IN  /\ n \in EdHosts /\ n.rules = rules /\ ~n.overtaken /\ n.aliases = h.aliases /\ n.lost = h.lost
             /\ \A r \in n.slowRules : r.old
<1> DEFINE slow == {[r EXCEPT !.old = TRUE] : r \in h.slowRules}
<1>1. \A r \in h.slowRules : r \in EdSlowRules
  BY DEF EdHosts
<1>2. \A r \in EdSlowRules : [r EXCEPT !.old = TRUE] \in EdSlowRules /\ [r EXCEPT !.old = TRUE].old
  BY DEF EdSlowRules
<1>3. slow \in SUBSET EdSlowRules /\ \A r \in slow : r.old
  BY <1>1, <1>2
<1>4. EdHostRules(h, rules) = [h EXCEPT !.rules = rules, !.overtaken = FALSE, !.slowRules = slow]
  BY DEF EdHostRules
<1> HIDE DEF slow
<1> QED BY <1>3, <1>4 DEF EdHosts

LEMMA HostAlias ==
  ASSUME NEW h \in EdHosts, NEW c \in EdCidrs, NEW present \in BOOLEAN
  PROVE  LET n == EdHostAlias(h, c, present)
         IN  /\ n \in EdHosts /\ n.rules = h.rules /\ n.overtaken = h.overtaken /\ n.slowRules = h.slowRules
             /\ n.aliases = (IF present THEN h.aliases \cup {c} ELSE h.aliases \ {c}) /\ n.lost = h.lost \ {c}
<1> DEFINE a == IF present THEN h.aliases \cup {c} ELSE h.aliases \ {c}
<1>1. a \in SUBSET EdCidrs /\ h.lost \ {c} \in SUBSET EdCidrs
  BY DEF EdHosts
<1>2. EdHostAlias(h, c, present) = [h EXCEPT !.aliases = a, !.lost = h.lost \ {c}]
  BY DEF EdHostAlias
<1> HIDE DEF a
<1>3. /\ EdHostAlias(h, c, present) \in EdHosts /\ EdHostAlias(h, c, present).aliases = a
      /\ EdHostAlias(h, c, present).lost = h.lost \ {c}
      /\ EdHostAlias(h, c, present).rules = h.rules /\ EdHostAlias(h, c, present).overtaken = h.overtaken
      /\ EdHostAlias(h, c, present).slowRules = h.slowRules
  BY <1>1, <1>2 DEF EdHosts
<1> QED BY <1>3 DEF a

LEMMA LeftRules ==
  ASSUME NEW h \in EdHosts, NEW rules \in SUBSET EdRules, NEW a, Guarded(a, h), \A c \in a : EdProtects(rules, c)
  PROVE  EdLeaveRules(h, rules) \in EdHosts /\ Guarded(a, EdLeaveRules(h, rules))
<1> DEFINE q == [id |-> h.slow, rules |-> rules, old |-> FALSE]
           k == h.slow + 1
           slow == h.slowRules \cup {q}
<1>1. q \in EdSlowRules /\ q.rules = rules /\ k \in Nat
  BY DEF EdSlowRules, EdHosts
<1>2. EdLeaveRules(h, rules) = [h EXCEPT !.slow = k, !.slowRules = slow]
  BY DEF EdLeaveRules
<1> HIDE DEF q, k
<1>3. slow \in SUBSET EdSlowRules /\ \A r \in slow : r \in h.slowRules \/ r = q
  BY <1>1 DEF EdHosts
<1> HIDE DEF slow
<1>4. /\ EdLeaveRules(h, rules) \in EdHosts /\ EdLeaveRules(h, rules).slowRules = slow
      /\ EdLeaveRules(h, rules).aliases = h.aliases /\ EdLeaveRules(h, rules).lost = h.lost
      /\ EdLeaveRules(h, rules).rules = h.rules /\ EdLeaveRules(h, rules).overtaken = h.overtaken
  BY <1>1, <1>2, <1>3 DEF EdHosts
<1> QED BY <1>1, <1>3, <1>4 DEF Guarded, Ruled

LEMMA LeftAlias ==
  ASSUME NEW h \in EdHosts, NEW c \in EdCidrs, NEW present \in BOOLEAN, NEW a, Guarded(a, h)
  PROVE  EdLeaveAlias(h, c, present) \in EdHosts /\ Guarded(a, EdLeaveAlias(h, c, present))
<1> DEFINE q == [id |-> h.slow, cidr |-> c, present |-> present]
           k == h.slow + 1
           slow == h.slowAliases \cup {q}
<1>1. q \in EdSlowAliases /\ k \in Nat
  BY DEF EdSlowAliases, EdHosts
<1>2. EdLeaveAlias(h, c, present) = [h EXCEPT !.slow = k, !.slowAliases = slow]
  BY DEF EdLeaveAlias
<1> HIDE DEF q, k
<1>3. slow \in SUBSET EdSlowAliases
  BY <1>1 DEF EdHosts
<1> HIDE DEF slow
<1>4. /\ EdLeaveAlias(h, c, present) \in EdHosts /\ EdLeaveAlias(h, c, present).slowRules = h.slowRules
      /\ EdLeaveAlias(h, c, present).aliases = h.aliases /\ EdLeaveAlias(h, c, present).lost = h.lost
      /\ EdLeaveAlias(h, c, present).rules = h.rules /\ EdLeaveAlias(h, c, present).overtaken = h.overtaken
  BY <1>1, <1>2, <1>3 DEF EdHosts
<1> QED BY <1>4 DEF Guarded, Ruled

\* A step of an apply: what is to be shown.
LEMMA ApplyStep ==
  ASSUME EdInv, ed' \in EdState, SamePushes(ed, ed'), ed.job # NoEd, ed.up, ed'.up,
         ed'.job # NoEd, ed'.job.mode = ed.job.mode, ed'.job.gen = ed.job.gen, ed'.job.desired = ed.job.desired,
         Covered(ed'), Staged(ed')
  PROVE  EdInv'
<1>1. PushPart(ed')
  BY ApplyKeepsPushes DEF EdInv
<1> QED BY <1>1 DEF EdInv, EdgePart, Serving, DownIsEmpty

LEMMA FirewallStep == ASSUME EdInv, prepare_firewall PROVE EdInv'
<1> DEFINE d == ed.job.desired
           j == [ed.job EXCEPT !.pc = "alias"]
           new == {r \in ed.rules : r[1] \notin d.cidrs} \cup targetFirewall(d)
           host == EdHostRules(ed.host, new)
<1>1. ed \in EdState /\ EdgePart(ed) /\ ed.job # NoEd /\ ed.up /\ ed.job.pc = "firewall" /\ d \in EdDesired
  BY NextStage DEF EdInv, prepare_firewall, EdAt, EdPcs
<1>2. /\ j \in EdJobs /\ j # NoEd /\ j.pc = "alias" /\ j.mode = ed.job.mode /\ j.gen = ed.job.gen /\ j.desired = d
      /\ ed.job.mode \in {"new", "rollback", "restore"}
  BY <1>1, NextStage DEF EdPcs
<1>3. ed' = IF new = {} THEN [ed EXCEPT !.job = j] ELSE [ed EXCEPT !.rules = new, !.host = host, !.job = j]
  BY <1>1 DEF prepare_firewall, EdTo, EdTarget, EdProtected, EdState
<1>4. new \in SUBSET EdRules
  BY <1>1, TargetRules DEF EdState
<1>c. Covered(ed) /\ Staged(ed)
  BY <1>1 DEF EdgePart
<1>5. CASE new = {}
  <2> HIDE DEF j
  <2>1. ed' = [ed EXCEPT !.job = j]
    BY <1>3, <1>5
  <2>2. ed' \in EdState
    BY <1>1, <1>2, <2>1 DEF EdState
  <2>3. /\ SamePushes(ed, ed') /\ ed'.up = ed.up /\ ed'.job = j /\ ed'.aliases = ed.aliases /\ ed'.rules = ed.rules /\ ed'.host = ed.host
        /\ ed'.manifest = ed.manifest /\ ed'.error = ed.error
    BY <1>1, <2>1 DEF EdState, SamePushes
  <2>4. targetFirewall(d) = {}
    BY <1>5
  <2>5. Covered(ed')
    BY <1>c, <2>3 DEF Covered
  <2>r. d.cidrs = {}
    BY <1>1, <2>4, TargetRules
  <2>6. Staged(ed')
    <3>1. Ruled(d.cidrs, ed'.host)
      BY <2>r DEF Ruled
    <3> QED BY <1>1, <1>2, <1>c, <2>3, <2>4, <3>1 DEF Staged
  <2> QED BY <1>1, <1>2, <2>2, <2>3, <2>5, <2>6, ApplyStep
<1>6. CASE new # {}
  <2>1. targetFirewall(d) \subseteq new /\ \A c \in ed.aliases : EdProtects(new, c)
    <3>1. \A c \in ed.aliases : \E r \in ed.rules : r[1] = c
      BY <1>c DEF Covered, EdProtects
    <3>2. \A c \in d.cidrs : \E r \in targetFirewall(d) : r[1] = c
      BY <1>1, TargetRules DEF EdProtects
    <3> QED BY <3>1, <3>2 DEF EdProtects
  <2> HIDE DEF j, new
  <2>2. ed' = [ed EXCEPT !.rules = new, !.host = host, !.job = j]
    BY <1>3, <1>6
  <2>3. /\ host \in EdHosts /\ host.rules = new /\ host.aliases = ed.host.aliases /\ host.lost = ed.host.lost
        /\ \A r \in host.slowRules : r.old
    <3>1. ed.host \in EdHosts
      BY <1>1 DEF EdState
    <3> QED BY <1>4, <3>1, HostRules
  <2> HIDE DEF host
  <2>4. ed' \in EdState
    BY <1>1, <1>2, <1>4, <2>2, <2>3 DEF EdState
  <2>5. /\ SamePushes(ed, ed') /\ ed'.up = ed.up /\ ed'.job = j /\ ed'.aliases = ed.aliases /\ ed'.rules = new
        /\ ed'.host = host /\ ed'.manifest = ed.manifest /\ ed'.error = ed.error
    BY <1>1, <2>2 DEF EdState, SamePushes
  <2>6. Covered(ed')
    BY <1>c, <2>1, <2>3, <2>5 DEF Covered, Guarded, Ruled
  <2>7. Staged(ed')
    <3>1. \A c \in d.cidrs : EdProtects(new, c)
      BY <1>1, <2>1, TargetRules DEF EdProtects
    <3>2. Ruled(d.cidrs, ed'.host)
      BY <2>3, <2>5, <3>1 DEF Ruled
    <3> QED BY <1>1, <1>2, <1>c, <2>1, <2>5, <3>2 DEF Staged
  <2> QED BY <1>1, <1>2, <2>4, <2>5, <2>6, <2>7, ApplyStep
<1> QED BY <1>5, <1>6

LEMMA AliasStep == ASSUME EdInv, prepare_alias PROVE EdInv'
<1> DEFINE d == ed.job.desired
<1>1. ed \in EdState /\ EdgePart(ed) /\ ed.job # NoEd /\ ed.up /\ ed.job.pc = "alias" /\ d \in EdDesired /\ d.cidrs \subseteq EdCidrs
  BY NextStage DEF EdInv, prepare_alias, EdAt, EdPcs
<1>c. Covered(ed) /\ Staged(ed)
  BY <1>1 DEF EdgePart
<1>2. CASE d.cidrs \ ed.aliases = {}
  <2> DEFINE j == [ed.job EXCEPT !.pc = "procs"]
  <2>1. ed' = [ed EXCEPT !.job = j]
    BY <1>1, <1>2 DEF prepare_alias, EdMissing, EdTo, EdTarget, EdState
  <2>2. j \in EdJobs /\ j # NoEd /\ j.pc = "procs" /\ j.mode = ed.job.mode /\ j.gen = ed.job.gen /\ j.desired = d
    BY <1>1, NextStage DEF EdPcs
  <2> HIDE DEF j
  <2>3. ed' \in EdState
    BY <1>1, <2>1, <2>2 DEF EdState
  <2>4. /\ SamePushes(ed, ed') /\ ed'.up = ed.up /\ ed'.job = j /\ ed'.aliases = ed.aliases /\ ed'.rules = ed.rules /\ ed'.host = ed.host
        /\ ed'.manifest = ed.manifest /\ ed'.error = ed.error
    BY <1>1, <2>1 DEF EdState, SamePushes
  <2>5. Covered(ed')
    BY <1>c, <2>4 DEF Covered
  <2>6. Staged(ed')
    BY <1>1, <1>2, <1>c, <2>2, <2>4 DEF Staged
  <2> QED BY <1>1, <2>2, <2>3, <2>4, <2>5, <2>6, ApplyStep
<1>3. CASE d.cidrs \ ed.aliases # {}
  <2>1. PICK c \in d.cidrs \ ed.aliases : ed' = [ed EXCEPT !.aliases = @ \cup {c}, !.host = EdHostAlias(@, c, TRUE)]
    BY <1>1, <1>3 DEF prepare_alias, EdMissing, EdTarget
  <2> DEFINE host == EdHostAlias(ed.host, c, TRUE)
  <2>2. /\ host \in EdHosts /\ host.rules = ed.host.rules /\ host.overtaken = ed.host.overtaken
        /\ host.slowRules = ed.host.slowRules /\ host.aliases = ed.host.aliases \cup {c} /\ host.lost = ed.host.lost \ {c}
    <3>1. ed.host \in EdHosts /\ c \in EdCidrs
      BY <1>1 DEF EdState
    <3> QED BY <3>1, HostAlias
  <2>h. ed' = [ed EXCEPT !.aliases = @ \cup {c}, !.host = host]
    BY <2>1
  <2> HIDE DEF host
  <2>3. ed' \in EdState
    BY <1>1, <2>h, <2>2 DEF EdState
  <2>4. /\ SamePushes(ed, ed') /\ ed'.up = ed.up /\ ed'.job = ed.job /\ ed'.aliases = ed.aliases \cup {c} /\ ed'.rules = ed.rules
        /\ ed'.host = host
        /\ ed'.manifest = ed.manifest /\ ed'.error = ed.error
    BY <1>1, <2>h DEF EdState, SamePushes
  <2>5. EdProtects(ed.rules, c)
    <3>1. targetFirewall(d) \subseteq ed.rules
      BY <1>1, <1>c DEF Staged
    <3> QED BY <1>1, <3>1, TargetRules DEF EdProtects
  <2>r. Ruled(d.cidrs, ed.host)
    BY <1>1, <1>c DEF Staged
  <2>6. Covered(ed')
    <3>1. Ruled(ed.aliases \cup {c}, host)
      BY <1>c, <2>1, <2>2, <2>r DEF Covered, Guarded, Ruled
    <3>2. \A a \in ed.aliases \cup {c} : a \in host.aliases \/ a \in host.lost
      BY <1>c, <2>2 DEF Covered, Guarded
    <3> QED BY <1>c, <2>4, <2>5, <3>1, <3>2 DEF Covered, Guarded
  <2>7. Staged(ed')
    <3>1. Ruled(d.cidrs, host)
      BY <2>2, <2>r DEF Ruled
    <3> QED BY <1>1, <1>c, <2>4, <3>1 DEF Staged
  <2> QED BY <1>1, <2>3, <2>4, <2>6, <2>7, ApplyStep
<1> QED BY <1>2, <1>3

LEMMA Serves ==
  ASSUME NEW d \in EdDesired, NEW gateways \in SUBSET EdGateways(d)
  PROVE  EdServing(d, gateways) \in EdServed /\ EdServes(EdServing(d, gateways), d)
<1>1. d.cidrs \subseteq EdCidrs /\ d.ingress \in EdIngress
  BY DEF EdDesired
<1>2. gateways \subseteq EdCidrs
  BY <1>1 DEF EdGateways
<1> QED BY <1>1, <1>2 DEF EdServing, EdServed, EdServes

LEMMA ServeStep == ASSUME EdInv, apply_processes \/ apply_listeners PROVE EdInv'
<1> DEFINE d == ed.job.desired
<1>1. ed \in EdState /\ EdgePart(ed) /\ ed.job # NoEd /\ ed.up /\ d \in EdDesired /\ d.ingress \in EdIngress
  BY NextStage DEF EdInv, apply_processes, apply_listeners, EdAt, EdPcs
<1>c. Covered(ed) /\ Staged(ed)
  BY <1>1 DEF EdgePart
<1>2. CASE apply_processes
  <2> DEFINE j == [ed.job EXCEPT !.pc = "listeners"]
  <2>1. ed' = [ed EXCEPT !.procs = d.ingress, !.job = j] /\ ed.job.pc = "procs"
    BY <1>1, <1>2 DEF apply_processes, EdAt, EdTo, EdTarget, EdState
  <2>2. j \in EdJobs /\ j # NoEd /\ j.pc = "listeners" /\ j.mode = ed.job.mode /\ j.gen = ed.job.gen /\ j.desired = d
    BY <1>1, NextStage DEF EdPcs
  <2> HIDE DEF j
  <2>3. ed' \in EdState
    BY <1>1, <2>1, <2>2 DEF EdState
  <2>4. /\ SamePushes(ed, ed') /\ ed'.up = ed.up /\ ed'.job = j /\ ed'.aliases = ed.aliases /\ ed'.rules = ed.rules /\ ed'.host = ed.host
        /\ ed'.manifest = ed.manifest /\ ed'.error = ed.error /\ ed'.procs = d.ingress
    BY <1>1, <2>1 DEF EdState, SamePushes
  <2>5. Covered(ed')
    BY <1>c, <2>4 DEF Covered
  <2>6. Staged(ed')
    BY <1>1, <1>c, <2>1, <2>2, <2>4 DEF Staged
  <2> QED BY <1>1, <2>2, <2>3, <2>4, <2>5, <2>6, ApplyStep
<1>3. CASE apply_listeners
  <2> DEFINE j == [ed.job EXCEPT !.pc = "remove"]
  <2>0. PICK gateways \in SUBSET EdGateways(d) : ed' = EdTo([ed EXCEPT !.served = EdServing(d, gateways)], "remove")
    BY <1>3 DEF apply_listeners, EdTarget
  <2> DEFINE served == EdServing(d, gateways)
  <2>1. ed' = [ed EXCEPT !.served = served, !.job = j] /\ ed.job.pc = "listeners"
    BY <1>1, <1>3, <2>0 DEF apply_listeners, EdAt, EdTo, EdState
  <2>s. served \in EdServed /\ EdServes(served, d)
    BY <1>1, <2>0, Serves
  <2> HIDE DEF served
  <2>2. j \in EdJobs /\ j # NoEd /\ j.pc = "remove" /\ j.mode = ed.job.mode /\ j.gen = ed.job.gen /\ j.desired = d
    BY <1>1, NextStage DEF EdPcs
  <2> HIDE DEF j
  <2>3. ed' \in EdState
    BY <1>1, <2>1, <2>2, <2>s DEF EdState
  <2>4. /\ SamePushes(ed, ed') /\ ed'.up = ed.up /\ ed'.job = j /\ ed'.aliases = ed.aliases /\ ed'.rules = ed.rules /\ ed'.host = ed.host
        /\ ed'.manifest = ed.manifest /\ ed'.error = ed.error /\ ed'.procs = ed.procs /\ ed'.served = served
    BY <1>1, <2>1 DEF EdState, SamePushes
  <2>5. Covered(ed')
    BY <1>c, <2>4 DEF Covered
  <2>6. Staged(ed')
    BY <1>1, <1>c, <2>1, <2>2, <2>4, <2>s DEF Staged
  <2> QED BY <1>1, <2>2, <2>3, <2>4, <2>5, <2>6, ApplyStep
<1> QED BY <1>2, <1>3

LEMMA RemoveStep == ASSUME EdInv, finish_aliases PROVE EdInv'
<1> DEFINE d == ed.job.desired
<1>1. ed \in EdState /\ EdgePart(ed) /\ ed.job # NoEd /\ ed.up /\ ed.job.pc = "remove" /\ d \in EdDesired
  BY NextStage DEF EdInv, finish_aliases, EdAt, EdPcs
<1>c. Covered(ed) /\ Staged(ed)
  BY <1>1 DEF EdgePart
<1>2. CASE ed.aliases \ d.cidrs = {}
  <2> DEFINE j == [ed.job EXCEPT !.pc = "rules"]
  <2>1. ed' = [ed EXCEPT !.job = j]
    BY <1>1, <1>2 DEF finish_aliases, EdStale, EdTo, EdTarget, EdState
  <2>2. j \in EdJobs /\ j # NoEd /\ j.pc = "rules" /\ j.mode = ed.job.mode /\ j.gen = ed.job.gen /\ j.desired = d
    BY <1>1, NextStage DEF EdPcs
  <2> HIDE DEF j
  <2>3. ed' \in EdState
    BY <1>1, <2>1, <2>2 DEF EdState
  <2>4. /\ SamePushes(ed, ed') /\ ed'.up = ed.up /\ ed'.job = j /\ ed'.aliases = ed.aliases /\ ed'.rules = ed.rules /\ ed'.host = ed.host
        /\ ed'.manifest = ed.manifest /\ ed'.error = ed.error /\ ed'.procs = ed.procs /\ ed'.served = ed.served
    BY <1>1, <2>1 DEF EdState, SamePushes
  <2>5. Covered(ed')
    BY <1>c, <2>4 DEF Covered
  <2>6. Staged(ed')
    BY <1>1, <1>2, <1>c, <2>2, <2>4 DEF Staged
  <2> QED BY <1>1, <2>2, <2>3, <2>4, <2>5, <2>6, ApplyStep
<1>3. CASE ed.aliases \ d.cidrs # {}
  <2>1. PICK c \in ed.aliases \ d.cidrs : ed' = [ed EXCEPT !.aliases = @ \ {c}, !.host = EdHostAlias(@, c, FALSE)]
    BY <1>1, <1>3 DEF finish_aliases, EdStale, EdTarget
  <2> DEFINE host == EdHostAlias(ed.host, c, FALSE)
  <2>2. /\ host \in EdHosts /\ host.rules = ed.host.rules /\ host.overtaken = ed.host.overtaken
        /\ host.slowRules = ed.host.slowRules /\ host.aliases = ed.host.aliases \ {c} /\ host.lost = ed.host.lost \ {c}
    <3>1. ed.host \in EdHosts /\ c \in EdCidrs
      BY <1>1 DEF EdState
    <3> QED BY <3>1, HostAlias
  <2>h. ed' = [ed EXCEPT !.aliases = @ \ {c}, !.host = host]
    BY <2>1
  <2> HIDE DEF host
  <2>3. ed' \in EdState
    BY <1>1, <2>h, <2>2 DEF EdState
  <2>4. /\ SamePushes(ed, ed') /\ ed'.up = ed.up /\ ed'.job = ed.job /\ ed'.aliases = ed.aliases \ {c} /\ ed'.rules = ed.rules
        /\ ed'.host = host
        /\ ed'.manifest = ed.manifest /\ ed'.error = ed.error /\ ed'.procs = ed.procs /\ ed'.served = ed.served
    BY <1>1, <2>h DEF EdState, SamePushes
  <2>5. Covered(ed')
    <3>1. Ruled(ed.aliases \ {c}, host)
      BY <1>c, <2>2 DEF Covered, Guarded, Ruled
    <3>2. \A a \in ed.aliases \ {c} : a \in host.aliases \/ a \in host.lost
      BY <1>c, <2>2 DEF Covered, Guarded
    <3> QED BY <1>c, <2>4, <3>1, <3>2 DEF Covered, Guarded
  <2>6. Staged(ed')
    <3>1. Ruled(d.cidrs, host)
      BY <1>1, <1>c, <2>2 DEF Staged, Ruled
    <3> QED BY <1>1, <1>c, <2>4, <3>1 DEF Staged
  <2> QED BY <1>1, <2>3, <2>4, <2>5, <2>6, ApplyStep
<1> QED BY <1>2, <1>3

\* finish_rules and the two steps of persist.
LEMMA RulesStep == ASSUME EdInv, finish_rules PROVE EdInv'
<1> DEFINE d == ed.job.desired
           final == targetFirewall(d)
           host == IF final = {} /\ ed.rules = {} THEN ed.host ELSE EdHostRules(ed.host, final)
           e == [ed EXCEPT !.rules = final, !.host = host]
<1>1. /\ ed \in EdState /\ EdgePart(ed) /\ PushPart(ed) /\ ed.job # NoEd /\ ed.up /\ ed.job.pc = "rules" /\ d \in EdDesired
      /\ ed.job.mode \in {"new", "rollback", "restore"} /\ ed.job.gen \in Nat
  BY NextStage DEF EdInv, finish_rules, EdAt, EdPcs
<1>c. Covered(ed) /\ Staged(ed) /\ DownIsEmpty(ed)
  BY <1>1 DEF EdgePart
<1>2. ed' = CASE ed.job.mode = "new" -> EdTo(e, "unlink")
              [] ed.job.mode = "restore" -> EdCommit(e)
              [] OTHER -> EdAnswer([e EXCEPT !.job = NoEd], ed.job.gen, FALSE)
  <2>1. e = [ed EXCEPT !.rules = final, !.host = IF final = {} /\ ed.rules = {} THEN @ ELSE EdHostRules(@, final)]
    OBVIOUS
  <2> QED BY <2>1 DEF finish_rules, EdFinal, EdTarget
<1>3. final \in SUBSET EdRules /\ (final = {} <=> d.cidrs = {}) /\ ed.host \in EdHosts
  BY <1>1, TargetRules DEF EdState
<1>h. /\ host \in EdHosts /\ host.aliases = ed.host.aliases /\ host.lost = ed.host.lost
      /\ d.cidrs # {} => host.rules = final /\ ~host.overtaken /\ \A r \in host.slowRules : r.old
  BY <1>3, HostRules
<1>4. RulesStand(host, d)
  BY <1>h DEF RulesStand
<1>6. ed.aliases = d.cidrs /\ ed.procs = d.ingress /\ EdServes(ed.served, d)
  BY <1>1, <1>c DEF Staged
<1>7. \A c \in d.cidrs : EdProtects(final, c)
  BY <1>1, TargetRules
<1>r. Ruled(d.cidrs, host)
  BY <1>h, <1>7 DEF Ruled
<1> HIDE DEF final, host
<1>8. e \in EdState
  BY <1>1, <1>3, <1>h DEF EdState
<1>9. /\ SamePushes(ed, e) /\ e.up /\ e.job = ed.job /\ e.aliases = ed.aliases /\ e.rules = final
      /\ e.host = host /\ e.manifest = ed.manifest /\ e.error = ed.error
      /\ e.procs = ed.procs /\ e.served = ed.served /\ e.gen = ed.gen /\ e.desired = ed.desired
  BY <1>1 DEF EdState, SamePushes
<1> HIDE DEF e
<1>10. \A n : (n.aliases = e.aliases /\ n.rules = e.rules /\ n.host = e.host) => Covered(n)
  BY <1>c, <1>6, <1>7, <1>9, <1>h, <1>r DEF Covered, Guarded
<1>11. CASE ed.job.mode = "new"
  <2> DEFINE j == [ed.job EXCEPT !.pc = "unlink"]
  <2>1. ed' = [e EXCEPT !.job = j]
    BY <1>2, <1>8, <1>9, <1>11 DEF EdTo, EdState
  <2>2. j \in EdJobs /\ j # NoEd /\ j.pc = "unlink" /\ j.mode = ed.job.mode /\ j.gen = ed.job.gen /\ j.desired = d
    BY <1>1, NextStage DEF EdPcs
  <2> HIDE DEF j
  <2>3. ed' \in EdState
    BY <1>8, <2>1, <2>2 DEF EdState
  <2>4. /\ SamePushes(e, ed') /\ ed'.up = e.up /\ ed'.job = j /\ ed'.aliases = e.aliases /\ ed'.rules = e.rules /\ ed'.host = e.host
        /\ ed'.manifest = e.manifest /\ ed'.error = e.error /\ ed'.procs = e.procs /\ ed'.served = e.served
    BY <1>8, <2>1 DEF EdState, SamePushes
  <2>5. Covered(ed') /\ SamePushes(ed, ed') /\ ed'.up
    BY <1>9, <1>10, <2>4 DEF SamePushes
  <2>6. Staged(ed')
    <3>1. targetFirewall(d) \subseteq final
      BY DEF final
    <3> QED BY <1>4, <1>6, <1>9, <1>r, <1>11, <2>2, <2>4, <3>1 DEF Staged
  <2> QED BY <1>1, <2>2, <2>3, <2>4, <2>5, <2>6, ApplyStep
<1>12. CASE ed.job.mode = "restore"
  <2>1. ed' = [e EXCEPT !.gen = ed.job.gen, !.desired = d, !.error = FALSE, !.job = NoEd]
    BY <1>2, <1>9, <1>12 DEF EdCommit
  <2>2. ed' \in EdState
    BY <1>1, <1>8, <2>1 DEF EdState
  <2>3. /\ SamePushes(e, ed') /\ ed'.up = e.up /\ ed'.job = NoEd /\ ed'.aliases = e.aliases /\ ed'.rules = e.rules /\ ed'.host = e.host
        /\ ed'.manifest = e.manifest /\ ed'.procs = e.procs /\ ed'.served = e.served /\ ed'.gen = ed.job.gen /\ ed'.desired = d
    BY <1>8, <2>1 DEF EdState, SamePushes
  <2>4. Covered(ed') /\ SamePushes(ed, ed') /\ Staged(ed') /\ DownIsEmpty(ed')
    BY <1>9, <1>10, <2>3 DEF SamePushes, Staged, DownIsEmpty
  <2>5. ed.manifest = [gen |-> ed.job.gen, desired |-> d]
    BY <1>1, <1>12, <1>c DEF Staged
  <2>6. Serving(ed')
    BY <1>4, <1>6, <1>9, <2>3, <2>5 DEF Serving
  <2>7. PushPart(ed')
    BY <1>1, <2>3, <2>4, ApplyKeepsPushes
  <2> QED BY <2>2, <2>4, <2>6, <2>7 DEF EdInv, EdgePart
<1>13. CASE ed.job.mode = "rollback"
  <2> DEFINE n == [e EXCEPT !.job = NoEd]
  <2>1. ed' = EdAnswer(n, ed.job.gen, FALSE)
    BY <1>2, <1>13
  <2>2. n \in EdState
    BY <1>8 DEF EdState
  <2>3. /\ SamePushes(e, n) /\ n.up = e.up /\ n.job = NoEd /\ n.aliases = e.aliases /\ n.rules = e.rules /\ n.host = e.host
        /\ n.error = e.error
    BY <1>8 DEF EdState, SamePushes
  <2> HIDE DEF n
  <2>4. Covered(n) /\ SamePushes(ed, n) /\ Staged(n) /\ DownIsEmpty(n)
    BY <1>9, <1>10, <2>3 DEF SamePushes, Staged, DownIsEmpty
  <2>5. n.error
    BY <1>1, <1>13, <1>c, <1>9, <2>3 DEF Staged
  <2>6. EdgePart(n)
    BY <2>4, <2>5 DEF EdgePart, Serving
  <2>7. PushPart(n)
    BY <1>1, <2>3, <2>4, ApplyKeepsPushes
  <2>8. ed' \in EdState /\ SameEdge(n, ed') /\ ed'.cut = n.cut /\ PushPart(ed')
    BY <2>1, <2>2, <2>7, AnswerNo
  <2> QED BY <2>6, <2>8, SameEdgeKeeps DEF EdInv
<1> QED BY <1>1, <1>11, <1>12, <1>13

LEMMA UnlinkStep == ASSUME EdInv, persist_removes PROVE EdInv'
<1> DEFINE d == ed.job.desired
           j == [ed.job EXCEPT !.pc = "move"]
<1>1. ed \in EdState /\ EdgePart(ed) /\ ed.job # NoEd /\ ed.up /\ ed.job.pc = "unlink"
  BY DEF EdInv, persist_removes, EdAt
<1>c. Covered(ed) /\ Staged(ed)
  BY <1>1 DEF EdgePart
<1>2. ed' = [ed EXCEPT !.manifest = NoEd, !.job = j]
  BY <1>1 DEF persist_removes, EdTo, EdState
<1>3. j \in EdJobs /\ j # NoEd /\ j.pc = "move" /\ j.mode = ed.job.mode /\ j.gen = ed.job.gen /\ j.desired = d
  BY <1>1, NextStage DEF EdPcs
<1> HIDE DEF j
<1>4. ed' \in EdState
  BY <1>1, <1>2, <1>3 DEF EdState
<1>5. /\ SamePushes(ed, ed') /\ ed'.up = ed.up /\ ed'.job = j /\ ed'.aliases = ed.aliases /\ ed'.rules = ed.rules /\ ed'.host = ed.host
      /\ ed'.error = ed.error /\ ed'.procs = ed.procs /\ ed'.served = ed.served
  BY <1>1, <1>2 DEF EdState, SamePushes
<1>6. Covered(ed')
  BY <1>c, <1>5 DEF Covered
<1>7. Staged(ed')
  BY <1>1, <1>c, <1>3, <1>5 DEF Staged
<1> QED BY <1>1, <1>3, <1>4, <1>5, <1>6, <1>7, ApplyStep

LEMMA MoveStep == ASSUME EdInv, persist_moves PROVE EdInv'
<1> DEFINE d == ed.job.desired
           g == ed.job.gen
           m == [gen |-> g, desired |-> d]
           n == EdCommit([ed EXCEPT !.manifest = m])
<1>1. /\ ed \in EdState /\ EdgePart(ed) /\ PushPart(ed) /\ ed.job # NoEd /\ ed.up /\ ed.job.pc = "move" /\ d \in EdDesired
      /\ g \in Nat
  BY NextStage DEF EdInv, persist_moves, EdAt, EdPcs
<1>c. Covered(ed) /\ Staged(ed)
  BY <1>1 DEF EdgePart
<1>2. ed' = EdAnswer(n, g, TRUE)
  BY DEF persist_moves, EdTarget
<1>3. n = [ed EXCEPT !.manifest = m, !.gen = g, !.desired = d, !.error = FALSE, !.job = NoEd]
  BY <1>1 DEF EdCommit, EdState
<1>4. m \in EdPushes
  BY <1>1 DEF EdPushes
<1> HIDE DEF m, n
<1>5. n \in EdState
  BY <1>1, <1>3, <1>4 DEF EdState
<1>6. /\ SamePushes(ed, n) /\ n.up = ed.up /\ n.job = NoEd /\ n.aliases = ed.aliases /\ n.rules = ed.rules /\ n.host = ed.host
      /\ n.procs = ed.procs /\ n.served = ed.served /\ n.gen = g /\ n.desired = d /\ n.manifest = m
  BY <1>1, <1>3 DEF EdState, SamePushes
<1>7. /\ ed.aliases = d.cidrs /\ ed.procs = d.ingress /\ EdServes(ed.served, d) /\ ed.job.mode = "new"
      /\ RulesStand(ed.host, d)
  BY <1>1, <1>c DEF Staged
<1>8. Covered(n) /\ Staged(n) /\ DownIsEmpty(n)
  BY <1>1, <1>c, <1>6 DEF Covered, Staged, DownIsEmpty
<1>9. Serving(n)
  BY <1>6, <1>7 DEF Serving, m
<1>10. ed' \in EdState /\ SameEdge(n, ed') /\ PushPart(ed')
  BY <1>1, <1>2, <1>5, <1>6, <1>7, AnswerYes
<1>11. ed'.up
  BY <1>1, <1>6, <1>10 DEF SameEdge
<1> QED BY <1>8, <1>9, <1>10, <1>11, SameEdgeKeeps DEF EdInv, EdgePart

\* A step fails, whatever it has left with the helper.
LEMMA GoesBack ==
  ASSUME EdInv, ed.up, ed.job # NoEd, NEW h \in EdHosts, Guarded(ed.aliases, h), ed' = EdGoBack([ed EXCEPT !.host = h])
  PROVE  EdInv'
<1> DEFINE e == [ed EXCEPT !.host = h]
           g == ed.job.gen
           j == EdJob("rollback", g, ed.desired)
           n == [e EXCEPT !.error = TRUE, !.job = NoEd]
<1>1. ed \in EdState /\ EdgePart(ed) /\ PushPart(ed) /\ g \in Nat /\ ed.desired \in EdDesired
  <2>1. ed \in EdState /\ EdgePart(ed) /\ PushPart(ed)
    BY DEF EdInv
  <2>2. ed.job \in EdJobs /\ ed.desired \in EdDesired
    BY <2>1 DEF EdState
  <2> QED BY <2>1, <2>2 DEF EdJobs
<1>e. /\ e \in EdState /\ SamePushes(ed, e) /\ e.up = ed.up /\ e.job = ed.job /\ e.aliases = ed.aliases /\ e.rules = ed.rules
      /\ e.host = h /\ e.desired = ed.desired
  BY <1>1 DEF EdState, SamePushes
<1>2. ed' = [e EXCEPT !.error = TRUE, !.job = j] \/ ed' = EdAnswer(n, g, FALSE)
  <2>1. ed' = EdGoBack(e) /\ e.job = ed.job /\ e.desired = ed.desired
    BY <1>e
  <2> HIDE DEF e
  <2> QED BY <2>1 DEF EdGoBack
<1> HIDE DEF e
<1>c. \A x : (x.aliases = e.aliases /\ x.rules = e.rules /\ x.host = e.host) => Covered(x)
  BY <1>1, <1>e DEF EdgePart, Covered
<1>3. CASE ed' = [e EXCEPT !.error = TRUE, !.job = j]
  <2>1. j \in EdJobs /\ j # NoEd /\ j.pc = "firewall" /\ j.mode = "rollback"
    BY <1>1, EdgeServerAssumption DEF EdJob, EdJobs, EdPcs
  <2> HIDE DEF j
  <2> DEFINE b == [e EXCEPT !.error = TRUE]
  <2>x. b \in EdState /\ SamePushes(e, b) /\ b.up = e.up /\ b.aliases = e.aliases /\ b.rules = e.rules /\ b.host = e.host /\ b.error
    BY <1>e DEF EdState, SamePushes
  <2>y. ed' = [b EXCEPT !.job = j]
    BY <1>3
  <2> HIDE DEF b
  <2>2. ed' \in EdState
    BY <2>1, <2>x, <2>y DEF EdState
  <2>a. SamePushes(b, ed')
    BY <2>x, <2>y DEF EdState, SamePushes
  <2>b. ed'.up = b.up /\ ed'.job = j /\ ed'.aliases = b.aliases /\ ed'.rules = b.rules /\ ed'.host = b.host /\ ed'.error = b.error
    BY <2>x, <2>y DEF EdState
  <2>3. SamePushes(e, ed') /\ ed'.up = e.up /\ ed'.job = j /\ ed'.aliases = e.aliases /\ ed'.rules = e.rules /\ ed'.host = e.host /\ ed'.error
    BY <2>a, <2>b, <2>x DEF SamePushes
  <2>4. Covered(ed') /\ Serving(ed') /\ DownIsEmpty(ed')
    BY <1>c, <1>e, <2>1, <2>3 DEF Serving, DownIsEmpty
  <2>5. Staged(ed')
    BY <2>1, <2>3 DEF Staged
  <2>6. SamePushes(ed, ed')
    BY <1>e, <2>3 DEF SamePushes
  <2>7. PushPart(ed')
    BY <1>1, <2>1, <2>3, <2>6, ApplyKeepsPushes
  <2> QED BY <2>2, <2>4, <2>5, <2>7 DEF EdInv, EdgePart
<1>4. CASE ed' = EdAnswer(n, g, FALSE)
  <2>1. n \in EdState
    BY <1>e DEF EdState
  <2>2. SamePushes(e, n) /\ n.up = e.up /\ n.job = NoEd /\ n.aliases = e.aliases /\ n.rules = e.rules /\ n.host = e.host /\ n.error
    BY <1>e DEF EdState, SamePushes
  <2> HIDE DEF n
  <2>3. EdgePart(n)
    BY <1>c, <1>e, <2>2 DEF EdgePart, Serving, DownIsEmpty, Staged
  <2>4. SamePushes(ed, n)
    BY <1>e, <2>2 DEF SamePushes
  <2>5. PushPart(n)
    BY <1>1, <2>2, <2>4, ApplyKeepsPushes
  <2>6. ed' \in EdState /\ SameEdge(n, ed') /\ ed'.cut = n.cut /\ PushPart(ed')
    BY <1>4, <2>1, <2>5, AnswerNo
  <2> QED BY <2>3, <2>6, SameEdgeKeeps DEF EdInv
<1> QED BY <1>2, <1>3, <1>4

LEMMA FailStep == ASSUME EdInv, apply_fails PROVE EdInv'
<1>1. ed \in EdState /\ ed.host \in EdHosts /\ Guarded(ed.aliases, ed.host)
  BY DEF EdInv, EdgePart, Covered, EdState
<1>2. [ed EXCEPT !.host = ed.host] = ed
  BY <1>1 DEF EdState
<1> QED BY <1>1, <1>2, GoesBack DEF apply_fails

\* A call given up is one the addresses in use are safe from as long as it is not old.
LEMMA Unanswered ==
  ASSUME EdInv, NEW h \in EdUnanswered
  PROVE  ed.job # NoEd /\ h \in EdHosts /\ Guarded(ed.aliases, h)
<1> DEFINE d == ed.job.desired
<1>1. ed.job # NoEd
  BY DEF EdUnanswered
<1>2. ed \in EdState /\ ed.host \in EdHosts /\ Covered(ed) /\ Staged(ed) /\ d \in EdDesired /\ d.cidrs \subseteq EdCidrs
  BY <1>1, NextStage DEF EdInv, EdgePart, EdState, EdPcs
<1>3. Guarded(ed.aliases, ed.host) /\ \A c \in ed.aliases : EdProtects(ed.rules, c)
  BY <1>2 DEF Covered
<1>4. \/ \E r \in {EdProtected, EdFinal} : EdAsksRules(r) /\ h = EdLeaveRules(ed.host, r)
      \/ \E q \in EdCidrs \X BOOLEAN : EdAsksAlias(q[1], q[2]) /\ h = EdLeaveAlias(ed.host, q[1], q[2])
  BY <1>1 DEF EdUnanswered
<1>5. CASE \E r \in {EdProtected, EdFinal} : EdAsksRules(r) /\ h = EdLeaveRules(ed.host, r)
  <2>1. PICK r \in {EdProtected, EdFinal} : EdAsksRules(r) /\ h = EdLeaveRules(ed.host, r)
    BY <1>5
  <2>2. r = EdProtected \/ (r = EdFinal /\ ed.job.pc = "rules")
    BY <2>1 DEF EdAsksRules, EdAt
  <2>3. r \in SUBSET EdRules /\ \A c \in ed.aliases : EdProtects(r, c)
    <3>1. CASE r = EdProtected
      <4>1. r = {x \in ed.rules : x[1] \notin d.cidrs} \cup targetFirewall(d)
        BY <3>1 DEF EdProtected, EdTarget
      <4>2. targetFirewall(d) \subseteq EdRules /\ \A c \in d.cidrs : EdProtects(targetFirewall(d), c)
        BY <1>2, TargetRules
      <4>3. ed.rules \subseteq EdRules
        BY <1>2 DEF EdState
      <4> QED BY <1>3, <4>1, <4>2, <4>3 DEF EdProtects
    <3>2. CASE r = EdFinal /\ ed.job.pc = "rules"
      <4>1. r = targetFirewall(d) /\ ed.aliases \subseteq d.cidrs
        BY <1>1, <1>2, <3>2 DEF EdFinal, EdTarget, Staged
      <4> QED BY <1>2, <4>1, TargetRules
    <3> QED BY <2>2, <3>1, <3>2
  <2> QED BY <1>1, <1>2, <1>3, <2>1, <2>3, LeftRules
<1>6. CASE \E q \in EdCidrs \X BOOLEAN : EdAsksAlias(q[1], q[2]) /\ h = EdLeaveAlias(ed.host, q[1], q[2])
  <2>1. PICK q \in EdCidrs \X BOOLEAN : h = EdLeaveAlias(ed.host, q[1], q[2])
    BY <1>6
  <2>2. q[1] \in EdCidrs /\ q[2] \in BOOLEAN
    OBVIOUS
  <2> QED BY <1>1, <1>2, <1>3, <2>1, <2>2, LeftAlias
<1> QED BY <1>4, <1>5, <1>6

LEMMA HelperTimeoutStep == ASSUME EdInv, helper_times_out PROVE EdInv'
<1>1. PICK h \in EdUnanswered : ed' = EdGoBack([ed EXCEPT !.host = h])
  BY DEF helper_times_out
<1> QED BY <1>1, Unanswered, GoesBack DEF helper_times_out

\* The helper carries out a call that was given up: what holds of the host still holds.
LEMMA LateRules ==
  ASSUME NEW h \in EdHosts, NEW r \in h.slowRules
  PROVE  LET n == EdLateRules(h, r)
         IN  /\ n \in EdHosts /\ \A a : (Guarded(a, h) => Guarded(a, n)) /\ (Ruled(a, h) => Ruled(a, n))
             /\ \A d : RulesStand(h, d) => RulesStand(n, d)
<1> DEFINE n == EdLateRules(h, r)
<1>1. r.rules \in SUBSET EdRules /\ r.old \in BOOLEAN /\ h.slowRules \ {r} \in SUBSET EdSlowRules
  BY DEF EdHosts, EdSlowRules
<1>2. n \in EdHosts /\ n.rules = r.rules /\ n.overtaken = r.old /\ n.slowRules = h.slowRules \ {r} /\ n.aliases = h.aliases /\ n.lost = h.lost
  BY <1>1 DEF EdHosts, EdLateRules
<1> HIDE DEF n
<1>3. /\ n \in EdHosts /\ \A a : (Guarded(a, h) => Guarded(a, n)) /\ (Ruled(a, h) => Ruled(a, n))
      /\ \A d : RulesStand(h, d) => RulesStand(n, d)
  BY <1>2 DEF Guarded, Ruled, RulesStand
<1> QED BY <1>3 DEF n

LEMMA LateAlias ==
  ASSUME NEW h \in EdHosts, NEW q \in h.slowAliases
  PROVE  LET n == EdLateAlias(h, q)
         IN  /\ n \in EdHosts /\ \A a : (Guarded(a, h) => Guarded(a, n)) /\ (Ruled(a, h) => Ruled(a, n))
             /\ \A d : RulesStand(h, d) => RulesStand(n, d)
<1> DEFINE n == EdLateAlias(h, q)
           al == IF q.present THEN h.aliases \cup {q.cidr} ELSE h.aliases \ {q.cidr}
           lo == IF q.present THEN h.lost ELSE h.lost \cup {q.cidr}
<1>1. q.cidr \in EdCidrs /\ h.slowAliases \ {q} \in SUBSET EdSlowAliases
  BY DEF EdHosts, EdSlowAliases
<1>2. al \in SUBSET EdCidrs /\ lo \in SUBSET EdCidrs /\ \A c : (c \in h.aliases \/ c \in h.lost) => (c \in al \/ c \in lo)
  BY <1>1 DEF EdHosts
<1>3. n = [h EXCEPT !.slowAliases = h.slowAliases \ {q}, !.aliases = al, !.lost = lo]
  BY DEF EdLateAlias
<1> HIDE DEF al, lo, n
<1>4. n \in EdHosts /\ n.rules = h.rules /\ n.overtaken = h.overtaken /\ n.slowRules = h.slowRules /\ n.aliases = al /\ n.lost = lo
  BY <1>1, <1>2, <1>3 DEF EdHosts
<1>5. /\ n \in EdHosts /\ \A a : (Guarded(a, h) => Guarded(a, n)) /\ (Ruled(a, h) => Ruled(a, n))
      /\ \A d : RulesStand(h, d) => RulesStand(n, d)
  BY <1>2, <1>4 DEF Guarded, Ruled, RulesStand
<1> QED BY <1>5 DEF n

\* The host or the listeners change under vz-edge.
LEMMA SameJobKeepsPushes ==
  ASSUME NEW e, NEW n, PushPart(e), SamePushes(e, n), n.job = e.job, n.gen = e.gen, n.desired = e.desired
  PROVE  PushPart(n)
<1>1. (Dirty(n) <=> Dirty(e)) /\ (Quiet(n) <=> Quiet(e)) /\ \A t \in EdThreads : Waits(n, t) <=> Waits(e, t)
  BY DEF SamePushes, Dirty, Quiet, Waits
<1> QED BY <1>1 DEF PushPart, SamePushes

LEMMA HostMoves ==
  ASSUME EdInv, NEW n \in EdHosts, ed' = [ed EXCEPT !.host = n],
         \A a : (Guarded(a, ed.host) => Guarded(a, n)) /\ (Ruled(a, ed.host) => Ruled(a, n)),
         \A d : RulesStand(ed.host, d) => RulesStand(n, d)
  PROVE  EdInv'
<1>1. ed \in EdState /\ EdgePart(ed) /\ PushPart(ed)
  BY DEF EdInv
<1>3. ed' \in EdState
  BY <1>1 DEF EdState
<1>4. /\ SamePushes(ed, ed') /\ ed'.up = ed.up /\ ed'.job = ed.job /\ ed'.aliases = ed.aliases /\ ed'.rules = ed.rules /\ ed'.host = n
      /\ ed'.manifest = ed.manifest /\ ed'.error = ed.error /\ ed'.procs = ed.procs /\ ed'.served = ed.served
      /\ ed'.gen = ed.gen /\ ed'.desired = ed.desired
  BY <1>1 DEF EdState, SamePushes
<1>5. PushPart(ed')
  BY <1>1, <1>4, SameJobKeepsPushes
<1>6. Covered(ed') /\ DownIsEmpty(ed')
  BY <1>1, <1>4 DEF EdgePart, Covered, DownIsEmpty, SamePushes
<1>7. Staged(ed') /\ Serving(ed')
  BY <1>1, <1>4 DEF EdgePart, Staged, Serving
<1> QED BY <1>3, <1>5, <1>6, <1>7 DEF EdInv, EdgePart

LEMMA LateStep == ASSUME EdInv, helper_is_late PROVE EdInv'
<1>1. ed.host \in EdHosts
  BY DEF EdInv, EdState
<1>2. ASSUME NEW r \in ed.host.slowRules, ed' = [ed EXCEPT !.host = EdLateRules(@, r)]
      PROVE  EdInv'
  BY <1>1, <1>2, LateRules, HostMoves
<1>3. ASSUME NEW q \in ed.host.slowAliases, ed' = [ed EXCEPT !.host = EdLateAlias(@, q)]
      PROVE  EdInv'
  BY <1>1, <1>3, LateAlias, HostMoves
<1> QED BY <1>2, <1>3 DEF helper_is_late

LEMMA WatchdogStep == ASSUME EdInv, repairLoopbackIfNeeded PROVE EdInv'
<1>1. ed \in EdState /\ EdgePart(ed) /\ PushPart(ed) /\ ed.served \in EdServed
  BY DEF EdInv, EdState
<1>2. PICK gateways \in SUBSET EdGateways(ed.served) : ed' = [ed EXCEPT !.served.gateways = gateways]
  BY DEF repairLoopbackIfNeeded
<1> DEFINE n == [ed.served EXCEPT !.gateways = gateways]
<1>3. ed' = [ed EXCEPT !.served = n]
  BY <1>1, <1>2 DEF EdState
<1>4. gateways \in SUBSET EdCidrs
  BY <1>1, <1>2 DEF EdGateways, EdServed
<1>5. n \in EdServed /\ n.cidrs = ed.served.cidrs /\ n.ingress = ed.served.ingress /\ n.gateways = gateways
  BY <1>1, <1>4 DEF EdServed
<1> HIDE DEF n
<1>6. \A d : EdServes(ed.served, d) => EdServes(n, d)
  BY <1>2, <1>5 DEF EdServes, EdGateways
<1>7. ed' \in EdState
  BY <1>1, <1>3, <1>5 DEF EdState
<1>8. /\ SamePushes(ed, ed') /\ ed'.up = ed.up /\ ed'.job = ed.job /\ ed'.aliases = ed.aliases /\ ed'.rules = ed.rules /\ ed'.host = ed.host
      /\ ed'.manifest = ed.manifest /\ ed'.error = ed.error /\ ed'.procs = ed.procs /\ ed'.served = n
      /\ ed'.gen = ed.gen /\ ed'.desired = ed.desired
  BY <1>1, <1>3 DEF EdState, SamePushes
<1>9. PushPart(ed')
  BY <1>1, <1>8, SameJobKeepsPushes
<1>10. Covered(ed') /\ DownIsEmpty(ed')
  BY <1>1, <1>8 DEF EdgePart, Covered, DownIsEmpty, SamePushes
<1>11. Staged(ed') /\ Serving(ed')
  BY <1>1, <1>6, <1>8 DEF EdgePart, Staged, Serving
<1> QED BY <1>7, <1>9, <1>10, <1>11 DEF EdInv, EdgePart

LEMMA ReceiveStep == ASSUME EdInv, reconcile PROVE EdInv'
<1>1. PICK c \in ed.calls :
        ed' = IF c.gen <= ed.gen THEN EdAnswer([ed EXCEPT !.calls = @ \ {c}], c.gen, FALSE)
              ELSE [[ed EXCEPT !.calls = @ \ {c}] EXCEPT !.job = EdJob("new", c.gen, c.desired)]
  BY DEF reconcile
<1> DEFINE e == [ed EXCEPT !.calls = @ \ {c}]
           j == EdJob("new", c.gen, c.desired)
<1>2. ed \in EdState /\ EdgePart(ed) /\ PushPart(ed) /\ ed.up /\ ed.job = NoEd /\ c \in EdPushes
  BY DEF EdInv, reconcile, EdState
<1>3. c.gen \in Nat /\ c.desired \in EdDesired /\ ed.gen \in Nat
  BY <1>2 DEF EdPushes, EdState
<1>4. e \in EdState
  BY <1>2 DEF EdState
<1>5. SameEdge(ed, e) /\ e.cut = ed.cut /\ e.thread = ed.thread /\ e.calls = ed.calls \ {c} /\ e.dbgen = ed.dbgen /\ e.lock = ed.lock
      /\ e.want = ed.want /\ e.last = ed.last
  BY <1>2 DEF EdState, SameEdge
<1>6. CASE c.gen <= ed.gen
  <2>1. ed' = EdAnswer(e, c.gen, FALSE)
    BY <1>1, <1>6
  <2> HIDE DEF e
  <2>2. (\A t \in EdThreads : Waits(e, t) <=> Waits(ed, t)) /\ (Dirty(e) <=> Dirty(ed)) /\ (Quiet(e) <=> Quiet(ed))
    BY <1>5 DEF Waits, Dirty, Quiet
  <2>3. PushPart(e)
    BY <1>2, <1>5, <2>2 DEF PushPart, SameEdge
  <2>4. EdgePart(e)
    BY <1>2, <1>5, SameEdgeKeeps
  <2>5. ed' \in EdState /\ SameEdge(e, ed') /\ ed'.cut = e.cut /\ PushPart(ed')
    BY <1>4, <2>1, <2>3, AnswerNo
  <2> QED BY <2>4, <2>5, SameEdgeKeeps DEF EdInv
<1>7. CASE ~(c.gen <= ed.gen)
  <2>1. ed' = [e EXCEPT !.job = j]
    BY <1>1, <1>7
  <2>2. j \in EdJobs /\ j # NoEd /\ j.pc = "firewall" /\ j.mode = "new" /\ j.gen = c.gen /\ j.desired = c.desired
    BY <1>3, EdgeServerAssumption DEF EdJob, EdJobs, EdPcs
  <2> HIDE DEF e, j
  <2>3. ed' \in EdState
    BY <1>4, <2>1, <2>2 DEF EdState
  <2>4. /\ ed'.up = e.up /\ ed'.job = j /\ ed'.aliases = e.aliases /\ ed'.rules = e.rules /\ ed'.host = e.host
        /\ SamePushes(e, ed') /\ ed'.gen = e.gen /\ ed'.desired = e.desired
    BY <1>4, <2>1 DEF EdState, SamePushes
  <2>5. EdgePart(ed')
    BY <1>2, <1>5, <2>2, <2>4 DEF EdgePart, Covered, Serving, DownIsEmpty, Staged, SameEdge
  <2>6. ed'.thread = ed.thread /\ ed'.dbgen = ed.dbgen /\ ed'.lock = ed.lock /\ ed'.want = ed.want /\ ed'.last = ed.last
        /\ ed'.cut = ed.cut /\ ed'.calls = ed.calls \ {c}
    BY <1>5, <2>4 DEF SamePushes
  <2>7. (\A t \in EdThreads : Waits(ed', t) <=> Waits(ed, t)) /\ (Dirty(ed') <=> Dirty(ed)) /\ (Quiet(ed') <=> Quiet(ed))
    BY <2>6 DEF Waits, Dirty, Quiet
  <2>8. ~Quiet(ed)
    BY <1>2, <1>7 DEF PushPart
  <2>9. PushPart(ed')
    BY <1>2, <2>2, <2>4, <2>6, <2>7, <2>8 DEF PushPart
  <2> QED BY <2>3, <2>5, <2>9 DEF EdInv
<1> QED BY <1>6, <1>7

LEMMA KillStep == ASSUME EdInv, edge_is_killed PROVE EdInv'
<1>1. ed \in EdState /\ EdgePart(ed) /\ PushPart(ed)
  BY DEF EdInv
<1>2. EdNothing \in EdDesired
  BY DEF EdNothing, EdDesired, EdIngress
<1>h. PICK h \in {ed.host} \cup EdUnanswered :
        ed' = [ed EXCEPT !.up = FALSE, !.gen = 0, !.desired = EdNothing, !.error = FALSE, !.job = NoEd, !.calls = {}, !.procs = 0,
                         !.served = EdServing(EdNothing, {}), !.aliases = {}, !.rules = {}, !.host = [h EXCEPT !.lost = {}], !.kills = @ + 1, !.cut = TRUE]
  BY DEF edge_is_killed
<1>g. h \in EdHosts
  BY <1>1, Unanswered DEF EdState
<1>3. ed' \in EdState
  <2> DEFINE n == ed.kills + 1
             z == EdNothing
             y == EdServing(EdNothing, {})
             host == [h EXCEPT !.lost = {}]
  <2>1. n \in Nat /\ z \in EdDesired /\ 0 \in EdIngress /\ y \in EdServed /\ host \in EdHosts
    BY <1>1, <1>2, <1>g, Serves DEF EdState, EdIngress, EdHosts
  <2>2. ed' = [ed EXCEPT !.up = FALSE, !.gen = 0, !.desired = z, !.error = FALSE, !.job = NoEd, !.calls = {}, !.procs = 0, !.served = y,
                         !.aliases = {}, !.rules = {}, !.host = host, !.kills = n, !.cut = TRUE]
    BY <1>h
  <2> HIDE DEF n, z, y, host
  <2>3. 0 \in Nat
    OBVIOUS
  <2> QED BY <1>1, <2>1, <2>2, <2>3 DEF EdState
<1>4. /\ ~ed'.up /\ ed'.gen = 0 /\ ed'.job = NoEd /\ ed'.calls = {} /\ ed'.aliases = {} /\ ed'.rules = {} /\ ed'.cut
      /\ ed'.thread = ed.thread /\ ed'.dbgen = ed.dbgen /\ ed'.lock = ed.lock
  <2> DEFINE y == EdServing(EdNothing, {})
             host == [h EXCEPT !.lost = {}]
  <2>1. ed' = [ed EXCEPT !.up = FALSE, !.gen = 0, !.desired = EdNothing, !.error = FALSE, !.job = NoEd, !.calls = {}, !.procs = 0, !.served = y,
                         !.aliases = {}, !.rules = {}, !.host = host, !.kills = @ + 1, !.cut = TRUE]
    BY <1>h
  <2> HIDE DEF y, host
  <2> QED BY <1>1, <2>1 DEF EdState
<1>5. EdgePart(ed')
  <2>1. Covered(ed')
    BY <1>4 DEF Covered, Guarded, Ruled
  <2> QED BY <1>4, <2>1 DEF EdgePart, Staged, Serving, DownIsEmpty
<1>6. ~Quiet(ed') /\ \A t \in EdThreads : Waits(ed', t) => Waits(ed, t)
  BY <1>4 DEF Quiet, Waits
<1>7. PushPart(ed')
  BY <1>1, <1>4, <1>6 DEF PushPart
<1> QED BY <1>3, <1>5, <1>7 DEF EdInv

LEMMA RestoreStep == ASSUME EdInv, restoreManifest PROVE EdInv'
<1> DEFINE j == IF ed.manifest = NoEd THEN NoEd ELSE EdJob("restore", ed.manifest.gen, ed.manifest.desired)
<1>1. ed \in EdState /\ EdgePart(ed) /\ PushPart(ed) /\ ~ed.up /\ ed' = [ed EXCEPT !.up = TRUE, !.job = j]
  BY DEF EdInv, restoreManifest
<1>2. ed.gen = 0 /\ ed.job = NoEd /\ ed.aliases = {} /\ ed.cut /\ Covered(ed)
  BY <1>1 DEF EdgePart, DownIsEmpty
<1>3. /\ j \in EdJobs \cup {NoEd}
      /\ j # NoEd => j.pc = "firewall" /\ j.mode = "restore" /\ ed.manifest = [gen |-> j.gen, desired |-> j.desired]
  <2>1. CASE ed.manifest = NoEd
    BY <2>1
  <2>2. CASE ed.manifest # NoEd
    <3>1. ed.manifest \in EdPushes
      BY <1>1, <2>2 DEF EdState
    <3>2. ed.manifest.gen \in Nat /\ ed.manifest.desired \in EdDesired /\ ed.manifest = [gen |-> ed.manifest.gen, desired |-> ed.manifest.desired]
      BY <3>1 DEF EdPushes
    <3> QED BY <2>2, <3>2 DEF EdJob, EdJobs, EdPcs
  <2> QED BY <2>1, <2>2
<1> HIDE DEF j
<1>4. ed' \in EdState
  BY <1>1, <1>3 DEF EdState
<1>5. /\ ed'.up /\ ed'.gen = ed.gen /\ ed'.job = j /\ ed'.aliases = ed.aliases /\ ed'.rules = ed.rules /\ ed'.host = ed.host
      /\ ed'.manifest = ed.manifest /\ SamePushes(ed, ed')
  BY <1>1 DEF EdState, SamePushes
<1>6. Staged(ed')
  BY <1>3, <1>5 DEF Staged
<1>7. EdgePart(ed')
  BY <1>2, <1>5, <1>6 DEF EdgePart, Covered, Serving, DownIsEmpty
<1>8. ~Quiet(ed') /\ (\A t \in EdThreads : Waits(ed', t) <=> Waits(ed, t)) /\ (Dirty(ed') <=> Dirty(ed))
  BY <1>2, <1>5 DEF Quiet, Waits, Dirty, SamePushes
<1>9. PushPart(ed')
  BY <1>1, <1>2, <1>3, <1>5, <1>8 DEF PushPart, SamePushes
<1> QED BY <1>4, <1>7, <1>9 DEF EdInv

LEMMA EdInvInit == EdInit => EdInv
<1> SUFFICES ASSUME EdInit PROVE EdInv
  OBVIOUS
<1>1. EdNothing \in EdDesired /\ 0 \in EdIngress
  BY DEF EdNothing, EdDesired, EdIngress
<1>2. ed \in EdState
  <2> DEFINE y == EdServing(EdNothing, {})
             host == [aliases |-> {}, rules |-> {}, slowRules |-> {}, slowAliases |-> {}, slow |-> 0, overtaken |-> FALSE, lost |-> {}]
  <2>1. y \in EdServed /\ host \in EdHosts
    BY <1>1, Serves DEF EdHosts
  <2>2. ed = [want |-> EdNothing, dbgen |-> 0, thread |-> [t \in EdThreads |-> NoEd], lock |-> NoEd, calls |-> {}, last |-> "none",
              up |-> TRUE, gen |-> 0, desired |-> EdNothing, error |-> FALSE, manifest |-> NoEd, job |-> NoEd, procs |-> 0,
              served |-> y, aliases |-> {}, rules |-> {}, host |-> host, kills |-> 0, cut |-> FALSE]
    BY DEF EdInit
  <2> HIDE DEF y, host
  <2> QED BY <1>1, <2>1, <2>2 DEF EdState
<1>3. ed.up /\ ed.gen = 0 /\ ed.job = NoEd /\ ed.aliases = {} /\ ed.rules = {} /\ ed.calls = {} /\ ed.last = "none"
      /\ ed.thread = [t \in EdThreads |-> NoEd]
  BY DEF EdInit
<1>h. ed.host.slowRules = {}
  BY DEF EdInit
<1>4. EdgePart(ed)
  <2>1. Covered(ed)
    BY <1>3, <1>h DEF Covered, Guarded, Ruled
  <2> QED BY <1>3, <2>1 DEF EdgePart, Staged, Serving, DownIsEmpty
<1>5. PushPart(ed)
  BY <1>3 DEF PushPart, Quiet, Waits
<1> QED BY <1>2, <1>4, <1>5 DEF EdInv

LEMMA EdInvStep == EdInv /\ [EdNext]_ed => EdInv'
<1> SUFFICES ASSUME EdInv, [EdNext]_ed PROVE EdInv'
  OBVIOUS
<1>1. CASE UNCHANGED ed
  BY <1>1 DEF EdInv
<1> QED BY <1>1, MutateStep, SnapshotStep, SetIngressStep, PushStep, TimeoutStep, RestartStep, ReceiveStep, FirewallStep, AliasStep,
           ServeStep, RemoveStep, RulesStep, UnlinkStep, MoveStep, FailStep, HelperTimeoutStep, LateStep, WatchdogStep, KillStep, RestoreStep
        DEF EdNext

\* Whatever pushes overlap, fail, time out or arrive late, whatever calls to the
\* privileged helper are given up and carried out later, and whenever vz-edge or
\* the control plane is killed, for any networks and any number of RPC threads: a
\* published address is on the host and protected, unless a removal that was given
\* up took it away or rules that were given up replaced later ones (prepare,
\* finish); between two calls the last good generation is served, but for gateways
\* that could not be listened on (apply, rollback, restore); and a push that
\* succeeded leaves vz-edge with the database's state (reconcileEdgeThrowing,
\* reconcile).
THEOREM EdgeIsSound == EdSpec => []EdgeSound
<1>1. EdInv => EdgeSound
  <2> SUFFICES ASSUME EdInv PROVE EdgeSound
    OBVIOUS
  <2>1. Covered(ed) /\ Serving(ed) /\ PushPart(ed)
    BY DEF EdInv, EdgePart
  <2>2. AliasesProtected
    BY <2>1 DEF Covered, Guarded, Ruled, AliasesProtected
  <2>3. LastGoodServed
    BY <2>1 DEF Serving, RulesStand, LastGoodServed
  <2>4. Converged
    BY <2>1 DEF PushPart, Converged, Quiet, Waits, Dirty
  <2> QED BY <2>2, <2>3, <2>4 DEF EdgeSound
<1> QED BY <1>1, EdInvInit, EdInvStep, PTL DEF EdSpec
-----------------------------------------------------------------------------
(* EmbeddedProcessManager.                                                 *)

EpProcs == EpServices \X Nat

EpState ==
  [up : BOOLEAN, stopped : BOOLEAN, managed : [EpServices -> EpEntries \cup {NoEp}], live : SUBSET EpProcs,
   exits : SUBSET EpProcs, timers : SUBSET EpTimers, start : EpStarts \cup {NoEp}, call : EpCalls \cup {NoEp},
   told : SUBSET EpServices, pids : Nat, base : Nat, ids : Nat, calls : Nat, crashes : Nat]

Starting(e, s) == e.start # NoEp /\ e.start.name = s

\* A process lives either since before this vz-edge and for no entry, or as
\* the one its entry names or is about to name.
Owned(e) ==
  \A x \in e.live :
    /\ 0 < x[2] /\ x[2] <= e.pids
    /\ (e.managed[x[1]] # NoEp) <=> x[2] > e.base
    /\ (e.managed[x[1]] # NoEp /\ ~Starting(e, x[1])) => x[2] = e.managed[x[1]].process
    /\ Starting(e, x[1]) => x[2] = e.start.pid

\* A process whose exit is to be handled has ended.
Reported(e) == \A x \in e.exits : x[2] <= e.pids /\ x \notin e.live

\* Someone looks after service s.
Tends(e, s) ==
  \/ <<s, e.managed[s].process>> \in e.live \cup e.exits
  \/ \E t \in e.timers : t.name = s
  \/ s \in e.told

Tended(e) ==
  \A s \in EpServices : (e.up /\ ~e.stopped /\ e.managed[s] # NoEp /\ ~Starting(e, s)) => Tends(e, s)

\* The timer an entry would cancel is its own.
TimersOwned(e) ==
  /\ \A t \in e.timers : 0 < t.id /\ t.id <= e.ids
  /\ \A s \in EpServices : e.managed[s] # NoEp =>
       e.managed[s].restart <= e.ids /\ \A t \in e.timers : t.id = e.managed[s].restart => t.name = s

\* What the lock protects.
Table(e) ==
  /\ e.base <= e.pids
  /\ e.start # NoEp => e.managed[e.start.name] # NoEp /\ e.base < e.start.pid /\ e.start.pid <= e.pids
  /\ ~e.up \/ e.stopped => \A s \in EpServices : e.managed[s] = NoEp

\* reconcile waits for the start it has asked for, and spares a pid only
\* while there is a service to reap.
CallKept(e) ==
  /\ (e.start # NoEp /\ e.start.who = "ensure") => e.call # NoEp /\ e.call.pc = "ensure" /\ e.call.todo # << >>
  /\ (e.call # NoEp /\ e.call.except # NoEp) => e.call.pc = "reap" /\ e.call.left # << >>

EpSafe(e) == Owned(e) /\ Reported(e) /\ TimersOwned(e) /\ Table(e) /\ CallKept(e)
EpGood(e) == EpSafe(e) /\ Tended(e)

EpInv == ep \in EpState /\ EpGood(ep)

\* Processes that end keep what is said of the others; the exit of one that
\* an entry names is waiting for its handler.
LEMMA KillKeeps ==
  ASSUME NEW e \in EpState, EpSafe(e), NEW dead \in SUBSET e.live
  PROVE  /\ EpKill(e, dead) \in EpState /\ EpSafe(EpKill(e, dead))
         /\ \A s \in EpServices : (e.managed[s] # NoEp /\ Tends(e, s)) => Tends(EpKill(e, dead), s)
         /\ EpKill(e, dead).live = e.live \ dead
         /\ EpKill(e, dead).exits = e.exits \cup {x \in dead : x[2] > e.base}
         /\ EpKill(e, dead).up = e.up /\ EpKill(e, dead).stopped = e.stopped /\ EpKill(e, dead).managed = e.managed
         /\ EpKill(e, dead).timers = e.timers /\ EpKill(e, dead).start = e.start /\ EpKill(e, dead).call = e.call
         /\ EpKill(e, dead).told = e.told /\ EpKill(e, dead).pids = e.pids /\ EpKill(e, dead).base = e.base
         /\ EpKill(e, dead).ids = e.ids
<1> DEFINE n == EpKill(e, dead)
           late == {x \in dead : x[2] > e.base}
<1>1. n = [e EXCEPT !.live = e.live \ dead, !.exits = e.exits \cup late]
  BY DEF EpKill, EpState
<1>2. e.live \in SUBSET EpProcs /\ e.exits \cup late \in SUBSET EpProcs /\ e.live \ dead \in SUBSET EpProcs
  BY DEF EpState
<1>3. late = {x \in dead : x[2] > e.base}
  OBVIOUS
<1> HIDE DEF late
<1>4. n \in EpState
  BY <1>1, <1>2 DEF EpState
<1>5. /\ n.live = e.live \ dead /\ n.exits = e.exits \cup late /\ n.up = e.up /\ n.stopped = e.stopped /\ n.managed = e.managed
      /\ n.timers = e.timers /\ n.start = e.start /\ n.call = e.call
      /\ n.told = e.told /\ n.pids = e.pids /\ n.base = e.base /\ n.ids = e.ids
  BY <1>1 DEF EpState
<1> HIDE DEF n
<1>6. \A s : Starting(n, s) = Starting(e, s)
  BY <1>5 DEF Starting
<1>7. Owned(n)
  BY <1>5, <1>6 DEF EpSafe, Owned
<1>8. \A s \in EpServices : (e.managed[s] # NoEp /\ Tends(e, s)) => Tends(n, s)
  <2> SUFFICES ASSUME NEW s \in EpServices, e.managed[s] # NoEp, Tends(e, s) PROVE Tends(n, s)
    OBVIOUS
  <2>2. CASE <<s, e.managed[s].process>> \in dead
    <3> DEFINE x == <<s, e.managed[s].process>>
    <3>1. x \in e.live /\ x[1] = s
      BY <2>2
    <3>2. x[2] > e.base
      BY <3>1, <1>5 DEF EpSafe, Owned
    <3>3. x \in late
      BY <1>3, <2>2, <3>2
    <3> QED BY <1>5, <3>3 DEF Tends
  <2>3. CASE <<s, e.managed[s].process>> \notin dead
    BY <1>5, <2>3 DEF Tends
  <2> QED BY <2>2, <2>3
<1>9. TimersOwned(n)
  BY <1>5 DEF EpSafe, TimersOwned
<1>10. Table(n) /\ CallKept(n)
  BY <1>5 DEF EpSafe, Table, CallKept
<1>a. Reported(n)
  <2> SUFFICES ASSUME NEW x \in n.exits PROVE x[2] <= e.pids /\ x \notin n.live
    BY <1>5 DEF Reported
  <2>1. CASE x \in e.exits
    BY <1>5, <2>1 DEF EpSafe, Reported
  <2>2. CASE x \in dead
    BY <1>5, <2>2 DEF EpSafe, Owned
  <2> QED BY <1>3, <1>5, <2>1, <2>2
<1>11. EpSafe(n)
  BY <1>7, <1>9, <1>10, <1>a DEF EpSafe
<1> QED BY <1>3, <1>4, <1>5, <1>8, <1>11 DEF n

\* Who is reaped lives.
LEMMA ReapKeeps ==
  ASSUME NEW e \in EpState, EpSafe(e), NEW s \in EpServices, NEW except
  PROVE  /\ reapStale(e, s, except) \in EpState /\ EpSafe(reapStale(e, s, except))
         /\ \A q \in EpServices : (e.managed[q] # NoEp /\ Tends(e, q)) => Tends(reapStale(e, s, except), q)
         /\ reapStale(e, s, except).start = e.start /\ reapStale(e, s, except).managed = e.managed
         /\ reapStale(e, s, except).call = e.call /\ reapStale(e, s, except).pids = e.pids
         /\ reapStale(e, s, except).base = e.base /\ reapStale(e, s, except).up = e.up
         /\ reapStale(e, s, except).stopped = e.stopped
         /\ \A x \in reapStale(e, s, except).live : x \in e.live /\ (x[1] = s => x[2] = except)
<1> DEFINE dead == matchingPIDs(e, s, except)
<1>1. dead \in SUBSET e.live /\ \A x \in e.live \ dead : x[1] = s => x[2] = except
  BY DEF matchingPIDs, matches
<1> HIDE DEF dead
<1>2. reapStale(e, s, except) = EpKill(e, dead)
  BY DEF reapStale, dead
<1> QED BY <1>1, <1>2, KillKeeps

\* The second half of a start, once everything that matches is gone.
LEMMA SpawnKeeps ==
  ASSUME NEW e \in EpState, Owned(e), Reported(e), TimersOwned(e), Table(e), CallKept(e), NEW s \in EpServices, NEW who \in {"ensure", "restart"},
         e.start = NoEp, e.up, ~e.stopped, e.managed[s] # NoEp, \A x \in e.live : x[1] # s,
         \A r \in EpServices : (r # s /\ e.managed[r] # NoEp) => Tends(e, r),
         who = "ensure" => e.call # NoEp /\ e.call.pc = "ensure" /\ e.call.todo # << >>
  PROVE  EpSpawn(e, s, who) \in EpState /\ EpGood(EpSpawn(e, s, who))
<1> DEFINE n == EpSpawn(e, s, who)
           k == e.pids + 1
           st == [who |-> who, name |-> s, pid |-> k]
           live == e.live \cup {<<s, k>>}
<1>1. e.pids \in Nat /\ e.base \in Nat /\ k \in Nat /\ e.pids < k /\ e.base <= e.pids
  BY DEF EpState, Table
<1>2. n = [e EXCEPT !.pids = k, !.live = live, !.start = st]
  BY DEF EpSpawn, EpState
<1>3. st \in EpStarts /\ st.name = s /\ st.pid = k /\ st.who = who /\ st # NoEp
  BY <1>1, EdgeProcessesAssumption DEF EpStarts
<1>4. live \in SUBSET EpProcs /\ \A x \in live : x \in e.live \/ (x[1] = s /\ x[2] = k)
  BY <1>1 DEF EpState, EpProcs
<1>a. live = e.live \cup {<<s, k>>}
  OBVIOUS
<1> HIDE DEF live, st, k
<1>b. k \in Nat /\ st \in EpStarts /\ live \in SUBSET EpProcs
  BY <1>1, <1>3, <1>4
<1>5. n \in EpState
  BY <1>b, <1>2 DEF EpState
<1>6. /\ n.live = live /\ n.exits = e.exits /\ n.up = e.up /\ n.stopped = e.stopped /\ n.managed = e.managed
      /\ n.timers = e.timers /\ n.start = st /\ n.call = e.call
      /\ n.told = e.told /\ n.pids = k /\ n.base = e.base /\ n.ids = e.ids
  BY <1>2 DEF EpState
<1> HIDE DEF n
<1>7. \A r : Starting(n, r) <=> r = s
  BY <1>3, <1>6 DEF Starting
<1>8. Owned(n)
  <2> SUFFICES ASSUME NEW x \in live
               PROVE  /\ 0 < x[2] /\ x[2] <= k
                      /\ (e.managed[x[1]] # NoEp) <=> x[2] > e.base
                      /\ (e.managed[x[1]] # NoEp /\ ~(x[1] = s)) => x[2] = e.managed[x[1]].process
                      /\ x[1] = s => x[2] = k
    BY <1>3, <1>6, <1>7 DEF Owned
  <2>1. CASE x \in e.live
    <3>1. x[1] # s /\ x[2] <= e.pids /\ x[2] \in Nat
      BY <2>1 DEF Owned, EpState, EpProcs
    <3>2. ~Starting(e, x[1])
      BY DEF Starting
    <3> QED BY <1>1, <2>1, <3>1, <3>2 DEF Owned
  <2>2. CASE x[1] = s /\ x[2] = k
    BY <1>1, <2>2
  <2> QED BY <1>4, <2>1, <2>2
<1>9. Tended(n)
  <2> SUFFICES ASSUME NEW r \in EpServices, r # s, e.managed[r] # NoEp PROVE Tends(n, r)
    BY <1>6, <1>7 DEF Tended
  <2> QED BY <1>6, <1>a DEF Tends
<1>10. TimersOwned(n)
  BY <1>6 DEF TimersOwned
<1>11. Table(n)
  BY <1>1, <1>3, <1>6 DEF Table
<1>12. CallKept(n)
  BY <1>3, <1>6 DEF CallKept
<1>13. Reported(n)
  <2> SUFFICES ASSUME NEW x \in e.exits PROVE x[2] <= k /\ x \notin live
    BY <1>6 DEF Reported
  <2>1. x[2] <= e.pids /\ x[2] \in Nat /\ x \notin e.live
    BY DEF Reported, EpState, EpProcs
  <2> QED BY <1>1, <1>4, <2>1
<1> QED BY <1>5, <1>8, <1>9, <1>10, <1>11, <1>12, <1>13 DEF EpGood, EpSafe, n

\* A restart is scheduled for an entry that nobody need look after.
LEMMA ScheduleKeeps ==
  ASSUME NEW e \in EpState, Owned(e), Reported(e), TimersOwned(e), Table(e), CallKept(e), NEW s \in EpServices,
         e.managed[s] # NoEp,
         \A r \in EpServices : (e.up /\ ~e.stopped /\ r # s /\ e.managed[r] # NoEp /\ ~Starting(e, r)) => Tends(e, r)
  PROVE  scheduleRestartLocked(e, s) \in EpState /\ EpGood(scheduleRestartLocked(e, s))
<1> DEFINE n == scheduleRestartLocked(e, s)
           k == e.ids + 1
           t == [id |-> k, name |-> s, fired |-> FALSE]
           timers == e.timers \cup {t}
           m == [e.managed[s] EXCEPT !.restart = k]
           managed == [e.managed EXCEPT ![s] = m]
<1>1. e.ids \in Nat /\ k \in Nat /\ k = e.ids + 1 /\ 0 < k
  BY DEF EpState
<1>2. n = [e EXCEPT !.ids = k, !.timers = timers, !.managed = managed]
  BY DEF scheduleRestartLocked, EpState
<1>3. t \in EpTimers /\ t.id = k /\ t.name = s
  BY <1>1 DEF EpTimers
<1>4. e.managed[s] \in EpEntries /\ e.timers \in SUBSET EpTimers
  BY DEF EpState
<1>5. m \in EpEntries /\ m.process = e.managed[s].process /\ m.restart = k /\ m # NoEp
  BY <1>1, <1>4, EdgeProcessesAssumption DEF EpEntries
<1>6. timers = e.timers \cup {t} /\ timers \in SUBSET EpTimers
  BY <1>3, <1>4
<1> HIDE DEF m, t, k, timers
<1>7. /\ managed \in [EpServices -> EpEntries \cup {NoEp}] /\ managed[s] = m
      /\ \A r \in EpServices : r # s => managed[r] = e.managed[r]
  BY <1>5 DEF EpState
<1> HIDE DEF managed
<1>8. n \in EpState
  BY <1>1, <1>2, <1>6, <1>7 DEF EpState
<1>9. /\ n.live = e.live /\ n.exits = e.exits /\ n.up = e.up /\ n.stopped = e.stopped /\ n.managed = managed
      /\ n.timers = timers /\ n.start = e.start /\ n.call = e.call
      /\ n.told = e.told /\ n.pids = e.pids /\ n.base = e.base /\ n.ids = k
  BY <1>2 DEF EpState
<1> HIDE DEF n
<1>10. \A r : Starting(n, r) = Starting(e, r)
  BY <1>9 DEF Starting
<1>11. \A r \in EpServices : (managed[r] # NoEp) = (e.managed[r] # NoEp) /\ managed[r].process = e.managed[r].process
  BY <1>5, <1>7
<1>12. Owned(n)
  <2> SUFFICES ASSUME NEW x \in e.live
               PROVE  /\ 0 < x[2] /\ x[2] <= e.pids
                      /\ (managed[x[1]] # NoEp) <=> x[2] > e.base
                      /\ (managed[x[1]] # NoEp /\ ~Starting(e, x[1])) => x[2] = managed[x[1]].process
                      /\ Starting(e, x[1]) => x[2] = e.start.pid
    BY <1>9, <1>10 DEF Owned
  <2>1. x[1] \in EpServices
    BY DEF EpState, EpProcs
  <2> QED BY <1>11, <2>1 DEF Owned
<1>13. Tended(n)
  <2> SUFFICES ASSUME NEW r \in EpServices, n.up /\ ~n.stopped /\ n.managed[r] # NoEp /\ ~Starting(n, r) PROVE Tends(n, r)
    BY DEF Tended
  <2>1. CASE r = s
    BY <1>3, <1>6, <1>9, <2>1 DEF Tends
  <2>2. CASE r # s
    <3>1. Tends(e, r)
      BY <1>9, <1>10, <1>11, <2>2
    <3> QED BY <1>6, <1>9, <1>11, <3>1 DEF Tends
  <2> QED BY <2>1, <2>2
<1>14. TimersOwned(n)
  <2>1. \A x \in timers : 0 < x.id /\ x.id <= k
    <3> SUFFICES ASSUME NEW x \in timers PROVE 0 < x.id /\ x.id <= k
      OBVIOUS
    <3>1. CASE x \in e.timers
      <4>1. x.id \in Nat
        BY <1>4, <3>1 DEF EpTimers
      <4> QED BY <1>1, <3>1, <4>1 DEF TimersOwned
    <3>2. CASE x = t
      BY <1>1, <1>3, <3>2
    <3> QED BY <1>6, <3>1, <3>2
  <2>2. \A r \in EpServices : managed[r] # NoEp => managed[r].restart <= k /\ \A x \in timers : x.id = managed[r].restart => x.name = r
    <3> SUFFICES ASSUME NEW r \in EpServices, managed[r] # NoEp
                 PROVE  managed[r].restart <= k /\ \A x \in timers : x.id = managed[r].restart => x.name = r
      OBVIOUS
    <3>1. CASE r = s
      <4>1. managed[r].restart = k
        BY <1>5, <1>7, <3>1
      <4>2. \A x \in timers : x.id = k => x.name = s
        <5> SUFFICES ASSUME NEW x \in e.timers PROVE x.id # k
          BY <1>3, <1>6
        <5>1. x.id \in Nat /\ x.id <= e.ids
          BY <1>4 DEF EpTimers, TimersOwned
        <5> QED BY <1>1, <5>1
      <4> QED BY <1>1, <3>1, <4>1, <4>2
    <3>2. CASE r # s
      <4>1. managed[r] = e.managed[r] /\ managed[r].restart \in Nat /\ managed[r].restart <= e.ids
        BY <1>7, <3>2 DEF EpEntries, TimersOwned
      <4>2. \A x \in e.timers : x.id = managed[r].restart => x.name = r
        BY <4>1 DEF TimersOwned
      <4>3. t.id # managed[r].restart
        BY <1>1, <1>3, <4>1
      <4> QED BY <1>1, <1>6, <4>1, <4>2, <4>3
    <3> QED BY <3>1, <3>2
  <2> QED BY <1>9, <2>1, <2>2 DEF TimersOwned
<1>15. Table(n)
  <2>1. e.start # NoEp => e.start.name \in EpServices
    BY DEF EpState, EpStarts
  <2> QED BY <1>9, <1>11, <2>1 DEF Table
<1>16. CallKept(n) /\ Reported(n)
  BY <1>9 DEF CallKept, Reported
<1> QED BY <1>8, <1>12, <1>13, <1>14, <1>15, <1>16 DEF EpGood, EpSafe, n

\* Stopping a service ends its process and cancels no other's timer.
LEMMA StopKeeps ==
  ASSUME NEW e \in EpState, EpGood(e), e.start = NoEp, NEW s \in EpServices
  PROVE  /\ stopLocked(e, s) \in EpState /\ EpGood(stopLocked(e, s))
         /\ stopLocked(e, s).managed[s] = NoEp /\ stopLocked(e, s).start = NoEp
         /\ stopLocked(e, s).up = e.up /\ stopLocked(e, s).stopped = e.stopped /\ stopLocked(e, s).call = e.call
<1>1. CASE e.managed[s] = NoEp
  BY <1>1 DEF stopLocked
<1>2. CASE e.managed[s] # NoEp
  <2> DEFINE n == stopLocked(e, s)
             p == <<s, e.managed[s].process>>
             managed == [e.managed EXCEPT ![s] = NoEp]
             timers == {t \in e.timers : t.fired \/ t.id # e.managed[s].restart}
  <2>1. n = [e EXCEPT !.managed = managed, !.timers = timers, !.live = e.live \ {p}, !.told = e.told \ {s}]
    BY <1>2 DEF stopLocked, EpState
  <2>2. /\ managed \in [EpServices -> EpEntries \cup {NoEp}] /\ managed[s] = NoEp
        /\ \A r \in EpServices : r # s => managed[r] = e.managed[r]
    BY DEF EpState
  <2>3. timers \in SUBSET EpTimers /\ timers \subseteq e.timers
        /\ \A t \in e.timers : t \in timers \/ t.id = e.managed[s].restart
    BY DEF EpState
  <2>4. e.live \ {p} \in SUBSET EpProcs /\ e.told \ {s} \in SUBSET EpServices
    BY DEF EpState
  <2> HIDE DEF managed, timers
  <2>5. n \in EpState
    BY <2>1, <2>2, <2>3, <2>4 DEF EpState
  <2>6. /\ n.live = e.live \ {p} /\ n.exits = e.exits /\ n.up = e.up /\ n.stopped = e.stopped /\ n.managed = managed
        /\ n.timers = timers /\ n.start = e.start /\ n.call = e.call
        /\ n.told = e.told \ {s} /\ n.pids = e.pids /\ n.base = e.base /\ n.ids = e.ids
    BY <2>1 DEF EpState
  <2> HIDE DEF n
  <2>7. \A r : ~Starting(n, r) /\ ~Starting(e, r)
    BY <2>6 DEF Starting
  <2>8. Owned(n)
    <3> SUFFICES ASSUME NEW x \in e.live, x # p
                 PROVE  /\ 0 < x[2] /\ x[2] <= e.pids
                        /\ (managed[x[1]] # NoEp) <=> x[2] > e.base
                        /\ managed[x[1]] # NoEp => x[2] = managed[x[1]].process
      BY <2>6, <2>7 DEF Owned
    <3>1. x[1] \in EpServices /\ x = <<x[1], x[2]>>
      BY DEF EpState, EpProcs
    <3>2. x[1] # s
      BY <1>2, <2>7, <3>1 DEF EpGood, EpSafe, Owned
    <3> QED BY <2>2, <2>7, <3>1, <3>2 DEF EpGood, EpSafe, Owned
  <2>9. Tended(n)
    <3> SUFFICES ASSUME NEW r \in EpServices, n.up /\ ~n.stopped /\ n.managed[r] # NoEp PROVE Tends(n, r)
      BY DEF Tended
    <3>1. r # s /\ n.managed[r] = e.managed[r] /\ e.managed[r] # NoEp
      BY <2>2, <2>6
    <3>2. Tends(e, r)
      BY <2>6, <2>7, <3>1 DEF EpGood, EpSafe, Tended
    <3>3. \A t \in e.timers : t.name = r => t \in timers
      BY <1>2, <2>3, <3>1 DEF EpGood, EpSafe, TimersOwned
    <3>4. <<r, e.managed[r].process>> # p
      BY <3>1
    <3> QED BY <2>6, <3>1, <3>2, <3>3, <3>4 DEF Tends
  <2>10. TimersOwned(n)
    <3>1. \A t \in timers : 0 < t.id /\ t.id <= e.ids
      BY <2>3 DEF EpGood, EpSafe, TimersOwned
    <3>2. \A r \in EpServices : managed[r] # NoEp => r # s /\ managed[r] = e.managed[r]
      BY <2>2
    <3> QED BY <2>3, <2>6, <3>1, <3>2 DEF EpGood, EpSafe, TimersOwned
  <2>11. Table(n)
    BY <2>2, <2>6 DEF EpGood, EpSafe, Table
  <2>12. CallKept(n) /\ Reported(n)
    BY <2>6 DEF EpGood, EpSafe, CallKept, Reported
  <2>13. EpGood(n)
    BY <2>8, <2>9, <2>10, <2>11, <2>12 DEF EpGood, EpSafe
  <2> QED BY <2>2, <2>5, <2>6, <2>13 DEF n
<1> QED BY <1>1, <1>2

\* The call of reconcile moves on and nothing else does.
SameTable(e, n) ==
  /\ n.live = e.live /\ n.exits = e.exits /\ n.up = e.up /\ n.stopped = e.stopped /\ n.managed = e.managed
  /\ n.timers = e.timers /\ n.start = e.start /\ n.told = e.told /\ n.pids = e.pids /\ n.base = e.base /\ n.ids = e.ids

LEMMA CallMoves ==
  ASSUME NEW e, NEW n, EpGood(e), SameTable(e, n), CallKept(n)
  PROVE  EpGood(n)
<1>1. \A s : Starting(n, s) = Starting(e, s) /\ Tends(n, s) = Tends(e, s)
  BY DEF SameTable, Starting, Tends
<1>2. Owned(n)
  BY <1>1 DEF SameTable, Owned, EpGood, EpSafe
<1>3. Tended(n)
  BY <1>1 DEF SameTable, Tended, EpGood, EpSafe
<1>4. TimersOwned(n)
  BY DEF SameTable, TimersOwned, EpGood, EpSafe
<1>5. Table(n) /\ Reported(n)
  BY DEF SameTable, Table, Reported, EpGood, EpSafe
<1> QED BY <1>2, <1>3, <1>4, <1>5 DEF EpGood, EpSafe

\* The start has an entry, and its owner waits.
LEMMA ReadyStep == ASSUME EpInv, start_ready PROVE EpInv'
<1> DEFINE st == ep.start
           s == st.name
           m == [ep.managed[s] EXCEPT !.process = st.pid, !.restart = 0]
           managed == [ep.managed EXCEPT ![s] = m]
           call == IF st.who = "ensure" THEN [ep.call EXCEPT !.todo = Tail(ep.call.todo)] ELSE ep.call
<1>1. /\ ep \in EpState /\ Owned(ep) /\ Reported(ep) /\ Tended(ep) /\ TimersOwned(ep) /\ Table(ep) /\ CallKept(ep)
      /\ ep.up /\ st # NoEp /\ <<s, st.pid>> \in ep.live
  BY DEF EpInv, EpGood, EpSafe, start_ready, EpLocked
<1>2. st \in EpStarts /\ s \in EpServices /\ st.pid \in Nat /\ ep.managed[s] # NoEp
  BY <1>1 DEF EpState, EpStarts, Table
<1>3. ep.managed[s] \in EpEntries
  BY <1>1, <1>2 DEF EpState
<1>4. m \in EpEntries /\ m.process = st.pid /\ m.restart = 0 /\ m # NoEp
  <2> DEFINE o == ep.managed[s]
             p == st.pid
  <2>1. o \in EpEntries /\ p \in Nat /\ 0 \in Nat
    BY <1>2, <1>3
  <2>2. m = [o EXCEPT !.process = p, !.restart = 0]
    OBVIOUS
  <2> HIDE DEF o, p, m
  <2>3. m \in EpEntries /\ m.process = p /\ m.restart = 0
    BY <2>1, <2>2 DEF EpEntries
  <2> QED BY <2>3, EdgeProcessesAssumption DEF p
<1>5. ep' = [ep EXCEPT !.start = NoEp, !.managed = managed, !.told = ep.told \ {s}, !.call = call]
  BY <1>1 DEF start_ready, EpState
<1>6. call \in EpCalls \cup {NoEp} /\ (call # NoEp => ep.call # NoEp /\ call.except = ep.call.except /\ call.left = ep.call.left /\ call.pc = ep.call.pc)
  <2>1. CASE st.who = "ensure"
    <3>1. ep.call \in EpCalls /\ ep.call.todo # << >>
      BY <1>1, <2>1 DEF CallKept, EpState
    <3>2. Tail(ep.call.todo) \in Seq(EpSpecs)
      BY <3>1 DEF EpCalls
    <3>3. call = [ep.call EXCEPT !.todo = Tail(ep.call.todo)]
      BY <2>1, <3>1 DEF EpCalls
    <3> QED BY <3>1, <3>2, <3>3, EdgeProcessesAssumption DEF EpCalls
  <2>2. CASE st.who # "ensure"
    BY <1>1, <2>2 DEF EpState
  <2> QED BY <2>1, <2>2
<1> HIDE DEF m, call
<1>7. /\ managed \in [EpServices -> EpEntries \cup {NoEp}] /\ managed[s] = m
      /\ \A r \in EpServices : r # s => managed[r] = ep.managed[r]
  BY <1>1, <1>2, <1>4 DEF EpState
<1>8. ep.told \ {s} \in SUBSET EpServices
  BY <1>1 DEF EpState
<1> HIDE DEF managed, s, st
<1>9. ep' \in EpState
  BY <1>1, <1>5, <1>6, <1>7, <1>8 DEF EpState
<1>10. /\ ep'.live = ep.live /\ ep'.exits = ep.exits /\ ep'.up = ep.up /\ ep'.stopped = ep.stopped /\ ep'.managed = managed
       /\ ep'.timers = ep.timers /\ ep'.start = NoEp /\ ep'.call = call
       /\ ep'.told = ep.told \ {s} /\ ep'.pids = ep.pids /\ ep'.base = ep.base /\ ep'.ids = ep.ids
  BY <1>1, <1>5 DEF EpState
<1>11. \A r : ~Starting(ep', r) /\ (Starting(ep, r) <=> r = s)
  BY <1>1, <1>10 DEF Starting, s, st
<1>12. \A r \in EpServices : (managed[r] # NoEp) = (ep.managed[r] # NoEp)
  BY <1>2, <1>4, <1>7
<1>13. Owned(ep')
  <2> SUFFICES ASSUME NEW x \in ep.live
               PROVE  /\ 0 < x[2] /\ x[2] <= ep.pids
                      /\ (managed[x[1]] # NoEp) <=> x[2] > ep.base
                      /\ managed[x[1]] # NoEp => x[2] = managed[x[1]].process
    BY <1>10, <1>11 DEF Owned
  <2>1. x[1] \in EpServices
    BY <1>1 DEF EpState, EpProcs
  <2>2. CASE x[1] = s
    <3>1. x[2] = st.pid
      BY <1>1, <1>11, <2>2 DEF Owned, st
    <3> QED BY <1>1, <1>4, <1>7, <1>12, <2>1, <2>2, <3>1 DEF Owned
  <2>3. CASE x[1] # s
    BY <1>1, <1>7, <1>11, <2>1, <2>3 DEF Owned
  <2> QED BY <2>2, <2>3
<1>14. Tended(ep')
  <2> SUFFICES ASSUME NEW r \in EpServices, ep'.up /\ ~ep'.stopped /\ ep'.managed[r] # NoEp PROVE Tends(ep', r)
    BY DEF Tended
  <2>1. CASE r = s
    BY <1>1, <1>4, <1>7, <1>10, <2>1 DEF Tends
  <2>2. CASE r # s
    <3>1. Tends(ep, r) /\ managed[r] = ep.managed[r]
      BY <1>1, <1>7, <1>10, <1>11, <2>2 DEF Tended
    <3> QED BY <1>10, <2>2, <3>1 DEF Tends
  <2> QED BY <2>1, <2>2
<1>15. TimersOwned(ep')
  <2> SUFFICES ASSUME NEW r \in EpServices, managed[r] # NoEp
               PROVE  managed[r].restart <= ep.ids /\ \A t \in ep.timers : t.id = managed[r].restart => t.name = r
    BY <1>1, <1>10 DEF TimersOwned
  <2>1. CASE r = s
    <3>1. managed[r].restart = 0 /\ ep.ids \in Nat /\ \A t \in ep.timers : t.id # 0
      BY <1>1, <1>4, <1>7, <2>1 DEF TimersOwned, EpState, EpTimers
    <3> QED BY <3>1
  <2>2. CASE r # s
    BY <1>1, <1>7, <2>2 DEF TimersOwned
  <2> QED BY <2>1, <2>2
<1>16. Table(ep')
  BY <1>1, <1>10, <1>12 DEF Table
<1>17. CallKept(ep') /\ Reported(ep')
  BY <1>1, <1>6, <1>10 DEF CallKept, Reported
<1> QED BY <1>9, <1>13, <1>14, <1>15, <1>16, <1>17 DEF EpInv, EpGood, EpSafe

LEMMA FailsStep == ASSUME EpInv, start_fails PROVE EpInv'
<1> DEFINE st == ep.start
           s == st.name
           live == ep.live \ {<<s, st.pid>>}
           e == [ep EXCEPT !.start = NoEp, !.live = live]
<1>1. /\ ep \in EpState /\ Owned(ep) /\ Reported(ep) /\ Tended(ep) /\ TimersOwned(ep) /\ Table(ep) /\ CallKept(ep)
      /\ ep.up /\ st # NoEp
  BY DEF EpInv, EpGood, EpSafe, start_fails, EpLocked
<1>2. s \in EpServices /\ ep.managed[s] # NoEp /\ ~ep.stopped
  BY <1>1 DEF EpState, EpStarts, Table
<1>3. ep' = IF st.who = "ensure" THEN [e EXCEPT !.told = @ \cup {s}, !.call = NoEp] ELSE scheduleRestartLocked(e, s)
  BY DEF start_fails
<1>4. live \in SUBSET EpProcs /\ live = ep.live \ {<<s, st.pid>>}
  BY <1>1 DEF EpState
<1> HIDE DEF live
<1>5. e \in EpState
  BY <1>1, <1>4 DEF EpState
<1>6. /\ e.live = live /\ e.exits = ep.exits /\ e.up = ep.up /\ e.stopped = ep.stopped /\ e.managed = ep.managed
      /\ e.timers = ep.timers /\ e.start = NoEp /\ e.call = ep.call
      /\ e.told = ep.told /\ e.pids = ep.pids /\ e.base = ep.base /\ e.ids = ep.ids
  BY <1>1 DEF EpState
<1> HIDE DEF e
<1>7. \A r : ~Starting(e, r) /\ (Starting(ep, r) <=> r = s)
  BY <1>1, <1>6 DEF Starting
<1>8. \A x \in live : x[1] # s
  <2> SUFFICES ASSUME NEW x \in ep.live, x[1] = s PROVE x = <<s, st.pid>>
    BY <1>4
  <2>1. x[2] = st.pid /\ x = <<x[1], x[2]>>
    BY <1>1, <1>7 DEF Owned, EpState, EpProcs
  <2> QED BY <2>1
<1> HIDE DEF s, st
<1>9. Owned(e)
  BY <1>1, <1>4, <1>6, <1>7, <1>8 DEF Owned
<1>10. \A r \in EpServices : (r # s /\ ep.managed[r] # NoEp) => Tends(e, r)
  <2> SUFFICES ASSUME NEW r \in EpServices, r # s, ep.managed[r] # NoEp PROVE Tends(e, r)
    OBVIOUS
  <2>1. Tends(ep, r)
    BY <1>1, <1>2, <1>7 DEF Tended
  <2>2. \A p : <<r, p>> \in ep.live => <<r, p>> \in live
    BY <1>4
  <2> QED BY <1>6, <2>1, <2>2 DEF Tends
<1>11. TimersOwned(e) /\ Table(e)
  BY <1>1, <1>6 DEF TimersOwned, Table
<1>12. CallKept(e) /\ Reported(e)
  BY <1>1, <1>4, <1>6 DEF CallKept, Reported
<1>13. CASE st.who = "ensure"
  <2> DEFINE told == ep.told \cup {s}
  <2>1. ep' = [e EXCEPT !.told = told, !.call = NoEp]
    BY <1>3, <1>6, <1>13
  <2>2. told \in SUBSET EpServices /\ ep.told \subseteq told /\ s \in told
    BY <1>1, <1>2 DEF EpState
  <2> HIDE DEF told
  <2>3. ep' \in EpState
    BY <1>5, <2>1, <2>2 DEF EpState
  <2>4. /\ ep'.live = live /\ ep'.exits = ep.exits /\ ep'.up = ep.up /\ ep'.stopped = ep.stopped /\ ep'.managed = ep.managed
        /\ ep'.timers = ep.timers /\ ep'.start = NoEp /\ ep'.call = NoEp
        /\ ep'.told = told /\ ep'.pids = ep.pids /\ ep'.base = ep.base /\ ep'.ids = ep.ids
    BY <1>5, <1>6, <2>1 DEF EpState
  <2>5. \A r : ~Starting(ep', r)
    BY <2>4 DEF Starting
  <2>6. Owned(ep')
    BY <1>6, <1>7, <1>9, <2>4, <2>5 DEF Owned
  <2>7. Tended(ep')
    BY <1>6, <1>10, <2>2, <2>4 DEF Tended, Tends
  <2>8. TimersOwned(ep') /\ Table(ep') /\ CallKept(ep') /\ Reported(ep')
    BY <1>6, <1>11, <1>12, <2>4 DEF TimersOwned, Table, CallKept, Reported
  <2> QED BY <2>3, <2>6, <2>7, <2>8 DEF EpInv, EpGood, EpSafe
<1>14. CASE st.who # "ensure"
  <2>1. ep' = scheduleRestartLocked(e, s)
    BY <1>3, <1>14
  <2>2. ep' \in EpState /\ EpGood(ep')
    BY <1>2, <1>5, <1>6, <1>9, <1>10, <1>11, <1>12, <2>1, ScheduleKeeps
  <2> QED BY <2>2 DEF EpInv
<1> QED BY <1>13, <1>14

\* An exit that is handled either is the entry's, and a restart follows, or
\* says nothing of the entry.
LEMMA ExitedStep == ASSUME EpInv, childExited PROVE EpInv'
<1>1. /\ ep \in EpState /\ Owned(ep) /\ Reported(ep) /\ Tended(ep) /\ TimersOwned(ep) /\ Table(ep) /\ CallKept(ep)
      /\ ep.up /\ ep.start = NoEp
  BY DEF EpInv, EpGood, EpSafe, childExited, EpFree, EpLocked
<1>2. PICK x \in ep.exits :
        ep' = IF ~ep.stopped /\ ep.managed[x[1]] # NoEp /\ ep.managed[x[1]].process = x[2]
              THEN scheduleRestartLocked([[ep EXCEPT !.exits = ep.exits \ {x}] EXCEPT !.managed[x[1]].process = 0], x[1])
              ELSE [ep EXCEPT !.exits = ep.exits \ {x}]
  BY <1>1 DEF childExited, EpState
<1> DEFINE s == x[1]
           exits == ep.exits \ {x}
           e == [ep EXCEPT !.exits = exits]
<1>3. s \in EpServices /\ x = <<s, x[2]>> /\ exits \in SUBSET EpProcs
  BY <1>1 DEF EpState, EpProcs
<1>4. exits = ep.exits \ {x}
  OBVIOUS
<1> HIDE DEF exits
<1>5. e \in EpState
  BY <1>1, <1>3 DEF EpState
<1>6. /\ e.live = ep.live /\ e.exits = exits /\ e.up = ep.up /\ e.stopped = ep.stopped /\ e.managed = ep.managed
      /\ e.timers = ep.timers /\ e.start = NoEp /\ e.call = ep.call
      /\ e.told = ep.told /\ e.pids = ep.pids /\ e.base = ep.base /\ e.ids = ep.ids
  BY <1>1 DEF EpState
<1>7. ep' = IF ~ep.stopped /\ ep.managed[s] # NoEp /\ ep.managed[s].process = x[2]
            THEN scheduleRestartLocked([e EXCEPT !.managed[s].process = 0], s) ELSE e
  BY <1>2 DEF exits
<1> HIDE DEF e
<1>8. \A r : ~Starting(e, r) /\ ~Starting(ep, r)
  BY <1>1, <1>6 DEF Starting
<1>9. Owned(e) /\ Reported(e) /\ TimersOwned(e) /\ Table(e) /\ CallKept(e)
  <2>1. Owned(e)
    BY <1>1, <1>6, <1>8 DEF Owned
  <2>2. TimersOwned(e)
    BY <1>1, <1>6 DEF TimersOwned
  <2> QED BY <1>1, <1>4, <1>6, <2>1, <2>2 DEF Table, CallKept, Reported
<1>10. \A r \in EpServices : (ep.up /\ ~ep.stopped /\ ep.managed[r] # NoEp /\ <<r, ep.managed[r].process>> # x) => Tends(e, r)
  BY <1>1, <1>4, <1>6, <1>8 DEF Tended, Tends
<1> HIDE DEF s
<1>11. CASE ~ep.stopped /\ ep.managed[s] # NoEp /\ ep.managed[s].process = x[2]
  <2> DEFINE m == [ep.managed[s] EXCEPT !.process = 0]
             managed == [ep.managed EXCEPT ![s] = m]
             f == [e EXCEPT !.managed = managed]
  <2>1. ep.managed[s] \in EpEntries
    BY <1>1, <1>3, <1>11 DEF EpState
  <2>2. m \in EpEntries /\ m # NoEp /\ m.restart = ep.managed[s].restart /\ m.process = 0
    BY <2>1, EdgeProcessesAssumption DEF EpEntries
  <2>3. f = [e EXCEPT !.managed[s].process = 0]
    BY <1>5, <1>6 DEF EpState
  <2> HIDE DEF m
  <2>4. /\ managed \in [EpServices -> EpEntries \cup {NoEp}] /\ managed[s] = m
        /\ \A r \in EpServices : r # s => managed[r] = ep.managed[r]
    BY <1>1, <1>3, <2>2 DEF EpState
  <2> HIDE DEF managed
  <2>5. f \in EpState
    BY <1>5, <2>4 DEF EpState
  <2>6. /\ f.live = ep.live /\ f.exits = exits /\ f.up = ep.up /\ f.stopped = ep.stopped /\ f.managed = managed
        /\ f.timers = ep.timers /\ f.start = NoEp /\ f.call = ep.call
        /\ f.told = ep.told /\ f.pids = ep.pids /\ f.base = ep.base /\ f.ids = ep.ids
    BY <1>5, <1>6 DEF EpState
  <2> HIDE DEF f
  <2>7. \A r : ~Starting(f, r)
    BY <2>6 DEF Starting
  <2>8. \A y \in ep.live : y[1] # s /\ y[1] \in EpServices
    <3> SUFFICES ASSUME NEW y \in ep.live, y[1] = s PROVE FALSE
      BY <1>1 DEF EpState, EpProcs
    <3>1. y = <<y[1], y[2]>> /\ y[2] = ep.managed[s].process
      BY <1>1, <1>8, <1>11 DEF EpState, EpProcs, Owned
    <3>2. y = x
      BY <1>3, <1>11, <3>1
    <3> QED BY <1>1, <3>2 DEF Reported
  <2>9. Owned(f)
    BY <1>1, <1>8, <2>4, <2>6, <2>7, <2>8 DEF Owned
  <2>10. Reported(f)
    BY <1>6, <1>9, <2>6 DEF Reported
  <2>11. \A r \in EpServices : (r # s /\ f.managed[r] # NoEp) => Tends(f, r)
    <3> SUFFICES ASSUME NEW r \in EpServices, r # s, managed[r] # NoEp PROVE Tends(f, r)
      BY <2>6
    <3>1. managed[r] = ep.managed[r] /\ <<r, ep.managed[r].process>> # x
      BY <1>3, <2>4
    <3>2. Tends(e, r)
      BY <1>1, <1>10, <1>11, <3>1
    <3> QED BY <1>6, <2>6, <3>1, <3>2 DEF Tends
  <2>12. TimersOwned(f)
    <3>1. \A r \in EpServices : managed[r].restart = ep.managed[r].restart /\ (managed[r] # NoEp) = (ep.managed[r] # NoEp)
      BY <1>11, <2>2, <2>4
    <3> QED BY <1>1, <2>6, <3>1 DEF TimersOwned
  <2>13. Table(f)
    BY <1>1, <1>11, <2>6 DEF Table
  <2>14. CallKept(f)
    BY <1>1, <2>6 DEF CallKept
  <2>15. f.managed[s] # NoEp
    BY <2>2, <2>4, <2>6
  <2>16. ep' = scheduleRestartLocked(f, s)
    BY <1>7, <1>11, <2>3
  <2>17. ep' \in EpState /\ EpGood(ep')
    BY <1>3, <2>5, <2>9, <2>10, <2>11, <2>12, <2>13, <2>14, <2>15, <2>16, ScheduleKeeps
  <2> QED BY <2>17 DEF EpInv
<1>12. CASE ~(~ep.stopped /\ ep.managed[s] # NoEp /\ ep.managed[s].process = x[2])
  <2>1. ep' = e
    BY <1>7, <1>12
  <2>2. \A r \in EpServices : (~ep.stopped /\ ep.managed[r] # NoEp) => <<r, ep.managed[r].process>> # x
    BY <1>3, <1>12 DEF s
  <2>3. Tended(ep')
    BY <1>1, <1>6, <1>10, <2>1, <2>2 DEF Tended
  <2> QED BY <1>5, <1>9, <2>1, <2>3 DEF EpInv, EpGood, EpSafe
<1> QED BY <1>11, <1>12

LEMMA DiesStep == ASSUME EpInv, child_dies PROVE EpInv'
<1>1. PICK x \in ep.live : ep' = EpKill(ep, {x})
  BY DEF child_dies
<1> DEFINE dead == {x}
<1>2. dead \in SUBSET ep.live /\ ep' = EpKill(ep, dead)
  BY <1>1
<1> HIDE DEF dead
<1>3. ep \in EpState /\ EpSafe(ep) /\ Tended(ep)
  BY DEF EpInv, EpGood, EpSafe
<1> DEFINE n == EpKill(ep, dead)
<1>4. /\ n \in EpState /\ EpSafe(n)
      /\ \A s \in EpServices : (ep.managed[s] # NoEp /\ Tends(ep, s)) => Tends(n, s)
      /\ n.up = ep.up /\ n.stopped = ep.stopped /\ n.managed = ep.managed /\ n.start = ep.start
  BY <1>2, <1>3, KillKeeps
<1> HIDE DEF n
<1>5. Tended(n)
  BY <1>3, <1>4 DEF Tended, Starting
<1> QED BY <1>2, <1>4, <1>5 DEF EpInv, EpGood, EpSafe, n

\* Firing changes nothing of a timer but that it can no longer be cancelled.
LEMMA FiresStep == ASSUME EpInv, timer_fires PROVE EpInv'
<1>1. PICK t \in ep.timers : ep' = [ep EXCEPT !.timers = (ep.timers \ {t}) \cup {[t EXCEPT !.fired = TRUE]}]
  BY DEF timer_fires, EpInv, EpState
<1> DEFINE u == [t EXCEPT !.fired = TRUE]
           timers == (ep.timers \ {t}) \cup {u}
<1>2. ep \in EpState /\ EpGood(ep) /\ t \in EpTimers
  BY DEF EpInv, EpState
<1>3. u \in EpTimers /\ u.id = t.id /\ u.name = t.name
  BY <1>2 DEF EpTimers
<1> HIDE DEF u
<1>4. /\ timers \in SUBSET EpTimers
      /\ \A x \in timers : \E y \in ep.timers : y.id = x.id /\ y.name = x.name
      /\ \A y \in ep.timers : \E x \in timers : y.id = x.id /\ y.name = x.name
  BY <1>2, <1>3 DEF EpState
<1>5. ep' = [ep EXCEPT !.timers = timers]
  BY <1>1 DEF u
<1> HIDE DEF timers
<1>6. ep' \in EpState
  BY <1>2, <1>4, <1>5 DEF EpState
<1>7. /\ ep'.live = ep.live /\ ep'.exits = ep.exits /\ ep'.up = ep.up /\ ep'.stopped = ep.stopped /\ ep'.managed = ep.managed
      /\ ep'.timers = timers /\ ep'.start = ep.start /\ ep'.call = ep.call
      /\ ep'.told = ep.told /\ ep'.pids = ep.pids /\ ep'.base = ep.base /\ ep'.ids = ep.ids
  BY <1>2, <1>5 DEF EpState
<1>8. \A s : Starting(ep', s) = Starting(ep, s)
  BY <1>7 DEF Starting
<1>9. Owned(ep') /\ Reported(ep') /\ Table(ep') /\ CallKept(ep')
  BY <1>2, <1>7, <1>8 DEF EpGood, EpSafe, Owned, Reported, Table, CallKept
<1>10. \A s : Tends(ep, s) => Tends(ep', s)
  BY <1>4, <1>7 DEF Tends
<1>11. Tended(ep')
  BY <1>2, <1>7, <1>8, <1>10 DEF EpGood, EpSafe, Tended
<1>12. TimersOwned(ep')
  <2>1. \A x \in timers : 0 < x.id /\ x.id <= ep.ids
    BY <1>2, <1>4 DEF EpGood, EpSafe, TimersOwned
  <2>2. \A s \in EpServices : ep.managed[s] # NoEp => \A x \in timers : x.id = ep.managed[s].restart => x.name = s
    BY <1>2, <1>4 DEF EpGood, EpSafe, TimersOwned
  <2> QED BY <1>2, <1>7, <2>1, <2>2 DEF EpGood, EpSafe, TimersOwned
<1> QED BY <1>6, <1>9, <1>11, <1>12 DEF EpInv, EpGood, EpSafe

\* A start for service s, after which everything else that matches is gone.
LEMMA StartKeeps ==
  ASSUME NEW e \in EpState, EpSafe(e), NEW s \in EpServices, NEW who \in {"ensure", "restart"},
         e.start = NoEp, e.up, ~e.stopped, e.managed[s] # NoEp,
         \A q \in EpServices : (q # s /\ e.managed[q] # NoEp) => Tends(e, q),
         who = "ensure" => e.call # NoEp /\ e.call.pc = "ensure" /\ e.call.todo # << >>
  PROVE  startLocked(e, s, who) \in EpState /\ EpGood(startLocked(e, s, who))
<1> DEFINE z == 0
           r == reapStale(e, s, z)
<1>a. r = reapStale(e, s, z) /\ startLocked(e, s, who) = EpSpawn(r, s, who)
  BY DEF startLocked
<1> HIDE DEF r, z
<1>b. r \in EpState
  BY <1>a, ReapKeeps
<1>c. EpSafe(r)
  BY <1>a, ReapKeeps
<1>d. (\A q \in EpServices : (e.managed[q] # NoEp /\ Tends(e, q)) => Tends(r, q))
  BY <1>a, ReapKeeps
<1>e. r.start = e.start /\ r.managed = e.managed /\ r.call = e.call /\ r.base = e.base
  BY <1>a, ReapKeeps
<1>g. r.up = e.up /\ r.stopped = e.stopped
  BY ZenonT(40), <1>a, ReapKeeps
<1>f. \A x \in r.live : x[1] = s => x[2] = z
  BY <1>a, ReapKeeps
<1>1. /\ r \in EpState /\ EpSafe(r) /\ (\A q \in EpServices : (e.managed[q] # NoEp /\ Tends(e, q)) => Tends(r, q))
      /\ r.start = e.start /\ r.managed = e.managed /\ r.call = e.call
      /\ r.up = e.up /\ r.stopped = e.stopped /\ r.base = e.base
      /\ \A x \in r.live : x[1] = s => x[2] = z
  BY <1>b, <1>c, <1>d, <1>e, <1>f, <1>g
<1>2. startLocked(e, s, who) = EpSpawn(r, s, who)
  BY <1>a
<1>3. \A x \in r.live : x[1] # s
  <2> SUFFICES ASSUME NEW x \in r.live, x[1] = s PROVE FALSE
    OBVIOUS
  <2>1. x[2] = 0 /\ x[2] > r.base
    BY <1>1 DEF z, EpGood, EpSafe, Owned
  <2>2. r.base \in Nat
    BY <1>1 DEF EpState
  <2> QED BY <2>1, <2>2
<1>4. \A q \in EpServices : (q # s /\ r.managed[q] # NoEp) => Tends(r, q)
  BY <1>1
<1>5. Owned(r) /\ Reported(r) /\ TimersOwned(r) /\ Table(r) /\ CallKept(r)
  BY <1>1 DEF EpGood, EpSafe
<1> QED BY <1>1, <1>2, <1>3, <1>4, <1>5, SpawnKeeps

LEMMA EpRestartStep == ASSUME EpInv, restart PROVE EpInv'
<1>1. ep \in EpState /\ EpGood(ep) /\ ep.up /\ ep.start = NoEp
  BY DEF EpInv, restart, EpFree, EpLocked
<1>2. PICK t \in ep.timers :
        ep' = IF ep.stopped \/ ep.managed[t.name] = NoEp THEN [ep EXCEPT !.timers = ep.timers \ {t}]
              ELSE startLocked([ep EXCEPT !.timers = ep.timers \ {t}], t.name, "restart")
  BY <1>1 DEF restart, EpState
<1> DEFINE s == t.name
           timers == ep.timers \ {t}
           e == [ep EXCEPT !.timers = timers]
<1>3. timers \in SUBSET EpTimers /\ s \in EpServices /\ timers = ep.timers \ {t}
  BY <1>1 DEF EpState, EpTimers
<1>4. ep' = IF ep.stopped \/ ep.managed[s] = NoEp THEN e ELSE startLocked(e, s, "restart")
  BY <1>2
<1> HIDE DEF timers
<1>5. e \in EpState
  BY <1>1, <1>3 DEF EpState
<1>6. /\ e.live = ep.live /\ e.exits = ep.exits /\ e.up = ep.up /\ e.stopped = ep.stopped /\ e.managed = ep.managed
      /\ e.timers = timers /\ e.start = ep.start /\ e.call = ep.call
      /\ e.told = ep.told /\ e.pids = ep.pids /\ e.base = ep.base /\ e.ids = ep.ids
  BY <1>1 DEF EpState
<1> HIDE DEF e
<1>7. \A r : ~Starting(e, r) /\ ~Starting(ep, r)
  BY <1>1, <1>6 DEF Starting
<1>8. Owned(e) /\ Reported(e) /\ Table(e) /\ CallKept(e)
  BY <1>1, <1>6, <1>7 DEF EpGood, EpSafe, Owned, Reported, Table, CallKept
<1>9. TimersOwned(e)
  BY <1>1, <1>3, <1>6 DEF EpGood, EpSafe, TimersOwned
<1>10. \A q \in EpServices : (ep.up /\ ~ep.stopped /\ ep.managed[q] # NoEp /\ q # s) => Tends(e, q)
  BY <1>1, <1>3, <1>6, <1>7 DEF EpGood, EpSafe, Tended, Tends
<1> HIDE DEF s
<1>11. CASE ep.stopped \/ ep.managed[s] = NoEp
  <2>1. Tended(e)
    BY <1>6, <1>10, <1>11 DEF Tended
  <2> QED BY <1>4, <1>5, <1>8, <1>9, <1>11, <2>1 DEF EpInv, EpGood, EpSafe
<1>12. CASE ~ep.stopped /\ ep.managed[s] # NoEp
  <2>1. ep' = startLocked(e, s, "restart")
    BY <1>4, <1>12
  <2>2. ep' \in EpState /\ EpGood(ep')
    <3>1. EpSafe(e)
      BY <1>8, <1>9 DEF EpSafe
    <3>2. \A q \in EpServices : (q # s /\ e.managed[q] # NoEp) => Tends(e, q)
      BY <1>1, <1>6, <1>10, <1>12
    <3>3. e.start = NoEp /\ e.up /\ ~e.stopped /\ e.managed[s] # NoEp
      BY <1>1, <1>6, <1>12
    <3> QED BY <1>3, <1>5, <2>1, <3>1, <3>2, <3>3, StartKeeps DEF s
  <2> QED BY <2>2 DEF EpInv
<1> QED BY <1>11, <1>12

-----------------------------------------------------------------------------
(* The call of reconcile.                                                  *)

\* A step of the call alone.
LEMMA CallStep ==
  ASSUME EpInv, NEW c \in EpCalls \cup {NoEp}, ep' = [ep EXCEPT !.call = c],
         ~(ep.start # NoEp /\ ep.start.who = "ensure"),
         (c # NoEp /\ c.except # NoEp) => c.pc = "reap" /\ c.left # << >>
  PROVE  EpInv'
<1>1. ep \in EpState /\ EpGood(ep)
  BY DEF EpInv
<1>2. ep' \in EpState
  BY <1>1 DEF EpState
<1>3. SameTable(ep, ep') /\ ep'.call = c
  BY <1>1 DEF EpState, SameTable
<1>4. CallKept(ep')
  BY <1>3 DEF CallKept, SameTable
<1>5. EpGood(ep')
  BY <1>1, <1>3, <1>4, CallMoves
<1> QED BY <1>2, <1>5 DEF EpInv

\* Processes end while the call moves on.
LEMMA KillMoves ==
  ASSUME EpInv, NEW dead \in SUBSET ep.live, NEW c \in EpCalls \cup {NoEp}, NEW calls \in Nat,
         ep' = [EpKill(ep, dead) EXCEPT !.calls = calls, !.call = c],
         ~(ep.start # NoEp /\ ep.start.who = "ensure"),
         (c # NoEp /\ c.except # NoEp) => c.pc = "reap" /\ c.left # << >>
  PROVE  EpInv'
<1> DEFINE n == EpKill(ep, dead)
<1>1. ep \in EpState /\ EpSafe(ep) /\ Tended(ep)
  BY DEF EpInv, EpGood
<1>2. /\ n \in EpState /\ EpSafe(n)
      /\ \A s \in EpServices : (ep.managed[s] # NoEp /\ Tends(ep, s)) => Tends(n, s)
      /\ n.up = ep.up /\ n.stopped = ep.stopped /\ n.managed = ep.managed /\ n.start = ep.start
  BY <1>1, KillKeeps
<1>3. ep' = [n EXCEPT !.calls = calls, !.call = c]
  OBVIOUS
<1> HIDE DEF n
<1>4. Tended(n)
  BY <1>1, <1>2 DEF Tended, Starting
<1>5. ep' \in EpState
  BY <1>2, <1>3 DEF EpState
<1>6. SameTable(n, ep') /\ ep'.call = c
  BY <1>2, <1>3 DEF EpState, SameTable
<1>7. CallKept(ep')
  BY <1>2, <1>6 DEF CallKept, SameTable
<1>8. EpGood(ep')
  BY <1>2, <1>4, <1>6, <1>7, CallMoves DEF EpGood
<1> QED BY <1>5, <1>8 DEF EpInv

\* No start is under way on behalf of a call that is not ensuring.
LEMMA NotWaited ==
  ASSUME EpInv, ep.call = NoEp \/ ep.call.pc # "ensure"
  PROVE  ~(ep.start # NoEp /\ ep.start.who = "ensure")
BY DEF EpInv, EpGood, EpSafe, CallKept

LEMMA BeginStep == ASSUME EpInv, reconcile_begin PROVE EpInv'
<1>1. ep \in EpState /\ ep.call = NoEp
  BY DEF EpInv, reconcile_begin
<1>2. PICK cfg \in EpConfigs :
        LET dead == {x \in ep.live : \E i \in 1..Len(cfg) : x[1] \in cfg[i].reap} IN
        ep' = [EpKill(ep, dead) EXCEPT !.calls = @ + 1,
                                       !.call = [pc |-> "reap", todo |-> cfg, left |-> cfg, except |-> NoEp, obsolete |-> {}]]
  BY DEF reconcile_begin
<1> DEFINE dead == {x \in ep.live : \E i \in 1..Len(cfg) : x[1] \in cfg[i].reap}
           c == [pc |-> "reap", todo |-> cfg, left |-> cfg, except |-> NoEp, obsolete |-> {}]
           k == EpKill(ep, dead).calls + 1
<1>3. dead \in SUBSET ep.live
  OBVIOUS
<1>4. cfg \in Seq(EpSpecs)
  BY EdgeProcessesAssumption
<1>5. c \in EpCalls /\ c.except = NoEp
  BY <1>4 DEF EpCalls
<1>6. ep' = [EpKill(ep, dead) EXCEPT !.calls = k, !.call = c]
  BY <1>2
<1> HIDE DEF dead, c
<1>7. EpKill(ep, dead) \in EpState
  BY <1>3, KillKeeps DEF EpInv, EpGood
<1>8. k \in Nat
  BY <1>7 DEF EpState
<1> HIDE DEF k
<1> QED BY <1>1, <1>3, <1>5, <1>6, <1>8, NotWaited, KillMoves

LEMMA ReadsStep == ASSUME EpInv, reap_reads PROVE EpInv'
<1>1. /\ ep \in EpState /\ ep.call # NoEp /\ ep.call.pc = "reap" /\ ep.call.left # << >>
  BY DEF EpInv, reap_reads, EpAt
<1> DEFINE s == Head(ep.call.left).name
           p == IF ep.managed[s] = NoEp THEN 0 ELSE ep.managed[s].process
           c == [ep.call EXCEPT !.except = p]
<1>2. ep.call \in EpCalls /\ ep.call.left \in Seq(EpSpecs)
  BY <1>1 DEF EpState, EpCalls
<1>3. Head(ep.call.left) \in EpSpecs
  BY <1>1, <1>2
<1>4. s \in EpServices
  BY <1>3 DEF EpSpecs
<1>5. ep.managed[s] \in EpEntries \cup {NoEp}
  BY <1>1, <1>4 DEF EpState
<1>6. p \in Nat
  BY <1>5 DEF EpEntries
<1>7. ep' = [ep EXCEPT !.call = c]
  BY <1>1 DEF reap_reads, EpState
<1> HIDE DEF p
<1>8. c \in EpCalls /\ c.pc = "reap" /\ c.left = ep.call.left
  BY <1>1, <1>2, <1>6 DEF EpCalls
<1> HIDE DEF c
<1> QED BY <1>1, <1>7, <1>8, NotWaited, CallStep

LEMMA ReapStep == ASSUME EpInv, reap_stale PROVE EpInv'
<1>1. /\ ep \in EpState /\ ep.call # NoEp /\ ep.call.pc = "reap" /\ ep.call.except # NoEp /\ CallKept(ep)
  BY DEF EpInv, EpGood, EpSafe, reap_stale, EpAt
<1> DEFINE s == Head(ep.call.left).name
           dead == matchingPIDs(ep, s, ep.call.except)
           n == EpKill(ep, dead)
           c == [ep.call EXCEPT !.left = Tail(ep.call.left), !.except = NoEp]
<1>2. ep.call \in EpCalls /\ ep.call.left \in Seq(EpSpecs) /\ ep.call.left # << >>
  BY <1>1 DEF EpState, EpCalls, CallKept
<1>3. Tail(ep.call.left) \in Seq(EpSpecs)
  BY <1>2
<1>4. c \in EpCalls /\ c.except = NoEp
  BY <1>2, <1>3 DEF EpCalls
<1>5. dead \in SUBSET ep.live
  BY DEF matchingPIDs
<1>6. n \in EpState /\ n.call = ep.call
  BY <1>5, KillKeeps DEF EpInv, EpGood
<1>7. ep' = [n EXCEPT !.call.left = Tail(@), !.call.except = NoEp]
  BY DEF reap_stale, reapStale
<1> HIDE DEF n, dead
<1>8. ep' = [n EXCEPT !.calls = n.calls, !.call = c]
  BY <1>6, <1>7 DEF EpState
<1>9. n.calls \in Nat
  BY <1>6 DEF EpState
<1> HIDE DEF c
<1> QED BY <1>1, <1>4, <1>5, <1>8, <1>9, NotWaited, KillMoves DEF n

LEMMA ValidateStep == ASSUME EpInv, validate_fails PROVE EpInv'
<1>1. ep' = [ep EXCEPT !.call = NoEp] /\ NoEp \in EpCalls \cup {NoEp}
  BY DEF validate_fails
<1>2. ~(ep.start # NoEp /\ ep.start.who = "ensure")
  BY NotWaited DEF validate_fails, EpAt, EpLocked
<1> QED BY <1>1, <1>2, CallStep

LEMMA ObsoleteStep == ASSUME EpInv, obsolete_reads PROVE EpInv'
<1>1. /\ ep \in EpState /\ ep.call # NoEp /\ ep.call.pc = "reap" /\ ep.call.left = << >> /\ CallKept(ep)
  BY DEF EpInv, EpGood, EpSafe, obsolete_reads, EpAt
<1> DEFINE o == {s \in EpServices : ep.managed[s] # NoEp} \ EpWanted(ep.call.todo)
           c == [ep.call EXCEPT !.pc = "stop", !.obsolete = o]
<1>2. ep.call \in EpCalls /\ ep.call.except = NoEp
  BY <1>1 DEF EpState, CallKept
<1>3. o \in SUBSET EpServices
  OBVIOUS
<1>4. ep' = [ep EXCEPT !.call = c]
  BY <1>1, <1>2 DEF obsolete_reads, EpState, EpCalls
<1> HIDE DEF o
<1>5. c \in EpCalls /\ c.except = NoEp
  BY <1>2, <1>3 DEF EpCalls
<1> HIDE DEF c
<1> QED BY <1>1, <1>4, <1>5, NotWaited, CallStep

LEMMA StoppedStep == ASSUME EpInv, stop_done PROVE EpInv'
<1>1. /\ ep \in EpState /\ ep.call # NoEp /\ ep.call.pc = "stop" /\ CallKept(ep)
  BY DEF EpInv, EpGood, EpSafe, stop_done, EpAt
<1> DEFINE c == [ep.call EXCEPT !.pc = "ensure"]
<1>2. ep.call \in EpCalls /\ ep.call.except = NoEp
  BY <1>1 DEF EpState, CallKept
<1>3. ep' = [ep EXCEPT !.call = c]
  BY DEF stop_done
<1>4. c \in EpCalls /\ c.except = NoEp
  BY <1>2 DEF EpCalls
<1> HIDE DEF c
<1> QED BY <1>1, <1>3, <1>4, NotWaited, CallStep

LEMMA EndsStep == ASSUME EpInv, reconcile_ends PROVE EpInv'
<1>1. ep' = [ep EXCEPT !.call = NoEp] /\ NoEp \in EpCalls \cup {NoEp} /\ ep.start = NoEp
  BY DEF reconcile_ends, EpLocked
<1> QED BY <1>1, CallStep

LEMMA StopStep == ASSUME EpInv, stop_obsolete PROVE EpInv'
<1>1. /\ ep \in EpState /\ EpGood(ep) /\ ep.call # NoEp /\ ep.call.pc = "stop" /\ CallKept(ep) /\ ep.start = NoEp
  BY DEF EpInv, EpGood, EpSafe, stop_obsolete, EpAt, EpFree, EpLocked
<1>2. PICK s \in ep.call.obsolete : ep' = [stopLocked(ep, s) EXCEPT !.call.obsolete = @ \ {s}]
  BY DEF stop_obsolete
<1> DEFINE n == stopLocked(ep, s)
           c == [ep.call EXCEPT !.obsolete = ep.call.obsolete \ {s}]
<1>3. ep.call \in EpCalls /\ ep.call.except = NoEp /\ s \in EpServices
  BY <1>1 DEF EpState, CallKept, EpCalls
<1>4. n \in EpState /\ EpGood(n) /\ n.start = NoEp /\ n.call = ep.call
  BY <1>1, <1>3, StopKeeps
<1> HIDE DEF n
<1>5. ep' = [n EXCEPT !.call = c]
  BY <1>2, <1>4 DEF EpState, n
<1>6. c \in EpCalls /\ c.except = NoEp
  BY <1>3 DEF EpCalls
<1> HIDE DEF c
<1>7. ep' \in EpState
  BY <1>4, <1>5, <1>6 DEF EpState
<1>8. SameTable(n, ep') /\ ep'.call = c
  BY <1>4, <1>5 DEF EpState, SameTable
<1>9. CallKept(ep')
  BY <1>4, <1>6, <1>8 DEF CallKept, SameTable
<1>10. EpGood(ep')
  BY <1>4, <1>8, <1>9, CallMoves
<1> QED BY <1>7, <1>10 DEF EpInv

\* A new entry for a service without processes.
Entered(e, s, entry) == [e EXCEPT !.managed[s] = entry]

LEMMA EntryKeeps ==
  ASSUME NEW e \in EpState, EpSafe(e), e.start = NoEp, e.up, ~e.stopped, NEW s \in EpServices, e.managed[s] = NoEp,
         \A x \in e.live : x[1] # s, NEW entry \in EpEntries, entry.restart = 0,
         NEW n, n = Entered(e, s, entry)
  PROVE  /\ n \in EpState /\ EpSafe(n) /\ n.managed[s] # NoEp /\ n.start = NoEp /\ n.up /\ ~n.stopped /\ n.call = e.call
         /\ n.live = e.live /\ \A r \in EpServices : r # s => n.managed[r] = e.managed[r] /\ (Tends(e, r) => Tends(n, r))
<1> DEFINE managed == [e.managed EXCEPT ![s] = entry]
<1>1. /\ managed \in [EpServices -> EpEntries \cup {NoEp}] /\ managed[s] = entry /\ entry # NoEp
      /\ \A r \in EpServices : r # s => managed[r] = e.managed[r]
  BY EdgeProcessesAssumption DEF EpState
<1>2. n = [e EXCEPT !.managed = managed]
  BY DEF EpState, Entered
<1> HIDE DEF managed
<1>3. n \in EpState
  BY <1>1, <1>2 DEF EpState
<1>4. /\ n.live = e.live /\ n.exits = e.exits /\ n.up = e.up /\ n.stopped = e.stopped /\ n.managed = managed
      /\ n.timers = e.timers /\ n.start = NoEp /\ n.call = e.call
      /\ n.told = e.told /\ n.pids = e.pids /\ n.base = e.base /\ n.ids = e.ids
  BY <1>2 DEF EpState
<1>5. \A r : ~Starting(n, r) /\ ~Starting(e, r)
  BY <1>4 DEF Starting
<1>6. Owned(n)
  <2>1. \A x \in e.live : managed[x[1]] = e.managed[x[1]]
    BY <1>1 DEF EpState, EpProcs
  <2> QED BY <1>4, <1>5, <2>1 DEF EpSafe, Owned
<1>7. TimersOwned(n)
  <2> SUFFICES ASSUME NEW r \in EpServices, managed[r] # NoEp
               PROVE  managed[r].restart <= e.ids /\ \A t \in e.timers : t.id = managed[r].restart => t.name = r
    BY <1>4 DEF EpSafe, TimersOwned
  <2>1. CASE r = s
    <3>1. managed[r].restart = 0 /\ e.ids \in Nat /\ \A t \in e.timers : t.id # 0
      BY <1>1, <2>1 DEF EpSafe, TimersOwned, EpState, EpTimers
    <3> QED BY <3>1
  <2>2. CASE r # s
    BY <1>1, <2>2 DEF EpSafe, TimersOwned
  <2> QED BY <2>1, <2>2
<1>8. Reported(n) /\ Table(n) /\ CallKept(n)
  BY <1>4 DEF EpSafe, Reported, Table, CallKept
<1>9. \A r \in EpServices : r # s => (Tends(e, r) => Tends(n, r))
  BY <1>1, <1>4 DEF Tends
<1>10. EpSafe(n)
  BY <1>6, <1>7, <1>8 DEF EpSafe
<1>11. n.up /\ ~n.stopped
  BY <1>4
<1> QED BY <1>1, <1>3, <1>4, <1>9, <1>10, <1>11

\* A service that is replaced is stopped first; its new entry has no process
\* until the start succeeds.
LEMMA EnsureStep == ASSUME EpInv, ensure_service PROVE EpInv'
<1>1. /\ ep \in EpState /\ EpGood(ep) /\ CallKept(ep) /\ ep.up /\ ep.start = NoEp
      /\ ep.call # NoEp /\ ep.call.pc = "ensure" /\ ep.call.todo # << >>
  BY DEF EpInv, EpGood, EpSafe, ensure_service, EpAt, EpFree, EpLocked
<1> DEFINE spec == Head(ep.call.todo)
           s == spec.name
           n == stopLocked(ep, s)
           entry == [rev |-> spec.rev, process |-> 0, restart |-> 0]
           managed == [n.managed EXCEPT ![s] = entry]
           new == [n EXCEPT !.managed = managed]
<1>2. ep.call \in EpCalls /\ ep.call.todo \in Seq(EpSpecs) /\ ep.call.except = NoEp
  BY <1>1 DEF EpState, EpCalls, CallKept
<1>3. spec \in EpSpecs
  BY <1>1, <1>2
<1>4. s \in EpServices /\ spec.rev \in Nat
  BY <1>3 DEF EpSpecs
<1>5. \/ ep' = [ep EXCEPT !.call = NoEp]
      \/ ep' = [ep EXCEPT !.call.todo = Tail(@)]
      \/ ~ep.stopped /\ ep' = startLocked(new, s, "ensure")
  BY DEF ensure_service
<1>6. CASE ep' = [ep EXCEPT !.call = NoEp]
  <2>1. NoEp \in EpCalls \cup {NoEp}
    OBVIOUS
  <2> QED BY <1>1, <1>6, <2>1, CallStep
<1>7. CASE ep' = [ep EXCEPT !.call.todo = Tail(@)]
  <2> DEFINE c == [ep.call EXCEPT !.todo = Tail(ep.call.todo)]
  <2>1. Tail(ep.call.todo) \in Seq(EpSpecs)
    BY <1>1, <1>2
  <2>2. c \in EpCalls /\ c.except = NoEp
    BY <1>2, <2>1 DEF EpCalls
  <2>3. ep' = [ep EXCEPT !.call = c]
    BY <1>7
  <2> HIDE DEF c
  <2> QED BY <1>1, <2>2, <2>3, CallStep
<1>8. CASE ~ep.stopped /\ ep' = startLocked(new, s, "ensure")
  <2>1. /\ n \in EpState /\ EpGood(n) /\ n.managed[s] = NoEp /\ n.start = NoEp
        /\ n.up = ep.up /\ n.stopped = ep.stopped /\ n.call = ep.call
    BY <1>1, <1>4, StopKeeps
  <2>2. entry \in EpEntries /\ entry # NoEp /\ entry.restart = 0
    BY <1>4, EdgeProcessesAssumption DEF EpEntries
  <2> DEFINE z == 0
             reaped == reapStale(n, s, z)
             e == [reaped EXCEPT !.managed[s] = entry]
  <2>3. startLocked(new, s, "ensure") = EpSpawn(reapStale(new, s, z), s, "ensure") /\ z = 0
    BY DEF startLocked
  <2> HIDE DEF n, entry, s, spec, z
  <2>4. reapStale(new, s, z) = e
    <3> DEFINE dead == matchingPIDs(n, s, z)
    <3>1. new.live = n.live /\ new.exits = n.exits /\ new.base = n.base /\ new = [n EXCEPT !.managed[s] = entry]
      BY <2>1 DEF EpState
    <3>2. matchingPIDs(new, s, z) = dead
      BY <3>1 DEF matchingPIDs
    <3> HIDE DEF dead, new
    <3>3. reapStale(new, s, z) = EpKill(new, dead) /\ reaped = EpKill(n, dead)
      BY <3>2 DEF reapStale, dead
    <3> DEFINE live == n.live \ dead
               exits == n.exits \cup {x \in dead : x[2] > n.base}
               m == [n.managed EXCEPT ![s] = entry]
    <3>4. EpKill(new, dead) = [new EXCEPT !.live = live, !.exits = exits] /\ EpKill(n, dead) = [n EXCEPT !.live = live, !.exits = exits]
      BY <2>1, <3>1 DEF EpKill, EpState
    <3>5. new = [n EXCEPT !.managed = m]
      BY <2>1, <3>1 DEF EpState
    <3>6. e = [reaped EXCEPT !.managed = m]
      <4>1. reaped.managed = n.managed
        BY <2>1, <3>3, <3>4 DEF EpState
      <4> QED BY <4>1
    <3> HIDE DEF live, exits, m, e
    <3>7. reapStale(new, s, z) = [[n EXCEPT !.managed = m] EXCEPT !.live = live, !.exits = exits]
      BY <3>3, <3>4, <3>5
    <3>8. e = [[n EXCEPT !.live = live, !.exits = exits] EXCEPT !.managed = m]
      BY <3>3, <3>4, <3>6
    <3>9. [[n EXCEPT !.managed = m] EXCEPT !.live = live, !.exits = exits] = [[n EXCEPT !.live = live, !.exits = exits] EXCEPT !.managed = m]
      BY <2>1 DEF EpState
    <3> QED BY <3>7, <3>8, <3>9
  <2> HIDE DEF reaped, e
  <2>a. reaped = reapStale(n, s, z) /\ e = [reaped EXCEPT !.managed[s] = entry] /\ EpSafe(n) /\ Tended(n)
    BY <2>1 DEF reaped, e, EpGood
  <2>5. /\ reaped \in EpState /\ EpSafe(reaped)
        /\ \A q \in EpServices : (n.managed[q] # NoEp /\ Tends(n, q)) => Tends(reaped, q)
    BY <1>4, <2>1, <2>a, ReapKeeps
  <2>6. reaped.start = NoEp /\ reaped.managed = n.managed /\ reaped.call = ep.call
    BY <1>4, <2>1, <2>a, ReapKeeps
  <2>7. reaped.up = n.up /\ reaped.stopped = n.stopped
    BY <1>4, <2>1, <2>a, ReapKeeps
  <2>8. \A x \in reaped.live : x[1] # s
    <3>1. \A x \in reaped.live : x[1] = s => x[2] = z
      BY <1>4, <2>1, <2>a, ReapKeeps
    <3> QED BY <2>3, <2>5, <3>1 DEF EpSafe, Owned
  <2>9. reaped.up /\ ~reaped.stopped /\ reaped.managed[s] = NoEp
    BY <1>1, <1>8, <2>1, <2>6, <2>7
  <2>b. /\ e \in EpState /\ EpSafe(e) /\ e.managed[s] # NoEp /\ e.start = NoEp /\ e.up /\ ~e.stopped /\ e.call = reaped.call
        /\ e.live = reaped.live /\ \A r \in EpServices : r # s => e.managed[r] = reaped.managed[r] /\ (Tends(reaped, r) => Tends(e, r))
    <3>1. entry \in EpEntries /\ entry.restart = 0 /\ e = Entered(reaped, s, entry)
      BY <2>2, <2>a DEF Entered
    <3> QED BY <1>4, <2>5, <2>6, <2>8, <2>9, <3>1, EntryKeeps
  <2>10. e.call = ep.call
    BY <2>6, <2>b
  <2>11. \A r \in EpServices : (r # s /\ e.managed[r] # NoEp) => Tends(e, r)
    <3> SUFFICES ASSUME NEW r \in EpServices, r # s, e.managed[r] # NoEp PROVE Tends(e, r)
      OBVIOUS
    <3>1. n.managed[r] # NoEp /\ n.up /\ ~n.stopped
      BY <1>1, <1>8, <2>1, <2>6, <2>b
    <3>2. Tends(n, r)
      BY <2>1, <2>a, <3>1 DEF Tended, Starting
    <3> QED BY <2>5, <2>b, <3>1, <3>2
  <2>12. Owned(e) /\ Reported(e) /\ TimersOwned(e) /\ Table(e) /\ CallKept(e)
    BY <2>b DEF EpSafe
  <2>13. ep' = EpSpawn(e, s, "ensure") /\ \A x \in e.live : x[1] # s
    BY <1>8, <2>3, <2>4, <2>8, <2>b
  <2>14. e.call # NoEp /\ e.call.pc = "ensure" /\ e.call.todo # << >>
    BY <1>1, <2>10
  <2>15. ep' \in EpState /\ EpGood(ep')
    BY <1>4, <2>b, <2>11, <2>12, <2>13, <2>14, SpawnKeeps
  <2> QED BY <2>15 DEF EpInv
<1> QED BY <1>5, <1>6, <1>7, <1>8

-----------------------------------------------------------------------------
(* vz-edge itself.                                                         *)

\* Every process of this vz-edge is an entry's, so all of them end.
LEMMA ShutdownStep == ASSUME EpInv, shutdown PROVE EpInv'
<1>1. ep \in EpState /\ EpGood(ep) /\ Owned(ep) /\ ep.start = NoEp
  BY DEF EpInv, EpGood, EpSafe, shutdown, EpFree, EpLocked
<1> DEFINE managed == [s \in EpServices |-> NoEp]
           live == {x \in ep.live : ep.managed[x[1]] = NoEp \/ ep.managed[x[1]].process # x[2]}
           timers == {t \in ep.timers : t.fired \/ ep.managed[t.name] = NoEp \/ ep.managed[t.name].restart # t.id}
<1>2. ep' = [ep EXCEPT !.stopped = TRUE, !.managed = managed, !.told = {}, !.live = live, !.timers = timers]
  BY DEF shutdown
<1>3. /\ managed \in [EpServices -> EpEntries \cup {NoEp}] /\ \A s \in EpServices : managed[s] = NoEp
      /\ timers \in SUBSET EpTimers /\ timers \subseteq ep.timers
  BY <1>1 DEF EpState
<1>4. live \subseteq ep.live /\ live \in SUBSET EpProcs /\ \A x \in live : x[1] \in EpServices /\ ep.managed[x[1]] = NoEp
  BY <1>1 DEF EpState, EpProcs, Owned, Starting
<1> HIDE DEF managed, live, timers
<1>5. ep' \in EpState
  BY <1>1, <1>2, <1>3, <1>4 DEF EpState
<1>6. /\ ep'.live = live /\ ep'.exits = ep.exits /\ ep'.stopped = TRUE /\ ep'.managed = managed
      /\ ep'.timers = timers /\ ep'.start = NoEp /\ ep'.call = ep.call
      /\ ep'.pids = ep.pids /\ ep'.base = ep.base /\ ep'.ids = ep.ids
  BY <1>1, <1>2 DEF EpState
<1>7. \A s : ~Starting(ep', s)
  BY <1>6 DEF Starting
<1>8. Owned(ep')
  <2>1. \A x \in live : managed[x[1]] = NoEp /\ ~(x[2] > ep.base) /\ 0 < x[2] /\ x[2] <= ep.pids
    BY <1>1, <1>3, <1>4 DEF Owned
  <2> QED BY <1>6, <1>7, <2>1 DEF Owned
<1>9. Reported(ep') /\ CallKept(ep')
  BY <1>1, <1>4, <1>6 DEF EpGood, EpSafe, Reported, CallKept
<1>10. TimersOwned(ep')
  BY <1>1, <1>3, <1>6 DEF EpGood, EpSafe, TimersOwned
<1>11. Table(ep')
  BY <1>1, <1>3, <1>6 DEF EpGood, EpSafe, Table
<1>12. Tended(ep')
  BY <1>6 DEF Tended
<1> QED BY <1>5, <1>8, <1>9, <1>10, <1>11, <1>12 DEF EpInv, EpGood, EpSafe

LEMMA GoneKeeps ==
  ASSUME EpInv
  PROVE  EpGone(ep) \in EpState /\ EpGood(EpGone(ep))
<1> DEFINE managed == [s \in EpServices |-> NoEp]
           n == EpGone(ep)
<1>1. ep \in EpState /\ Owned(ep) /\ ep.pids \in Nat
  BY DEF EpInv, EpGood, EpSafe, EpState
<1>2. n = [ep EXCEPT !.up = FALSE, !.stopped = FALSE, !.managed = managed, !.exits = {}, !.timers = {}, !.start = NoEp,
                     !.call = NoEp, !.told = {}, !.base = ep.pids]
  BY DEF EpGone
<1>3. managed \in [EpServices -> EpEntries \cup {NoEp}] /\ \A s \in EpServices : managed[s] = NoEp
  OBVIOUS
<1> HIDE DEF managed
<1>4. n \in EpState
  BY <1>1, <1>2, <1>3 DEF EpState
<1>5. /\ n.live = ep.live /\ n.exits = {} /\ n.up = FALSE /\ n.managed = managed /\ n.timers = {} /\ n.start = NoEp
      /\ n.call = NoEp /\ n.pids = ep.pids /\ n.base = ep.pids
  BY <1>1, <1>2 DEF EpState
<1> HIDE DEF n
<1>6. \A s : ~Starting(n, s)
  BY <1>5 DEF Starting
<1>7. Owned(n)
  <2>1. \A x \in ep.live : managed[x[1]] = NoEp /\ 0 < x[2] /\ x[2] <= ep.pids /\ x[2] \in Nat
    BY <1>1, <1>3 DEF EpState, EpProcs, Owned
  <2> QED BY <1>1, <1>5, <1>6, <2>1 DEF Owned
<1>8. Reported(n) /\ TimersOwned(n) /\ Table(n) /\ CallKept(n)
  BY <1>1, <1>3, <1>5 DEF Reported, TimersOwned, Table, CallKept
<1>9. Tended(n)
  BY <1>5 DEF Tended
<1> QED BY <1>4, <1>7, <1>8, <1>9 DEF EpGood, EpSafe, n

LEMMA KilledStep == ASSUME EpInv, edge_killed PROVE EpInv'
<1> DEFINE n == EpGone(ep)
           k == n.crashes + 1
<1>1. n \in EpState /\ EpGood(n) /\ ep' = [n EXCEPT !.crashes = k]
  BY GoneKeeps DEF edge_killed
<1> HIDE DEF n
<1>2. k \in Nat
  BY <1>1 DEF EpState
<1> HIDE DEF k
<1>3. ep' \in EpState
  BY <1>1, <1>2 DEF EpState
<1>4. SameTable(n, ep') /\ ep'.call = n.call
  BY <1>1 DEF EpState, SameTable
<1>5. CallKept(ep')
  BY <1>1, <1>4 DEF EpGood, EpSafe, CallKept, SameTable
<1> QED BY <1>1, <1>3, <1>4, <1>5, CallMoves DEF EpInv

LEMMA StartsStep == ASSUME EpInv, edge_starts PROVE EpInv'
<1>1. ep \in EpState /\ EpGood(ep) /\ ~ep.up /\ ep' = [ep EXCEPT !.up = TRUE]
  BY DEF EpInv, edge_starts
<1>2. ep' \in EpState
  BY <1>1 DEF EpState
<1>3. /\ ep'.live = ep.live /\ ep'.exits = ep.exits /\ ep'.stopped = ep.stopped /\ ep'.managed = ep.managed
      /\ ep'.timers = ep.timers /\ ep'.start = ep.start /\ ep'.call = ep.call
      /\ ep'.told = ep.told /\ ep'.pids = ep.pids /\ ep'.base = ep.base /\ ep'.ids = ep.ids
  BY <1>1 DEF EpState
<1>4. \A s \in EpServices : ep.managed[s] = NoEp
  BY <1>1 DEF EpGood, EpSafe, Table
<1>5. \A s : Starting(ep', s) = Starting(ep, s)
  BY <1>3 DEF Starting
<1>6. Owned(ep') /\ Reported(ep') /\ CallKept(ep')
  BY ZenonT(40), <1>1, <1>3, <1>5 DEF EpGood, EpSafe, Owned, Reported, CallKept
<1>7. TimersOwned(ep') /\ Table(ep') /\ Tended(ep')
  BY <1>1, <1>3, <1>4 DEF EpGood, EpSafe, TimersOwned, Table, Tended
<1> QED BY <1>2, <1>6, <1>7 DEF EpInv, EpGood, EpSafe

LEMMA EpInvInit == EpInit => EpInv
<1> SUFFICES ASSUME EpInit PROVE EpInv
  OBVIOUS
<1> DEFINE managed == [s \in EpServices |-> NoEp]
<1>1. managed \in [EpServices -> EpEntries \cup {NoEp}] /\ \A s \in EpServices : managed[s] = NoEp
  OBVIOUS
<1>2. ep = [up |-> TRUE, stopped |-> FALSE, managed |-> managed, live |-> {}, exits |-> {}, timers |-> {},
            start |-> NoEp, call |-> NoEp, told |-> {}, pids |-> 0, base |-> 0, ids |-> 0, calls |-> 0, crashes |-> 0]
  BY DEF EpInit
<1> HIDE DEF managed
<1>3. ep \in EpState
  BY <1>1, <1>2 DEF EpState
<1>4. Owned(ep) /\ Reported(ep) /\ TimersOwned(ep) /\ Table(ep) /\ CallKept(ep) /\ Tended(ep)
  BY <1>1, <1>2 DEF Owned, Reported, TimersOwned, Table, CallKept, Tended
<1> QED BY <1>3, <1>4 DEF EpInv, EpGood, EpSafe

LEMMA EpInvStep == EpInv /\ [EpNext]_ep => EpInv'
<1> SUFFICES ASSUME EpInv, [EpNext]_ep PROVE EpInv'
  OBVIOUS
<1>1. CASE UNCHANGED ep
  BY <1>1 DEF EpInv
<1>2. CASE edge_exits
  BY <1>2, GoneKeeps DEF edge_exits, EpInv
<1>3. CASE EpNext /\ ~edge_exits
  BY <1>3, DiesStep, ReadyStep, FailsStep, ExitedStep, FiresStep, EpRestartStep, BeginStep, ReadsStep, ReapStep, ValidateStep,
     ObsoleteStep, StopStep, StoppedStep, EnsureStep, EndsStep, ShutdownStep, KilledStep, StartsStep DEF EpNext
<1> QED BY <1>1, <1>2, <1>3

\* For any services and any configurations, however exits, timers, starts,
\* reconciles and kills of vz-edge interleave: no managed service has two
\* processes (startLocked reaps first), none is left without a process, a
\* restart or a reported error (childExited, restart, ensure), and a shutdown
\* leaves no process of this vz-edge behind.
THEOREM EmbeddedIsSound == EpSpec => []EmbeddedSound
<1>1. EpInv => EmbeddedSound
  <2> SUFFICES ASSUME EpInv PROVE EmbeddedSound
    OBVIOUS
  <2>1. ep \in EpState /\ Owned(ep) /\ Tended(ep) /\ Table(ep)
    BY DEF EpInv, EpGood, EpSafe
  <2>2. OneProcess
    BY <2>1 DEF OneProcess, EpLocked, Owned, Starting
  <2>3. ManagedIsTended
    BY <2>1 DEF ManagedIsTended, EpFree, EpLocked, Tended, Tends, Starting
  <2>4. ep.stopped => \A x \in ep.live : x[2] <= ep.base
    <3> SUFFICES ASSUME ep.stopped, NEW x \in ep.live PROVE x[2] <= ep.base
      OBVIOUS
    <3>1. x[1] \in EpServices /\ x[2] \in Nat /\ ep.base \in Nat
      BY <2>1 DEF EpState, EpProcs
    <3>2. ~(x[2] > ep.base)
      BY <2>1, <3>1 DEF Owned, Table
    <3> QED BY <3>1, <3>2
  <2> QED BY <2>2, <2>3, <2>4 DEF EmbeddedSound
<1> QED BY <1>1, EpInvInit, EpInvStep, PTL DEF EpSpec
=============================================================================
