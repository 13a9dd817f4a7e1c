--------------------------- MODULE NetworkRecovery ---------------------------
(***************************************************************************)
(* The control plane's reaction to changes of the host's network:           *)
(* NetworkResilienceController and the fallback that restarts the VMs of a  *)
(* network.  Path updates, debounced recoveries and retries run one after   *)
(* the other on a worker queue; sleep and wake are noted on another thread  *)
(* at any time, also in the middle of a probe.  Each of these events takes  *)
(* a new generation, which is the epoch of the status too.                  *)
(***************************************************************************)
EXTENDS Naturals, FiniteSets

CONSTANTS NrVms,        \* the VMs of the network that may fail
          NrPaths,      \* network paths: [sat, id]
          MaxNrGen,     \* bound: generations
          MaxNrVm,      \* bound: VMs the user starts or stops
          NoNr          \* nothing

NrGens == 0..MaxNrGen
NrPcs  == {"probe", "backoff", "last", "finish", "fallback", "stopping", "starting", "again"}
NrJobs == [gen : NrGens, pc : NrPcs, vms : SUBSET NrVms]

ASSUME NrAssumption ==
  /\ MaxNrGen \in Nat
  /\ NoNr \notin NrPaths /\ NoNr \notin NrGens /\ NoNr \notin NrJobs
  /\ \A p \in NrPaths : p.sat \in BOOLEAN

VARIABLE nr  \* [path, known, awake, stopped, gen, state, tasks, job, tried, fallbacks, fine, vm, user]

\* What a probe can report: NetworkRecoveryResult.state.
NrResults == {"healthy", "captive", "conflict", "offline", "degraded"}

NrSat == nr.known # NoNr /\ nr.known.sat

NrInit ==
  nr = [path |-> NoNr, known |-> NoNr, awake |-> TRUE, stopped |-> FALSE, gen |-> 0, state |-> "stabilizing", tasks |-> {}, job |-> NoNr,
        tried |-> NoNr, fallbacks |-> [g \in NrGens |-> 0], fine |-> NoNr, vm |-> [v \in NrVms |-> TRUE], user |-> 0]

-----------------------------------------------------------------------------
(* Events.                                                                 *)

path_changes == \E p \in NrPaths \ {nr.path} : nr' = [nr EXCEPT !.path = p]

\* Nothing is scheduled without a usable path.
NrEvent(n, state, sat) ==
  [n EXCEPT !.gen = @ + 1, !.state = state, !.tasks = IF sat THEN @ \cup {n.gen + 1} ELSE @]

\* On the worker queue; an update that changes nothing is ignored.
receive ==
  /\ nr.job = NoNr /\ nr.path # nr.known /\ ~nr.stopped /\ nr.gen < MaxNrGen
  /\ nr' = NrEvent([nr EXCEPT !.known = nr.path], IF nr.path.sat THEN "stabilizing" ELSE "offline", nr.path.sat)

willSleep == nr.awake /\ nr.gen < MaxNrGen /\ nr' = NrEvent([nr EXCEPT !.awake = FALSE], "suspended", FALSE)

didWake ==
  ~nr.awake /\ nr.gen < MaxNrGen /\ nr' = NrEvent([nr EXCEPT !.awake = TRUE], IF NrSat THEN "stabilizing" ELSE "offline", NrSat)

controller_stops == ~nr.stopped /\ nr.gen < MaxNrGen /\ nr' = [nr EXCEPT !.stopped = TRUE, !.gen = @ + 1]

-----------------------------------------------------------------------------
(* recover: a generation's work, once its delay is over.                   *)

NrActive(g) == ~nr.stopped /\ nr.gen = g /\ NrSat

NrAt(pc) == nr.job # NoNr /\ nr.job.pc = pc

\* The check before an attempt: the work of an older generation ends here.
NrAttempt(n, g) ==
  IF NrActive(g) THEN [n EXCEPT !.state = "recovering", !.job = [gen |-> g, pc |-> "probe", vms |-> {}]] ELSE [n EXCEPT !.job = NoNr]

recover ==
  /\ nr.job = NoNr
  /\ \E g \in nr.tasks : nr' = NrAttempt([nr EXCEPT !.tasks = @ \ {g}], g)

\* Mutant: an answer that is neither healthy nor degraded ends the work.
schedulePassiveRetryNever(n) == [n EXCEPT !.job = NoNr]

schedulePassiveRetry(n) == [n EXCEPT !.tasks = @ \cup {n.job.gen}, !.job = NoNr]

NrHealthy(n) == [n EXCEPT !.fine = n.job.gen, !.job = NoNr]

\* The result is written whatever happened meanwhile.
probe_returns ==
  /\ NrAt("probe")
  /\ \E result \in NrResults :
       LET n == [nr EXCEPT !.state = result] IN
       \/ result = "healthy" /\ nr' = NrHealthy(n)
       \/ result \in {"captive", "conflict", "offline"} /\ nr' = schedulePassiveRetry(n)
       \/ result = "degraded" /\ \E pc \in {"backoff", "last", "finish"} : nr' = [n EXCEPT !.job.pc = pc]

\* Within the budget of 30 seconds: another attempt after a longer delay.
backoff_ends == NrAt("backoff") /\ nr' = NrAttempt(nr, nr.job.gen)

\* The rest of the budget is slept away and the generation looked at again.
budget_ends == NrAt("last") /\ nr' = IF NrActive(nr.job.gen) THEN [nr EXCEPT !.job.pc = "finish"] ELSE [nr EXCEPT !.job = NoNr]

finishDegraded ==
  /\ NrAt("finish")
  /\ nr' = IF nr.tried = nr.job.gen THEN schedulePassiveRetry(nr)
           ELSE [nr EXCEPT !.tried = nr.job.gen, !.job.pc = "fallback"]

-----------------------------------------------------------------------------
(* attemptNetworkFallback.                                                 *)

\* Nothing to do: something inside is broken, the host itself is offline, no
\* policy allows a restart, or no VM of the failed networks runs.
fallback_declined == NrAt("fallback") /\ nr' = schedulePassiveRetry(nr)

\* The VMs that run now are the ones stopped and started again.
fallback_begins ==
  /\ NrAt("fallback") /\ \E v \in NrVms : nr.vm[v]
  /\ nr' = [nr EXCEPT !.job.vms = {v \in NrVms : nr.vm[v]}, !.job.pc = "stopping", !.fallbacks[nr.job.gen] = @ + 1]

fallback_stops == NrAt("stopping") /\ \E v \in nr.job.vms : nr.vm[v] /\ nr' = [nr EXCEPT !.vm[v] = FALSE]

\* A VM that refuses to stop, a network that cannot be created again, a VM that
\* does not start within 30 seconds: whatever is stopped stays so.
fallback_fails == (NrAt("stopping") \/ NrAt("starting")) /\ nr' = schedulePassiveRetry(nr)

fallback_recreates == NrAt("stopping") /\ (\A v \in nr.job.vms : ~nr.vm[v]) /\ nr' = [nr EXCEPT !.job.pc = "starting"]

fallback_starts == NrAt("starting") /\ \E v \in nr.job.vms : ~nr.vm[v] /\ nr' = [nr EXCEPT !.vm[v] = TRUE]

fallback_succeeds == NrAt("starting") /\ (\A v \in nr.job.vms : nr.vm[v]) /\ nr' = [nr EXCEPT !.job.pc = "again"]

\* The probe after a fallback; its result is written without a look, too.
second_probe ==
  /\ NrAt("again")
  /\ \E result \in NrResults :
       LET n == [nr EXCEPT !.state = result] IN nr' = IF result = "healthy" THEN NrHealthy(n) ELSE schedulePassiveRetry(n)

user_acts == nr.user < MaxNrVm /\ \E v \in NrVms : nr' = [nr EXCEPT !.vm[v] = ~@, !.user = @ + 1]

NrNext ==
  \/ path_changes \/ receive \/ willSleep \/ didWake \/ controller_stops \/ recover \/ probe_returns \/ backoff_ends \/ budget_ends
  \/ finishDegraded \/ fallback_declined \/ fallback_begins \/ fallback_stops \/ fallback_fails \/ fallback_recreates
  \/ fallback_starts \/ fallback_succeeds \/ second_probe \/ user_acts

NrSpec == NrInit /\ [][NrNext]_nr

-----------------------------------------------------------------------------
\* An awake host with a usable path is either known to be healthy by a probe of the current
\* generation, or a recovery of that generation runs or is scheduled, whatever an older
\* generation's probe or fallback wrote in between.  Without a path nothing is scheduled, and
\* the VMs are restarted at most once for each epoch.
RecoverySound ==
  /\ (~nr.stopped /\ nr.awake /\ NrSat) =>
       \/ nr.gen \in nr.tasks \/ (nr.job # NoNr /\ nr.job.gen = nr.gen)
       \/ nr.fine = nr.gen /\ (nr.job = NoNr => nr.state = "healthy")
  /\ ~NrSat => nr.gen \notin nr.tasks /\ nr.job = NoNr
  /\ \A g \in NrGens : nr.fallbacks[g] <= 1
=============================================================================
