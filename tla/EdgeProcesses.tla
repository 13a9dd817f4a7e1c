---------------------------- MODULE EdgeProcesses ----------------------------
(***************************************************************************)
(* The processes vz-edge embeds: EmbeddedProcessManager, which starts       *)
(* caddy and the OIDC provider, restarts them when they exit and replaces   *)
(* them when their specification changes, and EmbeddedProcessReaper, which  *)
(* kills what an earlier vz-edge left behind.  One lock guards the table;   *)
(* it is held for the whole start of a process.  Exit handlers and restart  *)
(* timers wait for it on other threads, and a timer that has fired can no   *)
(* longer be cancelled.  EdgeServer calls reconcile one at a time.          *)
(*                                                                         *)
(* A pid file names a process that the search by command line finds too,   *)
(* so it is left out, as are the delays of restarts and the status.        *)
(***************************************************************************)
EXTENDS Naturals, Sequences, FiniteSets

CONSTANTS EpServices,      \* names of services
          EpShared,        \* the caddy shared by all projects
          EpCaddies,       \* the projects' own caddies, in directories below the shared one's
          EpConfigs,       \* desired services: sequences of [name, rev, reap]
          MaxEpPids,       \* bound: processes ever started
          MaxEpCalls,      \* bound: calls of reconcile
          MaxEpCrashes,    \* bound: vz-edge killed
          NoEp             \* nothing

EpSpecs   == [name : EpServices, rev : Nat, reap : SUBSET EpServices]
EpEntries == [rev : Nat, process : Nat, restart : Nat]
EpStarts  == [who : {"ensure", "restart"}, name : EpServices, pid : Nat]
EpTimers  == [id : Nat, name : EpServices, fired : BOOLEAN]
EpCalls   == [pc : {"reap", "stop", "ensure"}, todo : Seq(EpSpecs), left : Seq(EpSpecs), except : Nat \cup {NoEp}, obsolete : SUBSET EpServices]

ASSUME EdgeProcessesAssumption ==
  /\ EpConfigs \subseteq Seq(EpSpecs)
  /\ NoEp \notin Nat /\ NoEp \notin EpEntries /\ NoEp \notin EpStarts /\ NoEp \notin EpCalls

VARIABLE ep  \* [up, stopped, managed, live, exits, timers, start, call, told, pids, base, ids, calls, crashes]

EpInit ==
  ep = [up |-> TRUE, stopped |-> FALSE, managed |-> [s \in EpServices |-> NoEp], live |-> {}, exits |-> {}, timers |-> {},
        start |-> NoEp, call |-> NoEp, told |-> {}, pids |-> 0, base |-> 0, ids |-> 0, calls |-> 0, crashes |-> 0]

EpLocked == ep.start # NoEp
EpFree == ep.up /\ ~EpLocked

-----------------------------------------------------------------------------
(* Processes.  `live` holds <<service, pid>>; pids up to `base` belong to   *)
(* an earlier vz-edge and have no exit handler.                            *)

\* Service t's command line matches the binary and directory of s.
matches(s, t) == t = s \/ (s = EpShared /\ t \in EpCaddies)

matchingPIDs(e, s, except) == {x \in e.live : matches(s, x[1]) /\ x[2] # except}

\* SIGTERM, three seconds, SIGKILL: the processes end and their handlers queue up.
EpKill(e, dead) == [e EXCEPT !.live = @ \ dead, !.exits = @ \cup {x \in dead : x[2] > e.base}]

reapStale(e, s, except) == EpKill(e, matchingPIDs(e, s, except))

child_dies == \E x \in ep.live : ep' = EpKill(ep, {x})

-----------------------------------------------------------------------------
(* The table, under the lock.                                              *)

\* A timer the entry already has is not cancelled.
scheduleRestartLocked(e, s) ==
  [e EXCEPT !.ids = @ + 1, !.timers = @ \cup {[id |-> e.ids + 1, name |-> s, fired |-> FALSE]}, !.managed[s].restart = e.ids + 1]

\* The handler is removed before the process is stopped.
stopLocked(e, s) ==
  IF e.managed[s] = NoEp THEN e
  ELSE [e EXCEPT !.managed[s] = NoEp,
                 !.timers = {t \in @ : t.fired \/ t.id # e.managed[s].restart},
                 !.live = @ \ {<<s, e.managed[s].process>>},
                 !.told = @ \ {s}]

EpSpawn(e, s, who) ==
  [e EXCEPT !.pids = @ + 1, !.live = @ \cup {<<s, e.pids + 1>>}, !.start = [who |-> who, name |-> s, pid |-> e.pids + 1]]

\* The first half of startLocked: everything that matches is reaped, then the process runs.
startLocked(e, s, who) == EpSpawn(reapStale(e, s, 0), s, who)

\* It answers within three seconds: it becomes the entry's process.
start_ready ==
  /\ ep.up /\ EpLocked
  /\ LET st == ep.start IN
     /\ <<st.name, st.pid>> \in ep.live
     /\ ep' = [ep EXCEPT !.start = NoEp, !.managed[st.name] = [@ EXCEPT !.process = st.pid, !.restart = 0],
                         !.told = @ \ {st.name}, !.call = IF st.who = "ensure" THEN [ep.call EXCEPT !.todo = Tail(ep.call.todo)] ELSE ep.call]

\* Mutant: a restart that fails is not scheduled again.
start_failsForGood ==
  /\ ep.up /\ EpLocked
  /\ LET st == ep.start IN
     ep' = [ep EXCEPT !.start = NoEp, !.live = @ \ {<<st.name, st.pid>>}, !.told = IF st.who = "ensure" THEN @ \cup {st.name} ELSE @,
                      !.call = IF st.who = "ensure" THEN NoEp ELSE @]

\* Readiness or the pid file failed: the process is terminated.  restart()
\* schedules another attempt, ensure() throws and ends the call of reconcile.
start_fails ==
  /\ ep.up /\ EpLocked
  /\ LET st == ep.start
         e  == [ep EXCEPT !.start = NoEp, !.live = @ \ {<<st.name, st.pid>>}]
     IN  ep' = IF st.who = "ensure" THEN [e EXCEPT !.told = @ \cup {st.name}, !.call = NoEp]
               ELSE scheduleRestartLocked(e, st.name)

childExited ==
  /\ EpFree
  /\ \E x \in ep.exits :
       LET e == [ep EXCEPT !.exits = @ \ {x}]
           s == x[1]
       IN  ep' = IF ~ep.stopped /\ ep.managed[s] # NoEp /\ ep.managed[s].process = x[2]
                 THEN scheduleRestartLocked([e EXCEPT !.managed[s].process = 0], s)
                 ELSE e

timer_fires == \E t \in ep.timers : ep.up /\ ~t.fired /\ ep' = [ep EXCEPT !.timers = (@ \ {t}) \cup {[t EXCEPT !.fired = TRUE]}]

restart ==
  /\ EpFree /\ ep.pids < MaxEpPids
  /\ \E t \in ep.timers :
       LET e == [ep EXCEPT !.timers = @ \ {t}] IN
       /\ t.fired
       /\ ep' = IF ep.stopped \/ ep.managed[t.name] = NoEp THEN e ELSE startLocked(e, t.name, "restart")

-----------------------------------------------------------------------------
(* reconcile: each wanted service is validated and its stale processes      *)
(* reaped, the services that are no longer wanted are stopped, then each    *)
(* wanted one is ensured in turn; the first error ends it.                 *)

EpWanted(todo) == {todo[i].name : i \in 1..Len(todo)}

\* makeCaddySpecs: where one caddy serves all projects, their own ones are reaped first.
reconcile_begin ==
  /\ ep.up /\ ep.call = NoEp /\ ep.calls < MaxEpCalls
  /\ \E cfg \in EpConfigs :
       LET dead == {x \in ep.live : \E i \in 1..Len(cfg) : x[1] \in cfg[i].reap} IN
       ep' = [EpKill(ep, dead) EXCEPT !.calls = @ + 1,
                                      !.call = [pc |-> "reap", todo |-> cfg, left |-> cfg, except |-> NoEp, obsolete |-> {}]]

EpAt(pc) == ep.up /\ ep.call # NoEp /\ ep.call.pc = pc

\* The pid to spare is read under the lock and used after it.
reap_reads ==
  /\ EpAt("reap") /\ EpFree /\ ep.call.left # << >> /\ ep.call.except = NoEp
  /\ LET m == ep.managed[Head(ep.call.left).name]
     IN  ep' = [ep EXCEPT !.call.except = IF m = NoEp THEN 0 ELSE m.process]

reap_stale ==
  /\ EpAt("reap") /\ ep.call.except # NoEp
  /\ ep' = [reapStale(ep, Head(ep.call.left).name, ep.call.except) EXCEPT !.call.left = Tail(@), !.call.except = NoEp]

\* An invalid specification, a refused Caddyfile, a validator that hangs.
validate_fails ==
  /\ \/ EpAt("reap") /\ ep.call.left # << >> /\ ep.call.except = NoEp
     \/ EpAt("ensure") /\ ep.call.todo # << >> /\ ~(EpLocked /\ ep.start.who = "ensure")
  /\ ep' = [ep EXCEPT !.call = NoEp]

obsolete_reads ==
  /\ EpAt("reap") /\ EpFree /\ ep.call.left = << >>
  /\ ep' = [ep EXCEPT !.call.pc = "stop", !.call.obsolete = {s \in EpServices : ep.managed[s] # NoEp} \ EpWanted(ep.call.todo)]

stop_obsolete ==
  /\ EpAt("stop") /\ EpFree
  /\ \E s \in ep.call.obsolete : ep' = [stopLocked(ep, s) EXCEPT !.call.obsolete = @ \ {s}]

stop_done == EpAt("stop") /\ ep.call.obsolete = {} /\ ep' = [ep EXCEPT !.call.pc = "ensure"]

ensure_service ==
  /\ EpAt("ensure") /\ EpFree /\ ep.call.todo # << >> /\ ep.pids < MaxEpPids
  /\ LET spec == Head(ep.call.todo)
         m    == ep.managed[spec.name]
         same == m # NoEp /\ m.rev = spec.rev /\ <<spec.name, m.process>> \in ep.live
         new  == [stopLocked(ep, spec.name) EXCEPT !.managed[spec.name] = [rev |-> spec.rev, process |-> 0, restart |-> 0]]
     IN  ep' = IF ep.stopped THEN [ep EXCEPT !.call = NoEp]
               ELSE IF same THEN [ep EXCEPT !.call.todo = Tail(@)]
               ELSE startLocked(new, spec.name, "ensure")

reconcile_ends == EpAt("ensure") /\ ~EpLocked /\ ep.call.todo = << >> /\ ep' = [ep EXCEPT !.call = NoEp]

-----------------------------------------------------------------------------
(* vz-edge itself.                                                         *)

shutdown ==
  /\ EpFree /\ ~ep.stopped
  /\ ep' = [ep EXCEPT !.stopped = TRUE, !.managed = [s \in EpServices |-> NoEp], !.told = {},
                      !.live = {x \in @ : ep.managed[x[1]] = NoEp \/ ep.managed[x[1]].process # x[2]},
                      !.timers = {t \in @ : t.fired \/ ep.managed[t.name] = NoEp \/ ep.managed[t.name].restart # t.id}]

\* The end of the process takes its threads, timers and tables with it.
EpGone(e) ==
  [e EXCEPT !.up = FALSE, !.stopped = FALSE, !.managed = [s \in EpServices |-> NoEp], !.exits = {}, !.timers = {}, !.start = NoEp,
            !.call = NoEp, !.told = {}, !.base = e.pids]

edge_exits == ep.up /\ ep.stopped /\ ~EpLocked /\ ep' = EpGone(ep)
edge_killed == ep.up /\ ep.crashes < MaxEpCrashes /\ ep' = [EpGone(ep) EXCEPT !.crashes = @ + 1]
edge_starts == ~ep.up /\ ep' = [ep EXCEPT !.up = TRUE]

EpNext ==
  \/ child_dies \/ start_ready \/ start_fails \/ childExited \/ timer_fires \/ restart
  \/ reconcile_begin \/ reap_reads \/ reap_stale \/ validate_fails \/ obsolete_reads \/ stop_obsolete \/ stop_done
  \/ ensure_service \/ reconcile_ends \/ shutdown \/ edge_exits \/ edge_killed \/ edge_starts

EpSpec == EpInit /\ [][EpNext]_ep

-----------------------------------------------------------------------------
\* While nobody holds the lock, no process of a managed service lives but the one in
\* its entry, whatever an earlier vz-edge left behind.
OneProcess == \A s \in EpServices : \A x \in ep.live : (~EpLocked /\ ep.managed[s] # NoEp /\ x[1] = s) => x[2] = ep.managed[s].process

\* A managed service runs, or its exit is about to be handled, or a restart is pending, or the
\* caller of the last ensure was told of its failure.
ManagedIsTended ==
  \A s \in EpServices : (EpFree /\ ~ep.stopped /\ ep.managed[s] # NoEp) =>
    LET m == ep.managed[s] IN
    \/ <<s, m.process>> \in ep.live \cup ep.exits
    \/ \E t \in ep.timers : t.name = s
    \/ s \in ep.told

\* EmbeddedProcessManager keeps at most one process of each service it manages, leaves none
\* without an exit handler, a restart or a reported error, and ends them all before vz-edge
\* exits on a signal, however exits, restarts, reconciles and kills of vz-edge interleave.
EmbeddedSound == OneProcess /\ ManagedIsTended /\ (ep.stopped => \A x \in ep.live : x[2] <= ep.base)
=============================================================================
