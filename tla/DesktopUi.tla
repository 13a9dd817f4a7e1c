----------------------------- MODULE DesktopUi -----------------------------
(***************************************************************************)
(* The desktop application's stack commands. Each runs vzctl as a child and *)
(* recovers from a held lease, an interrupted operation, missing privileges *)
(* or a transient ingress failure by clearing the lease and running it      *)
(* again. Other vzctl processes, of terminals or of the control plane, run  *)
(* beside it; a process may hang, which ends its heartbeats. Requests for   *)
(* privileged DNS commands are repeated with administrator rights.          *)
(***************************************************************************)
EXTENDS Naturals, FiniteSets

CONSTANTS UiTasks,    \* stack commands of the application that may run at a time
          UiPids,     \* process ids; they are used again
          MaxUiCmds,  \* bound: stack commands of the application
          MaxUiOther, \* bound: processes started by others
          NoUi        \* nothing: no process, no lease, no output

VARIABLE ui  \* [proc, lease, incomplete, shield, task, cmds, others, reaped, dns, asked]

\* code: 0 success, 5 incomplete journal, 6 lease held, 19 privileges, 35
\* transient ingress failure, 1 anything else. holder: the process named.
UiOut(code, holder) == [code |-> code, holder |-> holder]
UiIdle == [pc |-> "idle", cmd |-> "up", child |-> NoUi, out |-> NoUi, depth |-> 0, runs |-> 0, after |-> "idle", result |-> NoUi]

UiInit ==
  \E broken \in BOOLEAN :
    ui = [proc |-> [p \in UiPids |-> NoUi], lease |-> NoUi, incomplete |-> broken, shield |-> {},
          task |-> [t \in UiTasks |-> UiIdle], cmds |-> 0, others |-> 0, reaped |-> {}, dns |-> NoUi, asked |-> {}]

UiFree == {p \in UiPids : ui.proc[p] = NoUi}
UiGo(s, t, pc) == [s EXCEPT !.task[t].pc = pc]

-----------------------------------------------------------------------------
(* Processes.                                                              *)

Process(cmd, by) == [cmd |-> cmd, by |-> by, pc |-> "begin", hung |-> FALSE]

\* Gone, with its lease row still naming it unless it gave the lease back.
Gone(s, p) == [s EXCEPT !.proc[p] = NoUi]

\* The lease blocks while its holder lives and sends heartbeats.
LeaseHeld == ui.lease # NoUi /\ ui.proc[ui.lease] # NoUi /\ ui.proc[ui.lease].pc = "hold" /\ ~ui.proc[ui.lease].hung

\* A process that a child's task waits for leaves its output there.
Ends(p, code, holder) ==
  LET s == Gone(ui, p)
      waiting == {t \in UiTasks : ui.task[t].child = p}
  IN  [s EXCEPT !.task = [t \in UiTasks |-> IF t \in waiting THEN [@[t] EXCEPT !.out = UiOut(code, holder), !.child = NoUi] ELSE @[t]]]

\* begin: refused by a lease or an interrupted operation, else it holds the lease.
stack_begin(p) ==
  /\ ui.proc[p] # NoUi /\ ui.proc[p].cmd \in {"up", "down"} /\ ui.proc[p].pc = "begin" /\ ~ui.proc[p].hung
  /\ ui' = CASE LeaseHeld -> Ends(p, 6, ui.lease)
             [] ~LeaseHeld /\ ui.incomplete -> Ends(p, 5, NoUi)
             [] OTHER -> [ui EXCEPT !.proc[p].pc = "hold", !.lease = p, !.incomplete = TRUE]

\* A process that lost its lease to an abort fails at its next call.
stack_end(p) ==
  /\ ui.proc[p] # NoUi /\ ui.proc[p].pc = "hold" /\ ~ui.proc[p].hung
  /\ IF ui.lease # p THEN ui' = Ends(p, 1, NoUi)
     ELSE \/ ui' = [Ends(p, 0, NoUi) EXCEPT !.lease = NoUi, !.incomplete = FALSE]
          \/ \E code \in {1, 19, 35} : ui' = [Ends(p, code, NoUi) EXCEPT !.lease = NoUi]

\* Terminals, the control plane's jobs, and image seals of the user's own.
other_process ==
  /\ ui.others < MaxUiOther
  /\ \E p \in UiFree, cmd \in {"up", "seal"} : ui' = [ui EXCEPT !.proc[p] = Process(cmd, "other"), !.others = @ + 1]

\* A hung process sends no heartbeats.
other_hangs(p) ==
  ui.proc[p] # NoUi /\ ui.proc[p].by = "other" /\ ~ui.proc[p].hung /\ ui' = [ui EXCEPT !.proc[p].hung = TRUE]

other_ends(p) == ui.proc[p] # NoUi /\ ui.proc[p].cmd = "seal" /\ ui' = Gone(ui, p)

-----------------------------------------------------------------------------
(* run_vzctl: one child at a time, and recovery.                           *)

Spawn(s, t, p, after) ==
  [s EXCEPT !.proc[p] = Process(s.task[t].cmd, t), !.task[t].pc = "protect", !.task[t].child = p, !.task[t].after = after,
            !.task[t].out = NoUi, !.task[t].runs = @ + 1]

run_vzctl_blocking(t) ==
  /\ ui.task[t].pc = "idle" /\ ui.cmds < MaxUiCmds
  /\ \E p \in UiFree, cmd \in {"up", "down"} :
       ui' = Spawn([ui EXCEPT !.cmds = @ + 1, !.task[t] = [UiIdle EXCEPT !.cmd = cmd]], t, p, "first")

\* The child's id is registered after it was started, and withdrawn when it ended.
protect_pid(t) ==
  /\ ui.task[t].pc = "protect"
  /\ ui' = [UiGo(ui, t, "wait") EXCEPT !.shield = @ \cup (IF ui.task[t].child = NoUi THEN {} ELSE {ui.task[t].child})]

run_args_streaming(t) ==
  /\ ui.task[t].pc = "wait" /\ ui.task[t].out # NoUi
  /\ ui' = [UiGo(ui, t, ui.task[t].after) EXCEPT !.shield = {p \in @ : \E o \in UiTasks : ui.task[o].child = p}]

is_incomplete_journal(o) == o.code = 5
is_lease_held(o) == o.code = 6
needs_resolver_elevation(o) == o.code = 19
is_transient_ingress_failure(o) == o.code = 35
is_recoverable(o) == is_incomplete_journal(o) \/ is_lease_held(o) \/ needs_resolver_elevation(o) \/ is_transient_ingress_failure(o)

UiEnd(t, result) == [ui EXCEPT !.task[t] = [UiIdle EXCEPT !.result = result, !.runs = ui.task[t].runs]]

\* The first run's output decides whether to recover at all.
run_vzctl_result(t) ==
  /\ ui.task[t].pc = "first"
  /\ LET o == ui.task[t].out
     IN  ui' = CASE o.code = 0 -> UiEnd(t, "ok")
                 [] o.code # 0 /\ is_recoverable(o) -> UiGo(ui, t, "recover")
                 [] OTHER -> UiEnd(t, "fail")

\* Mutant: the depth is not looked at.
recover_and_retryForever(t) ==
  /\ ui.task[t].pc = "recover"
  /\ LET o == ui.task[t].out
     IN  ui' = IF is_incomplete_journal(o) \/ is_lease_held(o) THEN UiGo([ui EXCEPT !.task[t].after = "resolver"], t, "abort")
               ELSE UiGo(ui, t, "resolver")

\* At most two rounds: lease and journal first, then the resolver, then the retry.
recover_and_retry(t) ==
  /\ ui.task[t].pc = "recover"
  /\ LET o == ui.task[t].out
     IN  ui' = CASE ui.task[t].depth > 1 -> UiEnd(t, "fail")
                 [] ui.task[t].depth <= 1 /\ (is_incomplete_journal(o) \/ is_lease_held(o)) ->
                      UiGo([ui EXCEPT !.task[t].after = "resolver"], t, "abort")
                 [] OTHER -> UiGo(ui, t, "resolver")

\* apply --abort. Only a held lease counts as a failure.
abort_journal(s) == IF LeaseHeld THEN s ELSE [s EXCEPT !.incomplete = FALSE, !.lease = NoUi]

\* Not this process, not a child in flight, and only stack commands.
should_reap_lease_holder(p) ==
  p # NoUi /\ p \notin ui.shield /\ ui.proc[p] # NoUi /\ ui.proc[p].cmd \in {"up", "down"}

\* Every `vzctl image seal` of the host.
reap_orphaned_seals == {p \in UiPids : ui.proc[p] # NoUi /\ ui.proc[p].cmd = "seal"}

\* kill: what it hits ends; a task waiting for it sees a failure.
Kill(ps) ==
  [ui EXCEPT !.reaped = @ \cup {[cmd |-> ui.proc[p].cmd, hung |-> ui.proc[p].hung] : p \in ps},
     !.proc = [p \in UiPids |-> IF p \in ps THEN NoUi ELSE @[p]],
     !.task = [t \in UiTasks |-> IF @[t].child \in ps THEN [@[t] EXCEPT !.out = UiOut(1, NoUi), !.child = NoUi] ELSE @[t]]]

\* Abort; if the lease refuses, kill the holder the output names and all
\* seals, abort again; else wait until the lease ends, look at the same
\* process id again, and abort once more.
clear_lease(t) ==
  LET me == ui.task[t]
      p == me.out.holder
      done == me.after
  IN  \/ me.pc = "abort" /\ ui' = UiGo(abort_journal(ui), t, IF LeaseHeld THEN "reap" ELSE done)
      \/ /\ me.pc = "reap"
         /\ ui' = IF should_reap_lease_holder(p) THEN UiGo(Kill({p} \cup reap_orphaned_seals), t, "abort2") ELSE UiGo(ui, t, "leaseWait")
      \/ me.pc = "abort2" /\ ui' = UiGo(abort_journal(ui), t, IF LeaseHeld THEN "leaseWait" ELSE done)
      \/ me.pc = "leaseWait" /\ p = NoUi /\ ui' = UiGo(ui, t, done)
      \/ /\ me.pc = "leaseWait" /\ p # NoUi
         /\ ui' = UiGo(IF should_reap_lease_holder(p) THEN Kill({p} \cup reap_orphaned_seals) ELSE ui, t, "abort3")
      \/ me.pc = "abort3" /\ ui' = UiGo(abort_journal(ui), t, done)

\* install-resolver, or uninstall-resolver for down; with administrator
\* rights when the plain command lacks them. A refused dialog ends it all.
ensure_resolver(t) ==
  /\ ui.task[t].pc = "resolver"
  /\ LET o == ui.task[t].out
         verb == IF ui.task[t].cmd = "down" THEN "uninstall-resolver" ELSE "install-resolver"
     IN  IF ~(needs_resolver_elevation(o) \/ is_incomplete_journal(o) \/ is_lease_held(o)) THEN ui' = UiGo(ui, t, "retry")
         ELSE \/ ui' = UiGo(ui, t, "retry")
              \/ needs_resolver_elevation(o) /\ ui' = UiEnd(t, "fail")
              \/ ui' = [UiGo(ui, t, "retry") EXCEPT !.asked = @ \cup {verb}]
              \/ ui' = [UiEnd(t, "fail") EXCEPT !.asked = @ \cup {verb}]

\* The retry; a lease held again gets one more try, another recoverable
\* failure one more round.
retry(t) ==
  /\ ui.task[t].pc = "retry"
  /\ \E p \in UiFree : ui' = Spawn(ui, t, p, "retried")

retry_result(t) ==
  LET o == ui.task[t].out
  IN  \/ /\ ui.task[t].pc = "retried"
         /\ ui' = CASE o.code = 0 -> UiEnd(t, "ok")
                    [] is_lease_held(o) -> UiGo([ui EXCEPT !.task[t].after = "again"], t, "abort")
                    [] o.code # 0 /\ ~is_lease_held(o) /\ is_recoverable(o) -> UiGo([ui EXCEPT !.task[t].depth = @ + 1], t, "recover")
                    [] OTHER -> UiEnd(t, "fail")
      \/ /\ ui.task[t].pc = "again"
         /\ \E p \in UiFree : ui' = Spawn(ui, t, p, "last")
      \/ /\ ui.task[t].pc = "last"
         /\ ui' = UiEnd(t, IF o.code = 0 THEN "ok" ELSE "fail")

-----------------------------------------------------------------------------
(* Privileged DNS commands, by argument list or by REST request.           *)

DnsVerbs == {"install-resolver", "uninstall-resolver", "install-bind-helper", "uninstall-bind-helper"}
UiGroups ==
  [dns |-> DnsVerbs \cup {"status", "query"},
   certs |-> {"fingerprint", "ca init", "ca install"},
   vm |-> {"list", "start", "stop", "delete", "create", "modify", "inspect", "mount", "unmount", "mounts", "logs", "exec", "services", "ps", "transfer"},
   image |-> {"list", "pull", "bake", "seal", "rebake"},
   docker |-> {"ps", "inspect", "start", "stop", "restart", "run"}]

\* Known groups and subcommands (doctor has none), nothing interactive.
validate_vzctl_argv(group, sub, interactive) ==
  (group = "doctor" \/ (group \in DOMAIN UiGroups /\ sub \in UiGroups[group])) /\ ~interactive

needs_dns_elevation(group, sub, code) == group = "dns" /\ sub \in DnsVerbs /\ code = 19

\* A failure keeps its envelope; a privileged one is repeated as root. Root
\* has no SUDO_UID, so the helper gets the user's id.
bind_helper_elevated_args(sub) == IF sub = "install-bind-helper" THEN [verb |-> sub, uid |-> TRUE] ELSE [verb |-> sub, uid |-> FALSE]

run_vzctl_argv_blocking ==
  /\ ui.cmds < MaxUiCmds
  /\ \E group \in DOMAIN UiGroups \cup {"doctor", "apply"}, sub \in {"status", "list", "ps"} \cup DnsVerbs, interactive \in BOOLEAN, code \in {0, 1, 19} :
       LET s == [ui EXCEPT !.cmds = @ + 1]
       IN  ui' = CASE ~validate_vzctl_argv(group, sub, interactive) -> [s EXCEPT !.dns = "refused"]
                   [] validate_vzctl_argv(group, sub, interactive) /\ needs_dns_elevation(group, sub, code) ->
                        [s EXCEPT !.dns = bind_helper_elevated_args(sub), !.asked = @ \cup {sub}]
                   [] OTHER -> [s EXCEPT !.dns = code]

\* The REST routes that need root, and the command each stands for.
is_privileged_dns_route(method, path) ==
  (path = "resolver" /\ method \in {"POST", "DELETE"}) \/ (path = "bind-helper" /\ method = "POST")

\* A good envelope never; exit code 19 always.
api_response_needs_elevation(r) == r = 19

\* Configuration and project from the body, else from the query.
resolver_scope_from_rest(body, query) == IF body # NoUi THEN body ELSE query

elevated_dns_args_from_rest(method, path, body, query) ==
  IF path = "bind-helper" THEN bind_helper_elevated_args("install-bind-helper")
  ELSE IF resolver_scope_from_rest(body, query) = NoUi THEN NoUi
  ELSE [verb |-> IF method = "POST" THEN "install-resolver" ELSE "uninstall-resolver", uid |-> FALSE]

maybe_elevate_privileged_dns ==
  /\ ui.cmds < MaxUiCmds
  /\ \E method \in {"GET", "POST", "DELETE"}, path \in {"resolver", "bind-helper", "other"}, body, query \in {NoUi, "scope"}, code \in {0, 1, 19} :
       LET s == [ui EXCEPT !.cmds = @ + 1]
           args == elevated_dns_args_from_rest(method, path, body, query)
       IN  ui' = CASE ~is_privileged_dns_route(method, path) \/ ~api_response_needs_elevation(code) -> [s EXCEPT !.dns = code]
                   [] is_privileged_dns_route(method, path) /\ api_response_needs_elevation(code) /\ args = NoUi -> [s EXCEPT !.dns = "refused"]
                   [] OTHER -> [s EXCEPT !.dns = args, !.asked = @ \cup {args.verb}]

-----------------------------------------------------------------------------

UiNext ==
  \/ \E p \in UiPids : stack_begin(p) \/ stack_end(p) \/ other_hangs(p) \/ other_ends(p)
  \/ \E t \in UiTasks : run_vzctl_blocking(t) \/ protect_pid(t) \/ run_args_streaming(t) \/ run_vzctl_result(t) \/ recover_and_retry(t)
                          \/ clear_lease(t) \/ ensure_resolver(t) \/ retry(t) \/ retry_result(t)
  \/ other_process \/ run_vzctl_argv_blocking \/ maybe_elevate_privileged_dns

UiSpec == UiInit /\ [][UiNext]_ui

-----------------------------------------------------------------------------
(* Correctness.                                                            *)

\* Recovery is bounded: whatever the other processes do, one click makes at
\* most four runs of vzctl, and aborts between them end too.
RetriesBounded == \A t \in UiTasks : ui.task[t].runs <= 4
=============================================================================
