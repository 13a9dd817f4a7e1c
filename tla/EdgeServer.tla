----------------------------- MODULE EdgeServer -----------------------------
(***************************************************************************)
(* What the control plane wants at the edge and what vz-edge makes of it.   *)
(* RPCs change the database and then push all of it, one push at a time,    *)
(* with a generation of its own; a push that times out is still carried     *)
(* out.  vz-edge applies one push after the other, refuses older ones,      *)
(* goes back to the last good one when a step fails and keeps it in a       *)
(* manifest that it restores when it starts.  Firewall rules and addresses  *)
(* of the host are set by a privileged helper and outlive vz-edge.  A call   *)
(* to the helper is given up after five seconds and not repeated; what was   *)
(* asked for may still be done, at any time later.                          *)
(*                                                                         *)
(* The desired state is [cidrs, ingress]: the active vmnet networks and     *)
(* the ingress of one project; ports, DNS records and OIDC are pushed and   *)
(* applied like them.                                                      *)
(***************************************************************************)
EXTENDS Naturals, FiniteSets

CONSTANTS EdCidrs,       \* networks
          EdThreads,     \* threads of the control plane that serve RPCs
          MaxEdWork,     \* bound: generations, kills of vz-edge and calls given up together
          NoEd           \* nothing

EdIngress == 0..1
EdDesired == [cidrs : SUBSET EdCidrs, ingress : EdIngress]
EdPushes  == [gen : Nat, desired : EdDesired]
EdCallers == [pc : {"write", "push", "wait"}, kind : {"keep", "ingress", "rollback"}, snap : EdIngress, gen : Nat]
EdPcs     == {"firewall", "alias", "procs", "listeners", "remove", "rules", "unlink", "move"}
EdJobs    == [mode : {"new", "rollback", "restore"}, gen : Nat, desired : EdDesired, pc : EdPcs]

\* What vz-edge listens for; the gateways are those of the guests' networks.
EdServed == [cidrs : SUBSET EdCidrs, ingress : EdIngress, gateways : SUBSET EdCidrs]
\* Calls given up: a complete set of rules, and one address to add or to remove.
\* old: a later set of rules has been put into force since.
EdRules       == EdCidrs \X EdIngress
EdSlowRules   == [id : Nat, rules : SUBSET EdRules, old : BOOLEAN]
EdSlowAliases == [id : Nat, cidr : EdCidrs, present : BOOLEAN]
\* The host and the helper.  overtaken: the rules in force were asked for before the last
\* rules vz-edge was told of; lost: addresses taken away by a call given up.
EdHosts == [aliases : SUBSET EdCidrs, rules : SUBSET EdRules, slowRules : SUBSET EdSlowRules, slowAliases : SUBSET EdSlowAliases,
            slow : Nat, overtaken : BOOLEAN, lost : SUBSET EdCidrs]

ASSUME EdgeServerAssumption ==
  NoEd \notin EdThreads /\ NoEd \notin EdPushes /\ NoEd \notin EdCallers /\ NoEd \notin EdJobs

VARIABLE ed  \* [want, dbgen, thread, lock, calls, last, up, gen, desired, error, manifest, job, procs, served, aliases, rules, host, kills, cut]

EdNothing == [cidrs |-> {}, ingress |-> 0]
EdRule(c, d) == <<c, d.ingress>>
\* One rule for each active network; it opens the ports of the ingress.
targetFirewall(d) == {EdRule(c, d) : c \in d.cidrs}
EdProtects(rules, c) == \E r \in rules : r[1] = c

EdMore == ed.dbgen + ed.kills + ed.host.slow < MaxEdWork

\* The gateways of the ingress; listeners for the host itself come with it.
EdGateways(d) == IF d.ingress = 0 THEN {} ELSE d.cidrs
EdServes(s, d) == s.cidrs = d.cidrs /\ s.ingress = d.ingress /\ s.gateways \subseteq EdGateways(d)

EdServing(d, gateways) == [cidrs |-> d.cidrs, ingress |-> d.ingress, gateways |-> gateways]

EdInit ==
  ed = [want |-> EdNothing, dbgen |-> 0, thread |-> [t \in EdThreads |-> NoEd], lock |-> NoEd, calls |-> {}, last |-> "none",
        up |-> TRUE, gen |-> 0, desired |-> EdNothing, error |-> FALSE, manifest |-> NoEd, job |-> NoEd, procs |-> 0,
        served |-> EdServing(EdNothing, {}), aliases |-> {}, rules |-> {},
        host |-> [aliases |-> {}, rules |-> {}, slowRules |-> {}, slowAliases |-> {}, slow |-> 0, overtaken |-> FALSE, lost |-> {}], kills |-> 0, cut |-> FALSE]

-----------------------------------------------------------------------------
(* The control plane.                                                      *)

EdThread(pc, kind, snap) == [pc |-> pc, kind |-> kind, snap |-> snap, gen |-> 0]

\* net.create, attach, detach, delete and default.set; ports, records and OIDC
\* alike: the database is changed first and keeps the change whatever follows.
mutate(t) ==
  /\ ed.thread[t] = NoEd /\ EdMore
  /\ \E cidrs \in SUBSET EdCidrs :
       ed' = [ed EXCEPT !.want.cidrs = cidrs, !.thread[t] = EdThread("push", "keep", 0)]

edgeProjectMutationSnapshot(t) ==
  /\ ed.thread[t] = NoEd /\ EdMore
  /\ ed' = [ed EXCEPT !.thread[t] = EdThread("write", "ingress", ed.want.ingress)]

setEdgeIngress(t) ==
  /\ ed.thread[t] # NoEd /\ ed.thread[t].pc = "write"
  /\ \E i \in EdIngress : ed' = [ed EXCEPT !.want.ingress = i, !.thread[t].pc = "push"]

\* A failed push ends a thread, except that ingress.ensure first puts its
\* snapshot back and pushes once more, whatever comes of that.
EdFailed(e, t) ==
  [IF e.thread[t].kind = "ingress"
   THEN [e EXCEPT !.want.ingress = e.thread[t].snap, !.thread[t] = EdThread("push", "rollback", 0)]
   ELSE [e EXCEPT !.thread[t] = NoEd] EXCEPT !.last = "failed", !.lock = NoEd]

\* Everything is read and numbered under edgeReconcileLock, which is held until
\* the answer.  vz-edge does not listen before its manifest is restored.
reconcileEdgeThrowing(t) ==
  /\ ed.thread[t] # NoEd /\ ed.thread[t].pc = "push" /\ ed.lock = NoEd /\ EdMore
  /\ LET g == ed.dbgen + 1
         e == [ed EXCEPT !.dbgen = g]
     IN  ed' = IF ~ed.up \/ (ed.job # NoEd /\ ed.job.mode = "restore") THEN EdFailed(e, t)
               ELSE [e EXCEPT !.lock = t, !.thread[t] = [@ EXCEPT !.pc = "wait", !.gen = g], !.calls = @ \cup {[gen |-> g, desired |-> ed.want]}]

\* 90 seconds without an answer, or the connection is gone.
push_times_out(t) == ed.thread[t] # NoEd /\ ed.thread[t].pc = "wait" /\ ed' = EdFailed(ed, t)

\* The control plane is killed and started again; it pushes at its start.
control_plane_restarts ==
  /\ EdMore /\ \E t \in EdThreads : ed.thread[t] # NoEd
  /\ LET first == CHOOSE t \in EdThreads : TRUE IN
     ed' = [ed EXCEPT !.lock = NoEd, !.last = "failed", !.thread = [t \in EdThreads |-> IF t = first THEN EdThread("push", "keep", 0) ELSE NoEd]]

-----------------------------------------------------------------------------
(* vz-edge: reconcile.                                                     *)

\* The answer reaches the thread that still waits for it.
EdAnswer(e, g, ok) ==
  LET waiting == {t \in EdThreads : e.thread[t] # NoEd /\ e.thread[t].pc = "wait" /\ e.thread[t].gen = g} IN
  IF waiting = {} THEN e
  ELSE LET t == CHOOSE x \in waiting : TRUE IN
       IF ok THEN [e EXCEPT !.thread[t] = NoEd, !.lock = NoEd, !.last = "ok", !.cut = FALSE] ELSE EdFailed(e, t)

EdJob(mode, gen, d) == [mode |-> mode, gen |-> gen, desired |-> d, pc |-> "firewall"]

\* One call at a time, in any order; what cannot be parsed fails before any effect.
reconcile ==
  /\ ed.up /\ ed.job = NoEd
  /\ \E c \in ed.calls :
       LET e == [ed EXCEPT !.calls = @ \ {c}]
       IN  ed' = IF c.gen <= ed.gen THEN EdAnswer(e, c.gen, FALSE) ELSE [e EXCEPT !.job = EdJob("new", c.gen, c.desired)]

EdAt(pc) == ed.up /\ ed.job # NoEd /\ ed.job.pc = pc
EdTo(e, pc) == [e EXCEPT !.job.pc = pc]
EdTarget == ed.job.desired

(* The helper does what it is asked to.                                    *)

EdHostRules(h, rules) == [h EXCEPT !.rules = rules, !.overtaken = FALSE, !.slowRules = {[r EXCEPT !.old = TRUE] : r \in @}]
EdHostAlias(h, c, present) ==
  [h EXCEPT !.aliases = IF present THEN @ \cup {c} ELSE @ \ {c}, !.lost = @ \ {c}]

\* Mutant: the final rules are published before stale addresses are gone.
prepare_firewallFinal ==
  EdAt("firewall") /\ ed' = EdTo([ed EXCEPT !.rules = targetFirewall(EdTarget), !.host = EdHostRules(@, targetFirewall(EdTarget))], "alias")

\* What is protected stays so while new rules are added.
EdProtected == {r \in ed.rules : r[1] \notin EdTarget.cidrs} \cup targetFirewall(EdTarget)
EdMissing   == EdTarget.cidrs \ ed.aliases
EdStale     == ed.aliases \ EdTarget.cidrs
EdFinal     == targetFirewall(EdTarget)

\* prepare, first half: rules come before addresses.
prepare_firewall ==
  /\ EdAt("firewall")
  /\ ed' = EdTo(IF EdProtected = {} THEN ed ELSE [ed EXCEPT !.rules = EdProtected, !.host = EdHostRules(@, EdProtected)], "alias")

\* prepare, second half: one address after the other.
prepare_alias ==
  /\ EdAt("alias")
  /\ IF EdMissing = {} THEN ed' = EdTo(ed, "procs")
     ELSE \E c \in EdMissing : ed' = [ed EXCEPT !.aliases = @ \cup {c}, !.host = EdHostAlias(@, c, TRUE)]

apply_processes == EdAt("procs") /\ ed' = EdTo([ed EXCEPT !.procs = EdTarget.ingress], "listeners")

\* Port forwards, the gateway proxy's listeners, then the DNS zones.  A gateway that
\* cannot be listened on is passed over with a warning.
apply_listeners ==
  /\ EdAt("listeners")
  /\ \E gateways \in SUBSET EdGateways(EdTarget) : ed' = EdTo([ed EXCEPT !.served = EdServing(EdTarget, gateways)], "remove")

\* finish: addresses that are no longer wanted go while their rules still stand.
finish_aliases ==
  /\ EdAt("remove")
  /\ IF EdStale = {} THEN ed' = EdTo(ed, "rules")
     ELSE \E c \in EdStale : ed' = [ed EXCEPT !.aliases = @ \ {c}, !.host = EdHostAlias(@, c, FALSE)]

EdCommit(e) == [e EXCEPT !.gen = e.job.gen, !.desired = e.job.desired, !.error = FALSE, !.job = NoEd]

\* The end of apply.  A new generation goes on to be saved, a restored one
\* counts, and the answer to a push that was taken back is its error.
finish_rules ==
  /\ EdAt("rules")
  /\ LET e == [ed EXCEPT !.rules = EdFinal, !.host = IF EdFinal = {} /\ ed.rules = {} THEN @ ELSE EdHostRules(@, EdFinal)]
     IN  ed' = CASE ed.job.mode = "new" -> EdTo(e, "unlink")
                 [] ed.job.mode = "restore" -> EdCommit(e)
                 [] OTHER -> EdAnswer([e EXCEPT !.job = NoEd], ed.job.gen, FALSE)

\* persist removes the old manifest before the new one takes its name.
persist_removes == EdAt("unlink") /\ ed' = EdTo([ed EXCEPT !.manifest = NoEd], "move")

persist_moves ==
  /\ EdAt("move")
  /\ ed' = EdAnswer(EdCommit([ed EXCEPT !.manifest = [gen |-> ed.job.gen, desired |-> EdTarget]]), ed.job.gen, TRUE)

\* A step fails: the last good state is applied again, if there is one.
\* A failure of that, or of a restore, is final.
EdGoBack(e) ==
  IF e.job.mode = "new" /\ e.gen > 0
  THEN [e EXCEPT !.error = TRUE, !.job = EdJob("rollback", @.gen, e.desired)]
  ELSE EdAnswer([e EXCEPT !.error = TRUE, !.job = NoEd], e.job.gen, FALSE)

apply_fails == ed.up /\ ed.job # NoEd /\ ed' = EdGoBack(ed)

\* What the step under way asks of the helper.
EdAsksRules(rules) ==
  \/ EdAt("firewall") /\ rules = EdProtected /\ rules # {}
  \/ EdAt("rules") /\ rules = EdFinal /\ (rules # {} \/ ed.rules # {})
EdAsksAlias(c, present) ==
  \/ EdAt("alias") /\ present /\ c \in EdMissing
  \/ EdAt("remove") /\ ~present /\ c \in EdStale
EdLeaveRules(h, rules)      == [h EXCEPT !.slow = @ + 1, !.slowRules = @ \cup {[id |-> h.slow, rules |-> rules, old |-> FALSE]}]
EdLeaveAlias(h, c, present) == [h EXCEPT !.slow = @ + 1, !.slowAliases = @ \cup {[id |-> h.slow, cidr |-> c, present |-> present]}]

\* The host when vz-edge no longer waits for the call under way.
EdUnanswered ==
  IF ed.job = NoEd THEN {}
  ELSE {EdLeaveRules(ed.host, r) : r \in {x \in {EdProtected, EdFinal} : EdAsksRules(x)}}
       \cup {EdLeaveAlias(ed.host, q[1], q[2]) : q \in {x \in EdCidrs \X BOOLEAN : EdAsksAlias(x[1], x[2])}}

\* No answer within five seconds: the step has failed as far as vz-edge can tell.
helper_times_out ==
  /\ ed.up /\ EdMore
  /\ \E h \in EdUnanswered : ed' = EdGoBack([ed EXCEPT !.host = h])

EdLateRules(h, r) == [h EXCEPT !.slowRules = @ \ {r}, !.rules = r.rules, !.overtaken = r.old]
EdLateAlias(h, q) ==
  [h EXCEPT !.slowAliases = @ \ {q}, !.aliases = IF q.present THEN @ \cup {q.cidr} ELSE @ \ {q.cidr},
            !.lost = IF q.present THEN @ ELSE @ \cup {q.cidr}]

\* The helper carries a call out that was given up, whatever has been done since.
helper_is_late ==
  \/ \E r \in ed.host.slowRules   : ed' = [ed EXCEPT !.host = EdLateRules(@, r)]
  \/ \E q \in ed.host.slowAliases : ed' = [ed EXCEPT !.host = EdLateAlias(@, q)]

\* The watchdog opens all listeners again when the ingress does not answer on
\* the host itself; gateways that failed before may succeed, and the other way round.
repairLoopbackIfNeeded ==
  /\ ed.up /\ ed.served.ingress = 1 /\ ~(ed.job # NoEd /\ ed.job.mode = "restore")
  /\ \E gateways \in SUBSET EdGateways(ed.served) : ed' = [ed EXCEPT !.served.gateways = gateways]

-----------------------------------------------------------------------------
(* vz-edge ends and starts; launchd keeps it running.                      *)

\* Its listeners and processes end or are reaped; what it knew of the host is lost.
\* cut: it has been killed since the last push that succeeded.
edge_is_killed ==
  /\ ed.up /\ EdMore
  /\ \E h \in {ed.host} \cup EdUnanswered :
       ed' = [ed EXCEPT !.up = FALSE, !.gen = 0, !.desired = EdNothing, !.error = FALSE, !.job = NoEd, !.calls = {}, !.procs = 0,
                        !.served = EdServing(EdNothing, {}), !.aliases = {}, !.rules = {}, !.host = [h EXCEPT !.lost = {}], !.kills = @ + 1, !.cut = TRUE]

restoreManifest ==
  /\ ~ed.up
  /\ ed' = [ed EXCEPT !.up = TRUE, !.job = IF ed.manifest = NoEd THEN NoEd ELSE EdJob("restore", ed.manifest.gen, ed.manifest.desired)]

EdNext ==
  \/ \E t \in EdThreads :
       mutate(t) \/ edgeProjectMutationSnapshot(t) \/ setEdgeIngress(t) \/ reconcileEdgeThrowing(t) \/ push_times_out(t)
  \/ control_plane_restarts \/ reconcile \/ prepare_firewall \/ prepare_alias \/ apply_processes \/ apply_listeners \/ finish_aliases
  \/ finish_rules \/ persist_removes \/ persist_moves \/ apply_fails
  \/ helper_times_out \/ helper_is_late \/ repairLoopbackIfNeeded \/ edge_is_killed \/ restoreManifest

EdSpec == EdInit /\ [][EdNext]_ed

-----------------------------------------------------------------------------
\* An address vz-edge has published is on the host and protected by a rule there at every step
\* of every apply, rollback and restore.  The only exceptions come from calls vz-edge gave up: a
\* removal that was carried out after all, and rules that were carried out after later ones,
\* until rules are set again.
AliasesProtected ==
  \A c \in ed.aliases : (c \in ed.host.aliases \/ c \in ed.host.lost) /\ (EdProtects(ed.host.rules, c) \/ ed.host.overtaken)

\* Between two calls and without an error, vz-edge serves its current generation and nothing else:
\* only gateways of guests it could not listen on are missing, and none of an earlier generation is left.
LastGoodServed ==
  (ed.up /\ ed.job = NoEd /\ ~ed.error /\ ed.gen > 0) =>
    /\ ed.procs = ed.desired.ingress /\ EdServes(ed.served, ed.desired) /\ ed.aliases = ed.desired.cidrs
    /\ ed.host.rules = targetFirewall(ed.desired) \/ ed.desired.cidrs = {} \/ ed.host.overtaken
    /\ ed.manifest = [gen |-> ed.gen, desired |-> ed.desired]

\* When no RPC is under way, the last push succeeded and vz-edge has not been restarted since,
\* it has what the database says, however pushes overlapped, timed out and were applied late.
Converged ==
  (ed.up /\ ed.job = NoEd /\ ed.calls = {} /\ ed.last = "ok" /\ ~ed.cut /\ \A t \in EdThreads : ed.thread[t] = NoEd) => ed.desired = ed.want

\* The three together: firewall before alias at every step of an apply, the last good generation
\* served between calls, and the database's state reached once the pushes are over.
EdgeSound == AliasesProtected /\ LastGoodServed /\ Converged
=============================================================================
