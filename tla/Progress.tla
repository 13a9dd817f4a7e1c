------------------------------ MODULE Progress ------------------------------
(***************************************************************************)
(* The progress display of apply, up and down. The worker thread keeps its  *)
(* own account of the jobs and sends every change to the dashboard through  *)
(* a channel; threads that read the output of subprocesses and the event    *)
(* stream send log lines through the same channel. The worker's result      *)
(* comes through a second channel. Ctrl-C leaves the dashboard; drawing may *)
(* fail when the terminal is gone.                                          *)
(***************************************************************************)
EXTENDS Naturals, Sequences, FiniteSets

CONSTANTS PgLeaves,       \* jobs that count
          PgLate,         \* those of them that are planned while the run goes on
          MaxPgMsgs,      \* bound: messages of the worker
          MaxPgLogs,      \* bound: lines of the other threads
          MAX_LOG_LINES,  \* log lines that are kept
          NoPg            \* nothing

\* Jobs are numbered by their place in the list.
ASSUME ProgressAssumption ==
  /\ IsFiniteSet(PgLeaves) /\ PgLeaves = 1..Cardinality(PgLeaves) /\ PgLate \subseteq PgLeaves
  /\ NoPg \notin {"ok", "fail", "full", "part"} /\ NoPg \notin PgLeaves

VARIABLE pg  \* [rep, chan, sent, lines, worker, done, disp, pc, follow, result, percent]

-----------------------------------------------------------------------------
(* The account of the jobs, kept by the worker and by the dashboard.       *)

JobState == [status |-> "pending", progress |-> NoPg, detail |-> NoPg]

install_specs(s, specs) ==
  [s EXCEPT !.jobs = [j \in DOMAIN s.jobs \cup specs |-> IF j \in DOMAIN s.jobs THEN s.jobs[j] ELSE JobState]]

ProgressState(specs) == install_specs([jobs |-> << >>, current |-> NoPg, logs |-> << >>, finished |-> NoPg], specs)

last_running_job(s) ==
  LET running == {j \in DOMAIN s.jobs : s.jobs[j].status = "running"}
  IN  IF running = {} THEN NoPg ELSE CHOOSE j \in running : \A k \in running : k <= j

\* The oldest lines go.
push_log(s, line) ==
  LET logs == Append(s.logs, line)
  IN  [s EXCEPT !.logs = IF Len(logs) > MAX_LOG_LINES THEN Tail(logs) ELSE logs]

job_of(s, id) == IF id \in DOMAIN s.jobs THEN s.jobs[id] ELSE JobState

\* Only jobs that were planned change.
set_job(s, id, status, progress, detail) ==
  IF id \in DOMAIN s.jobs THEN [s EXCEPT !.jobs = [@ EXCEPT ![id] = [status |-> status, progress |-> progress, detail |-> detail]]] ELSE s

set_current(s, id) == [s EXCEPT !.current = id]
leave_current(s, id) == IF s.current = id THEN set_current(s, last_running_job(s)) ELSE s

\* A failed job becomes the current one in any case.
apply(s, m) ==
  LET known == m.id \in DOMAIN s.jobs
      old == job_of(s, m.id)
  IN  CASE m.kind = "plan" -> install_specs(s, m.specs)
        [] m.kind = "start" /\ known -> set_current(set_job(s, m.id, "running", old.progress, old.detail), m.id)
        [] m.kind = "progress" /\ known -> set_current(set_job(s, m.id, "running", "part", "detail"), m.id)
        [] m.kind = "done" -> leave_current(set_job(s, m.id, "done", "full", old.detail), m.id)
        [] m.kind = "skip" -> leave_current(set_job(s, m.id, "skipped", "full", "reason"), m.id)
        [] m.kind = "fail" -> set_current(set_job(s, m.id, "failed", old.progress, "error"), m.id)
        [] m.kind = "log" -> push_log(s, m.from)
        [] m.kind = "finished" -> [s EXCEPT !.finished = m.from]
        [] OTHER -> s

\* The share of the work, in halves of a job, and the state of the group the
\* jobs belong to. A job that fails or starts again keeps its progress.
fraction(j) == CASE j.status \in {"done", "skipped"} \/ j.progress = "full" -> 2 [] j.progress = "part" -> 1 [] OTHER -> 0
HalvesDone(jobs) == Cardinality({j \in DOMAIN jobs : fraction(jobs[j]) >= 1}) + Cardinality({j \in DOMAIN jobs : fraction(jobs[j]) = 2})
percent(jobs) == IF DOMAIN jobs = {} THEN 0 ELSE (50 * HalvesDone(jobs)) \div Cardinality(DOMAIN jobs)

group_status(jobs) ==
  LET children == {jobs[j].status : j \in DOMAIN jobs}
  IN  CASE "failed" \in children -> "failed"
        [] "failed" \notin children /\ "running" \in children -> "running"
        [] children # {} /\ children \subseteq {"done", "skipped"} -> "done"
        [] OTHER -> "pending"

-----------------------------------------------------------------------------
(* The threads.                                                            *)

PgMsg(kind, id, specs, from) == [kind |-> kind, id |-> id, specs |-> specs, from |-> from]

\* The plan of the steps is the first message.
PgInit ==
  pg = [rep |-> ProgressState(PgLeaves \ PgLate), chan |-> <<PgMsg("plan", NoPg, PgLeaves \ PgLate, NoPg)>>, sent |-> 0, lines |-> 0, worker |-> "run", done |-> NoPg,
        disp |-> ProgressState({}), pc |-> "loop", follow |-> FALSE, result |-> NoPg, percent |-> 0]

PgSend(s, m) == [s EXCEPT !.chan = Append(@, m)]

\* The worker's own account first, then the channel.
publish(m) ==
  LET rep == apply(pg.rep, m)
  IN  PgSend([pg EXCEPT !.rep = rep, !.percent = percent(rep.jobs), !.sent = @ + 1], m)

PgWorks == pg.worker = "run" /\ pg.sent < MaxPgMsgs

add_jobs ==
  /\ PgWorks
  /\ \E j \in PgLate : pg' = publish(PgMsg("plan", NoPg, {j}, NoPg))

job_start == PgWorks /\ \E j \in PgLeaves : pg' = publish(PgMsg("start", j, {}, NoPg))
job_progress == PgWorks /\ \E j \in PgLeaves : pg' = publish(PgMsg("progress", j, {}, NoPg))
job_done == PgWorks /\ \E j \in PgLeaves : pg' = publish(PgMsg("done", j, {}, NoPg))
job_skip == PgWorks /\ \E j \in PgLeaves : pg' = publish(PgMsg("skip", j, {}, NoPg))
job_fail == PgWorks /\ \E j \in PgLeaves : pg' = publish(PgMsg("fail", j, {}, NoPg))

\* Lines of subprocesses and of the event stream, until the end.
spawn_event_listener ==
  pg.pc \in {"loop", "drain"} /\ pg.lines < MaxPgLogs /\ pg' = PgSend([pg EXCEPT !.lines = @ + 1], PgMsg("log", NoPg, {}, pg.lines))

\* The last message, and then the result; errors outside the steps have the
\* result only.
finished == pg.worker = "run" /\ \E ok \in {"ok", "fail"} : pg' = [publish(PgMsg("finished", NoPg, {}, ok)) EXCEPT !.worker = "finished"]
PgReturns ==
  \/ pg.worker = "finished" /\ pg' = [pg EXCEPT !.worker = "gone", !.done = pg.rep.finished]
  \/ pg.worker = "run" /\ pg' = [pg EXCEPT !.worker = "gone", !.done = "fail"]

\* A panic drops both senders without a result.
PgPanics == pg.worker = "run" /\ pg' = [pg EXCEPT !.worker = "panicked"]

-----------------------------------------------------------------------------
(* The dashboard.                                                          *)

print_plain_message(s) == [s EXCEPT !.disp = apply(@, Head(s.chan)), !.chan = Tail(s.chan)]

\* Mutant: the session ends with the result and leaves the channel alone.
run_ui_sessionUndrained ==
  /\ pg.pc = "loop"
  /\ CASE pg.done # NoPg -> pg' = [pg EXCEPT !.pc = "final", !.result = pg.done]
       [] pg.worker = "panicked" -> pg' = [pg EXCEPT !.pc = "final", !.result = "stopped"]
       [] OTHER -> pg.chan # << >> /\ pg' = print_plain_message(pg)

\* The result is looked for first; without one, one message is taken. Once
\* it is there, messages are taken until none is left, while other threads
\* may still send theirs.
run_ui_session ==
  \/ /\ pg.pc = "loop"
     /\ CASE pg.done # NoPg -> pg' = [pg EXCEPT !.pc = "drain", !.result = pg.done]
          [] pg.done = NoPg /\ pg.worker = "panicked" -> pg' = [pg EXCEPT !.pc = "final", !.result = "stopped"]
          [] OTHER -> pg.chan # << >> /\ pg' = print_plain_message(pg)
  \/ pg.pc = "drain" /\ pg' = IF pg.chan # << >> THEN print_plain_message(pg) ELSE [pg EXCEPT !.pc = "final"]

\* The last frame of a run that failed shows the current job as failed.
mark_failed(s) == IF pg.result # "ok" /\ s.current # NoPg THEN apply(s, PgMsg("fail", s.current, {}, NoPg)) ELSE s

draw_final ==
  /\ pg.pc = "final"
  /\ \/ pg.follow /\ pg' = [pg EXCEPT !.pc = "joined"]
     \/ ~pg.follow /\ pg' = [pg EXCEPT !.pc = "joined", !.disp = mark_failed(@)]

\* Ctrl-C: the run goes on in the foreground, as plain lines.
is_ctrl_c == pg.pc = "loop" /\ ~pg.follow /\ pg' = [pg EXCEPT !.follow = TRUE]

\* Drawing fails: the session returns and the process ends with the worker.
draw_fails == pg.pc \in {"loop", "final"} /\ ~pg.follow /\ pg' = [pg EXCEPT !.pc = "lost", !.result = "draw"]

PgNext ==
  \/ add_jobs \/ job_start \/ job_progress \/ job_done \/ job_skip \/ job_fail \/ spawn_event_listener \/ finished \/ PgReturns \/ PgPanics
  \/ run_ui_session \/ draw_final \/ is_ctrl_c \/ draw_fails

PgSpec == PgInit /\ [][PgNext]_pg

-----------------------------------------------------------------------------
(* Correctness.                                                            *)

\* What the dashboard shows last is the worker's account: the same jobs in
\* the same states, the same outcome and percentage, whatever was still under
\* way in the channel when the result came, and whatever the other threads
\* put between; except that the job which was current when a run failed is
\* shown as failed. That is never a job the worker has reported as done or
\* skipped, and the group it belongs to is shown as failed.
FinalDisplayComplete ==
  pg.pc = "joined" /\ pg.result # "stopped" =>
    LET shown == IF pg.follow THEN pg.rep ELSE mark_failed(pg.rep)
    IN  /\ pg.disp.jobs = shown.jobs /\ pg.disp.current = pg.rep.current
        /\ pg.disp.finished = pg.rep.finished /\ pg.rep.finished \in {NoPg, pg.result}
        /\ \A j \in DOMAIN pg.rep.jobs : pg.rep.jobs[j].status \in {"done", "skipped"} => pg.disp.jobs[j] = pg.rep.jobs[j]
        /\ percent(pg.disp.jobs) = pg.percent
        /\ pg.result = "fail" /\ ~pg.follow /\ pg.rep.current \in DOMAIN pg.rep.jobs => group_status(pg.disp.jobs) = "failed"
=============================================================================
