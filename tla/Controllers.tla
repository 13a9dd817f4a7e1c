----------------------------- MODULE Controllers -----------------------------
(***************************************************************************)
(* Service claims: a database or bucket claim of the stack's YAML, or an   *)
(* ingress claim that lives in Kubernetes, reconciled by `apply` and by    *)
(* the control plane's automatic worker (claims are reconciled one after   *)
(* the other and share nothing, so a behaviour has one of the three). A    *)
(* project lock keeps the two drivers apart; the worker also carries the   *)
(* generation of the registration that allowed it, which it asks for       *)
(* before every operation in a guest. A refusal there is an ordinary error *)
(* of the operation, recorded with the claim; only the run's own checks    *)
(* end it. Either driver may be killed anywhere; a script it started in    *)
(* the guest runs on.                                                      *)
(***************************************************************************)
EXTENDS Naturals, FiniteSets

CONSTANTS MaxScGen,   \* bound: registrations
          MaxScUid,   \* bound: claim objects, and edits of the first ones
          MaxScRand,  \* bound: random credentials drawn
          NoSc        \* nothing

ASSUME ControllersAssumption ==
  /\ MaxScGen \in Nat /\ MaxScUid \in Nat /\ MaxScRand \in Nat
  /\ NoSc \notin Nat /\ NoSc \notin [by : {"vzctl", "other"}, tag : {"vzctl", NoSc}]
  /\ NoSc \notin {"routed", "KubernetesUnavailable"}

VARIABLE sc  \* [kind, reg, gens, lock, p, secret, rand, job, account, store, touched,
             \*  obj, uids, nodeport, route, rec, binding, shown]; rec is the claim's
             \*  record, rec.resource the claim whose backend it names, route the claim
             \*  routed to, shown the generation whose result the control plane shows

Drivers == {"worker", "apply"}
ScIdle  == [pc |-> "idle", gen |-> 0, ok |-> FALSE, late |-> 0, obj |-> NoSc, edge |-> NoSc, pass |-> NoSc]
JobNone == [stage |-> "none", pass |-> NoSc, made |-> FALSE]
NoRec   == [state |-> NoSc, reason |-> NoSc, resource |-> NoSc]

ScInit ==
  \E kind \in {"postgres", "s3", "ingress"} :
    sc = [kind |-> kind, reg |-> 0, gens |-> 0, lock |-> NoSc, p |-> [x \in Drivers |-> ScIdle],
          secret |-> NoSc, rand |-> 0, job |-> [x \in Drivers |-> JobNone],
          account |-> NoSc, store |-> NoSc, touched |-> FALSE,
          obj |-> NoSc, uids |-> 0, nodeport |-> FALSE, route |-> NoSc,
          rec |-> NoRec, binding |-> NoSc, shown |-> NoSc]

P(x)       == sc.p[x]
Pc(x, pc)  == sc.p[x].pc = pc
\* The process is gone and its lock with it; the control plane has yet to
\* take note of the worker's end.
Ended(x, s) == [s EXCEPT !.p[x] = IF x = "worker" THEN [ScIdle EXCEPT !.pc = "exited", !.gen = s.p[x].gen] ELSE ScIdle,
                         !.lock = IF @ = x THEN NoSc ELSE @]
Revoked(x) == P(x).gen # 0 /\ P(x).gen # sc.reg

-----------------------------------------------------------------------------
(* Registration and the two drivers.                                       *)

\* A new generation; the worker of an older one is no longer allowed.
register ==
  /\ Pc("apply", "idle") /\ sc.gens < MaxScGen
  /\ sc' = [sc EXCEPT !.gens = @ + 1, !.reg = sc.gens + 1, !.shown = NoSc, !.p["apply"] = [ScIdle EXCEPT !.pc = "lock"]]

unregister == sc.reg # 0 /\ sc' = [sc EXCEPT !.reg = 0, !.shown = NoSc]

tick ==
  /\ sc.reg # 0 /\ Pc("worker", "idle")
  /\ sc' = [sc EXCEPT !.p["worker"] = [ScIdle EXCEPT !.pc = "lock", !.gen = sc.reg]]

\* The result of the run is shown unless its registration is gone by now.
worker_finished ==
  /\ Pc("worker", "exited")
  /\ sc' = [sc EXCEPT !.p["worker"] = ScIdle, !.shown = IF P("worker").gen = sc.reg THEN sc.reg ELSE @]

\* flock with LOCK_NB: the second one fails with LeaseHeld.
acquire(x) ==
  /\ Pc(x, "lock")
  /\ sc' = IF sc.lock = NoSc THEN [sc EXCEPT !.lock = x, !.p[x].pc = "begin"] ELSE Ended(x, sc)

\* Where the run goes after its own check: with no claim there is nothing to do.
ClaimOrEnd(obj) == IF sc.kind = "ingress" /\ obj = NoSc THEN "end" ELSE "claim"
AfterCheck(x) ==
  CASE Pc(x, "begin") -> "discover"
    [] Pc(x, "claim") -> IF sc.kind = "ingress" THEN "deliver_ingress" ELSE "secret"
    [] OTHER          -> IF sc.kind # "ingress" \/ P(x).edge = "DiscoveryIncomplete" THEN ClaimOrEnd(P(x).obj)
                         ELSE IF P(x).obj # NoSc THEN "node_port" ELSE "ingress"

\* The run's own checks, at its start, after discovery and before the claim: a
\* registration that is gone or cannot be asked for ends the run. The run of
\* apply has none.
reconcile_guarded_check(x) ==
  /\ P(x).pc \in {"begin", "edge", "claim"}
  /\ \/ ~Revoked(x) /\ sc' = [sc EXCEPT !.p[x].pc = AfterCheck(x)]
     \/ P(x).gen # 0 /\ sc' = Ended(x, sc)

\* Which object the claim is: the record of another one is another file.
Identity(x) == IF P(x).obj = NoSc THEN 0 ELSE P(x).obj.uid

Recorded(x, s, state, reason) ==
  [s EXCEPT !.p[x].pc = "end",
            !.rec = [state |-> state, reason |-> reason, resource |-> IF state = "Ready" THEN Identity(x) ELSE @.resource]]

\* What the caller makes of an operation that was not allowed.
Refusal(x) == IF Revoked(x) THEN "RegistrationRevoked" ELSE "RegistrationUnavailable"
Refused(x) ==
  CASE Pc(x, "discover")  -> {[sc EXCEPT !.p[x].pc = "edge", !.p[x].edge = "DiscoveryIncomplete"]}
    [] Pc(x, "node_port") -> {[sc EXCEPT !.p[x].pc = "ingress", !.p[x].edge = Refusal(x)],
                              [sc EXCEPT !.p[x].pc = "claim", !.p[x].edge = "InvalidClaim"]}
    [] Pc(x, "ingress")   -> {[sc EXCEPT !.p[x].pc = ClaimOrEnd(P(x).obj),
                                         !.p[x].edge = IF @ = "routed" THEN "InvalidClaim" ELSE @]}
    [] Pc(x, "provision") -> {Recorded(x, sc, "Degraded", "ProviderUnavailable")}
    [] Pc(x, "verify")    -> {Recorded(x, sc, "Degraded", "CredentialCheckFailed")}
    [] Pc(x, "deliver")   -> {Recorded(x, sc, "Degraded", Refusal(x))}
    [] OTHER              -> {[sc EXCEPT !.p[x].pc = "record"]}

GuestOps == {"discover", "node_port", "ingress", "provision", "verify", "deliver", "status_get", "status_patch"}

\* Mutant: the generation is not asked for before an operation.
check_registrationOnce(x) ==
  /\ P(x).pc \in GuestOps /\ ~P(x).ok
  /\ sc' = [sc EXCEPT !.p[x].ok = TRUE]

\* Before every operation in a guest.
check_registration(x) ==
  /\ P(x).pc \in GuestOps /\ ~P(x).ok
  /\ \/ ~Revoked(x) /\ sc' = [sc EXCEPT !.p[x].ok = TRUE]
     \/ P(x).gen # 0 /\ sc' \in Refused(x)

\* A guest operation has been allowed; one that a revoked worker carries out
\* all the same is counted.
Allowed(x, pc)   == Pc(x, pc) /\ P(x).ok
Done(x, pc, s)   == [s EXCEPT !.p[x].pc = pc, !.p[x].ok = FALSE,
                              !.p[x].late = IF Revoked(x) THEN @ + 1 ELSE @]

\* Killed, cancelled by a revocation, or past the worker's deadline.
driver_killed(x) == P(x).pc \notin {"idle", "exited"} /\ sc' = Ended(x, sc)

-----------------------------------------------------------------------------
(* Discovery and the edge.                                                 *)

\* The cluster's claim object as it is now, or no complete inventory.
discover_claims(x) ==
  /\ Allowed(x, "discover")
  /\ \/ sc' = Done(x, "edge", [sc EXCEPT !.p[x].obj = sc.obj])
     \/ sc' = Done(x, "edge", [sc EXCEPT !.p[x].edge = "DiscoveryIncomplete"])

\* The NodePort service of the claim is looked up, made or brought in line. The
\* API may refuse, and the guest itself may be out of reach.
node_port(x) ==
  /\ Allowed(x, "node_port")
  /\ \/ sc' = Done(x, "ingress", [sc EXCEPT !.nodeport = TRUE, !.p[x].edge = "routed"])
     \/ \E code \in {"KubernetesUnavailable", "GuestUnavailable"} :
          sc' = Done(x, "ingress", [sc EXCEPT !.p[x].edge = code])

\* All routes of the project are replaced at once: those of claims that have a
\* backend now, and those whose last backend is reused during an API outage.
reconcile_with_edge(x) ==
  /\ Allowed(x, "ingress")
  /\ LET kept == P(x).edge = "KubernetesUnavailable" /\ sc.rec.resource = P(x).obj.uid
     IN  \/ sc' = Done(x, ClaimOrEnd(P(x).obj), [sc EXCEPT !.route = IF P(x).edge = "routed" \/ kept THEN P(x).obj.uid ELSE NoSc])
         \/ sc' = Done(x, ClaimOrEnd(P(x).obj), [sc EXCEPT !.p[x].edge = IF @ = "routed" THEN "IngressUnavailable" ELSE @])

-----------------------------------------------------------------------------
(* Provisioning.                                                           *)

\* Stored before the first change at the provider.
get_or_create(x) ==
  /\ Pc(x, "secret")
  /\ IF sc.secret # NoSc
     THEN sc' = [sc EXCEPT !.p[x].pc = "provision", !.p[x].pass = sc.secret]
     ELSE /\ sc.rand < MaxScRand
          /\ sc' = [sc EXCEPT !.rand = @ + 1, !.secret = sc.rand + 1, !.p[x].pc = "provision",
                              !.p[x].pass = sc.rand + 1]

\* psql or the MinIO script is started in the provider's guest, and waited for.
provision_start(x) ==
  /\ Allowed(x, "provision") /\ sc.job[x].stage = "none"
  /\ sc' = Done(x, "provisioning", [sc EXCEPT !.job[x] = [JobNone EXCEPT !.stage = "check", !.pass = P(x).pass]])

\* The advisory lock on the owner lets one PostgreSQL session through.
Serial(x) == sc.kind = "postgres" => \A y \in Drivers \ {x} : sc.job[y].stage \in {"none", "check", "done", "failed"}

\* A database without a comment is ours if our role owns it.
postgres_owned == sc.account # NoSc /\ sc.store.by = "vzctl" /\ sc.store.tag \in {NoSc, "vzctl"}

\* A bucket without a tag is nobody's.
s3_owned == sc.store.tag = "vzctl"

\* Ownership is settled first; the role is made in the same transaction.
provision_check(x) ==
  /\ sc.job[x].stage = "check" /\ Serial(x)
  /\ LET ours == IF sc.kind = "postgres" THEN postgres_owned ELSE s3_owned
         role == IF sc.kind = "postgres" /\ sc.account = NoSc THEN sc.job[x].pass ELSE sc.account
     IN  sc' = IF sc.store # NoSc /\ ~ours THEN [sc EXCEPT !.job[x].stage = "failed"]
               ELSE [sc EXCEPT !.job[x].stage = "store", !.account = role, !.job[x].made = sc.store = NoSc]

\* mb is called only if the list had no such bucket, and fails on one made in
\* between.
make_bucket_refused(x) == sc.kind = "s3" /\ sc.job[x].made /\ sc.store # NoSc

\* CREATE DATABASE or mb where there is none.
provision_sql(x) ==
  /\ sc.job[x].stage = "store"
  /\ sc' = IF make_bucket_refused(x) THEN [sc EXCEPT !.job[x].stage = "failed"]
           ELSE [sc EXCEPT !.job[x].stage = "tag",
                           !.store = IF @ = NoSc THEN [by |-> "vzctl", tag |-> NoSc] ELSE @]

\* The owner's comment or tag; psql is done then.
provision_tag(x) ==
  /\ sc.job[x].stage = "tag"
  /\ sc' = [sc EXCEPT !.job[x].stage = IF sc.kind = "postgres" THEN "done" ELSE "account", !.store.tag = "vzctl"]

\* The account logs in with this credential.
LoginWorks(account, pass) == account = pass /\ sc.store # NoSc /\ sc.store.by = "vzctl"

\* The service account of a bucket is added where it is missing, never reset.
svcacct_add(x) == IF sc.account = NoSc THEN sc.job[x].pass ELSE sc.account

\* MinIO's script ends with a login; whatever makes it fail is a failed check.
provision_account(x) ==
  /\ sc.job[x].stage = "account"
  /\ \E end \in {"done", "denied"} :
       /\ end = "done" => LoginWorks(svcacct_add(x), sc.job[x].pass)
       /\ sc' = [sc EXCEPT !.job[x].stage = end, !.account = svcacct_add(x)]

\* The script's statement timeout, its deadline, or the guest going down.
provision_dies(x) ==
  /\ sc.job[x].stage \in {"check", "store", "tag", "account"}
  /\ sc' = [sc EXCEPT !.job[x].stage = "failed"]

\* Its answer, or the end of the wait for it; a job nobody waits for just ends.
provision_ends(x) ==
  /\ sc.job[x].stage \in {"done", "denied", "failed"}
  /\ LET s == [sc EXCEPT !.job[x] = JobNone]
     IN  sc' = IF ~Pc(x, "provisioning") THEN s
               ELSE IF sc.job[x].stage = "done" THEN [s EXCEPT !.p[x].pc = IF sc.kind = "s3" THEN "deliver" ELSE "verify"]
               ELSE Recorded(x, s, "Degraded", IF sc.job[x].stage = "denied" THEN "CredentialCheckFailed" ELSE "ProviderUnavailable")

provision_timeout(x) ==
  /\ Pc(x, "provisioning")
  /\ sc' = Recorded(x, sc, "Degraded", "ProviderUnavailable")

\* PostgreSQL: the role must log in with the stored credential, which is never
\* rotated. A guest that does not answer and a psql that fails for another
\* reason count as a failed check.
verify_credentials(x) ==
  /\ Allowed(x, "verify")
  /\ \/ LoginWorks(sc.account, P(x).pass) /\ sc' = Done(x, "deliver", sc)
     \/ sc' = Recorded(x, Done(x, "verify", sc), "Degraded", "CredentialCheckFailed")

\* The private binding file is complete before it is delivered to consumers.
deliver(x) ==
  /\ Allowed(x, "deliver")
  /\ \/ sc' = Recorded(x, Done(x, "deliver", [sc EXCEPT !.binding = P(x).pass]), "Ready", "Reconciled")
     \/ sc' = Recorded(x, Done(x, "deliver", sc), "Degraded", "BindingDeliveryFailed")

-----------------------------------------------------------------------------
(* The ingress claim's status and record.                                  *)

IngressState(x) == IF P(x).edge = "routed" THEN "Ready" ELSE "Degraded"

\* Delivered as a Secret of the cluster.
deliver_kubernetes(x) == Pc(x, "deliver_ingress") /\ sc' = [sc EXCEPT !.p[x].pc = "status_get"]

\* The object must still be the one that was discovered.
update_status(x) ==
  /\ Allowed(x, "status_get")
  /\ LET same == sc.obj # NoSc /\ sc.obj.uid = P(x).obj.uid /\ sc.obj.gen = P(x).obj.gen
     IN  sc' = Done(x, IF same THEN "status_patch" ELSE "record", sc)

\* A JSON patch that tests uid and generation again, atomically.
status_patch(x) ==
  /\ Allowed(x, "status_patch")
  /\ LET same == sc.obj # NoSc /\ sc.obj.uid = P(x).obj.uid /\ sc.obj.gen = P(x).obj.gen
     IN  sc' = Done(x, "record",
                    IF same THEN [sc EXCEPT !.obj.status = [uid |-> sc.obj.uid, gen |-> sc.obj.gen, state |-> IngressState(x)]]
                    ELSE sc)

\* The private record keeps the last backend; the snapshot ends the run.
reconcile_guarded(x) ==
  \/ /\ Pc(x, "record")
     /\ sc' = Recorded(x, sc, IngressState(x), P(x).edge)
  \/ Pc(x, "end") /\ sc' = Ended(x, sc)

-----------------------------------------------------------------------------
(* The world.                                                              *)

\* The claim object is created, its spec edited, or it is deleted.
ClaimEdited ==
  \/ /\ sc.kind = "ingress" /\ sc.obj = NoSc /\ sc.uids < MaxScUid
     /\ sc' = [sc EXCEPT !.uids = @ + 1, !.obj = [uid |-> sc.uids + 1, gen |-> 1, status |-> NoSc]]
  \/ sc.obj # NoSc /\ sc.uids + sc.obj.gen <= MaxScUid /\ sc' = [sc EXCEPT !.obj.gen = @ + 1]
  \/ sc.obj # NoSc /\ sc' = [sc EXCEPT !.obj = NoSc]

\* Somebody else takes the database or bucket, or resets the account.
ProviderTouched ==
  /\ sc.kind # "ingress" /\ ~sc.touched
  /\ \/ sc.store = NoSc /\ sc' = [sc EXCEPT !.store = [by |-> "other", tag |-> NoSc], !.touched = TRUE]
     \/ sc.account # NoSc /\ sc' = [sc EXCEPT !.account = 0, !.touched = TRUE]

ScNext ==
  \/ register \/ unregister \/ tick \/ worker_finished \/ ClaimEdited \/ ProviderTouched
  \/ \E x \in Drivers :
       \/ acquire(x) \/ reconcile_guarded_check(x) \/ check_registration(x) \/ driver_killed(x) \/ discover_claims(x) \/ node_port(x)
       \/ reconcile_with_edge(x) \/ get_or_create(x) \/ provision_start(x) \/ provision_check(x)
       \/ provision_sql(x) \/ provision_tag(x) \/ provision_account(x)
       \/ provision_dies(x) \/ provision_ends(x) \/ provision_timeout(x)
       \/ verify_credentials(x) \/ deliver(x) \/ deliver_kubernetes(x) \/ update_status(x)
       \/ status_patch(x) \/ reconcile_guarded(x)

ScSpec == ScInit /\ [][ScNext]_sc

-----------------------------------------------------------------------------
(* Correctness.                                                            *)

\* Once its registration is disabled or replaced, a worker carries out at most
\* the one guest operation it was already allowed, however far it had come, and
\* its result is never shown as that of the registration that followed.
RevokedWorkerStops == P("worker").late <= 1 /\ sc.shown \in {NoSc, sc.reg}

\* vzctl never locks itself out: unless somebody else changed the account or
\* took the name, an account there knows the stored credential, and a binding
\* that was delivered is this credential and finds its account and database,
\* wherever a run was killed between storing the credential, making the account
\* and making the database. (The reason CredentialCheckFailed does not say
\* so: it is also recorded for a check that could not be carried out.)
NoSelfLockout ==
  ~sc.touched =>
    /\ sc.account \in {NoSc, sc.secret}
    /\ sc.binding # NoSc => sc.binding = sc.account /\ sc.store # NoSc

\* The status of a claim object was computed for this very object, never for one
\* of the same name that was deleted while it was being reconciled.
StatusOfThisObject ==
  sc.obj # NoSc /\ sc.obj.status # NoSc => sc.obj.status.uid = sc.obj.uid /\ sc.obj.status.gen <= sc.obj.gen

\* A claim is served for the object and the registration that exist now, and
\* with the credential the backend knows.
ClaimsServedSafely == RevokedWorkerStops /\ NoSelfLockout /\ StatusOfThisObject
=============================================================================
