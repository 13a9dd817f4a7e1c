----------------------------- MODULE Kubernetes -----------------------------
(***************************************************************************)
(* `apply` of a K3s cluster: preflight of every node, files and unit on    *)
(* the server and then on the agents, the CoreDNS resolver rollout, and    *)
(* the server-side apply of a manifest's object. Between two calls into    *)
(* the guests the command may be killed, the user may edit the YAML while  *)
(* no command runs, a node may reboot, and somebody else may edit, replace *)
(* or delete what the API server holds.                                    *)
(*                                                                         *)
(* A field set is the set of its leaves. The object declares "a" (with a   *)
(* value of the manifest), perhaps "b", and perhaps "s", which can only be *)
(* written (a Secret's stringData; what becomes of it under another name   *)
(* is left out); "d" is a server default.                                  *)
(***************************************************************************)
EXTENDS Naturals, Sequences, FiniteSets

CONSTANTS MaxKbEdits,    \* bound: edits of the YAML
          MaxKbForeign,  \* bound: acts of somebody else
          NoKb           \* nothing

VARIABLE kb  \* [want, edits, foreign, ids, token, node, obj, dep, addon, last, p, out, exp]

KbNodes  == <<"server", "agent">>
KbFiles  == <<"marker", "binary", "token", "resolver", "config", "unit">>
Kept     == {"a", "b", "d"}
KbFields == Kept \union {"s"}
Theirs   == 9     \* a value only somebody else writes

ASSUME KubernetesAssumption ==
  /\ MaxKbEdits \in Nat /\ MaxKbForeign \in Nat
  /\ NoKb \notin Nat \union {"us", "them", "other"}
  /\ NoKb \notin [{KbFiles[i] : i \in 1..6} -> {NoKb, "us", "them", "other", "v1", "v2", "srv", "k10", "on", "resolved", "plain",
                                              "server", "agent"}]
  /\ NoKb \notin [uid : Nat, rv : Nat, owner : {"us", "them"}, update : SUBSET KbFields, apply : SUBSET KbFields,
                  theirs : SUBSET KbFields, val : [KbFields -> Nat \cup {NoKb}]]

KbIdle == [pc |-> "idle", n |-> 1, file |-> 1, changed |-> FALSE, seen |-> NoKb, uid |-> 0,
           try |-> 0, dep |-> NoKb, addon |-> NoKb, own |-> TRUE]

KbClean == [f |-> [x \in {KbFiles[i] : i \in 1..6} |-> NoKb], run |-> NoKb]

\* An agent VM may carry a K3s that vzctl did not install, with or without
\* the marker of another cluster.
KbInit ==
  \E agent \in {KbClean, [KbClean EXCEPT !.f["binary"] = "other"], [KbClean EXCEPT !.f["marker"] = "them"]} :
    kb = [want |-> [ver |-> "v1", dns |-> "off", man |-> "ok", a |-> 1, b |-> TRUE, s |-> FALSE], edits |-> 0, foreign |-> 0,
          ids |-> 0, token |-> NoKb, node |-> [server |-> KbClean, agent |-> agent],
          obj |-> NoKb, dep |-> NoKb, addon |-> [uid |-> 1, rv |-> 1], last |-> NoKb, p |-> KbIdle, out |-> NoKb, exp |-> "idle"]

KbAt(pc)    == kb.p.pc = pc
KbVm        == KbNodes[kb.p.n]
KbFail(s)   == [s EXCEPT !.p = KbIdle]
KbTo(s, pc) == [s EXCEPT !.p.pc = pc]

-----------------------------------------------------------------------------
(* Nodes.                                                                  *)

\* The stack's DNS server for the nodes, if it is enabled; only on a unicast
\* vmnet network that holds every node.
upstream == CASE kb.want.dns = "off"   -> "none"
              [] kb.want.dns = "on"    -> "stack"
              [] kb.want.dns = "other" -> "refused"

\* A manifest that can be read and split into named objects.
read == kb.want.man # "bad"

\* Our labels are put on the object, unless it has others of these names.
owned == kb.want.man # "labelled"

\* resolver::file_guard: a resolver file without our header stops the run.
file_guard(n) == kb.node[n].f["resolver"] # "them"

check_node_owner(n) ==
  LET f == kb.node[n].f
  IN  IF f["marker"] # NoKb THEN f["marker"] = "us"
      ELSE \A x \in {"binary", "config", "unit"} : f[x] = NoKb

\* Every node is looked at before anything is installed on the first.
preflight ==
  /\ KbAt("idle") /\ kb.exp = "idle"
  /\ kb' = IF /\ upstream # "refused" /\ read /\ owned
              /\ \A n \in {"server", "agent"} : file_guard(n) /\ check_node_owner(n)
           THEN KbTo([kb EXCEPT !.last = NoKb], "token") ELSE KbFail(kb)

\* create_new and write are two steps: a kill between them leaves a file that
\* every later run refuses.
ensure_token ==
  \/ /\ KbAt("token")
     /\ kb' = CASE kb.token = NoKb   -> KbTo([kb EXCEPT !.token = "torn"], "write_token")
                [] kb.token = "torn" -> KbFail(kb)
                [] OTHER             -> KbTo(kb, "install")
  \/ KbAt("write_token") /\ kb' = KbTo([kb EXCEPT !.token = "srv"], "install")

node_config == IF upstream = "stack" THEN "resolved" ELSE "plain"

\* What a file of node n is to hold; without stack DNS the resolver file is left for the end.
KbWanted(file) ==
  CASE file = "marker"   -> "us"
    [] file = "binary"   -> kb.want.ver
    [] file = "token"    -> IF KbVm = "server" THEN "srv" ELSE "k10"
    [] file = "resolver" -> IF upstream = "stack" THEN "on" ELSE kb.node[KbVm].f["resolver"]
    [] file = "config"   -> node_config
    [] file = "unit"     -> KbVm

\* guest_file: compared and renamed into place; says whether it changed. The
\* binary is downloaded, verified and renamed, or the download fails.
guarded_guest_file ==
  LET file == KbFiles[kb.p.file]
      new  == KbWanted(file)
      s    == [kb EXCEPT !.node[KbVm].f[file] = new, !.p.file = @ + 1,
                         !.p.changed = @ \/ (file # "marker" /\ kb.node[KbVm].f[file] # new)]
  IN  /\ KbAt("install") /\ kb.p.file <= Len(KbFiles)
      /\ \/ kb' = s
         \/ file = "binary" /\ kb.node[KbVm].f[file] # new /\ kb' = KbFail(kb)

\* The unit is restarted only when this run has changed a file; `enable --now`
\* starts it when it does not run.
install_node ==
  /\ KbAt("install") /\ kb.p.file > Len(KbFiles)
  /\ kb' = KbTo([kb EXCEPT !.node[KbVm].run = IF kb.p.changed \/ @ = NoKb THEN kb.node[KbVm].f ELSE @,
                           !.dep = IF @ = NoKb THEN [uid |-> 1, rv |-> 1, marker |-> NoKb] ELSE @], "tidy")

\* Without stack DNS the resolver file goes, after the restart.
remove_resolver ==
  /\ KbAt("tidy")
  /\ kb' = KbTo([kb EXCEPT !.node[KbVm].f["resolver"] = IF upstream = "stack" THEN @ ELSE NoKb], "wait")

\* Mutant: any node that says Ready will do.
node_readyAnyVersion(n, version) == kb.node[n].run # NoKb

node_ready(n, version) == kb.node[n].run # NoKb /\ kb.node[n].run["binary"] = version

\* Polls until the node is Ready at the pinned version, or gives up; then the
\* next node, or the rollout.
wait_ready ==
  /\ KbAt("wait")
  /\ \/ kb' = KbFail(kb)
     \/ /\ node_ready(KbVm, kb.want.ver)
        /\ kb' = IF kb.p.n = 1
                 THEN [kb EXCEPT !.p = [KbIdle EXCEPT !.pc = "install", !.n = 2, !.own = kb.p.own]]
                 ELSE KbTo(kb, "rollout")

-----------------------------------------------------------------------------
(* The CoreDNS rollout.                                                    *)

marker == IF upstream = "stack" THEN "on" ELSE "off"

rollout_read ==
  /\ KbAt("rollout")
  /\ kb' = CASE kb.dep = NoKb -> IF upstream = "stack" THEN KbFail(kb) ELSE KbTo(kb, "object")
             [] kb.dep # NoKb /\ upstream # "stack" /\ kb.dep.marker = NoKb -> KbTo(kb, "object")
             [] kb.dep # NoKb /\ kb.dep.marker = "them" -> KbFail(kb)
             [] OTHER -> KbTo([kb EXCEPT !.p.dep = kb.dep], "addon")

\* identity: the Addon K3s itself installed owns the Deployment.
identity(addon, dep) == addon # NoKb /\ dep # NoKb

rollout_addon ==
  /\ KbAt("addon")
  /\ kb' = IF ~identity(kb.addon, kb.p.dep) THEN KbFail(kb)
           ELSE KbTo([kb EXCEPT !.p.addon = kb.addon], IF kb.p.dep.marker = marker THEN "status" ELSE "fresh")

rollout_fresh == KbAt("fresh") /\ kb' = IF kb.addon = kb.p.addon THEN KbTo(kb, "patch") ELSE KbFail(kb)

rollout_patch ==
  /\ KbAt("patch")
  /\ kb' = IF kb.dep = kb.p.dep
           THEN KbTo([kb EXCEPT !.dep.marker = marker, !.dep.rv = @ + 1], "status") ELSE KbFail(kb)

rollout_after ==
  /\ KbAt("status")
  /\ kb' = IF /\ identity(kb.addon, kb.dep)
              /\ kb.addon.uid = kb.p.addon.uid /\ kb.dep.uid = kb.p.dep.uid /\ kb.dep.marker = marker
           THEN KbTo(kb, "object") ELSE KbFail(kb)

-----------------------------------------------------------------------------
(* Field ownership: an object's `update` and `apply` sets belong to us, by *)
(* operation, and `theirs` to other managers.                              *)

Declared == {"a"} \union (IF kb.want.b THEN {"b"} ELSE {}) \union (IF kb.want.s THEN {"s"} ELSE {})
KbDesired  == [f \in Declared |-> IF f = "a" THEN kb.want.a ELSE 1]

\* What the API server keeps of a value: a quantity in its canonical form (3 is
\* another way to write 1), and of the write-only field nothing.
Stored(f, v) == CASE f = "s" -> NoKb [] f = "a" /\ v = 3 -> 1 [] OTHER -> v

merge_fields(l, r)       == l \union r
field_intersection(l, r) == l \intersect r
field_difference(l, r)   == l \ r
intended(fields)         == {f \in fields : f \in Declared}
covers(cover, fields)    == fields \subseteq cover

\* The current values of a field set; a recorded field the object no longer
\* has is an error.
project(o, fields) == IF \E f \in fields : o.val[f] = NoKb THEN NoKb ELSE [f \in fields |-> o.val[f]]

\* What of our Update ownership moves to Apply: what the manifest declares, and
\* what Apply already has.
Transferred(o) == merge_fields(intended(o.update), field_intersection(o.update, o.apply))

\* "none", "bridge" (Apply has to be established first) or "patch".
migration(o) ==
  CASE o.update = {} \/ Transferred(o) = {} -> "none"
    [] covers(o.apply, Transferred(o))      -> "patch"
    [] OTHER                                -> "bridge"

same_values(l, r) == l.val = r.val /\ l.owner = r.owner

\* The API server's side of a server-side apply of `payload`.
ssa(o, payload) ==
  LET dropped == o.apply \ DOMAIN payload
      val     == [f \in KbFields |-> IF f \in DOMAIN payload THEN Stored(f, payload[f])
                                     ELSE IF f \in dropped \ (o.update \union o.theirs) THEN NoKb
                                     ELSE o.val[f]]
      new     == [o EXCEPT !.val = val, !.apply = DOMAIN payload]
  IN  IF new = o THEN o ELSE [new EXCEPT !.rv = @ + 1]

\* Another (manager, operation) pair owns a field with another value.
ssa_conflict(o, payload) ==
  \E f \in DOMAIN payload : f \in o.update \union o.theirs /\ o.val[f] # payload[f]

-----------------------------------------------------------------------------
(* The object.                                                             *)

check_existing(o) == o.owner = "us"

\* check_existing and the pinned UID, asked of every fresh read.
KbStillOurs(o) == o # NoKb /\ check_existing(o) /\ o.uid = kb.p.uid

apply_read ==
  /\ KbAt("object")
  /\ kb' = IF kb.obj = NoKb THEN KbTo(kb, "create")
           ELSE IF ~check_existing(kb.obj) THEN KbFail(kb)
           ELSE KbTo([kb EXCEPT !.p.seen = kb.obj, !.p.uid = kb.obj.uid], "migrate")

\* A conflict fails: an object created after the read is never adopted.
apply_create ==
  /\ KbAt("create")
  /\ kb' = IF kb.obj # NoKb THEN KbFail(kb)
           ELSE LET fields == (Declared \union {"d"}) \intersect Kept
                    o == [uid |-> kb.ids + 1, rv |-> 1, owner |-> "us", update |-> fields, apply |-> {},
                          theirs |-> {}, val |-> [f \in KbFields |-> IF f \in Declared THEN Stored(f, KbDesired[f])
                                                                   ELSE IF f = "d" THEN 1 ELSE NoKb]]
                IN  KbTo([kb EXCEPT !.obj = o, !.ids = @ + 1, !.p.seen = o, !.p.uid = o.uid], "migrate")

migrate_create_ownership ==
  /\ KbAt("migrate")
  /\ kb' = KbTo(kb, CASE migration(kb.p.seen) = "none"   -> "apply"
                      [] migration(kb.p.seen) = "bridge" -> "bridge"
                      [] OTHER                           -> "retire")

\* Apply is established with the values as they were read.
migrate_bridge ==
  LET o       == kb.p.seen
      payload == project(o, merge_fields(o.apply, Transferred(o)))
  IN  /\ KbAt("bridge")
      /\ kb' = IF \/ payload = NoKb \/ kb.obj = NoKb
                  \/ kb.obj.uid # o.uid \/ kb.obj.rv # o.rv \/ ssa_conflict(kb.obj, payload)
               THEN KbFail(kb) ELSE KbTo([kb EXCEPT !.obj = ssa(@, payload)], "bridged")

migrate_reread ==
  /\ KbAt("bridged")
  /\ kb' = IF KbStillOurs(kb.obj) /\ same_values(kb.p.seen, kb.obj) /\ migration(kb.obj) = "patch"
           THEN KbTo([kb EXCEPT !.p.seen = kb.obj], "retire") ELSE KbFail(kb)

\* The JSON patch tests UID, resourceVersion and all managed fields.
migrate_retire ==
  /\ KbAt("retire")
  /\ kb' = IF kb.obj # kb.p.seen THEN KbFail(kb)
           ELSE KbTo([kb EXCEPT !.obj.update = field_difference(@, Transferred(kb.p.seen)),
                                !.obj.rv = @ + 1,
                                !.p.seen.update = field_difference(@, Transferred(kb.p.seen))],
                     "retired")

migrate_verify ==
  /\ KbAt("retired")
  /\ kb' = IF /\ KbStillOurs(kb.obj) /\ same_values(kb.p.seen, kb.obj)
              /\ kb.obj.update = kb.p.seen.update /\ kb.obj.apply = kb.p.seen.apply
              /\ kb.obj.theirs = kb.p.seen.theirs
           THEN KbTo([kb EXCEPT !.p.seen = kb.obj], "apply") ELSE KbFail(kb)

\* With UID and resourceVersion; only a resourceVersion conflict is retried,
\* twice, after a fresh read.
apply_owned_object ==
  /\ KbAt("apply")
  /\ kb' = CASE kb.obj = NoKb -> KbFail(kb)
             [] kb.obj # NoKb /\ kb.obj.uid # kb.p.uid -> KbFail(kb)
             [] kb.obj # NoKb /\ kb.obj.uid = kb.p.uid /\ kb.obj.rv # kb.p.seen.rv ->
                  IF kb.p.try < 2 THEN KbTo([kb EXCEPT !.p.try = @ + 1], "reread") ELSE KbFail(kb)
             [] OTHER -> IF ssa_conflict(kb.obj, KbDesired) THEN KbFail(kb)
                         ELSE KbTo([kb EXCEPT !.obj = ssa(@, KbDesired)], "record")

apply_reread ==
  /\ KbAt("reread")
  /\ kb' = IF KbStillOurs(kb.obj) /\ kb.obj.rv # kb.p.seen.rv
           THEN KbTo([kb EXCEPT !.p.seen = kb.obj], "migrate") ELSE KbFail(kb)

\* last-apply.json; the run is over.
record_ready ==
  /\ KbAt("record")
  /\ kb' = [KbFail(kb) EXCEPT !.last = [quiet |-> kb.p.own]]

-----------------------------------------------------------------------------
(* `kubernetes status`.                                                    *)

matches_desired(o) == \A f \in Declared : o.val[f] = KbDesired[f]

resource_state ==
  CASE kb.obj = NoKb -> "missing"
    [] kb.obj # NoKb /\ ~check_existing(kb.obj) -> "ownership-conflict"
    [] OTHER -> IF matches_desired(kb.obj) THEN "present" ELSE "drift"

cluster_status ==
  IF /\ read /\ owned
     /\ \A i \in 1..2 : kb.node[KbNodes[i]].run # NoKb /\ kb.node[KbNodes[i]].run["binary"] = kb.want.ver
     /\ resource_state = "present"
  THEN "ready" ELSE "degraded"

\* The guest's kubeconfig goes to a file that must not exist yet; its endpoint
\* must be the server's, or local to it. A failed write removes the file. (It
\* shares only the running server with an apply, so the two need not overlap.)
kubeconfig ==
  \/ /\ KbAt("idle") /\ kb.exp = "idle" /\ kb.node.server.run # NoKb /\ kb.out = NoKb
     /\ kb' = [kb EXCEPT !.exp = "write", !.out = "torn"]
  \/ /\ kb.exp = "write"
     /\ \E ok \in BOOLEAN : kb' = [kb EXCEPT !.exp = "idle", !.out = IF ok THEN "server" ELSE NoKb]

-----------------------------------------------------------------------------
(* Everybody else.                                                         *)

KbKill ==
  \/ kb.p.pc # "idle" /\ kb' = KbFail(kb)
  \/ kb.exp # "idle" /\ kb' = [kb EXCEPT !.exp = "idle"]

\* The user edits the version, stack DNS, the manifest, the value of "a" or whether "b" and "s" are declared.
kb_edit ==
  /\ KbAt("idle") /\ kb.edits < MaxKbEdits
  /\ \E w \in {[kb.want EXCEPT !.ver = "v2"], [kb.want EXCEPT !.dns = "on"], [kb.want EXCEPT !.dns = "off"], [kb.want EXCEPT !.dns = "other"],
               [kb.want EXCEPT !.man = "bad"], [kb.want EXCEPT !.man = "labelled"], [kb.want EXCEPT !.man = "ok"],
               [kb.want EXCEPT !.a = 2], [kb.want EXCEPT !.a = 3], [kb.want EXCEPT !.b = ~@], [kb.want EXCEPT !.s = ~@]} :
       w # kb.want /\ kb' = [kb EXCEPT !.want = w, !.edits = @ + 1, !.last = NoKb]

\* A guest reboots: the unit starts from the files as they are.
node_reboot ==
  \E n \in {"server", "agent"} :
    /\ kb.node[n].run # NoKb /\ kb.node[n].run # kb.node[n].f
    /\ kb' = [kb EXCEPT !.node[n].run = kb.node[n].f]

KbTouch(s) == [s EXCEPT !.foreign = @ + 1, !.p.own = FALSE, !.last = NoKb]

\* An Update of another manager takes a field whose value it changes.
foreign_write ==
  /\ kb.foreign < MaxKbForeign /\ kb.obj # NoKb
  /\ \E f \in Kept :
       kb' = KbTouch([kb EXCEPT !.obj.val[f] = Theirs, !.obj.update = @ \ {f}, !.obj.apply = @ \ {f},
                                !.obj.theirs = @ \union {f}, !.obj.rv = @ + 1])

\* Another manager takes "b" or "d" as it is, beside us.
foreign_share ==
  /\ kb.foreign < MaxKbForeign /\ kb.obj # NoKb
  /\ \E f \in {"b", "d"} :
       /\ kb.obj.val[f] # NoKb
       /\ kb' = KbTouch([kb EXCEPT !.obj.theirs = @ \union {f}, !.obj.rv = @ + 1])

\* Deleted, or replaced by an object of somebody else (with labels of its own, or copied from ours).
foreign_replace ==
  /\ kb.foreign < MaxKbForeign
  /\ \E owner \in {"us", "them", NoKb} :
       /\ owner = NoKb => kb.obj # NoKb
       /\ kb' = KbTouch([kb EXCEPT !.ids = @ + 1, !.obj =
            IF owner = NoKb THEN NoKb
            ELSE [uid |-> kb.ids + 1, rv |-> 1, owner |-> owner, update |-> {}, apply |-> {}, theirs |-> Kept,
                  val |-> [f \in KbFields |-> Stored(f, Theirs)]]])

\* K3s or an administrator rolls CoreDNS out anew, or marks it.
foreign_coredns ==
  /\ kb.foreign < MaxKbForeign /\ kb.dep # NoKb
  /\ \/ kb' = KbTouch([kb EXCEPT !.dep = [uid |-> @.uid + 1, rv |-> 1, marker |-> NoKb]])
     \/ kb' = KbTouch([kb EXCEPT !.dep.marker = "them", !.dep.rv = @ + 1])
     \/ kb' = KbTouch([kb EXCEPT !.addon.rv = @ + 1])

KbOwn ==
  \/ preflight \/ ensure_token \/ guarded_guest_file \/ install_node \/ remove_resolver \/ wait_ready
  \/ rollout_read \/ rollout_addon \/ rollout_fresh \/ rollout_patch \/ rollout_after
  \/ apply_read \/ apply_create \/ migrate_create_ownership \/ migrate_bridge \/ migrate_reread
  \/ migrate_retire \/ migrate_verify \/ apply_owned_object \/ apply_reread \/ record_ready

KbForeign == foreign_write \/ foreign_share \/ foreign_replace \/ foreign_coredns

KbNext == KbOwn \/ kubeconfig \/ KbKill \/ kb_edit \/ node_reboot \/ KbForeign

KbSpec == KbInit /\ [][KbNext]_kb

-----------------------------------------------------------------------------
\* The API server keeps what the manifest declares as it is written.
Canonical == \A f \in Declared : Stored(f, KbDesired[f]) = KbDesired[f]

\* Two code paths agree: when `apply` has recorded the cluster as ready and
\* nobody else has touched it since the run began, `kubernetes status` calls
\* it ready, whatever runs were killed and whatever the YAML said before. In
\* particular a node whose binary an earlier, killed run replaced without
\* restarting K3s is not taken for a node of the pinned version. A manifest the
\* server does not keep as it is written is the one exception: its object reads
\* as drift at once, though apply has said ready.
ReadyAgreesWithStatus ==
  kb.last # NoKb /\ kb.last.quiet =>
    /\ resource_state = IF Canonical THEN "present" ELSE "drift"
    /\ cluster_status = IF Canonical THEN "ready" ELSE "degraded"

\* What belongs to somebody else stays as it is: a step of ours neither changes
\* the value nor the owner of a field another manager holds, nor an object or a
\* CoreDNS Deployment put in the place of the one this run has looked at, nor
\* one without our labels; and while a node carries a foreign K3s nothing is
\* installed on any node.
KbForeignKept ==
  KbOwn =>
     /\ kb.obj # NoKb /\ kb'.obj # kb.obj =>
          /\ kb'.obj # NoKb /\ kb.obj.owner = "us" /\ kb.obj.uid = kb.p.uid /\ kb'.obj.theirs = kb.obj.theirs
          /\ \A f \in kb.obj.theirs : kb'.obj.val[f] = kb.obj.val[f]
     /\ kb.dep # NoKb /\ kb'.dep # kb.dep => kb.dep.marker # "them" /\ kb.dep.uid = kb.p.dep.uid
     /\ (kb.node.agent.f["marker"] = "them" \/ kb.node.agent.f["binary"] = "other") => kb'.node = kb.node

\* What the binding calls ready is ready, and it got there with its own means.
ClusterSound == [][ReadyAgreesWithStatus' /\ KbForeignKept]_kb
=============================================================================
