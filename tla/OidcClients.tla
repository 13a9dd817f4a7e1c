----------------------------- MODULE OidcClients -----------------------------
(***************************************************************************)
(* The clients of a project's identity provider: `apply` and the automatic *)
(* controller both rebuild clients.json from the configuration. Each       *)
(* client's secret comes from a private store, from the clients.json of    *)
(* before the store existed, or is drawn at random. A run may be killed    *)
(* anywhere; the operating system then drops its locks.                    *)
(***************************************************************************)
EXTENDS Naturals, FiniteSets, SequencesExt

CONSTANTS OcRuns,     \* the processes that may rebuild the list
          OcIds,      \* client ids: VM names, route hosts, clientID of claims
          MaxSecret,  \* bound: secrets ever drawn
          MaxOcEdits, \* bound: edits of the configuration
          NoOc        \* nothing: no claim, no file, nobody

ASSUME OidcClientsAssumption == MaxSecret \in Nat /\ IsFiniteSet(OcIds) /\ NoOc \notin OcRuns

VARIABLE oc  \* [cfg, edits, store, file, lock, run, next]; history: [published, dropped]

AutoOwner == "automatic"   \* a client without vzctlOwner
OcConfigs == [vms : SUBSET OcIds, routes : SUBSET OcIds, claim : OcIds \cup {NoOc}]
RunIdle == [pc |-> "idle", cfg |-> [vms |-> {}, routes |-> {}, claim |-> NoOc], previous |-> {}, todo |-> <<>>, clients |-> {}]

\* A list written before the store existed, which applications have read, or none.
OcInit ==
  \E legacy \in {{}} \cup {{[id |-> i, owner |-> AutoOwner, secret |-> 0]} : i \in OcIds} :
    oc = [cfg |-> [vms |-> OcIds, routes |-> {}, claim |-> NoOc], edits |-> 0,
          store |-> {}, file |-> legacy, lock |-> NoOc,
          run |-> [r \in OcRuns |-> RunIdle], next |-> 1, published |-> legacy, dropped |-> {}]

OcEdit ==
  /\ oc.edits < MaxOcEdits
  /\ \E c \in OcConfigs : oc' = [oc EXCEPT !.cfg = c, !.edits = @ + 1]

-----------------------------------------------------------------------------

\* flock without LOCK_NB: a second run waits.
locked(r) ==
  /\ oc.run[r].pc = "idle" /\ oc.lock = NoOc
  /\ oc' = [oc EXCEPT !.lock = r, !.run[r] = [RunIdle EXCEPT !.pc = "read", !.cfg = oc.cfg]]

Unlocked(r, s) == [s EXCEPT !.lock = NoOc, !.run[r] = RunIdle]

\* VM names first, then the short names of protected routes not listed yet.
build_auto_clients(c) == SetToSeq(c.vms) \o SetToSeq(c.routes \ c.vms)

\* The list on disk is read; automatic clients come first, then the claims.
auto_clients(r) ==
  /\ oc.run[r].pc = "read"
  /\ LET c == oc.run[r].cfg
         auto == build_auto_clients(c)
         todo == [i \in 1 .. Len(auto) |-> [id |-> auto[i], owner |-> AutoOwner]]
                 \o (IF c.claim = NoOc THEN <<>> ELSE <<[id |-> c.claim, owner |-> "claim"]>>)
     IN  oc' = [oc EXCEPT !.run[r].pc = "clients", !.run[r].previous = oc.file, !.run[r].todo = todo]

\* An automatic client must not be a claim's on disk; a claim must not take
\* an id listed already, or one that the list on disk gives to another owner.
conflict(run, c) ==
  LET before == {p \in run.previous : p.id = c.id}
  IN  IF c.owner = AutoOwner THEN \E p \in before : p.owner # AutoOwner
      ELSE (\E l \in run.clients : l.id = c.id) \/ (\E p \in before : p.owner # c.owner)

\* Mutant: the secret of the list on disk is not taken over.
get_or_importForgets(run, c) ==
  LET stored == {s \in oc.store : s.id = c.id /\ s.owner = c.owner}
  IN  IF stored # {} THEN stored ELSE {[id |-> c.id, owner |-> c.owner, secret |-> oc.next]}

\* The store's secret, else the one of the list on disk, else a random one;
\* it is in the store, complete, before it is used.
get_or_import(run, c) ==
  LET stored == {s \in oc.store : s.id = c.id /\ s.owner = c.owner}
      before == {p \in run.previous : p.id = c.id}
  IN  CASE stored # {} -> stored
        [] stored = {} /\ before # {} -> {[id |-> c.id, owner |-> c.owner, secret |-> p.secret] : p \in before}
        [] OTHER -> {[id |-> c.id, owner |-> c.owner, secret |-> oc.next]}

oidc_client(r) ==
  /\ oc.run[r].pc = "clients" /\ oc.run[r].todo # <<>> /\ oc.next <= MaxSecret
  /\ LET run == oc.run[r]
         c == Head(run.todo)
     IN  oc' = IF conflict(run, c) THEN Unlocked(r, oc)
               ELSE [oc EXCEPT !.store = @ \cup get_or_import(run, c), !.next = @ + 1,
                       !.run[r].todo = Tail(@), !.run[r].clients = @ \cup get_or_import(run, c)]

\* Renamed into place: the readers of the list see it. Only the clients in it
\* were imported, so one of the old list that it leaves out loses its secret
\* unless the store has it.
write_clients(r) ==
  /\ oc.run[r].pc = "clients" /\ oc.run[r].todo = <<>>
  /\ LET new == oc.run[r].clients
         left == {p \in oc.file \ oc.store : \A n \in new : ~(n.id = p.id /\ n.owner = p.owner)}
     IN  oc' = Unlocked(r, [oc EXCEPT !.file = new, !.published = @ \cup new, !.dropped = @ \cup left])

oidc_killed(r) == oc.run[r].pc # "idle" /\ oc' = Unlocked(r, oc)

OcNext == OcEdit \/ \E r \in OcRuns : locked(r) \/ auto_clients(r) \/ oidc_client(r) \/ write_clients(r) \/ oidc_killed(r)

OcSpec == OcInit /\ [][OcNext]_oc

-----------------------------------------------------------------------------
(* Correctness.                                                            *)

\* A client's secret never changes once an application could read it: not by
\* editing the configuration, by removing the client and adding it again, by a
\* run that is killed halfway, nor by the move from the old list to the store.
\* The one exception is a client that the first run with the store does not
\* list: its secret is in no store, and it gets a new one when it returns. A
\* secret the store has drawn is never lost this way.
SecretsNeverChange ==
  /\ \A p, q \in oc.published \ oc.dropped : p.id = q.id /\ p.owner = q.owner => p.secret = q.secret
  /\ \A p \in oc.dropped : p.secret = 0 /\ p \notin oc.store
=============================================================================
