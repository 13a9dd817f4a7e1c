-------------------------- MODULE KubernetesClaims --------------------------
(***************************************************************************)
(* Discovery of service claims declared inside Kubernetes: the objects of  *)
(* a cluster's list are imported one after the other next to the claims of *)
(* the stack's YAML, and only those that nothing contradicts reach a       *)
(* provider. The order of the list is the API server's.                    *)
(***************************************************************************)
EXTENDS Naturals, Sequences, FiniteSets

CONSTANTS KcUids,    \* identities of claim objects
          KcHosts,   \* the provider resources they may declare
          KcYaml,    \* the ones the stack's own claims declare
          MaxKcList  \* bound: objects in the list

ASSUME KubernetesClaimsAssumption == KcYaml \subseteq KcHosts /\ MaxKcList \in Nat

VARIABLE kd  \* [list, i, done, projected, sources, owners, warnings]

\* An object as the API server returns it: being deleted, with metadata vzctl
\* cannot address, with a spec the importer refuses, or sound.
KcObjects == [uid : KcUids, host : KcHosts, class : {"deleting", "nameless", "invalid", "sound"}]
KcLists   == UNION {[1 .. n -> KcObjects] : n \in 1 .. MaxKcList}

KcStart(l) == [list |-> l, i |-> 1, done |-> FALSE, projected |-> {}, sources |-> {}, owners |-> {}, warnings |-> FALSE]
KcInit == \E l \in KcLists : kd = KcStart(l)

\* Unsupported fields, a foreign kind or an unknown provider are refused.
import(o) == o.class = "sound"

\* The resource a claim declares is what two claims may not share.
conflict_keys(o) == {o.host}

\* No claim of the stack and no claim accepted so far has the same key.
validate_config(claims) ==
  /\ \A c \in claims : conflict_keys(c) \cap KcYaml = {}
  /\ \A c, d \in claims : c # d => conflict_keys(c) \cap conflict_keys(d) = {}

\* Mutant: only the import that was accepted stands for its key.
discover_importWinnersOnly(s, o) ==
  IF validate_config(s.projected \cup {o})
  THEN [s EXCEPT !.projected = @ \cup {o}, !.owners = @ \cup {<<k, o.uid>> : k \in conflict_keys(o)}]
  ELSE s

\* Whatever is valid next to the YAML alone takes part in conflicts between
\* peers, also when an earlier peer keeps it out.
discover_import(s, o) ==
  LET keys == IF validate_config({o}) THEN {<<k, o.uid>> : k \in conflict_keys(o)} ELSE {}
      next == IF validate_config(s.projected \cup {o}) THEN s.projected \cup {o} ELSE s.projected
  IN  [s EXCEPT !.owners = @ \cup keys, !.projected = next]

\* One object of the list. A second object of the same identity takes the
\* first one out again.
discover_object ==
  /\ kd.i <= Len(kd.list)
  /\ LET o == kd.list[kd.i]
         s == [kd EXCEPT !.i = @ + 1]
         twin == \E old \in kd.sources : old.uid = o.uid
         listed == [s EXCEPT !.sources = @ \cup {o}]
     IN  kd' = CASE o.class = "deleting" -> s
                 [] o.class = "nameless" -> [s EXCEPT !.warnings = TRUE]
                 [] o.class \in {"invalid", "sound"} /\ twin ->
                      [listed EXCEPT !.projected = {c \in @ : c.uid # o.uid}]
                 [] o.class \in {"invalid", "sound"} /\ ~twin ->
                      IF import(o) THEN discover_import(listed, o) ELSE listed

\* At the end every claim that shares a key with a peer is withdrawn.
discover ==
  /\ kd.i = Len(kd.list) + 1 /\ ~kd.done
  /\ LET shared == {c \in kd.projected :
                      \E k \in conflict_keys(c) : \E e \in kd.owners : e[1] = k /\ e[2] # c.uid}
     IN  kd' = [kd EXCEPT !.done = TRUE, !.projected = @ \ shared]

KcNext == discover_object \/ discover

KcSpec == KcInit /\ [][KcNext]_kd

-----------------------------------------------------------------------------
(* Correctness.                                                            *)

Listed == {i \in 1 .. Len(kd.list) : kd.list[i].class \in {"invalid", "sound"}}
Twins(i) == \E j \in Listed : j # i /\ kd.list[j].uid = kd.list[i].uid

\* No list order selects an owner: a claim is provisioned if and only if it is
\* sound, the YAML does not declare its resource, and no other sound claim does;
\* neither of two objects with one identity is ever provisioned.
NoOrderSelectsOwner ==
  kd.done =>
    /\ \A i \in Listed : Twins(i) => kd.list[i] \notin kd.projected
    /\ (\A i \in Listed : ~Twins(i)) =>
         kd.projected = {kd.list[i] : i \in {i \in Listed :
                           /\ kd.list[i].class = "sound" /\ kd.list[i].host \notin KcYaml
                           /\ \A j \in Listed \ {i} : kd.list[j].class = "sound" => kd.list[j].host # kd.list[i].host}}
=============================================================================
