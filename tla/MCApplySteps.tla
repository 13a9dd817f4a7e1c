---------------------------- MODULE MCApplySteps ----------------------------
(* The steps of apply on the host, and what they set up behind it: the      *)
(* Kubernetes cluster, service claims, guest utilities and certificates.    *)
(* `area` is chosen in the initial state; one of them runs and the others   *)
(* stay in one initial state, so the state graph is the disjoint union of   *)
(* their graphs.                                                            *)
EXTENDS MCStackSteps, Kubernetes, Controllers, GuestUtils, Certs

VARIABLE area

MCGuVersion == [x \in {"b1", "b2", "b3"} |-> IF x = "b3" THEN 2 ELSE 1]

MCInit ==
  /\ area \in {"steps", "kubernetes", "controllers", "guest", "certs"}
  /\ StepsInit /\ (area # "steps" => cfg = MCBase)
  /\ KbInit /\ (area # "kubernetes" => kb.node.agent = KbClean)
  /\ ScInit /\ (area # "controllers" => sc.kind = "s3")
  /\ GuInit /\ (area # "guest" => gu.host = "b1")
  /\ CaInit /\ (area # "certs" => ca.f # LegacyFiles)

MCNext ==
  /\ IF area = "steps" THEN StepsNext ELSE UNCHANGED stepVars
  /\ IF area = "kubernetes" THEN KbNext ELSE UNCHANGED kb
  /\ IF area = "controllers" THEN ScNext ELSE UNCHANGED sc
  /\ IF area = "guest" THEN GuNext ELSE UNCHANGED gu
  /\ IF area = "certs" THEN CaNext ELSE UNCHANGED ca
  /\ UNCHANGED area

MCSpec == MCInit /\ [][MCNext]_<<stepVars, kb, sc, gu, ca, area>>
=============================================================================
