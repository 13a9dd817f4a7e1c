---------------------------- MODULE MCNetworking ----------------------------
(* Networks as seen by VMs and by the host: attachments, the edge, the        *)
(* processes it embeds and the recovery after changes of the host's network.  *)
(* `area` is chosen in the initial state; one of them runs and the others     *)
(* stay in their initial state.                                               *)
EXTENDS MCNetworkRegistry, EdgeProcesses, EdgeServer, NetworkRecovery

VARIABLE area

MCEpSpec(name, rev) == [name |-> name, rev |-> rev, reap |-> IF name = EpShared THEN EpCaddies ELSE {}]
MCEpConfigs ==
  {<< >>, <<MCEpSpec("p", 1)>>, <<MCEpSpec("p", 2)>>, <<MCEpSpec("shared", 1)>>, <<MCEpSpec("p", 1), MCEpSpec("o", 1)>>}

MCNrPaths == {[sat |-> TRUE, id |-> 1], [sat |-> TRUE, id |-> 2], [sat |-> FALSE, id |-> 3]}

MCInit ==
  area \in {"net", "processes", "edge", "recovery"} /\ Init /\ EpInit /\ EdInit /\ NrInit

mcVars == <<vars, ep, ed, nr, area>>

\* Bounds stop the areas other than the registry; the registry never stops.
MCNext ==
  \/ /\ IF area = "net" THEN Next ELSE UNCHANGED vars
     /\ IF area = "processes" THEN EpNext ELSE UNCHANGED ep
     /\ IF area = "edge" THEN EdNext ELSE UNCHANGED ed
     /\ IF area = "recovery" THEN NrNext ELSE UNCHANGED nr
     /\ UNCHANGED area
  \/ area # "net" /\ UNCHANGED mcVars

MCSpec == MCInit /\ [][MCNext]_mcVars
=============================================================================
