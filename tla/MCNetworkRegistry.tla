------------------------ MODULE MCNetworkRegistry ------------------------
(* NetworkRegistry on small instances: networks of the same name with and  *)
(* without a project, two CIDRs, two guest addresses and the router's.     *)
EXTENDS NetworkRegistry

CONSTANTS none, proj, netA, netB, vmA, vmB, c1, c2

MCThreeNets == {<<none, netA>>, <<proj, netA>>, <<none, netB>>}
MCTwoNets == {<<none, netA>>, <<proj, netA>>}
MCTwoGlobal == {<<none, netA>>, <<none, netB>>}
MCOneVM == {<<proj, vmA>>}
MCTwoVMs == {<<proj, vmA>>, <<none, vmB>>}
MCCidrs == {c1, c2}
MCOneCidr == {c1}

MCIPs == {10, 11}
MCOneIP == {10}
MCRouterAndGuest == {2, 10}
MCNoVMs == {}
===========================================================================
