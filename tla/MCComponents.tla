---------------------------- MODULE MCComponents ----------------------------
(* The components that share no state with the apply journal, each on a     *)
(* small instance of its own.  `area` is chosen in the initial state: one    *)
(* component runs and the others stay in one initial state, so the state     *)
(* graph is the disjoint union of the components' graphs.                    *)
EXTENDS NetworkRegistry, RestJobs, Images, OidcProvider, OidcClients, KubernetesClaims,
        StackConfig, HostResolvers, DnsMessages

VARIABLE area

(* Constants. *)

CONSTANTS none, proj, netA, netB, c1, c2, j1, j2, j3, h1, h2

MCThreeNets == {<<none, netA>>, <<proj, netA>>, <<none, netB>>}
MCNoVMs == {}
MCJobs == {j1, j2, j3}

\* A /23 and a /25 inside it, which need a zone in common.
MCHrNetworks == {[net |-> <<10, 0, 2, 0>>, prefix |-> 23], [net |-> <<10, 0, 2, 128>>, prefix |-> 25]}
MCHrConfig == [p \in {"p", "q"} |-> {c \in MCHrNetworks : c.prefix = IF p = "p" THEN 25 ELSE 23}]

\* Nothing, or something foreign in one place: a directory in the place of a
\* project's file, or the file of a zone beside an earlier version's catch-all.
MCHrStarts ==
  LET foreign(kind) == CHOOSE f \in HrForeign : f.kind = kind
  IN  {HrStart(NoHr, NoHr, <<"file", "p">>, MCHrConfig),
       HrStart(NoHr, foreign("directory"), <<"file", "q">>, MCHrConfig),
       HrStart(reverse_resolver_content(1), foreign("file"), <<"zone", <<10, 0, 3>>>>, MCHrConfig)}

\* Commands of the resolver directory do the same whatever they are called.
MCRuns == Permutations(HrRuns)

-----------------------------------------------------------------------------
(* One component at a time. *)

MCInit ==
  /\ area \in {"nets", "jobs", "images", "provider", "clients", "claims", "config", "dns", "resolvers", "helper"}
  /\ Init /\ JobsInit /\ ImInit /\ OpInit
  /\ OcInit /\ (area # "clients" => oc.file = {})
  /\ IF area = "dns" THEN DmInit ELSE dm = DmStart(<< >>, 1)
  /\ IF area = "claims" THEN KcInit ELSE kd = KcStart(<<CHOOSE o \in KcObjects : TRUE>>)
  /\ IF area = "config" THEN CfInit ELSE cf = CfStart(NoCf)
  /\ IF area = "resolvers" THEN hr \in MCHrStarts ELSE hr = HrStart(NoHr, NoHr, <<"file", "p">>, MCHrConfig)
  /\ IF area = "helper" THEN HrInit ELSE bh = BhStart(NoHr)
  /\ area = "resolvers" => HrInit

MCNext ==
  /\ IF area = "nets" THEN Next ELSE UNCHANGED vars
  /\ IF area = "jobs" THEN JobsNext ELSE UNCHANGED jobsVars
  /\ IF area = "images" THEN ImNext ELSE UNCHANGED im
  /\ IF area = "provider" THEN OpNext ELSE UNCHANGED idp
  /\ IF area = "clients" THEN OcNext ELSE UNCHANGED oc
  /\ IF area = "claims" THEN KcNext ELSE UNCHANGED kd
  /\ IF area = "config" THEN CfNext ELSE UNCHANGED cf
  /\ IF area = "dns" THEN DmNext ELSE UNCHANGED dm
  /\ IF area = "resolvers" THEN HrDirNext ELSE UNCHANGED hr
  /\ IF area = "helper" THEN BhNext ELSE UNCHANGED bh
  /\ UNCHANGED area

MCSpec ==
  MCInit /\ [][MCNext]_<<vars, jobsVars, im, idp, oc, kd, cf, dm, hr, bh, area>>
=============================================================================
