--------------------------- MODULE HostResolvers ---------------------------
(***************************************************************************)
(* `vzctl dns`: the resolver files of the host, one per project and one per *)
(* reverse zone, which all projects share, and the privileged bind helper  *)
(* with its marker, binary and launchd job. Every file operation is a step; *)
(* a command may be killed before each. Other software has files of its own *)
(* in the resolver directory.                                              *)
(***************************************************************************)
EXTENDS Naturals, Sequences, FiniteSets, SequencesExt

CONSTANTS HrRuns,      \* resolver commands that may run at a time
          HrProjects,  \* projects
          HrNetworks,  \* networks a configuration or --cidr may name: [net, prefix]
          MaxHrCmds,   \* bound: resolver commands, and edits of the configurations
          MaxBhCmds,   \* bound: bind helper commands, updates and reboots
          NoHr         \* nothing: no file, no value

ASSUME HostResolversAssumption ==
  /\ HrNetworks \subseteq [net : Seq(0 .. 255), prefix : Nat]
  /\ IsFiniteSet(HrNetworks)
  /\ NoHr \notin [by : {"vzctl"}, kind : {"project", "reverse"}, project : HrProjects \cup {NoHr},
                   owner : {"config", "project", NoHr}, port : 1 .. 2]

VARIABLES hr,  \* the resolver directory and its commands: [file, zone, run, cmds, cfg, needs, mixed]
          bh   \* the bind helper and its command

hrVars == <<hr, bh>>

-----------------------------------------------------------------------------
(* Scopes and zones.                                                       *)

\* Octet-aligned reverse zones that cover a network: a prefix between octets
\* expands into several, one beyond /24 takes the enclosing /24.
ValidCidr(c) ==
  /\ c.prefix \in 8 .. 30 /\ Len(c.net) = 4
  /\ LET k == (c.prefix \div 8) + 1
     IN  /\ c.net[k] % (2 ^ (8 * k - c.prefix)) = 0
         /\ \A i \in k + 1 .. 4 : c.net[i] = 0

reverse_zones_for_cidr(c) ==
  LET ceil == (c.prefix + 7) \div 8
      octets == IF ceil > 3 THEN 3 ELSE ceil
      count == IF c.prefix >= octets * 8 THEN 1 ELSE 2 ^ (octets * 8 - c.prefix)
  IN  {SubSeq(c.net, 1, octets - 1) \o <<c.net[octets] + i>> : i \in 0 .. count - 1}

HrZones == UNION {reverse_zones_for_cidr(c) : c \in {x \in HrNetworks : ValidCidr(x)}}
Legacy == <<>>    \* the catch-all zone of earlier versions

\* The configuration's project and --project must agree; the owner is the
\* configuration, or the project when there is none.
HrOptions == [project : HrProjects \cup {NoHr}, config : HrProjects \cup {NoHr}]
resolve_scope(o) ==
  CASE o.project = NoHr /\ o.config = NoHr -> NoHr
    [] o.project # NoHr /\ o.config # NoHr /\ o.project # o.config -> NoHr
    [] OTHER -> [project |-> IF o.project # NoHr THEN o.project ELSE o.config, owner |-> IF o.config # NoHr THEN "config" ELSE "project"]

\* The networks of --cidr and those the configuration names now. An invalid
\* one is an error before anything is read.
resolve_reverse_zones(o, cidrs) ==
  LET all == cidrs \cup (IF o.config = NoHr THEN {} ELSE hr.cfg[o.config])
  IN  IF \A c \in all : ValidCidr(c) THEN UNION {reverse_zones_for_cidr(c) : c \in all} ELSE NoHr

resolver_content(s, port) == [by |-> "vzctl", kind |-> "project", project |-> s.project, owner |-> s.owner, port |-> port]
reverse_resolver_content(port) == [by |-> "vzctl", kind |-> "reverse", project |-> NoHr, owner |-> NoHr, port |-> port]
HrForeign == {[by |-> "other", kind |-> k, project |-> NoHr, owner |-> NoHr, port |-> 1] : k \in {"file", "directory"}}

\* Absent or a regular file; anything else is an error.
read_existing(c) == c = NoHr \/ c.kind # "directory"
ensure_owned(c, s) == c.by = "vzctl" /\ c.project = s.project /\ c.owner = s.owner
is_managed_reverse(c) == c # NoHr /\ c.by = "vzctl" /\ c.kind = "reverse"

HrIdle == [pc |-> "idle", scope |-> NoHr, port |-> 1, zones |-> {}, todo |-> <<>>, change |-> NoHr]
BhNone == [pc |-> "idle", uid |-> NoHr, exit |-> NoHr, binary |-> NoHr, marker |-> NoHr, plist |-> NoHr, loaded |-> NoHr,
           running |-> NoHr, net |-> FALSE, source |-> 1, cmds |-> 0]

\* `needs`: zones of the installs that ended well since the project's file was
\* published. `mixed`: an install and an uninstall have been in flight together.
HrStart(old, foreign, at, cfg) ==
  [file |-> [p \in HrProjects |-> IF at = <<"file", p>> THEN foreign ELSE NoHr],
   zone |-> [z \in HrZones \cup {Legacy} |-> CASE z = Legacy -> old [] at = <<"zone", z>> -> foreign [] OTHER -> NoHr],
   run |-> [r \in HrRuns |-> HrIdle], cmds |-> 0, cfg |-> cfg, needs |-> [p \in HrProjects |-> {}], mixed |-> FALSE]
BhStart(marker) == [BhNone EXCEPT !.marker = marker]

\* A catch-all of an earlier version, and something foreign in a place of ours.
HrInit ==
  /\ \E old \in {NoHr, reverse_resolver_content(1)}, foreign \in {NoHr} \cup HrForeign,
        at \in {<<"file", p>> : p \in HrProjects} \cup {<<"zone", z>> : z \in HrZones},
        cfg \in [HrProjects -> SUBSET HrNetworks] : hr = HrStart(old, foreign, at, cfg)
  /\ \E m \in {NoHr, "foreign"} : bh = BhStart(m)

HrGo(s, r, pc) == [s EXCEPT !.run[r].pc = pc]
HrEnd(s, r) == [s EXCEPT !.run[r] = HrIdle]

-----------------------------------------------------------------------------
(* install-resolver and uninstall-resolver.                                *)

\* The user edits the networks of a configuration.
HrEdit ==
  /\ hr.cmds < MaxHrCmds
  /\ \E p \in HrProjects, cidrs \in SUBSET HrNetworks : hr' = [hr EXCEPT !.cmds = @ + 1, !.cfg[p] = cidrs]
  /\ UNCHANGED bh

Installing == {"install", "zones", "forward"}
Removing == {"uninstall", "others", "remove"}
HrMeets(verb) == \E x \in HrRuns : hr.run[x].pc \in IF verb = "install" THEN Removing ELSE Installing

dns_command(r) ==
  /\ hr.run[r].pc = "idle" /\ hr.cmds < MaxHrCmds
  /\ \E o \in HrOptions, cidrs \in SUBSET HrNetworks, port \in 1 .. 2, verb \in {"install", "uninstall"} :
       LET scope == resolve_scope(o)
           zones == IF verb = "install" THEN resolve_reverse_zones(o, cidrs) ELSE {}
       IN  /\ scope # NoHr /\ zones # NoHr
           /\ hr' = [hr EXCEPT !.cmds = @ + 1, !.mixed = IF HrMeets(verb) THEN TRUE ELSE @,
                       !.run[r] = [HrIdle EXCEPT !.pc = verb, !.scope = scope, !.port = IF verb = "install" THEN port ELSE @, !.zones = zones]]
  /\ UNCHANGED bh

\* The project's own file is checked first and written last: a zone without
\* the project is harmless, a project without its zones is not. An earlier
\* file of the project stays in place meanwhile.
install(r) ==
  LET me == hr.run[r]
      old == hr.file[me.scope.project]
      new == resolver_content(me.scope, me.port)
  IN  /\ \/ /\ me.pc = "install"
            /\ hr' = IF ~read_existing(old) \/ (old # NoHr /\ ~ensure_owned(old, me.scope)) THEN HrEnd(hr, r)
                     ELSE [HrGo(hr, r, "zones") EXCEPT !.run[r].change = (old # new), !.run[r].todo = SetToSeq(me.zones)]
         \/ /\ me.pc = "forward"
            /\ hr' = [HrEnd(hr, r) EXCEPT !.needs[me.scope.project] = @ \cup me.zones,
                        !.file[me.scope.project] = IF me.change THEN new ELSE @]
      /\ UNCHANGED bh

\* Zone by zone; a file that is not a managed zone stops the command.
install_zone(r) ==
  LET me == hr.run[r]
      z == Head(me.todo)
      old == hr.zone[z]
  IN  /\ me.pc = "zones" /\ me.todo # <<>>
      /\ hr' = IF old # NoHr /\ ~is_managed_reverse(old) THEN HrEnd(hr, r)
               ELSE [hr EXCEPT !.zone[z] = reverse_resolver_content(me.port), !.run[r].todo = Tail(@)]
      /\ UNCHANGED bh

\* The catch-all of earlier versions goes when the project has zones.
install_legacy(r) ==
  LET me == hr.run[r]
  IN  /\ me.pc = "zones" /\ me.todo = <<>>
      /\ hr' = [HrGo(hr, r, "forward") EXCEPT
                  !.zone[Legacy] = IF me.zones # {} /\ is_managed_reverse(@) THEN NoHr ELSE @]
      /\ UNCHANGED bh

\* A file of this project and owner is removed.
uninstall(r) ==
  LET me == hr.run[r]
      old == hr.file[me.scope.project]
  IN  /\ me.pc = "uninstall"
      /\ hr' = IF ~read_existing(old) \/ (old # NoHr /\ ~ensure_owned(old, me.scope)) THEN HrEnd(hr, r)
               ELSE [HrGo(hr, r, "others") EXCEPT !.file[me.scope.project] = NoHr, !.needs[me.scope.project] = {}]
      /\ UNCHANGED bh

\* Mutant: the zones are taken for this project's own.
has_other_managed_resolverNever(p) == FALSE
\* Some other project's managed file. A directory of that name is an error.
has_other_managed_resolver(p) ==
  \E q \in HrProjects \ {p} : hr.file[q] # NoHr /\ hr.file[q].by = "vzctl" /\ hr.file[q].kind = "project"

managed_reverse_resolvers == {z \in HrZones \cup {Legacy} : is_managed_reverse(hr.zone[z])}

\* The zones go with the last project.
uninstall_zones(r) ==
  LET me == hr.run[r]
      broken == \E q \in HrProjects \ {me.scope.project} : ~read_existing(hr.file[q])
  IN  /\ \/ /\ me.pc = "others"
            /\ hr' = IF broken \/ has_other_managed_resolver(me.scope.project) THEN HrEnd(hr, r)
                     ELSE [HrGo(hr, r, "remove") EXCEPT !.run[r].todo = SetToSeq(managed_reverse_resolvers)]
         \/ /\ me.pc = "remove"
            /\ hr' = IF me.todo = <<>> THEN HrEnd(hr, r)
                     ELSE IF hr.zone[Head(me.todo)] = NoHr THEN HrEnd(hr, r)
                     ELSE [hr EXCEPT !.zone[Head(me.todo)] = NoHr, !.run[r].todo = Tail(@)]
      /\ UNCHANGED bh

hr_killed(r) == hr.run[r].pc # "idle" /\ hr' = HrEnd(hr, r) /\ UNCHANGED bh

-----------------------------------------------------------------------------
(* The bind helper.                                                        *)

BhGo(s, pc) == [s EXCEPT !.pc = pc]
BhEnd(s, exit) == [s EXCEPT !.pc = "idle", !.exit = exit]

\* Not root's own id, or nothing is done.
allow_uid == {"uid501", "uid502"}

\* Files that are all as wanted: the job is only kicked. Otherwise binary,
\* marker and job description are written in this order.
install_bind_helper ==
  /\ \/ /\ bh.pc = "idle" /\ bh.cmds < MaxBhCmds
        /\ \E u \in allow_uid : bh' = [BhGo(bh, "inspect") EXCEPT !.uid = u, !.exit = NoHr, !.cmds = @ + 1]
     \/ /\ bh.pc = "inspect"
        /\ bh' = CASE bh.marker = "foreign" -> BhEnd(bh, "fail")
                   [] bh.marker = bh.uid /\ bh.binary = bh.source /\ bh.plist = bh.uid -> BhGo(bh, "kickstart")
                   [] OTHER -> BhGo(bh, "binary")
     \/ bh.pc = "binary" /\ bh' = [BhGo(bh, "marker") EXCEPT !.binary = bh.source]
     \/ bh.pc = "marker" /\ bh' = [BhGo(bh, "plist") EXCEPT !.marker = bh.uid]
     \/ bh.pc = "plist" /\ bh' = [BhGo(bh, "bootout") EXCEPT !.plist = bh.uid]
     \/ bh.pc = "bootout" /\ bh' = [BhGo(bh, "bootstrap") EXCEPT !.loaded = NoHr, !.running = NoHr]
  /\ UNCHANGED hr

launchctl_bootstrap_bind_helper ==
  bh.pc = "bootstrap" /\ bh' = [BhGo(bh, "kickstart") EXCEPT !.loaded = bh.plist] /\ UNCHANGED hr

\* Only a loaded job can be kicked; it runs as it was loaded.
launchctl_kickstart_bind_helper ==
  /\ bh.pc = "kickstart"
  /\ bh' = IF bh.loaded = NoHr THEN BhEnd(bh, "fail") ELSE [BhEnd(bh, "ok") EXCEPT !.running = bh.loaded, !.net = TRUE]
  /\ UNCHANGED hr

\* Without a marker only complete absence is fine. The binary itself cleans
\* the network up; the marker goes last.
uninstall_bind_helper ==
  /\ \/ /\ bh.pc = "idle" /\ bh.cmds < MaxBhCmds
        /\ LET s == [bh EXCEPT !.exit = NoHr, !.uid = NoHr, !.cmds = @ + 1]
           IN  bh' = CASE bh.marker = NoHr -> BhEnd(s, IF bh.plist = NoHr /\ bh.binary = NoHr THEN "ok" ELSE "fail")
                       [] bh.marker = "foreign" -> BhEnd(s, "fail")
                       [] OTHER -> [BhGo(s, "cleanup") EXCEPT !.loaded = NoHr, !.running = NoHr]
     \/ bh.pc = "cleanup" /\ bh' = IF bh.binary = NoHr THEN BhEnd(bh, "fail") ELSE [BhGo(bh, "rmPlist") EXCEPT !.net = FALSE]
     \/ bh.pc = "rmPlist" /\ bh' = [BhGo(bh, "rmBinary") EXCEPT !.plist = NoHr]
     \/ bh.pc = "rmBinary" /\ bh' = [BhGo(bh, "rmMarker") EXCEPT !.binary = NoHr]
     \/ bh.pc = "rmMarker" /\ bh' = [BhEnd(bh, "ok") EXCEPT !.marker = NoHr]
  /\ UNCHANGED hr

\* launchd loads and starts every job description when the host boots.
bh_reboot ==
  /\ bh.cmds < MaxBhCmds
  /\ bh' = [bh EXCEPT !.pc = "idle", !.cmds = @ + 1, !.loaded = bh.plist, !.running = IF bh.binary = NoHr THEN NoHr ELSE bh.plist, !.net = FALSE]
  /\ UNCHANGED hr

bh_update == bh.cmds < MaxBhCmds /\ bh.source = 1 /\ bh' = [bh EXCEPT !.source = 2, !.cmds = @ + 1] /\ UNCHANGED hr
bh_killed == bh.pc # "idle" /\ bh' = BhEnd(bh, NoHr) /\ UNCHANGED hr

-----------------------------------------------------------------------------

HrDirNext ==
  \/ HrEdit
  \/ \E r \in HrRuns : dns_command(r) \/ install(r) \/ install_zone(r) \/ install_legacy(r)
                         \/ uninstall(r) \/ uninstall_zones(r) \/ hr_killed(r)

BhNext ==
  \/ install_bind_helper \/ launchctl_bootstrap_bind_helper \/ launchctl_kickstart_bind_helper \/ uninstall_bind_helper
  \/ bh_reboot \/ bh_update \/ bh_killed

HrNext == HrDirNext \/ BhNext

HrSpec == HrInit /\ [][HrNext]_hrVars

-----------------------------------------------------------------------------
(* Correctness.                                                            *)

\* While a project's resolver is published, every reverse zone an install of it
\* has published is there, so no host PTR lookup into those networks bypasses
\* the edge: whatever the networks grow or shrink to since, whoever is killed
\* or fails on a foreign file, whichever project that shares a zone is removed,
\* and for installs, or removals, that overlap (dns.rs, install, uninstall). It
\* says nothing of a zone no install got to: when the networks of a published
\* project grow and the next install is killed or meets a foreign file at the
\* new zone, the file of the earlier install is in force without that zone.
\* Nor of the time after an install and a removal have overlapped.
ReverseZonesPublished ==
  ~hr.mixed => \A p \in HrProjects :
                 hr.file[p] # NoHr /\ hr.file[p].by = "vzctl" => \A z \in hr.needs[p] : is_managed_reverse(hr.zone[z])
=============================================================================
