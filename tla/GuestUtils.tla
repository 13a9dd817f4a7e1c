----------------------------- MODULE GuestUtils -----------------------------
(***************************************************************************)
(* The guest utils bundle: staged and cached on the host, rolled out to a  *)
(* running guest file by file, with the guest's manifest written last. The *)
(* vzctl process may fail or be killed between any two steps, and the user *)
(* may switch between vzctl versions.                                      *)
(***************************************************************************)
EXTENDS Naturals, FiniteSets, Sequences

CONSTANTS
  GuBundles,    \* bundle ids
  GuWithIwatch, \* those for which the optional iwatch binary was fetched
  GuVersion,    \* agent version of a bundle id
  MaxGuSwitch,  \* bound: changes of the installed vzctl
  NoGu          \* nothing installed, no manifest

ASSUME GuAssumption == NoGu \notin GuBundles

VARIABLE gu  \* [host, cache, pc, staging, files, agent, iwatch, running, manifest, mixed, switches]

CacheFiles == <<"agent", "unit", "metadata", "iwatch">>
FilesOf(b) == {f \in {CacheFiles[i] : i \in 1 .. 4} : f # "iwatch" \/ b \in GuWithIwatch}

\* Staging is built anew every time; the cache is populated only while it
\* has no agent binary, which is the first file copied. A kill leaves a prefix.
ensure_cached_bundle ==
  /\ gu.pc = "idle"
  /\ \E k \in 0 .. 4 :
       LET copied == {CacheFiles[i] : i \in 1 .. k} \cap FilesOf(gu.host)
           after  == IF "agent" \in gu.cache[gu.host] THEN gu.cache[gu.host]
                     ELSE gu.cache[gu.host] \cup copied
       IN  gu' = [gu EXCEPT !.cache[gu.host] = after,
                            !.pc = IF k = 4 \/ "agent" \in gu.cache[gu.host] THEN "check" ELSE "idle"]

\* An unreadable manifest counts as none.
read_guest_bundle_id ==
  /\ gu.pc = "check"
  /\ \E seen \in {gu.manifest, NoGu} :
       gu' = [gu EXCEPT !.pc = IF seen = gu.host THEN "idle" ELSE "files",
                        !.mixed = @ \/ (seen # gu.host /\ gu.manifest \notin {NoGu, gu.host})]

\* The fixed files one by one, then metadata and the OpenRC script from the
\* cache; a failure leaves files of two bundles side by side.
deploy_guest_files ==
  /\ gu.pc = "files"
  /\ \E some \in BOOLEAN :
       gu' = IF some /\ "metadata" \in gu.cache[gu.host]
             THEN [gu EXCEPT !.files = gu.host, !.pc = "agent"]
             ELSE [gu EXCEPT !.files = IF @ = gu.host THEN @ ELSE NoGu, !.pc = "idle"]

\* The staged copy is removed, sent in chunks, checked by its checksum and
\* moved over the target; anything else than the whole file is refused.
deploy_guest_binary(file, next) ==
  \E upload \in {"whole", "part", "none"} :
    gu' = CASE upload = "none" -> [gu EXCEPT !.pc = "idle"]
            [] upload = "part" -> [gu EXCEPT !.staging = gu.host, !.pc = "idle"]
            [] OTHER -> [gu EXCEPT !.staging = NoGu, ![file] = gu.host, !.pc = next]

deploy_agent_binary == gu.pc = "agent" /\ deploy_guest_binary("agent", "iwatch")

\* A bundle without iwatch leaves the guest's copy alone.
deploy_iwatch_binary ==
  /\ gu.pc = "iwatch"
  /\ IF "iwatch" \in gu.cache[gu.host] THEN deploy_guest_binary("iwatch", "restart")
     ELSE gu' = [gu EXCEPT !.pc = "restart"]

\* In the background of the guest; a closed connection counts as success.
restart_agent ==
  /\ gu.pc = "restart"
  /\ gu' \in {[gu EXCEPT !.pc = "wait"], [gu EXCEPT !.pc = "idle"]}

AgentRestarts ==
  /\ gu.pc \in {"wait", "idle"} /\ gu.running # gu.agent
  /\ gu' = [gu EXCEPT !.running = gu.agent]

\* The version string must match; the old process may still answer.
wait_for_agent ==
  /\ gu.pc = "wait"
  /\ \/ gu.running # NoGu /\ GuVersion[gu.running] = GuVersion[gu.host]
        /\ gu' = [gu EXCEPT !.pc = "manifest"]
     \/ gu' = [gu EXCEPT !.pc = "idle"]

\* Mutant: the manifest is written before the binaries are in place.
deploy_manifestEarly ==
  /\ gu.pc \in {"files", "agent", "manifest"}
  /\ gu' = [gu EXCEPT !.manifest = gu.host, !.mixed = FALSE, !.pc = IF @ = "manifest" THEN "idle" ELSE @]

deploy_manifest ==
  /\ gu.pc = "manifest"
  /\ gu' \in {[gu EXCEPT !.manifest = gu.host, !.mixed = FALSE, !.pc = "idle"],
              [gu EXCEPT !.pc = "idle"]}

SwitchVersion ==
  /\ gu.pc = "idle" /\ gu.switches < MaxGuSwitch
  /\ \E b \in GuBundles \ {gu.host} :
       gu' = [gu EXCEPT !.host = b, !.switches = @ + 1]

GuInit ==
  \E b \in GuBundles :
    gu = [host |-> b, cache |-> [x \in GuBundles |-> {}], pc |-> "idle", staging |-> NoGu,
          files |-> NoGu, agent |-> NoGu, iwatch |-> NoGu, running |-> NoGu, manifest |-> NoGu,
          mixed |-> FALSE, switches |-> 0]

GuNext ==
  \/ ensure_cached_bundle \/ read_guest_bundle_id \/ deploy_guest_files
  \/ deploy_agent_binary \/ deploy_iwatch_binary \/ restart_agent \/ AgentRestarts
  \/ wait_for_agent \/ deploy_manifest \/ SwitchVersion

GuSpec == GuInit /\ [][GuNext]_gu

\* What the guest's manifest names is what is installed, through any number
\* of failed and repeated rollouts, until a rollout of another bundle began
\* (apart from an iwatch that the host's cache has lost). Once
\* it began the manifest still names the old bundle, and going back to that
\* one would be skipped as unchanged.
ManifestNamesInstalled ==
  gu.manifest # NoGu /\ ~gu.mixed =>
    /\ gu.files = gu.manifest /\ gu.agent = gu.manifest
    /\ "iwatch" \in gu.cache[gu.manifest] => gu.iwatch = gu.manifest
=============================================================================
