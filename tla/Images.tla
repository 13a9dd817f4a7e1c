------------------------------- MODULE Images -------------------------------
(***************************************************************************)
(* The image store: `vzctl image pull`, `bake`, `seal`, `rebake` on the    *)
(* aliases of one catalog entry. Pulled objects are content-addressed and  *)
(* published by rename; the baked and the sealed raw of a tag are copies   *)
(* customised in place, locally or by a builder VM. A command may fail or  *)
(* be killed between any two steps, and upstream and vzctl move on.        *)
(***************************************************************************)
EXTENDS Naturals, FiniteSets

CONSTANTS
  ImAliases,   \* the aliases one catalog entry registers
  ImTags,      \* image tags, "v1" the default among them
  ImResolver,  \* "static", "inline", "coreos", "flatcar", "latest" or "tagged"
  ImFormat,    \* "raw", "qcow2", "compressed", "qcow2.xz" or "archive"
  MaxImRel,    \* bound: releases upstream publishes
  MaxImVer,    \* bound: guest toolkit versions
  NoIm         \* no manifest, no tag entry, no release

ASSUME ImagesAssumption ==
  /\ "v1" \in ImTags /\ MaxImRel \in Nat \ {0} /\ MaxImVer \in Nat \ {0}
  /\ ImResolver \in {"static", "inline", "coreos", "flatcar", "latest", "tagged"}
  /\ ImFormat \in {"raw", "qcow2", "compressed", "qcow2.xz", "archive"}

VARIABLE im  \* [up, ver, objects, manifest, baked, sealed, readonly, marker, appliance, cli]

NoFile == [kind |-> "none", rel |-> 0, ver |-> 0]
Torn   == [kind |-> "torn", rel |-> 0, ver |-> 0]
ImIdle   == [op |-> "none", force |-> FALSE, alias |-> NoIm, tag |-> NoIm,
           pc |-> "idle", rel |-> NoIm, todo |-> {}, code |-> "ok"]

\* pulled: nothing under "tags"; every alias of the entry gets the same manifest.
alias_manifest(rel) == [rel |-> rel, tags |-> [t \in ImTags |-> NoIm]]

ImInit ==
  im = [up |-> 1, ver |-> 1, objects |-> {}, manifest |-> [a \in ImAliases |-> NoIm],
        baked |-> [t \in ImTags |-> NoFile], sealed |-> [t \in ImTags |-> NoFile],
        readonly |-> [t \in ImTags |-> FALSE], marker |-> [t \in ImTags |-> FALSE],
        appliance |-> FALSE, cli |-> ImIdle]

At(pc)      == im.cli.pc = pc
Goto(s, pc) == [s EXCEPT !.cli.pc = pc]
Exit(s, c)  == [s EXCEPT !.cli = [ImIdle EXCEPT !.pc = "exit", !.op = im.cli.op, !.code = c]]

image_command(op, force, alias, tag) ==
  /\ At("idle")
  /\ im' = [im EXCEPT !.cli = [ImIdle EXCEPT !.op = op, !.force = force \/ op = "rebake",
             !.alias = alias, !.tag = tag,
             !.pc = CASE op = "pull" -> "resolve" [] op = "seal" -> "prepareSeal" [] OTHER -> "bake"]]

image_command_ends ==
  /\ At("exit")
  /\ im' = [im EXCEPT !.cli = ImIdle]

-----------------------------------------------------------------------------
(* Pull. What upstream serves is the set of metadata facts that hold.      *)

Facts == {"reachable", "asset", "digest", "hex"}

validate_digest_text(m) == "hex" \in m
digest_from_checksum(m) == {"reachable", "digest", "hex"} \subseteq m
required_json_string(m, fact) == fact \in m
resolve_github_pinned_asset(m) ==
  IF "reachable" \in m /\ required_json_string(m, "asset") THEN 1 ELSE NoIm
resolve_github_asset(m) ==
  IF "reachable" \in m /\ required_json_string(m, "asset") /\ required_json_string(m, "digest")
  THEN im.up ELSE NoIm

\* The release whose digest the metadata names: the newest one, or the one
\* the catalog pins.
resolve_source(m) ==
  CASE ImResolver = "inline"  -> 1
    [] ImResolver = "static"  -> IF digest_from_checksum(m) THEN im.up ELSE NoIm
    [] ImResolver = "flatcar" -> IF digest_from_checksum(m) THEN im.up ELSE NoIm
    [] ImResolver = "coreos"  -> resolve_github_asset(m)
    [] ImResolver = "latest"  -> resolve_github_asset(m)
    [] ImResolver = "tagged"  -> resolve_github_pinned_asset(m)

unchanged_result(rel) ==
  LET known == im.manifest[im.cli.alias]
  IN  known # NoIm /\ known.rel = rel /\ rel \in im.objects

pull_resolve ==
  /\ At("resolve")
  /\ \E m \in SUBSET Facts :
       LET rel == resolve_source(m)
       IN  im' = CASE rel = NoIm \/ (ImResolver # "inline" /\ ~validate_digest_text(m)) -> Exit(im, "upstream")
                   [] rel # NoIm /\ unchanged_result(rel) -> Exit(im, "ok")
                   [] OTHER -> [im EXCEPT !.cli.rel = rel, !.cli.pc = "download"]

\* Tools found and disks extracted on the way to one raw image.
qemu_convert(t) == "qemu-img" \in t
decode(t)       == "decoder" \in t
find_file_with_extension(t) == "disk" \in t
normalize(t) ==
  CASE ImFormat = "raw"        -> TRUE
    [] ImFormat = "qcow2"      -> qemu_convert(t)
    [] ImFormat = "compressed" -> decode(t)
    [] ImFormat = "qcow2.xz"   -> decode(t) /\ qemu_convert(t)
    [] ImFormat = "archive"    -> decode(t) /\ find_file_with_extension(t) /\ qemu_convert(t)

\* The URL serves the release of the moment, which may be newer than the
\* digest just read, or the transfer breaks; the checksum tells. Download,
\* checksum and normalisation happen in the work directory, then the rename
\* that publishes the object (or finds it there already).
download_verify ==
  /\ At("download")
  /\ \E served \in {im.up, im.cli.rel, NoIm}, t \in SUBSET {"qemu-img", "decoder", "disk"} :
       im' = IF served = im.cli.rel /\ normalize(t)
             THEN [im EXCEPT !.objects = @ \cup {im.cli.rel}, !.cli.pc = "aliases", !.cli.todo = ImAliases]
             ELSE Exit(im, "upstream")

\* One manifest after the other, each by rename; tags start empty again.
pull_with ==
  /\ At("aliases")
  /\ im' = IF im.cli.todo = {} THEN Exit(im, "ok")
           ELSE LET a == CHOOSE x \in im.cli.todo : TRUE
                IN  [im EXCEPT !.manifest[a] = alias_manifest(im.cli.rel), !.cli.todo = @ \ {a}]

-----------------------------------------------------------------------------
(* Reading the store.                                                      *)

read_alias_manifest(a) == im.manifest[a]

tag_entry(a, t) == IF read_alias_manifest(a) = NoIm THEN NoIm ELSE read_alias_manifest(a).tags[t]

tagged_seal_ready(a, t) ==
  LET e == tag_entry(a, t)
  IN  e # NoIm /\ e.sealed /\ im.sealed[t] # NoFile /\ im.marker[t]

resolve_alias_pulled(a) ==
  read_alias_manifest(a) # NoIm /\ read_alias_manifest(a).rel \in im.objects

\* The raw a tag stands for: the sealed one if the entry is sealed, else the baked.
resolve_alias_tag(a, t) ==
  LET e == tag_entry(a, t)
  IN  CASE e = NoIm -> NoFile [] e # NoIm /\ e.sealed -> im.sealed[t] [] OTHER -> im.baked[t]

\* The default tag first, then any other tag that is ready.
resolve_alias_for_vm(a) ==
  IF tagged_seal_ready(a, "v1") THEN {"v1"} ELSE {t \in ImTags : tagged_seal_ready(a, t)}

existing_tag_sealed_digest(a, t) == tag_entry(a, t) # NoIm /\ tag_entry(a, t).sealed

\* Accepted only with its marker and while the raw is read-only.
read_existing_seal(t) == im.marker[t] /\ im.readonly[t]

already_baked(a, t) ==
  LET e == tag_entry(a, t)
  IN  /\ e # NoIm /\ e.ver = im.ver
      /\ IF e.sealed THEN im.sealed[t] # NoFile ELSE im.baked[t] # NoFile

-----------------------------------------------------------------------------
(* The backend that customises a raw in place: virt-customize, or a        *)
(* builder VM that is provisioned once from a pulled image.                *)

select_backend_kind == {"local", "builder", "unavailable"}

\* The last marker on the serial log, or none by the timeout or the exit.
wait_for_result == {"ok", "failed", "none"}

\* A cached appliance whose recorded checksum, if there is one, matches.
resolve_builder_image(s, checksum) == s.appliance /\ checksum

\* Bootstrapped from a pulled image under another name, renamed when done.
run_builder_bootstrap == wait_for_result
provision_builder_image(s) ==
  {IF r = "ok" THEN [s EXCEPT !.appliance = TRUE] ELSE Exit(s, "unavailable") : r \in run_builder_bootstrap}
ensure_builder_image(s) ==
  UNION {IF resolve_builder_image(s, checksum) THEN {s} ELSE provision_builder_image(s) : checksum \in BOOLEAN}

\* The builder works on a clone or a hard link of the target. Its bytes are
\* copied back whenever a marker was seen, even one that reports a failure;
\* without a marker a clone is discarded, but a hard link was written to.
run_builder_vm(before, after) ==
  UNION {IF r = "ok" THEN {[ok |-> TRUE, file |-> after]} ELSE [ok : {FALSE}, file : {before, Torn}]
         : r \in wait_for_result}

\* virt-customize edits the raw itself and stops at the first failing command.
run_virt_customize(before, after) ==
  {[ok |-> TRUE, file |-> after], [ok |-> FALSE, file |-> Torn], [ok |-> FALSE, file |-> before]}

\* <<state, result>> of customising a raw with the selected backend.
customize(before, after) ==
  UNION {CASE kind = "unavailable" -> {<<Exit(im, "unavailable"), [ok |-> FALSE, file |-> before]>>}
           [] kind = "local"   -> {im} \X run_virt_customize(before, after)
           [] kind = "builder" -> ensure_builder_image(im) \X run_builder_vm(before, after)
         : kind \in select_backend_kind}

-----------------------------------------------------------------------------
(* Bake.                                                                   *)

\* Copying the object over the baked raw of the tag may be cut short.
prepare_alias_for_bake ==
  /\ At("bake")
  /\ LET c == im.cli
         e == tag_entry(c.alias, c.tag)
     IN  im' \in CASE ~c.force /\ already_baked(c.alias, c.tag) -> {Exit(im, "ok")}
                   [] ~(~c.force /\ already_baked(c.alias, c.tag)) /\ ~resolve_alias_pulled(c.alias) ->
                        {Exit(im, "input")}
                   [] OTHER -> {Goto([im EXCEPT !.baked[c.tag] = [kind |-> "pulled", rel |-> im.manifest[c.alias].rel,
                                                                 ver |-> 0]], "staging"),
                                Exit([im EXCEPT !.baked[c.tag] = Torn], "input")}

\* The agent is built, iwatch resolved, downloaded and checked; both or none.
iwatch_version_string == {"pinned", "api", "redirect", "none"}
download_release_asset == {"browser", "api", "none"}
stage_release(v, sums, archive, matches) ==
  v # "none" /\ sums # "none" /\ archive # "none" /\ matches
build_staging ==
  /\ At("staging")
  /\ \E v \in iwatch_version_string, sums, archive \in download_release_asset, matches \in BOOLEAN :
       im' = IF stage_release(v, sums, archive, matches) THEN Goto(im, "customize") ELSE Exit(im, "unavailable")

bake_image ==
  /\ At("customize")
  /\ LET t == im.cli.tag
     IN  \E r \in customize(im.baked[t], [im.baked[t] EXCEPT !.kind = "baked", !.ver = im.ver]) :
           LET s == [r[1] EXCEPT !.baked[t] = r[2].file]
           IN  im' = CASE r[1].cli.pc = "exit" -> r[1]
                       [] r[1].cli.pc # "exit" /\ r[2].ok -> [s EXCEPT !.cli.pc = "markBaked", !.cli.todo = ImAliases]
                       [] OTHER -> Exit(s, "customize")

\* Manifest by manifest: the marker of a sealed tag is removed with it.
mark_aliases_baked ==
  /\ At("markBaked")
  /\ LET t == im.cli.tag
     IN  IF im.cli.todo = {}
         THEN im' = IF im.cli.op = "rebake" THEN Goto(im, "prepareSeal") ELSE Exit(im, "ok")
         ELSE \E a \in im.cli.todo :
                LET e == tag_entry(a, t)
                    s == [im EXCEPT !.cli.todo = @ \ {a}]
                IN  im' = IF im.manifest[a] = NoIm THEN s
                          ELSE [s EXCEPT !.marker[t] = @ /\ ~(e # NoIm /\ e.sealed),
                                 !.manifest[a].tags[t] = [baked |-> TRUE, sealed |-> FALSE, ver |-> im.ver]]

-----------------------------------------------------------------------------
(* Seal.                                                                   *)

\* Mutant: the sealed raw is overwritten without being made writable first.
prepare_alias_for_sealKeepsMode ==
  /\ At("prepareSeal")
  /\ LET c == im.cli
         t == c.tag
         e == tag_entry(c.alias, t)
         source == IF e # NoIm /\ e.baked THEN im.baked[t]
                   ELSE [kind |-> "pulled", rel |-> im.manifest[c.alias].rel, ver |-> 0]
     IN  im' \in CASE im.manifest[c.alias] = NoIm -> {Exit(im, "input")}
                   [] e # NoIm /\ e.sealed /\ ~c.force ->
                        {IF resolve_alias_tag(c.alias, t) = NoFile THEN Exit(im, "state") ELSE Goto(im, "checkSeal")}
                   [] OTHER -> {Goto([im EXCEPT !.sealed[t] = source], "checkSeal"),
                                Exit([im EXCEPT !.sealed[t] = Torn], "state")}

\* An entry that is sealed already is left alone; otherwise the raw of the
\* tag, or the pulled object, is copied over the sealed raw, which is made
\* writable before and after.
prepare_alias_for_seal ==
  /\ At("prepareSeal")
  /\ LET c == im.cli
         t == c.tag
         e == tag_entry(c.alias, t)
     IN  im' \in CASE im.manifest[c.alias] = NoIm -> {Exit(im, "input")}
                   [] im.manifest[c.alias] # NoIm /\ e # NoIm /\ e.sealed /\ ~c.force ->
                        {IF resolve_alias_tag(c.alias, t) = NoFile THEN Exit(im, "state") ELSE Goto(im, "checkSeal")}
                   [] OTHER ->
                        LET source == IF e # NoIm /\ e.baked THEN im.baked[t]
                                      ELSE [kind |-> "pulled", rel |-> im.manifest[c.alias].rel, ver |-> 0]
                            w == [im EXCEPT !.readonly[t] = FALSE]
                        IN  IF source = NoFile \/ (source.kind = "pulled" /\ ~resolve_alias_pulled(c.alias))
                            THEN {Exit(im, "state")}
                            ELSE {Goto([w EXCEPT !.sealed[t] = source], "checkSeal"),
                                  Exit([w EXCEPT !.sealed[t] = Torn], "state")}

\* With a marker and without --force nothing is customised: the marker must
\* match, and incomplete tag metadata is repaired.
seal_image_in_dir ==
  /\ At("checkSeal")
  /\ LET c == im.cli
     IN  im' = CASE im.marker[c.tag] /\ ~c.force /\ ~read_existing_seal(c.tag) -> Exit(im, "marker")
                 [] im.marker[c.tag] /\ ~c.force /\ read_existing_seal(c.tag)
                      /\ tagged_seal_ready(c.alias, c.tag) -> Exit(im, "ok")
                 [] im.marker[c.tag] /\ ~c.force /\ read_existing_seal(c.tag)
                      /\ ~tagged_seal_ready(c.alias, c.tag) ->
                      IF existing_tag_sealed_digest(c.alias, c.tag) \/ resolve_alias_pulled(c.alias)
                      THEN [im EXCEPT !.cli.pc = "markSealed", !.cli.todo = ImAliases] ELSE Exit(im, "ok")
                 [] OTHER -> Goto(im, "seal")

\* The agent's files must be in the image before the cleanup.
verify_preserved(file) == file.kind = "baked" \/ file.kind = "sealed"

seal_pipeline ==
  /\ At("seal")
  /\ LET t == im.cli.tag
     IN  \E r \in customize(im.sealed[t], [im.sealed[t] EXCEPT !.kind = "sealed"]) :
           LET s == [r[1] EXCEPT !.sealed[t] = r[2].file]
           IN  im' = CASE r[1].cli.pc = "exit" -> r[1]
                       [] r[1].cli.pc # "exit" /\ ~verify_preserved(im.sealed[t]) -> Exit(r[1], "invariant")
                       [] r[1].cli.pc # "exit" /\ verify_preserved(im.sealed[t]) /\ r[2].ok -> Goto(s, "lock")
                       [] OTHER -> Exit(s, "customize")

\* Read-only first, then the marker is renamed into place; a rename that
\* fails restores the permissions.
write_seal_marker_and_lock ==
  \/ /\ At("lock")
     /\ im' \in {Goto([im EXCEPT !.readonly[im.cli.tag] = TRUE], "publish"), Exit(im, "state")}
  \/ /\ At("publish")
     /\ im' \in {[im EXCEPT !.marker[im.cli.tag] = TRUE, !.cli.pc = "markSealed", !.cli.todo = ImAliases],
                 Exit([im EXCEPT !.readonly[im.cli.tag] = FALSE], "state")}

mark_aliases_sealed ==
  /\ At("markSealed")
  /\ IF im.cli.todo = {} THEN im' = Exit(im, "ok")
     ELSE \E a \in im.cli.todo :
            LET t == im.cli.tag
                e == tag_entry(a, t)
                s == [im EXCEPT !.cli.todo = @ \ {a}]
            IN  im' = IF im.manifest[a] = NoIm THEN s
                      ELSE [s EXCEPT !.manifest[a].tags[t] =
                              [baked |-> TRUE, sealed |-> TRUE, ver |-> IF e = NoIm THEN 0 ELSE e.ver]]

-----------------------------------------------------------------------------
(* The environment, and the specification.                                 *)

\* Ctrl-C or a crash at any step; what is on disk stays.
image_killed ==
  /\ im.cli.pc \notin {"idle", "exit"}
  /\ im' = [im EXCEPT !.cli = ImIdle]

Publish == im.up < MaxImRel /\ im' = [im EXCEPT !.up = @ + 1]

UpgradeToolkit ==
  /\ im.ver < MaxImVer /\ At("idle")
  /\ im' = [im EXCEPT !.ver = @ + 1]

ImNext ==
  \/ \E op \in {"pull", "bake", "seal", "rebake"}, f \in BOOLEAN, a \in ImAliases, t \in ImTags :
       image_command(op, f, a, t)
  \/ image_command_ends \/ pull_resolve \/ download_verify \/ pull_with
  \/ prepare_alias_for_bake \/ build_staging \/ bake_image \/ mark_aliases_baked
  \/ prepare_alias_for_seal \/ seal_image_in_dir \/ seal_pipeline
  \/ write_seal_marker_and_lock \/ mark_aliases_sealed
  \/ image_killed \/ Publish \/ UpgradeToolkit

ImSpec == ImInit /\ [][ImNext]_im

-----------------------------------------------------------------------------
(* Correctness.                                                            *)

\* vm create's check of a base (resolve_alias_for_vm, then marker and
\* read-only) only ever accepts a raw whose seal pipeline completed, wherever
\* a bake, seal or rebake of that tag failed or was killed before.
VmBaseIsSealed ==
  \A a \in ImAliases : \A t \in resolve_alias_for_vm(a) :
    read_existing_seal(t) => im.sealed[t].kind = "sealed"

\* Every alias names an object that is published and verified: no failure,
\* kill or moving upstream leaves a manifest that vm create, bake or seal
\* could not resolve.
AliasNamesObject ==
  \A a \in ImAliases : im.manifest[a] # NoIm => im.manifest[a].rel \in im.objects

\* What vm create resolves is there and complete, at every moment and after
\* every failure: aliases name verified objects and accepted bases are sealed.
BasesUsable == AliasNamesObject /\ VmBaseIsSealed
=============================================================================
