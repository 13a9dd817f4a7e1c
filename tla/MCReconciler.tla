---------------------------- MODULE MCReconciler ----------------------------
(* Reconciler on small instances: few invocations, two configurations, two  *)
(* or three steps per list.  "release" ends both lists, as in progress.rs.  *)
EXTENDS Reconciler, TLC

CONSTANTS p1, p2, p3, none, d1, d2, empty

MCTwo == {p1, p2}
MCThree == {p1, p2, p3}
MCHash == {d1, d2}
MCOneHash == {d1}

MCApplySteps == <<"validate", "release">>
MCDownSteps == <<"stop", "release">>
MCStep == {"validate", "stop", "release"}

MCSnapshot == {empty} \cup [hash: {d1, d2}, vms: {"running", "stopped"}]
MCOneSnapshot == {empty} \cup [hash: {d1}, vms: {"running", "stopped"}]
MCBreaking == {<<d1, d2>>, <<d2, d1>>}
MCNoBreaking == {}

Cmd(mode, purge, force) == [mode |-> mode, purge |-> purge, force |-> force]
ApplyCommands == {Cmd("apply", FALSE, FALSE), Cmd("up", FALSE, FALSE),
                  Cmd("resume", FALSE, FALSE), Cmd("resume", FALSE, TRUE), Cmd("abort", FALSE, FALSE)}
AllCommands == ApplyCommands \cup {Cmd("down", FALSE, FALSE), Cmd("down", TRUE, FALSE)}
CoreCommands == {Cmd("apply", FALSE, FALSE), Cmd("resume", FALSE, FALSE),
                 Cmd("abort", FALSE, FALSE)}
DownCommands == {Cmd("down", TRUE, FALSE), Cmd("resume", FALSE, FALSE)}
LiveCommands == CoreCommands \cup DownCommands

Symmetry == Permutations(Holder)
=============================================================================
