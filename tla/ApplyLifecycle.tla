--------------------------- MODULE ApplyLifecycle ---------------------------
(***************************************************************************)
(* What ADR 0003 promises of one stack (docs/adr/0003-apply-state.md,      *)
(* "State machine"): an operation is begun on an idle stack, may fail and  *)
(* be resumed under the same generation, and ends committed or aborted.    *)
(* Only a commit of a running operation changes the actual state, and only *)
(* its present holder commits.                                             *)
(***************************************************************************)
EXTENDS Naturals

CONSTANTS Holder, NoHolder, Actual, NoActual

VARIABLES phase, generation, holder, actual

lifecycleVars == <<phase, generation, holder, actual>>

Init ==
    /\ phase = "idle"
    /\ generation = 0
    /\ holder = NoHolder
    /\ actual = NoActual

Begin(h) ==
    /\ phase = "idle"
    /\ phase' = "running"
    /\ generation' = generation + 1
    /\ holder' = h
    /\ UNCHANGED actual

Fail ==
    /\ phase = "running"
    /\ phase' = "failed"
    /\ UNCHANGED <<generation, holder, actual>>

Resume(h) ==
    /\ phase \in {"running", "failed"}
    /\ phase' = "running"
    /\ holder' = h
    /\ UNCHANGED <<generation, actual>>

Commit ==
    /\ phase = "running"
    /\ phase' = "idle"
    /\ holder' = NoHolder
    /\ actual' \in Actual
    /\ UNCHANGED generation

\* Drift stays visible: nothing is rolled back.
Abort ==
    /\ phase \in {"running", "failed"}
    /\ phase' = "idle"
    /\ holder' = NoHolder
    /\ UNCHANGED <<generation, actual>>

Next ==
    \/ \E h \in Holder : Begin(h) \/ Resume(h)
    \/ Fail
    \/ Commit
    \/ Abort

Spec == Init /\ [][Next]_lifecycleVars
=============================================================================
