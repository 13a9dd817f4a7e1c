----------------------------- MODULE MCLiveness -----------------------------
(* What must eventually happen: to invocations of vzctl and the apply lease  *)
(* (Reconciler), and to the jobs of the REST server (RestJobs).  `area` says *)
(* which of the two runs; the other one stays in its initial state, where    *)
(* none of its fair actions is enabled.                                      *)
EXTENDS MCReconciler, RestJobs

CONSTANTS j1, j2

MCJobs == {j1, j2}

VARIABLE area

LiveInit ==
    /\ area \in {"apply", "jobs"}
    /\ Init /\ (area = "jobs" => config = d1)
    /\ JobsInit

LiveNext ==
    /\ IF area = "apply" THEN Next ELSE UNCHANGED vars
    /\ IF area = "jobs" THEN JobsNext ELSE UNCHANGED jobsVars
    /\ UNCHANGED area

LiveSpec ==
    /\ LiveInit /\ [][LiveNext]_<<vars, jobsVars, area>>
    /\ Fairness
    /\ JobsFairness
=============================================================================
