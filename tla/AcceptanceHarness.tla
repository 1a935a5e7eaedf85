-------------------------- MODULE AcceptanceHarness --------------------------
(***************************************************************************)
(* What the acceptance and baseline scripts share: one script runs against *)
(* one Compose project, its body asserts what it expects of the system and *)
(* ends with a verdict.  Every wait has a deadline.                        *)
(***************************************************************************)
EXTENDS Naturals, Sequences

CONSTANTS MaxMishaps    \* bound: lost calls, timeouts, disturbances, defects

ASSUME HarnessAssumption == MaxMishaps \in Nat

VARIABLES
    script,         \* the script that runs
    verdict,        \* of its body: running, passed, contradicted or raised
    mishaps         \* what went wrong outside of the script

harnessVars == <<script, verdict, mishaps>>

Scripts == {"acceptance", "observability", "diagnostics", "performance", "flashSale"}

Running(s) == script = s /\ verdict = "running"
Calm == UNCHANGED mishaps
Mishap == mishaps < MaxMishaps /\ mishaps' = mishaps + 1

\* An assertion about the system failed: the script says that it is wrong.
Contradicted == verdict' = "contradicted"

\* A call raised or a deadline passed: the script says nothing of the system.
Raised == verdict' = "raised"
=============================================================================
