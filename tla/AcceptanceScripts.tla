------------------------- MODULE AcceptanceScripts ---------------------------
(***************************************************************************)
(* The scripts of src/scripts as a whole: one of them runs, its body while *)
(* its project is up, against a system that takes its own steps, and ends  *)
(* whatever happens.                                                       *)
(***************************************************************************)
EXTENDS OwnedProject, AcceptanceChecks, DiagnosticsScenario, ObservabilityScenario,
        PerformanceTrial, FlashSaleCohort

bodyVars == <<checkVars, diagnosticsVars, observabilityVars, trialVars, cohortVars, scrapeVars>>

scriptsVars == <<harnessVars, projectVars, bodyVars>>

ScriptsInit ==
    /\ ProjectInit /\ ChecksInit /\ DiagnosticsInit /\ ObservabilityInit /\ TrialInit /\ CohortInit
    /\ process = 1
    /\ counted = IF script = "performance" THEN NoCounts ELSE {}
    /\ sample = NoSample(counted)

Checking == UNCHANGED <<diagnosticsVars, observabilityVars, trialVars, cohortVars, scrapeVars>>
Diagnosing == UNCHANGED <<checkVars, observabilityVars, trialVars, cohortVars>>
Observing == UNCHANGED <<checkVars, diagnosticsVars, trialVars, cohortVars>>
Measuring == UNCHANGED <<checkVars, diagnosticsVars, observabilityVars, cohortVars>>
Selling == UNCHANGED <<checkVars, diagnosticsVars, observabilityVars, trialVars, scrapeVars>>

\* Steps of the running body, of the system under it, and its deadlines.
BodyStep ==
    \/ ChecksStep /\ Checking
    \/ InspectionStep /\ Diagnosing
    \/ ObservabilityStep /\ Observing
    \/ TrialStep /\ Measuring
    \/ CohortStep /\ Selling

SystemStep ==
    \/ (ChecksTtlEnds \/ WorkerRecovers \/ AppBoots) /\ Checking
    \/ PlantStep /\ Diagnosing
    \/ (ApplicationDies \/ ScrapeWatched) /\ Observing
    \/ (Disturbance \/ ScrapeTrials) /\ Measuring
    \/ (ConsumerStep \/ \E b \in Buyers : AskTwice(b)) /\ Selling

Deadline ==
    \/ CheckTimesOut /\ Checking
    \/ WatchTimesOut /\ Observing
    \/ TrialFails /\ Measuring
    \/ CohortTimesOut /\ Selling

InBody(action) == phase = "body" /\ action /\ UNCHANGED projectVars

ScriptStep == (ProjectStep /\ UNCHANGED bodyVars) \/ InBody(BodyStep)

ScriptsNext ==
    \/ ScriptStep
    \/ InBody(SystemStep) \/ InBody(Deadline)
    \/ ProjectMishap /\ UNCHANGED bodyVars

ScriptsSpec == ScriptsInit /\ [][ScriptsNext]_scriptsVars

\* A script goes on by itself, and a deadline it is under comes: they are taken
\* from the clock.  Nothing is assumed of the system, its workers or Prometheus.
ScriptsFairSpec ==
    /\ ScriptsSpec
    /\ WF_scriptsVars(ScriptStep)
    /\ WF_scriptsVars(InBody(Deadline))
-----------------------------------------------------------------------------
\* What the scripts assert is true of the system in every interleaving of its
\* workers, scrapes and restarts: a script contradicts it only after a mishap.
ContradictedOnlyByMishap == verdict = "contradicted" => mishaps > 0

\* What a script concludes from counters is true of the process and the window
\* it speaks of, although it reads them from scrapes of any age.
EvidenceIsFresh == RestartIsSeen /\ WindowIsExact

\* Every run comes to an end, also when the system stands still.
EveryRunEnds == <>(phase \in Ends)
=============================================================================
