--------------------------- MODULE PerformanceTrial --------------------------
(***************************************************************************)
(* run-performance-baseline.py: a trial warms up, waits for a scrape that  *)
(* is later than the warm-up, runs the measured load, waits for a scrape   *)
(* that is later than the load, and keeps the measurement only if the      *)
(* difference of the counters says that every request of a warm trial was  *)
(* a cache hit and that a search did not touch the cache.                  *)
(***************************************************************************)
EXTENDS AcceptanceHarness, Scrapes

CONSTANTS MaxRequests   \* bound: requests of one load, which a duration bounds

ASSUME TrialAssumption == MaxRequests \in Nat \ {0}

VARIABLES
    trial,          \* the trial that runs, and its load
    cached,         \* the shop of the detail case is in the cache
    kept            \* the measurements kept, with the history of their window

trialVars == <<trial, cached, kept>>

\* CASES, repeated: more than one trial of a case runs against one process.
Trials == <<"shop_detail_warm", "shop_search_mysql", "shop_detail_warm">>

NoCounts == [hits |-> 0, others |-> 0]
Window == [requests |-> 0, strays |-> 0, before |-> NoCounts]

TrialInit ==
    /\ trial = [number |-> 1, at |-> "prepare", window |-> Window]
    /\ cached = FALSE
    /\ kept = <<>>

Measures(at) == Running("performance") /\ trial.at = at
Detail == Trials[trial.number] = "shop_detail_warm"
To(at) == trial' = [trial EXCEPT !.at = at]
StaysCalm == Calm /\ UNCHANGED <<script, verdict>>

\* DEL of the cached shop, and a request that loads it.
Prepare ==
    /\ Measures("prepare") /\ process # 0
    /\ IF Detail THEN cached' = TRUE /\ counted' = [counted EXCEPT !.others = @ + 1]
       ELSE UNCHANGED <<cached, counted>>
    /\ To("warming") /\ StaysCalm /\ UNCHANGED <<kept, process, sample>>

\* One k6 request of the load; only the detail case reads the cache.
LoadRequest ==
    /\ trial.at \in {"warming", "measuring"} /\ Running("performance") /\ process # 0
    /\ trial.window.requests < MaxRequests
    /\ trial' = [trial EXCEPT !.window.requests = @ + 1,
                              !.window.strays = @ + IF Detail /\ ~cached THEN 1 ELSE 0]
    /\ counted' = IF ~Detail THEN counted
                  ELSE IF cached THEN [counted EXCEPT !.hits = @ + 1]
                  ELSE [counted EXCEPT !.others = @ + 1]
    /\ cached' = (cached \/ Detail)
    /\ StaysCalm /\ UNCHANGED <<kept, process, sample>>

\* k6 exits, its summary has requests, and the script notes the time.
LoadEnds ==
    /\ trial.at \in {"warming", "measuring"} /\ Running("performance")
    /\ trial.window.requests > 0
    /\ To(IF trial.at = "warming" THEN "before" ELSE "after") /\ TakeTime
    /\ StaysCalm /\ UNCHANGED <<cached, kept, process, counted>>

\* fresh_snapshot before the measured load, whose history starts here.
SnapshotBefore ==
    /\ Measures("before") /\ Fresh
    /\ trial' = [trial EXCEPT !.at = "measuring", !.window = [Window EXCEPT !.before = sample.seen]]
    /\ StaysCalm /\ UNCHANGED <<cached, kept, scrapeVars>>

Delta(outcome) == sample.seen[outcome] - trial.window.before[outcome]

Exclusive ==
    IF Detail THEN Delta("hits") = trial.window.requests /\ Delta("others") = 0
    ELSE Delta("hits") = 0 /\ Delta("others") = 0

\* fresh_snapshot after it, and the comparison.
SnapshotAfter ==
    /\ Measures("after") /\ Fresh
    /\ IF Exclusive
       THEN /\ kept' = Append(kept, trial.window)
            /\ trial' = [number |-> trial.number + 1, at |-> "prepare", window |-> Window]
            /\ verdict' = IF trial.number = Len(Trials) THEN "passed" ELSE "running"
       ELSE Contradicted /\ UNCHANGED <<kept, trial>>
    /\ Calm /\ UNCHANGED <<script, cached, scrapeVars>>

\* A request failed, k6 timed out, or no later scrape arrived in 35 s.
TrialFails ==
    /\ Running("performance")
    /\ Raised /\ Calm
    /\ UNCHANGED <<script, trialVars, scrapeVars>>

\* The entry expires, or the application is replaced with new counters.
Disturbance ==
    /\ Running("performance") /\ Mishap
    /\ \/ cached' = FALSE /\ UNCHANGED <<process, counted>>
       \/ process' = process + 1 /\ counted' = NoCounts /\ UNCHANGED cached
    /\ UNCHANGED <<script, verdict, trial, kept, sample>>

ScrapeTrials == Running("performance") /\ Scrape /\ UNCHANGED <<harnessVars, trialVars>>

TrialStep == Prepare \/ LoadRequest \/ LoadEnds \/ SnapshotBefore \/ SnapshotAfter
-----------------------------------------------------------------------------
\* What is kept of a warm trial really was: no request of its window missed the
\* cache, although the counters are seen late and begin anew with a process.
WindowIsExact == \A i \in 1..Len(kept) : kept[i].strays = 0
=============================================================================
