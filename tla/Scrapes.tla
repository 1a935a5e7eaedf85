------------------------------- MODULE Scrapes -------------------------------
(***************************************************************************)
(* What a script sees of the application's counters.  Prometheus scrapes   *)
(* every five seconds and answers queries from its last samples, also when *)
(* the application does not answer, was replaced, or Prometheus itself was *)
(* restarted on its old data.  A script that needs to know the present     *)
(* takes the time and waits for a scrape that is later.                    *)
(***************************************************************************)
EXTENDS Naturals

VARIABLES
    process,        \* the application: which process it is, 0 while it is down
    counted,        \* its counters
    sample          \* the last samples in Prometheus

scrapeVars == <<process, counted, sample>>

\* later: than the time the script took; up: the scrape reached a process;
\* seen and from: the newest counters and the process they came from.
NoSample(nothing) == [later |-> FALSE, up |-> FALSE, from |-> 0, seen |-> nothing]

\* An unreachable target keeps its old counters within the lookback.
Scrape ==
    /\ sample' = IF process # 0
                 THEN [later |-> TRUE, up |-> TRUE, from |-> process, seen |-> counted]
                 ELSE [sample EXCEPT !.later = TRUE, !.up = FALSE]
    /\ UNCHANGED <<process, counted>>

\* restart_started, outage_started, finished_at_epoch
TakeTime == sample' = [sample EXCEPT !.later = FALSE]

\* Mutant: any scrape that succeeded will do.
FreshEnough == sample.up

\* timestamp(up) > the time taken, and up == 1
Fresh == sample.later /\ sample.up
=============================================================================
