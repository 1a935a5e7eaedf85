------------------------ MODULE DiagnosticsScenario --------------------------
(***************************************************************************)
(* verify-business-diagnostics.py: the script breaks one dependency after  *)
(* another (a mistyped Redis key, a trigger on the outbox, a trigger on    *)
(* the orders, a restart) while the recovery worker, the reconciler, the   *)
(* consumer and Prometheus go on at their own pace, and asserts what the   *)
(* stores and the scraped counters say.                                    *)
(***************************************************************************)
EXTENDS AcceptanceHarness, Scrapes, SequencesExt

VARIABLES
    stage,          \* the step of the script
    plant           \* what the system keeps in MySQL, Redis and the stream

diagnosticsVars == <<stage, plant>>

Orders == {"first", "second"}

\* epochSound: the type of cache:shop:epoch; faults: the triggers created.
DiagnosticsInit ==
    /\ stage = 1
    /\ plant = [epochSound |-> TRUE, outbox |-> "none", faults |-> {},
                order |-> [o \in Orders |-> "none"], cancellation |-> "none",
                released |-> FALSE, dbStock |-> 2, redisStock |-> 2]

Inspects == Running("diagnostics")
Up == Inspects /\ process # 0
Count(outcome) == counted' = counted \cup {outcome}
SystemMoves == UNCHANGED <<process, sample, stage>> /\ UNCHANGED harnessVars
-----------------------------------------------------------------------------
(* The system                                                              *)

\* recoverPending of ShopCacheInvalidationService
RecoverShop ==
    /\ Up /\ plant.outbox # "none"
    /\ plant' = [plant EXCEPT !.outbox = IF plant.epochSound THEN "none" ELSE "tried"]
    /\ Count(IF plant.epochSound THEN "completed" ELSE "retry_recorded")
    /\ SystemMoves

Persist(o) ==
    /\ Up /\ plant.order[o] = "admitted"
    /\ IF "insert" \in plant.faults
       THEN Count("deferred") /\ UNCHANGED plant
       ELSE /\ Count("handler_returned")
            /\ plant' = [plant EXCEPT !.order[o] = "persisted", !.dbStock = @ - 1]
    /\ SystemMoves

Acknowledge(o) ==
    /\ Up /\ plant.order[o] = "persisted"
    /\ plant' = [plant EXCEPT !.order[o] = "acknowledged"]
    /\ Count("acknowledged")
    /\ SystemMoves

\* Mutant: the marker of the release is written only with its confirmation.
ReleaseUnmarked ==
    plant' = [plant EXCEPT !.redisStock = @ + 1, !.released = TRUE, !.cancellation = "releasing"]

\* release.lua gives the unit back once, and says whether it did.
ReleaseOnce ==
    plant' = IF plant.released THEN [plant EXCEPT !.cancellation = "again"]
             ELSE [plant EXCEPT !.redisStock = @ + 1, !.released = TRUE, !.cancellation = "releasing"]

Release ==
    /\ Up /\ plant.cancellation = "due"
    /\ ReleaseOnce
    /\ SystemMoves /\ UNCHANGED counted

\* complete() of the reconciler; the row stays PENDING under its lease.
Complete ==
    /\ Up /\ plant.cancellation \in {"releasing", "again"}
    /\ IF "completion" \in plant.faults
       THEN Count("entry_failure") /\ plant' = [plant EXCEPT !.cancellation = "leased"]
       ELSE /\ Count(IF plant.cancellation = "again" THEN "already_released" ELSE "released")
            /\ plant' = [plant EXCEPT !.cancellation = "completed"]
    /\ SystemMoves

LeaseEnds ==
    /\ Up /\ plant.cancellation = "leased"
    /\ plant' = [plant EXCEPT !.cancellation = "due"]
    /\ SystemMoves /\ UNCHANGED counted

ScrapePrometheus == Inspects /\ Scrape /\ UNCHANGED <<stage, plant>> /\ UNCHANGED harnessVars

\* The script is so slow that a budget of twenty or ten attempts runs out.
BudgetEnds ==
    /\ Up /\ Mishap
    /\ \/ \E o \in Orders :
            /\ plant.order[o] = "admitted" /\ "insert" \in plant.faults
            /\ plant' = [plant EXCEPT !.order[o] = "dead"]
       \/ plant.cancellation = "due" /\ plant' = [plant EXCEPT !.cancellation = "review"]
    /\ UNCHANGED <<scrapeVars, stage, script, verdict>>

PlantStep ==
    \/ RecoverShop \/ Release \/ Complete \/ LeaseEnds \/ ScrapePrometheus \/ BudgetEnds
    \/ \E o \in Orders : Persist(o) \/ Acknowledge(o)
-----------------------------------------------------------------------------
(* The script                                                              *)

Do(what) == [kind |-> "do", what |-> what]
Await(what) == [kind |-> "await", what |-> what]
AwaitMetric(outcome) == [kind |-> "awaitMetric", what |-> outcome]
Require(what) == [kind |-> "assert", what |-> what]

\* One broken dependency after another, up to the restart of the application ...
UntilRestart == <<
    Await("up"),
    Do("break_epoch"), Do("update_shop"), Await("retried"),
    AwaitMetric("callback_failed"), AwaitMetric("retry_recorded"), Require("not_completed"),
    Do("repair_epoch"), Await("outbox_empty"), AwaitMetric("completed"),
    Do("admit_first"), Await("first_persisted"),
    AwaitMetric("handler_returned"), AwaitMetric("acknowledged"),
    Do("break_completion"), Do("cancel_first"), Await("released"), AwaitMetric("entry_failure"),
    Require("unit_back_row_pending"), Do("repair_completion"),
    Await("completed"), AwaitMetric("already_released"), Require("unit_back_once"),
    Do("break_insert"), Do("admit_second"), AwaitMetric("deferred"), Require("second_pending"),
    Do("stop"), Do("repair_insert"), Do("start") >>

\* ... and what is read behind it.
BehindRestart == <<
    Await("fresh"), Await("second_persisted"), Require("one_unit_sold"), Await("second_acknowledged"),
    AwaitMetric("acknowledged"), Await("counters_reset") >>

Scenario == UntilRestart \o BehindRestart

FreshStage == Len(UntilRestart) + 1

Metric(outcome) == outcome \in sample.seen
Zero(outcome) == sample.from # 0 /\ ~Metric(outcome)
Persisted(o) == plant.order[o] \in {"persisted", "acknowledged"}

True(what) ==
    CASE what = "up" -> sample.up
      [] what = "retried" -> plant.outbox = "tried"
      [] what = "not_completed" -> Zero("completed")
      [] what = "outbox_empty" -> plant.outbox = "none"
      [] what = "first_persisted" -> Persisted("first")
      [] what = "released" -> plant.released
      [] what = "unit_back_row_pending" ->
            /\ plant.cancellation \in {"due", "releasing", "again", "leased"}
            /\ plant.redisStock = 2 /\ Zero("released")
      [] what = "completed" -> plant.cancellation = "completed"
      [] what = "unit_back_once" -> plant.redisStock = 2 /\ plant.dbStock = 2
      [] what = "second_pending" -> plant.order["second"] = "admitted"
      [] what = "fresh" -> Fresh
      [] what = "second_persisted" -> Persisted("second")
      [] what = "one_unit_sold" -> plant.redisStock = 1 /\ plant.dbStock = 1
      [] what = "second_acknowledged" -> plant.order["second"] = "acknowledged"
      [] what = "counters_reset" -> Zero("already_released")

Keeps(p) == plant' = p /\ UNCHANGED scrapeVars

\* The requests and statements of the script; each is one transaction.
Effect(what) ==
    \/ what = "break_epoch" /\ Keeps([plant EXCEPT !.epochSound = FALSE])
    \/ what = "repair_epoch" /\ Keeps([plant EXCEPT !.epochSound = TRUE])
    \/ \* the row is committed, and the callback after the commit fails
       /\ what = "update_shop"
       /\ plant' = [plant EXCEPT !.outbox = "queued"]
       /\ Count("callback_failed") /\ UNCHANGED <<process, sample>>
    \/ /\ what = "admit_first"
       /\ Keeps([plant EXCEPT !.order["first"] = "admitted", !.redisStock = @ - 1])
    \/ /\ what = "admit_second"
       /\ Keeps([plant EXCEPT !.order["second"] = "admitted", !.redisStock = @ - 1])
    \/ what = "cancel_first" /\ Keeps([plant EXCEPT !.cancellation = "due", !.dbStock = @ + 1])
    \/ what = "break_completion" /\ Keeps([plant EXCEPT !.faults = {"completion"}])
    \/ what = "break_insert" /\ Keeps([plant EXCEPT !.faults = {"insert"}])
    \/ what = "repair_insert" /\ Keeps([plant EXCEPT !.faults = {}])
    \/ \* DROP TRIGGER, and the lease is moved to the past
       /\ what = "repair_completion"
       /\ Keeps([plant EXCEPT !.faults = {}, !.cancellation = IF @ = "leased" THEN "due" ELSE @])
    \/ what = "stop" /\ process' = 0 /\ UNCHANGED <<plant, counted, sample>>
    \/ what = "start" /\ process' = 2 /\ counted' = {} /\ TakeTime /\ UNCHANGED plant

OnStage(kind) == Inspects /\ stage <= Len(Scenario) /\ Scenario[stage].kind = kind
What == Scenario[stage].what

Advance ==
    /\ stage' = stage + 1
    /\ verdict' = IF stage = Len(Scenario) THEN "passed" ELSE verdict
    /\ Calm /\ UNCHANGED script

\* A stopped application finishes the step it is in.
Carry ==
    /\ OnStage("do")
    /\ Effect(What)
    /\ Advance

\* eventually() and await_metric() poll the condition ...
Observe ==
    /\ \/ OnStage("await") /\ True(What)
       \/ OnStage("awaitMetric") /\ Metric(What)
    /\ Advance /\ UNCHANGED <<scrapeVars, plant>>

\* ... and give up at their deadline.
GiveUp ==
    /\ \/ OnStage("await") /\ ~True(What)
       \/ OnStage("awaitMetric") /\ ~Metric(What)
    /\ Raised /\ Calm
    /\ UNCHANGED <<script, stage, scrapeVars, plant>>

AssertNow ==
    /\ OnStage("assert")
    /\ IF True(What) THEN Advance
       ELSE Contradicted /\ Calm /\ UNCHANGED <<script, stage>>
    /\ UNCHANGED <<scrapeVars, plant>>

InspectionStep == Carry \/ Observe \/ GiveUp \/ AssertNow
-----------------------------------------------------------------------------
\* Behind the fresh scrape every counter the script reads is of the process it
\* restarted, although Prometheus answers from the old one's samples as well.
RestartIsSeen == stage > FreshStage => sample.from = 2
=============================================================================
