----------------------- MODULE ObservabilityScenario -------------------------
(***************************************************************************)
(* verify-observability.py: requests must show up in the scraped series,   *)
(* and while Redis is stopped the application must be DOWN and still be    *)
(* scraped, which only a scrape after the outage began can tell.           *)
(***************************************************************************)
EXTENDS AcceptanceHarness, Scrapes

VARIABLES
    watch,          \* where the script is
    redisUp

observabilityVars == <<watch, redisUp>>

Statuses == {"200", "400", "401"}

ObservabilityInit == watch = "awaitUp" /\ redisUp = TRUE

Watching(at) == Running("observability") /\ watch = at
Turns(to) == watch' = to /\ Calm /\ UNCHANGED <<script, verdict>>

AwaitUp ==
    /\ Watching("awaitUp") /\ sample.up
    /\ Turns("request") /\ UNCHANGED <<redisUp, scrapeVars>>

\* An anonymous Actuator request, a search, an invalid page and an upload.
Request ==
    /\ Watching("request")
    /\ IF process = 0 THEN Raised /\ Calm /\ UNCHANGED <<script, watch, counted>>
       ELSE counted' = Statuses /\ Turns("awaitSeries")
    /\ UNCHANGED <<redisUp, process, sample>>

AwaitSeries ==
    /\ Watching("awaitSeries") /\ Statuses \subseteq sample.seen
    /\ Turns("outage") /\ UNCHANGED <<redisUp, scrapeVars>>

StopRedis ==
    /\ Watching("outage")
    /\ redisUp' = FALSE /\ TakeTime
    /\ Turns("health") /\ UNCHANGED <<process, counted>>

\* /health/ready answers 503, /health/live 200.
AskHealth ==
    /\ Watching("health")
    /\ IF process # 0 /\ ~redisUp THEN Turns("scrape")
       ELSE Raised /\ Calm /\ UNCHANGED <<script, watch>>
    /\ UNCHANGED <<redisUp, scrapeVars>>

\* The first sample after the outage began must be of a successful scrape.
OutageScrape ==
    /\ Watching("scrape") /\ sample.later
    /\ IF Fresh THEN Turns("restore")
       ELSE Contradicted /\ Calm /\ UNCHANGED <<script, watch>>
    /\ UNCHANGED <<redisUp, scrapeVars>>

StartRedis ==
    /\ Watching("restore")
    /\ redisUp' = TRUE
    /\ Turns("awaitReady") /\ UNCHANGED scrapeVars

AwaitReady ==
    /\ Watching("awaitReady") /\ redisUp /\ process # 0
    /\ verdict' = "passed" /\ Calm
    /\ UNCHANGED <<script, watch, redisUp, scrapeVars>>

\* await_series, the scrape loop and wait_ready end after 45, 30 and 90 s.
WatchTimesOut ==
    /\ Running("observability") /\ watch \in {"awaitUp", "awaitSeries", "scrape", "awaitReady"}
    /\ Raised /\ Calm
    /\ UNCHANGED <<script, watch, redisUp, scrapeVars>>

ApplicationDies ==
    /\ Running("observability") /\ Mishap /\ process # 0
    /\ process' = 0
    /\ UNCHANGED <<script, verdict, watch, redisUp, counted, sample>>

ScrapeWatched ==
    Running("observability") /\ Scrape /\ UNCHANGED <<harnessVars, observabilityVars>>

ObservabilityStep ==
    \/ AwaitUp \/ Request \/ AwaitSeries \/ StopRedis \/ AskHealth \/ OutageScrape
    \/ StartRedis \/ AwaitReady
=============================================================================
