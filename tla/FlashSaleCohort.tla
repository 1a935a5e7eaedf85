--------------------------- MODULE FlashSaleCohort ---------------------------
(***************************************************************************)
(* run-flash-sale-baseline.py: a finite cohort of buyers, twice as many as *)
(* units, each asking twice for the activity while one consumer persists   *)
(* the accepted orders.  The script checks k6's summary, polls until the   *)
(* orders are durable and acknowledged, reads the evidence one command     *)
(* after another and accepts the cohort only if it reconciles exactly.     *)
(***************************************************************************)
EXTENDS AcceptanceHarness, Integers, FiniteSets, SequencesExt

CONSTANTS Buyers

ASSUME CohortAssumption == IsFiniteSet(Buyers) /\ Cardinality(Buyers) % 2 = 0 /\ Buyers # {}

VARIABLES
    driver,         \* where the script is, and how much of the evidence it read
    answers,        \* per buyer, what its two requests were answered
    sale,           \* the activity, the stream and the orders
    evidence        \* what the script has read of them

cohortVars == <<driver, answers, sale, evidence>>

Stock == Cardinality(Buyers) \div 2
NoId == 0
SoldOut == [outcome |-> "sold_out", id |-> NoId]

CohortInit ==
    /\ driver = [at |-> "create", read |-> 0]
    /\ answers = [b \in Buyers |-> <<>>]
    /\ sale = [stock |-> 0, dbStock |-> 0, request |-> [b \in Buyers |-> NoId],
               participants |-> {}, stream |-> <<>>, rows |-> {},
               delivered |-> 0, pending |-> {}, dead |-> 0]
    /\ evidence = <<>>

Drives(at) == Running("flashSale") /\ driver.at = at
Drive(at) == driver' = [driver EXCEPT !.at = at]
DriverStays == UNCHANGED <<script, verdict, driver, evidence>>
-----------------------------------------------------------------------------
(* The buyers, two requests each, and the admission script                 *)

Accepted == {b \in Buyers : sale.request[b] # NoId}
NextId == Cardinality(Accepted) + 1
Event(b, id) == [order |-> id, user |-> b]

Reserve(b, events) ==
    [sale EXCEPT !.request[b] = NextId, !.participants = @ \cup {b},
                 !.stock = IF @ > 0 THEN @ - 1 ELSE 0, !.stream = @ \o events]

Tell(b, outcome, id) == answers' = [answers EXCEPT ![b] = Append(@, [outcome |-> outcome, id |-> id])]

Admit(b) ==
    \/ /\ b \in Accepted
       /\ Tell(b, "replayed", sale.request[b]) /\ UNCHANGED sale
    \/ /\ b \notin Accepted /\ sale.stock > 0
       /\ Tell(b, "new", NextId) /\ sale' = Reserve(b, <<Event(b, NextId)>>)
    \/ /\ b \notin Accepted /\ sale.stock = 0
       /\ Tell(b, "sold_out", NoId) /\ UNCHANGED sale

\* What a broken admission could do: sell too much, turn a buyer away, forget
\* or double the event, answer a replay with another order.
AdmitsWrongly(b) ==
    \/ /\ b \notin Accepted
       /\ \/ sale.stock = 0 /\ Tell(b, "new", NextId) /\ sale' = Reserve(b, <<Event(b, NextId)>>)
          \/ sale.stock > 0 /\ Tell(b, "sold_out", NoId) /\ UNCHANGED sale
          \/ sale.stock > 0 /\ Tell(b, "new", NextId) /\ sale' = Reserve(b, <<>>)
          \/ /\ sale.stock > 0 /\ Tell(b, "new", NextId)
             /\ sale' = Reserve(b, <<Event(b, NextId), Event(b, NextId)>>)
    \/ b \in Accepted /\ Tell(b, "replayed", NextId) /\ UNCHANGED sale

AskTwice(b) ==
    /\ Drives("load") /\ Len(answers[b]) < 2
    /\ \/ Admit(b) /\ Calm
       \/ AdmitsWrongly(b) /\ Mishap
    /\ DriverStays
-----------------------------------------------------------------------------
(* The consumer, one entry at a time                                       *)

Deliver ==
    /\ Running("flashSale") /\ sale.pending = {} /\ sale.delivered < Len(sale.stream)
    /\ sale' = [sale EXCEPT !.delivered = @ + 1, !.pending = {sale.delivered + 1}]
    /\ DriverStays /\ Calm /\ UNCHANGED answers

Persistent(e) == \E r \in sale.rows : r.order = e.order

\* The handler commits the order, or finds that it did before.
PersistEvent ==
    \E i \in sale.pending :
        LET e == sale.stream[i]
        IN  /\ Running("flashSale") /\ ~Persistent(e)
            /\ \/ sale' = [sale EXCEPT !.rows = @ \cup {e}, !.dbStock = @ - 1] /\ Calm
               \/ \* for somebody else, or without taking the unit
                  /\ Mishap
                  /\ \/ \E u \in Buyers \ {e.user} :
                          sale' = [sale EXCEPT !.rows = @ \cup {[e EXCEPT !.user = u]}, !.dbStock = @ - 1]
                     \/ sale' = [sale EXCEPT !.rows = @ \cup {e}]
            /\ DriverStays /\ UNCHANGED answers

AcknowledgeEvent ==
    \E i \in sale.pending :
        /\ Running("flashSale")
        /\ \/ Persistent(sale.stream[i]) /\ Calm /\ sale' = [sale EXCEPT !.pending = {}]
           \/ \* acknowledged or archived without an order
              /\ ~Persistent(sale.stream[i]) /\ Mishap
              /\ \/ sale' = [sale EXCEPT !.pending = {}]
                 \/ sale' = [sale EXCEPT !.pending = {}, !.dead = @ + 1]
        /\ DriverStays /\ UNCHANGED answers
-----------------------------------------------------------------------------
(* The script                                                              *)

CreateActivity ==
    /\ Drives("create")
    /\ sale' = [sale EXCEPT !.stock = Stock, !.dbStock = Stock]
    /\ Drive("load") /\ Calm /\ UNCHANGED <<script, verdict, answers, evidence>>

\* k6 classifies each answer; anything but new-replayed with the same order and
\* twice sold out is an unexpected outcome.
Expected(b) ==
    \/ answers[b] = <<SoldOut, SoldOut>>
    \/ /\ answers[b][1].outcome = "new" /\ answers[b][2].outcome = "replayed"
       /\ answers[b][1].id = answers[b][2].id

FirstAnswers(outcome) == Cardinality({b \in Buyers : answers[b][1].outcome = outcome})

\* validate_summary: half new and replayed, half sold out twice, nothing else.
Summary ==
    /\ \A b \in Buyers : Expected(b)
    /\ FirstAnswers("new") = Stock /\ 2 * FirstAnswers("sold_out") = Cardinality(Buyers)

LoadDone ==
    /\ Drives("load") /\ \A b \in Buyers : Len(answers[b]) = 2
    /\ IF Summary THEN Drive("poll") /\ UNCHANGED verdict
       ELSE Contradicted /\ UNCHANGED driver
    /\ Calm /\ UNCHANGED <<script, answers, sale, evidence>>

PollRows ==
    /\ Drives("poll")
    /\ IF Cardinality(sale.rows) = Stock THEN Drive("pending")
       ELSE UNCHANGED driver
    /\ Calm /\ UNCHANGED <<script, verdict, answers, sale, evidence>>

PollPending ==
    /\ Drives("pending")
    /\ Drive(IF sale.pending = {} THEN "read" ELSE "poll")
    /\ Calm /\ UNCHANGED <<script, verdict, answers, sale, evidence>>

\* Mutant: the deadline counts only while rows are missing.
OutOfTimeForRows == Drives("load") \/ Drives("poll")

\* native_run ends k6 after 50 s, the loop around both polls after 90 s.
OutOfTime == Drives("load") \/ Drives("poll") \/ Drives("pending")

CohortTimesOut ==
    /\ OutOfTime
    /\ Raised /\ Calm /\ UNCHANGED <<script, cohortVars>>

\* The reads, in this order, each at its own moment.
Reads == <<"accepted", "participants", "rows", "stream", "group", "dbStock", "stock", "dead">>

Reading(name) ==
    CASE name = "accepted" -> sale.request
      [] name = "participants" -> sale.participants
      [] name = "rows" -> sale.rows
      [] name = "stream" -> sale.stream
      [] name = "group" -> [pending |-> Cardinality(sale.pending), last |-> sale.delivered]
      [] name = "dbStock" -> sale.dbStock
      [] name = "stock" -> sale.stock
      [] name = "dead" -> sale.dead

Read ==
    /\ Drives("read") /\ driver.read < Len(Reads)
    /\ LET name == Reads[driver.read + 1]
       IN  evidence' = [x \in DOMAIN evidence \cup {name} |->
                            IF x = name THEN Reading(name) ELSE evidence[x]]
    /\ driver' = [driver EXCEPT !.read = @ + 1]
    /\ Calm /\ UNCHANGED <<script, verdict, answers, sale>>

Mapping == {Event(b, evidence["accepted"][b]) : b \in {x \in Buyers : evidence["accepted"][x] # NoId}}

\* validate_witness: the first answers are the accepted mapping.
Witness ==
    \A b \in Buyers :
        IF answers[b][1].outcome = "new" THEN evidence["accepted"][b] = answers[b][1].id
        ELSE evidence["accepted"][b] = NoId

\* Mutant: the orders are only counted.
LedgerOfCounts ==
    /\ Cardinality(Mapping) = Stock /\ Cardinality(evidence["rows"]) = Stock
    /\ Len(evidence["stream"]) = Stock
    /\ evidence["dbStock"] = 0 /\ evidence["stock"] = 0 /\ evidence["dead"] = 0
    /\ evidence["group"] = [pending |-> 0, last |-> Stock]

\* validate_ledger, and the length of the stream.
Ledger ==
    /\ Cardinality({m.order : m \in Mapping}) = Stock /\ Cardinality(Mapping) = Stock
    /\ evidence["participants"] = {m.user : m \in Mapping}
    /\ evidence["rows"] = Mapping
    /\ Len(evidence["stream"]) = Stock /\ ToSet(evidence["stream"]) = Mapping
    /\ evidence["dbStock"] = 0 /\ evidence["stock"] = 0 /\ evidence["dead"] = 0
    /\ evidence["group"] = [pending |-> 0, last |-> Len(evidence["stream"])]

Judge ==
    /\ Drives("read") /\ driver.read = Len(Reads)
    /\ verdict' = IF Witness /\ Ledger THEN "passed" ELSE "contradicted"
    /\ Calm /\ UNCHANGED <<script, cohortVars>>

ConsumerStep == Deliver \/ PersistEvent \/ AcknowledgeEvent
CohortStep == CreateActivity \/ LoadDone \/ PollRows \/ PollPending \/ Read \/ Judge
-----------------------------------------------------------------------------
\* A cohort that passed is exact at that moment and not only in the evidence
\* read bit by bit: every unit went to one buyer as one event and one order,
\* and both answers of every buyer tell the truth about it.
PassedMeansExact ==
    script = "flashSale" /\ verdict = "passed" =>
        LET orders == {Event(b, sale.request[b]) : b \in Accepted}
        IN  /\ Cardinality(Accepted) = Stock
            /\ sale.rows = orders
            /\ ToSet(sale.stream) = orders /\ Len(sale.stream) = Stock
            /\ sale.stock = 0 /\ sale.dbStock = 0 /\ sale.pending = {} /\ sale.dead = 0
            /\ \A b \in Buyers :
                answers[b] = IF b \in Accepted
                             THEN <<[outcome |-> "new", id |-> sale.request[b]],
                                    [outcome |-> "replayed", id |-> sale.request[b]]>>
                             ELSE <<SoldOut, SoldOut>>
=============================================================================
