-------------------------- MODULE AcceptanceProofs ---------------------------
(***************************************************************************)
(* Proofs about the scripts of src/scripts as a whole, for any number of   *)
(* mishaps, buyers and requests and whichever script runs, and about the   *)
(* handlers the acceptance checks refuse commands to.                      *)
(*                                                                         *)
(* The state of a body belongs to one script, and a body touches nothing   *)
(* of the project around it (StepsAreOwned); so the invariants of the      *)
(* project, the cohort, the trial and the scenario are each disturbed by   *)
(* steps of their own module only.  They hold whatever goes wrong; CalmInv *)
(* says what else each system does as long as nothing went wrong.          *)
(***************************************************************************)
EXTENDS AcceptanceScripts, DeniedCommands, FiniteSetTheorems, SequenceTheorems, TLAPS

\* What happens around a body, and in the body of each script with the system under it.
AroundBody == ProjectStep \/ ProjectMishap
Acceptance == ChecksStep \/ ChecksTtlEnds \/ WorkerRecovers \/ AppBoots \/ CheckTimesOut
Diagnostics == InspectionStep \/ PlantStep
Observation == ObservabilityStep \/ ApplicationDies \/ ScrapeWatched \/ WatchTimesOut
Measurement == TrialStep \/ Disturbance \/ ScrapeTrials \/ TrialFails
Sale == CohortStep \/ ConsumerStep \/ (\E b \in Buyers : AskTwice(b)) \/ CohortTimesOut

LEMMA AroundBodyKeeps ==
    AroundBody => script' = script /\ verdict' \in {verdict, "raised"}
BY DEF AroundBody, ProjectStep, ProjectMishap, Refuse, Begin, StartUp, EndBody, ReadLogs, Down, Verify,
       Digest, ReadExports, Gate, WriteRaws, WriteManifest, StartFails, Interrupt, WriteFails, Killed,
       ExportChanges, BodyStays, Raised

LEMMA AcceptanceIsOwned == Acceptance => script = "acceptance" /\ script' = script
BY DEF Acceptance, ChecksStep, ArrangeStep, AskStep, HoldsStep, UntilStep, DenyStep, AllowStep, NextCheck,
       CallFails, ChecksTtlEnds, WorkerRecovers, AppBoots, CheckTimesOut, At, InCheck, Running

LEMMA DiagnosticsIsOwned == Diagnostics => script = "diagnostics" /\ script' = script
BY DEF Diagnostics, InspectionStep, Carry, Observe, GiveUp, AssertNow, Advance, OnStage, Inspects, Up,
       PlantStep, RecoverShop, Persist, Acknowledge, Release, Complete, LeaseEnds, ScrapePrometheus,
       BudgetEnds, SystemMoves, harnessVars, Running

LEMMA ObservationIsOwned == Observation => script = "observability" /\ script' = script
BY DEF Observation, ObservabilityStep, AwaitUp, Request, AwaitSeries, StopRedis, AskHealth, OutageScrape,
       StartRedis, AwaitReady, ApplicationDies, ScrapeWatched, WatchTimesOut, Watching, Turns,
       harnessVars, Running

LEMMA MeasurementIsOwned == Measurement => script = "performance" /\ script' = script
BY DEF Measurement, TrialStep, Prepare, LoadRequest, LoadEnds, SnapshotBefore, SnapshotAfter, TrialFails,
       Disturbance, ScrapeTrials, Measures, StaysCalm, harnessVars, Running

LEMMA SaleIsOwned == Sale => script = "flashSale" /\ script' = script
BY DEF Sale, CohortStep, CreateActivity, LoadDone, PollRows, PollPending, Read, Judge, ConsumerStep,
       Deliver, PersistEvent, AcknowledgeEvent, AskTwice, CohortTimesOut, OutOfTime, Drives, DriverStays,
       Running

\* A step is one around the body or one of the script that runs, and leaves the others' state alone.
LEMMA StepsAreOwned ==
    ASSUME ScriptsNext
    PROVE  /\ script' = script
           /\ \/ AroundBody /\ UNCHANGED bodyVars
              \/ /\ phase = "body" /\ UNCHANGED projectVars
                 /\ \/ Acceptance /\ script = "acceptance" /\ Checking
                    \/ Diagnostics /\ script = "diagnostics" /\ Diagnosing
                    \/ Observation /\ script = "observability" /\ Observing
                    \/ Measurement /\ script = "performance" /\ Measuring
                    \/ Sale /\ script = "flashSale" /\ Selling
<1>1. \/ AroundBody /\ UNCHANGED bodyVars
      \/ /\ phase = "body" /\ UNCHANGED projectVars
         /\ \/ Acceptance /\ Checking
            \/ Diagnostics /\ Diagnosing
            \/ Observation /\ Observing
            \/ Measurement /\ Measuring
            \/ Sale /\ Selling
    BY DEF ScriptsNext, ScriptStep, InBody, BodyStep, SystemStep, Deadline, AroundBody, Acceptance,
           Diagnostics, Observation, Measurement, Sale
<1> QED BY <1>1, AroundBodyKeeps, AcceptanceIsOwned, DiagnosticsIsOwned, ObservationIsOwned,
           MeasurementIsOwned, SaleIsOwned
-----------------------------------------------------------------------------
(* The project around the body                                             *)

Contents == {Measured, Nothing, "changed"}

Underway == {"starting", "body", "logs", "down", "verify"}
Publishing == {"digest", "read", "gate", "writing", "manifest"}

ProjectTypeOK ==
    /\ phase \in {"checking"} \cup Underway \cup Publishing \cup Ends
    /\ exports \in [file : Contents, digest : Contents, content : Contents]
    /\ published \in [raw : Contents, manifest : BOOLEAN]

\* Once a run has begun, or may have, its machine is fit for any script.
FitForAll ==
    machine.lacks = {} /\ machine.leftOver \cap {"containers", "volumes"} = {}

MachineInv ==
    /\ phase = "checking" => machine.lacks \subseteq Needs(script)
    /\ phase \in {"checking", "refused"} => present = machine.leftOver
    /\ phase \in Underway \cup Publishing \cup {"failed", "succeeded"} => FitForAll
    /\ phase = "killed" => FitForAll \/ present = machine.leftOver

\* Nothing is published of a run that still can change its verdict.
PublicationInv ==
    /\ phase \in Publishing \cup {"succeeded"} => verdict = "passed" /\ present = {}
    /\ phase \in Underway \cup {"checking"} => ~published.manifest
    /\ phase = "writing" =>
        /\ exports.content = exports.digest
        /\ script = "flashSale" => exports.content = Measured
    /\ phase = "manifest" =>
        /\ published.raw = exports.digest
        /\ script = "flashSale" => published.raw = Measured
    /\ published.manifest =>
        /\ phase \in Ends
        /\ verdict = "passed" /\ present = {}
        /\ published.raw = exports.digest
        /\ script = "flashSale" => published.raw = Measured

ProjectInv == ProjectTypeOK /\ MachineInv /\ PublicationInv

LEMMA ProjectInvImpliesHonesty == ProjectInv => EndsAreHonest
BY DEF ProjectInv, ProjectTypeOK, MachineInv, PublicationInv, EndsAreHonest, Fit, FitForAll,
       Publishing, Underway, Ends

LEMMA ProjectInitInv == ProjectInit => ProjectInv
<1> SUFFICES ASSUME ProjectInit PROVE ProjectInv
    OBVIOUS
<1>1. ProjectTypeOK
    BY DEF ProjectInit, ProjectTypeOK, Contents, Ends
<1>2. machine.lacks \subseteq Needs(script)
    BY DEF ProjectInit
<1>3. MachineInv
    BY <1>2 DEF ProjectInit, MachineInv, Underway, Publishing
<1>4. PublicationInv
    BY DEF ProjectInit, PublicationInv, Underway, Publishing
<1> QED BY <1>1, <1>3, <1>4 DEF ProjectInv
-----------------------------------------------------------------------------
\* The body of a script and the system under it touch nothing of the project;
\* while they run nothing is published and the machine fits any script, so the
\* verdict they reach changes nothing that is claimed.
LEMMA BodyPreserves ==
    ASSUME ProjectInv, phase = "body", UNCHANGED projectVars, script' = script
    PROVE  ProjectInv'
<1> USE DEF projectVars
<1>1. ProjectTypeOK'
    BY DEF ProjectInv, ProjectTypeOK
<1>2. MachineInv'
    BY DEF ProjectInv, MachineInv, FitForAll, Underway, Publishing
<1>3. PublicationInv'
    BY DEF ProjectInv, PublicationInv, Underway, Publishing, Ends
<1> QED BY <1>1, <1>2, <1>3 DEF ProjectInv

LEMMA ProjectStepPreserves == ProjectInv /\ ProjectStep => ProjectInv'
<1> SUFFICES ASSUME ProjectInv, ProjectStep PROVE ProjectInv'
    OBVIOUS
<1> USE DEF ProjectInv, ProjectTypeOK, MachineInv, PublicationInv, Underway, Publishing, Ends,
            Moves, BodyStays, Calm
<1>1. CASE Refuse
    BY <1>1 DEF Refuse, Raised
<1>2. CASE Begin
    BY <1>2 DEF Begin, Fit, FitForAll
<1>3. CASE StartUp
    BY <1>3 DEF StartUp, FitForAll
<1>4. CASE EndBody
    BY <1>4 DEF EndBody, FitForAll
<1>5. CASE ReadLogs
    BY <1>5 DEF ReadLogs, FitForAll
<1>6. CASE Down
    BY <1>6 DEF Down, FitForAll
<1>7. CASE Verify
    BY <1>7 DEF Verify, FitForAll
<1>8. CASE Digest
    BY <1>8 DEF Digest, FitForAll
<1>9. CASE ReadExports
    BY <1>9 DEF ReadExports, FitForAll
<1>10. CASE Gate
    BY <1>10 DEF Gate, FitForAll
<1>11. CASE WriteRaws
    BY <1>11 DEF WriteRaws, FitForAll
<1>12. CASE WriteManifest
    BY <1>12 DEF WriteManifest, FitForAll
<1> QED BY <1>1, <1>2, <1>3, <1>4, <1>5, <1>6, <1>7, <1>8, <1>9, <1>10, <1>11, <1>12
        DEF ProjectStep

LEMMA ProjectMishapPreserves == ProjectInv /\ ProjectMishap => ProjectInv'
<1> SUFFICES ASSUME ProjectInv, ProjectMishap PROVE ProjectInv'
    OBVIOUS
<1> USE DEF ProjectInv, ProjectTypeOK, MachineInv, PublicationInv, Underway, Publishing, Ends,
            Moves, BodyStays, FitForAll
<1>1. CASE StartFails
    BY <1>1 DEF StartFails, Raised
<1>2. CASE Interrupt
    BY <1>2, BodyPreserves DEF Interrupt
<1>3. CASE WriteFails
    BY <1>3 DEF WriteFails
<1>4. CASE Killed
    BY <1>4 DEF Killed
<1>5. CASE ExportChanges
    BY <1>5 DEF ExportChanges, Contents
<1> QED BY <1>1, <1>2, <1>3, <1>4, <1>5 DEF ProjectMishap

LEMMA ProjectNextInv == ProjectInv /\ [ScriptsNext]_scriptsVars => ProjectInv'
<1> SUFFICES ASSUME ProjectInv, [ScriptsNext]_scriptsVars PROVE ProjectInv'
    OBVIOUS
<1>1. CASE ScriptsNext
    BY <1>1, StepsAreOwned, ProjectStepPreserves, ProjectMishapPreserves, BodyPreserves DEF AroundBody
<1>2. CASE UNCHANGED scriptsVars
    BY <1>2 DEF scriptsVars, harnessVars, projectVars, ProjectInv, ProjectTypeOK, MachineInv,
                PublicationInv, FitForAll
<1> QED BY <1>1, <1>2

\* However a script ends, by itself, interrupted or killed, with a failing
\* removal or a changed export: a machine that does not fit stays as it was
\* found, and a manifest stands only over a passed and cleaned-up run.
THEOREM EveryEndIsHonest == ScriptsSpec => []EndsAreHonest
<1>1. ScriptsInit => ProjectInv
    BY ProjectInitInv DEF ScriptsInit
<1> QED BY <1>1, ProjectNextInv, ProjectInvImpliesHonesty, PTL DEF ScriptsSpec
-----------------------------------------------------------------------------
(* The cohort of the flash-sale baseline                                   *)

AnswerRecords == [outcome : {"new", "replayed", "sold_out"}, id : Nat]
EventRecords == [order : Nat, user : Buyers]

CohortTypeOK ==
    /\ answers \in [Buyers -> Seq(AnswerRecords)]
    /\ sale \in [stock : Nat, dbStock : Int, request : [Buyers -> Nat], participants : SUBSET Buyers,
                 stream : Seq(EventRecords), rows : SUBSET EventRecords, delivered : Nat,
                 pending : SUBSET Nat, dead : Nat]
    /\ sale.pending \subseteq {sale.delivered} /\ sale.delivered <= Len(sale.stream)
    /\ \A i \in sale.pending : i \in 1..Len(sale.stream)
    /\ driver \in [at : {"create", "load", "poll", "pending", "read"}, read : 0..8]

\* Only the first answer of an accepted buyer is new, and an order has a number.
AnswersInv ==
    \A b \in Buyers : \A i \in 1..Len(answers[b]) :
        answers[b][i].outcome = "new" => answers[b][i].id # NoId

\* After the load the buyers are done, and k6's summary was as expected.
LoadedInv ==
    /\ driver.at \in {"poll", "pending", "read"} => Summary /\ \A b \in Buyers : Len(answers[b]) = 2
    /\ driver.read > 0 => driver.at = "read"

\* Every event of the stream has its order among the rows as they were read.
RowsComplete ==
    \A i \in 1..Len(sale.stream) : \E r \in evidence["rows"] : r.order = sale.stream[i].order

\* The group as it was read had delivered and acknowledged everything.
GroupQuiet == evidence["group"].pending = 0 /\ evidence["group"].last = Len(sale.stream)

\* What was read of the activity stays true, and so does what was read of the
\* consumer's side as soon as it says that nothing is left to do.
EvidenceInv ==
    /\ DOMAIN evidence = {Reads[i] : i \in 1..driver.read}
    /\ driver.read >= 1 => evidence["accepted"] = sale.request
    /\ driver.read >= 3 => /\ evidence["rows"] \subseteq sale.rows
                           /\ RowsComplete => sale.rows = evidence["rows"]
    /\ driver.read >= 4 => evidence["stream"] = sale.stream
    /\ driver.read >= 5 /\ GroupQuiet =>
        /\ sale.pending = {} /\ sale.delivered = Len(sale.stream)
        /\ driver.read >= 6 => evidence["dbStock"] = sale.dbStock
        /\ driver.read >= 8 => evidence["dead"] = sale.dead
    /\ driver.read >= 7 => evidence["stock"] = sale.stock

PassedInv ==
    script = "flashSale" /\ verdict = "passed" => driver.read = 8 /\ Witness /\ Ledger

CohortInv ==
    /\ script \in Scripts
    /\ CohortTypeOK /\ AnswersInv /\ LoadedInv /\ EvidenceInv /\ PassedInv

LEMMA StockIsNat == Stock \in Nat /\ IsFiniteSet(Buyers) /\ Cardinality(Buyers) \in Nat
<1>1. IsFiniteSet(Buyers) /\ Cardinality(Buyers) \in Nat
    BY CohortAssumption, FS_CardinalityType
<1> QED BY <1>1, SMT DEF Stock

LEMMA NextIdIsNew == NextId \in Nat \ {0} /\ NextId # NoId
<1>1. Accepted \in SUBSET Buyers
    BY DEF Accepted
<1>2. Cardinality(Accepted) \in Nat
    BY <1>1, StockIsNat, FS_Subset, FS_CardinalityType
<1> QED BY <1>2 DEF NextId, NoId

LEMMA CohortInitInv == ScriptsInit => CohortInv
<1> SUFFICES ASSUME ScriptsInit PROVE CohortInv
    OBVIOUS
<1>0. /\ driver = [at |-> "create", read |-> 0]
      /\ answers = [b \in Buyers |-> <<>>]
      /\ sale = [stock |-> 0, dbStock |-> 0, request |-> [b \in Buyers |-> NoId],
                 participants |-> {}, stream |-> <<>>, rows |-> {},
                 delivered |-> 0, pending |-> {}, dead |-> 0]
      /\ evidence = <<>> /\ verdict = "running" /\ script \in Scripts
    BY DEF ScriptsInit, CohortInit, ProjectInit
<1>1. CohortTypeOK
    BY <1>0, EmptySeq DEF CohortTypeOK, NoId
<1>2. AnswersInv
    BY <1>0 DEF AnswersInv
<1>3. LoadedInv /\ PassedInv
    BY <1>0 DEF LoadedInv, PassedInv
<1>4. EvidenceInv
    <2>1. DOMAIN evidence = {} /\ 1..driver.read = {}
        BY <1>0
    <2> QED BY <1>0, <2>1 DEF EvidenceInv
<1> QED BY <1>0, <1>1, <1>2, <1>3, <1>4 DEF CohortInv

\* Whatever a buyer is answered, rightly or wrongly, changes sale and answers in this form.
LEMMA AskingIsOneAnswer ==
    ASSUME CohortInv, NEW b \in Buyers, AskTwice(b)
    PROVE  /\ Drives("load") /\ DriverStays
           /\ \E a \in AnswerRecords : /\ a.outcome = "new" => a.id # NoId
                                       /\ answers' = [answers EXCEPT ![b] = Append(@, a)]
           /\ \/ UNCHANGED sale
              \/ \E events \in Seq(EventRecords) : sale' = Reserve(b, events)
<1>1. Drives("load") /\ DriverStays /\ (Admit(b) \/ AdmitsWrongly(b))
    BY DEF AskTwice
<1>2. NextId \in Nat \ {0} /\ NextId # NoId /\ sale.request[b] \in Nat /\ NoId \in Nat
    BY NextIdIsNew DEF CohortInv, CohortTypeOK, NoId
<1>3. ASSUME NEW outcome \in {"new", "replayed", "sold_out"}, NEW id \in Nat, Tell(b, outcome, id),
             outcome = "new" => id # NoId
      PROVE  \E a \in AnswerRecords : /\ a.outcome = "new" => a.id # NoId
                                      /\ answers' = [answers EXCEPT ![b] = Append(@, a)]
    <2>1. [outcome |-> outcome, id |-> id] \in AnswerRecords
        BY DEF AnswerRecords
    <2>2. answers' = [answers EXCEPT ![b] = Append(@, [outcome |-> outcome, id |-> id])]
        BY <1>3 DEF Tell
    <2> QED BY <1>3, <2>1, <2>2
<1>4. \E a \in AnswerRecords : /\ a.outcome = "new" => a.id # NoId
                               /\ answers' = [answers EXCEPT ![b] = Append(@, a)]
    BY <1>1, <1>2, <1>3 DEF Admit, AdmitsWrongly
<1>5. /\ <<Event(b, NextId)>> \in Seq(EventRecords)
      /\ <<Event(b, NextId), Event(b, NextId)>> \in Seq(EventRecords)
      /\ <<>> \in Seq(EventRecords)
    <2>1. Event(b, NextId) \in EventRecords
        BY <1>2 DEF Event, EventRecords
    <2> HIDE DEF EventRecords
    <2> QED BY <2>1
<1>6. UNCHANGED sale \/ \E events \in Seq(EventRecords) : sale' = Reserve(b, events)
    BY <1>1, <1>5 DEF Admit, AdmitsWrongly
<1> QED BY <1>1, <1>4, <1>6

LEMMA AskTwiceKeeps ==
    ASSUME CohortInv, NEW b \in Buyers, AskTwice(b)
    PROVE  CohortInv'
<1>1. /\ script = "flashSale" /\ verdict = "running" /\ driver.at = "load" /\ driver.read = 0
      /\ UNCHANGED <<script, verdict, driver, evidence>>
    BY AskingIsOneAnswer DEF Drives, Running, DriverStays, CohortInv, LoadedInv, CohortTypeOK
<1>2. PICK a \in AnswerRecords : /\ a.outcome = "new" => a.id # NoId
                                 /\ answers' = [answers EXCEPT ![b] = Append(@, a)]
    BY AskingIsOneAnswer
<1>3. /\ answers \in [Buyers -> Seq(AnswerRecords)] /\ AnswersInv
    BY DEF CohortInv, CohortTypeOK
<1>4. answers' \in [Buyers -> Seq(AnswerRecords)] /\ AnswersInv'
    <2>1. Append(answers[b], a) \in Seq(AnswerRecords)
        <3> HIDE DEF AnswerRecords
        <3> QED BY <1>3, AppendProperties
    <2>2. answers' \in [Buyers -> Seq(AnswerRecords)]
        <3> HIDE DEF AnswerRecords
        <3> QED BY <1>2, <1>3, <2>1
    <2>3. ASSUME NEW c \in Buyers, NEW i \in 1..Len(answers'[c]), answers'[c][i].outcome = "new"
          PROVE  answers'[c][i].id # NoId
        <3>1. CASE c # b
            BY <1>2, <1>3, <2>3, <3>1 DEF AnswersInv
        <3>2. CASE c = b
            <4>1. answers'[c] = Append(answers[b], a)
                BY <1>2, <1>3, <3>2
            <4>2. /\ Len(answers'[c]) = Len(answers[b]) + 1 /\ Len(answers[b]) \in Nat
                  /\ \A j \in 1..Len(answers[b]) : answers'[c][j] = answers[b][j]
                  /\ answers'[c][Len(answers[b]) + 1] = a
                <5> HIDE DEF AnswerRecords
                <5> QED BY <1>3, <4>1, AppendProperties
            <4>3. i \in 1..Len(answers[b]) \/ i = Len(answers[b]) + 1
                BY <4>2
            <4> QED BY <1>2, <1>3, <2>3, <4>2, <4>3 DEF AnswersInv
        <3> QED BY <3>1, <3>2
    <2> QED BY <2>2, <2>3 DEF AnswersInv
<1>5. CohortTypeOK'
    <2>1. CASE UNCHANGED sale
        BY <1>1, <1>4, <2>1 DEF CohortInv, CohortTypeOK
    <2>2. CASE \E events \in Seq(EventRecords) : sale' = Reserve(b, events)
        <3>1. PICK events \in Seq(EventRecords) : sale' = Reserve(b, events)
            BY <2>2
        <3>2. /\ sale.stream \o events \in Seq(EventRecords)
              /\ Len(sale.stream \o events) = Len(sale.stream) + Len(events)
              /\ Len(events) \in Nat /\ Len(sale.stream) \in Nat
            <4> HIDE DEF EventRecords
            <4> QED BY ConcatProperties DEF CohortInv, CohortTypeOK
        <3> DEFINE stock == IF sale.stock > 0 THEN sale.stock - 1 ELSE 0
                   requests == [sale.request EXCEPT ![b] = NextId]
                   stream == sale.stream \o events
        <3>3. stock \in Nat /\ requests \in [Buyers -> Nat]
            BY NextIdIsNew DEF CohortInv, CohortTypeOK
        <3>4. sale' = [sale EXCEPT !.request = requests, !.participants = @ \cup {b},
                                   !.stock = stock, !.stream = stream]
            BY <3>1 DEF Reserve, CohortInv, CohortTypeOK
        <3> HIDE DEF stock, requests, stream, EventRecords
        <3>5. /\ sale' \in [stock : Nat, dbStock : Int, request : [Buyers -> Nat],
                            participants : SUBSET Buyers, stream : Seq(EventRecords),
                            rows : SUBSET EventRecords, delivered : Nat,
                            pending : SUBSET Nat, dead : Nat]
              /\ sale'.pending = sale.pending /\ sale'.delivered = sale.delivered
              /\ sale'.stream = stream
            BY <3>2, <3>3, <3>4 DEF CohortInv, CohortTypeOK, stream
        <3>6. Len(sale.stream) <= Len(stream)
            BY <3>2 DEF stream
        <3>7. sale.delivered <= Len(stream) /\ \A i \in sale.pending : i \in 1..Len(stream)
            BY <3>2, <3>6 DEF CohortInv, CohortTypeOK, stream
        <3> QED BY <1>1, <1>4, <3>5, <3>7 DEF CohortInv, CohortTypeOK
    <2> QED BY <2>1, <2>2, AskingIsOneAnswer
<1>6. LoadedInv' /\ EvidenceInv' /\ PassedInv'
    <2>1. LoadedInv' /\ PassedInv'
        BY <1>1 DEF LoadedInv, PassedInv
    <2>2. EvidenceInv'
        BY <1>1 DEF CohortInv, EvidenceInv
    <2> QED BY <2>1, <2>2
<1> QED BY <1>1, <1>4, <1>5, <1>6 DEF CohortInv

\* A step of the consumer touches rows, units and deliveries only.
LEMMA ConsumerKeeps ==
    ASSUME CohortInv, ConsumerStep
    PROVE  CohortInv'
<1>1. /\ script = "flashSale" /\ verdict = "running"
      /\ UNCHANGED <<script, verdict, driver, evidence, answers>>
    BY DEF ConsumerStep, Deliver, PersistEvent, AcknowledgeEvent, Running, DriverStays
<1> DEFINE Kept == /\ sale'.request = sale.request /\ sale'.stream = sale.stream
                   /\ sale'.stock = sale.stock
<1>2. ASSUME Kept, CohortTypeOK', EvidenceInv' PROVE CohortInv'
    <2>1. AnswersInv' /\ LoadedInv' /\ PassedInv'
        BY <1>1 DEF CohortInv, AnswersInv, LoadedInv, PassedInv, Summary, Expected, FirstAnswers
    <2> QED BY <1>1, <1>2, <2>1 DEF CohortInv
<1>t. CohortTypeOK /\ EvidenceInv
    BY DEF CohortInv
<1> USE DEF EventRecords
<1>3. CASE Deliver
    <2>1. /\ sale.pending = {} /\ sale.delivered < Len(sale.stream)
          /\ sale' = [sale EXCEPT !.delivered = @ + 1, !.pending = {sale.delivered + 1}]
        BY <1>3 DEF Deliver
    <2>2. Kept /\ sale'.rows = sale.rows
        BY <1>t, <2>1 DEF CohortTypeOK
    <2>3. Len(sale.stream) \in Nat
        BY <1>t DEF CohortTypeOK
    <2> HIDE DEF EventRecords
    <2>4. CohortTypeOK'
        <3>1. sale.delivered + 1 \in 1..Len(sale.stream) /\ sale.delivered + 1 \in Nat
            BY <1>t, <2>1, <2>3 DEF CohortTypeOK
        <3>2. /\ sale'.delivered = sale.delivered + 1 /\ sale'.pending = {sale.delivered + 1}
              /\ sale'.stream = sale.stream
            BY <1>t, <2>1 DEF CohortTypeOK
        <3>3. sale' \in [stock : Nat, dbStock : Int, request : [Buyers -> Nat],
                         participants : SUBSET Buyers, stream : Seq(EventRecords),
                         rows : SUBSET EventRecords, delivered : Nat,
                         pending : SUBSET Nat, dead : Nat]
            BY <1>t, <2>1, <3>1 DEF CohortTypeOK
        <3> QED BY <1>1, <1>t, <3>1, <3>2, <3>3 DEF CohortTypeOK
    <2>5. ~(driver.read >= 5 /\ GroupQuiet)
        BY <1>t, <2>1, <2>3 DEF EvidenceInv, CohortTypeOK
    <2>6. EvidenceInv'
        BY <1>1, <1>t, <2>2, <2>5 DEF EvidenceInv, RowsComplete, GroupQuiet
    <2> QED BY <1>2, <2>2, <2>4, <2>6
<1>4. CASE PersistEvent
    <2>1. PICK i \in sale.pending :
            /\ ~Persistent(sale.stream[i])
            /\ \E x \in EventRecords, d \in Int :
                  /\ x.order = sale.stream[i].order
                  /\ sale' = [sale EXCEPT !.rows = @ \cup {x}, !.dbStock = d]
        <3>1. PICK i \in sale.pending :
                /\ ~Persistent(sale.stream[i])
                /\ \/ sale' = [sale EXCEPT !.rows = @ \cup {sale.stream[i]}, !.dbStock = @ - 1]
                   \/ \E u \in Buyers \ {sale.stream[i].user} :
                        sale' = [sale EXCEPT !.rows = @ \cup {[sale.stream[i] EXCEPT !.user = u]},
                                             !.dbStock = @ - 1]
                   \/ sale' = [sale EXCEPT !.rows = @ \cup {sale.stream[i]}]
            BY <1>4 DEF PersistEvent
        <3>2. sale.stream[i] \in EventRecords /\ sale.dbStock \in Int /\ sale.dbStock - 1 \in Int
            <4> HIDE DEF EventRecords
            <4> QED BY <1>t DEF CohortTypeOK
        <3>3. sale = [sale EXCEPT !.dbStock = @]
            BY <1>t DEF CohortTypeOK
        <3>4. ASSUME NEW x \in EventRecords, NEW d \in Int, x.order = sale.stream[i].order,
                     sale' = [sale EXCEPT !.rows = @ \cup {x}, !.dbStock = d]
              PROVE  \E y \in EventRecords, c \in Int :
                        /\ y.order = sale.stream[i].order
                        /\ sale' = [sale EXCEPT !.rows = @ \cup {y}, !.dbStock = c]
            BY <3>4
        <3>5. CASE sale' = [sale EXCEPT !.rows = @ \cup {sale.stream[i]}, !.dbStock = @ - 1]
            BY <3>1, <3>2, <3>5
        <3>6. CASE sale' = [sale EXCEPT !.rows = @ \cup {sale.stream[i]}]
            <4>1. sale' = [sale EXCEPT !.rows = @ \cup {sale.stream[i]}, !.dbStock = sale.dbStock]
                BY <1>t, <3>6 DEF CohortTypeOK
            <4> QED BY <3>1, <3>2, <4>1
        <3>7. ASSUME NEW u \in Buyers,
                     sale' = [sale EXCEPT !.rows = @ \cup {[sale.stream[i] EXCEPT !.user = u]},
                                          !.dbStock = @ - 1]
              PROVE  \E y \in EventRecords, c \in Int :
                        /\ y.order = sale.stream[i].order
                        /\ sale' = [sale EXCEPT !.rows = @ \cup {y}, !.dbStock = c]
            <4>1. /\ [sale.stream[i] EXCEPT !.user = u] \in EventRecords
                  /\ [sale.stream[i] EXCEPT !.user = u].order = sale.stream[i].order
                BY <3>2
            <4> QED BY <3>2, <3>7, <4>1
        <3> QED BY <3>1, <3>5, <3>6, <3>7
    <2>2. PICK x \in EventRecords, d \in Int :
            /\ x.order = sale.stream[i].order
            /\ sale' = [sale EXCEPT !.rows = @ \cup {x}, !.dbStock = d]
        BY <2>1
    <2>3. i \in 1..Len(sale.stream)
        BY <1>t DEF CohortTypeOK
    <2> HIDE DEF EventRecords
    <2>4. Kept /\ sale'.rows = sale.rows \cup {x}
        BY <1>t, <2>2 DEF CohortTypeOK
    <2>5. CohortTypeOK'
        BY <1>1, <1>t, <2>2 DEF CohortTypeOK
    <2>6. ~(driver.read >= 5 /\ GroupQuiet) /\ ~(driver.read >= 3 /\ RowsComplete)
        BY <1>t, <2>1, <2>3 DEF EvidenceInv, RowsComplete, Persistent
    <2>7. EvidenceInv'
        BY <1>1, <1>t, <2>4, <2>6 DEF EvidenceInv, RowsComplete, GroupQuiet
    <2> QED BY <1>2, <2>4, <2>5, <2>7
<1>5. CASE AcknowledgeEvent
    <2>1. PICK i \in sale.pending : \/ sale' = [sale EXCEPT !.pending = {}]
                                    \/ sale' = [sale EXCEPT !.pending = {}, !.dead = @ + 1]
        BY <1>5 DEF AcknowledgeEvent
    <2>2. Kept /\ sale'.rows = sale.rows
        BY <1>t, <2>1 DEF CohortTypeOK
    <2> HIDE DEF EventRecords
    <2>3. CohortTypeOK'
        <3>1. /\ sale'.delivered = sale.delivered /\ sale'.pending = {}
              /\ sale'.stream = sale.stream
            BY <1>t, <2>1 DEF CohortTypeOK
        <3>2. sale' \in [stock : Nat, dbStock : Int, request : [Buyers -> Nat],
                         participants : SUBSET Buyers, stream : Seq(EventRecords),
                         rows : SUBSET EventRecords, delivered : Nat,
                         pending : SUBSET Nat, dead : Nat]
            <4>1. CASE sale' = [sale EXCEPT !.pending = {}]
                BY <1>t, <4>1 DEF CohortTypeOK
            <4>2. CASE sale' = [sale EXCEPT !.pending = {}, !.dead = @ + 1]
                <5>1. sale.dead + 1 \in Nat
                    BY <1>t DEF CohortTypeOK
                <5> QED BY <1>t, <4>2, <5>1 DEF CohortTypeOK
            <4> QED BY <2>1, <4>1, <4>2
        <3> QED BY <1>1, <1>t, <3>1, <3>2 DEF CohortTypeOK
    <2>4. ~(driver.read >= 5 /\ GroupQuiet)
        BY <1>t, <2>1 DEF EvidenceInv
    <2>5. EvidenceInv'
        BY <1>1, <1>t, <2>2, <2>4 DEF EvidenceInv, RowsComplete, GroupQuiet
    <2> QED BY <1>2, <2>2, <2>3, <2>5
<1> QED BY <1>3, <1>4, <1>5 DEF ConsumerStep

\* The steps of the script up to the first read change no evidence.
LEMMA DrivingKeeps ==
    ASSUME CohortInv, CreateActivity \/ LoadDone \/ PollRows \/ PollPending \/ CohortTimesOut
    PROVE  CohortInv'
<1>1. /\ script = "flashSale" /\ verdict = "running" /\ driver.at # "read" /\ driver.read = 0
      /\ UNCHANGED <<script, evidence, answers>> /\ verdict' # "passed"
    BY DEF CohortInv, LoadedInv, CohortTypeOK, CreateActivity, LoadDone, PollRows, PollPending,
           CohortTimesOut, OutOfTime, Drives, Running, Contradicted, Raised, cohortVars
<1>t. CohortTypeOK /\ EvidenceInv /\ LoadedInv
    BY DEF CohortInv
<1>2. /\ UNCHANGED sale \/ sale' = [sale EXCEPT !.stock = Stock, !.dbStock = Stock]
      /\ \/ UNCHANGED driver
         \/ \E at \in {"load", "poll", "pending", "read"} : driver' = [driver EXCEPT !.at = at]
    BY DEF CreateActivity, LoadDone, PollRows, PollPending, CohortTimesOut, Drive, cohortVars
<1>3. driver'.read = 0 /\ driver' \in [at : {"create", "load", "poll", "pending", "read"}, read : 0..8]
    BY <1>1, <1>2, <1>t DEF CohortTypeOK
<1>4. CohortTypeOK'
    <2>1. CASE UNCHANGED sale
        BY <1>1, <1>3, <1>t, <2>1 DEF CohortTypeOK
    <2>2. CASE sale' = [sale EXCEPT !.stock = Stock, !.dbStock = Stock]
        <3>1. /\ sale' \in [stock : Nat, dbStock : Int, request : [Buyers -> Nat],
                            participants : SUBSET Buyers, stream : Seq(EventRecords),
                            rows : SUBSET EventRecords, delivered : Nat,
                            pending : SUBSET Nat, dead : Nat]
              /\ sale'.pending = sale.pending /\ sale'.delivered = sale.delivered
              /\ sale'.stream = sale.stream
            <4>1. Stock \in Nat /\ Stock \in Int
                BY StockIsNat
            <4> HIDE DEF EventRecords
            <4> QED BY <1>t, <2>2, <4>1 DEF CohortTypeOK
        <3> QED BY <1>1, <1>3, <1>t, <3>1 DEF CohortTypeOK
    <2> QED BY <1>2, <2>1, <2>2
<1>5. LoadedInv'
    <2>1. driver'.at \in {"poll", "pending", "read"} => Summary /\ \A b \in Buyers : Len(answers[b]) = 2
        BY <1>1, <1>3, <1>t DEF LoadedInv, CohortTypeOK, CreateActivity, LoadDone, PollRows, PollPending,
                          CohortTimesOut, Drives, Drive, cohortVars
    <2>2. Summary' = Summary
        BY <1>1 DEF Summary, Expected, FirstAnswers
    <2> QED BY <1>1, <1>3, <2>1, <2>2 DEF LoadedInv
<1>6. AnswersInv' /\ PassedInv' /\ EvidenceInv'
    BY <1>1, <1>3, <1>t DEF CohortInv, AnswersInv, PassedInv, EvidenceInv
<1> QED BY <1>1, <1>4, <1>5, <1>6 DEF CohortInv

\* One more reading, of the sale as it is now.
LEMMA ReadKeeps ==
    ASSUME CohortInv, Read
    PROVE  CohortInv'
<1> DEFINE k == driver.read + 1
           name == Reads[k]
<1>1. /\ script = "flashSale" /\ verdict = "running" /\ driver.at = "read"
      /\ UNCHANGED <<script, verdict, answers, sale>>
      /\ driver' = [driver EXCEPT !.read = @ + 1] /\ driver.read < Len(Reads)
      /\ evidence' = [x \in DOMAIN evidence \cup {name} |->
                         IF x = name THEN Reading(name) ELSE evidence[x]]
    BY DEF Read, Drives, Running
<1>t. CohortTypeOK /\ EvidenceInv /\ LoadedInv
    BY DEF CohortInv
<1>2. Len(Reads) = 8 /\ driver.read \in 0..8
    BY <1>t DEF Reads, CohortTypeOK
<1>3. /\ k \in 1..8 /\ driver.read = k - 1 /\ driver'.read = k /\ driver'.at = "read"
      /\ driver' \in [at : {"create", "load", "poll", "pending", "read"}, read : 0..8]
    <2>1. driver \in [at : {"create", "load", "poll", "pending", "read"}, read : 0..8]
        BY <1>t DEF CohortTypeOK
    <2>2. k \in 1..8 /\ driver.read = k - 1
        BY <1>1, <1>2
    <2>3. driver' = [driver EXCEPT !.read = k]
        BY <1>1, <2>1
    <2> HIDE DEF k
    <2> QED BY <1>1, <2>1, <2>2, <2>3
<1>4. \A i, j \in 1..8 : i # j => Reads[i] # Reads[j]
    BY DEF Reads
<1> HIDE DEF k
<1>5. name \notin DOMAIN evidence
    <2>1. DOMAIN evidence = {Reads[i] : i \in 1..(k - 1)}
        BY <1>3, <1>t DEF EvidenceInv
    <2>2. \A i \in 1..(k - 1) : i \in 1..8 /\ i # k
        BY <1>3
    <2> QED BY <1>3, <1>4, <2>1, <2>2
<1> HIDE DEF name
<1>6. /\ DOMAIN evidence' = DOMAIN evidence \cup {name}
      /\ \A x \in DOMAIN evidence : evidence'[x] = evidence[x]
      /\ evidence'[name] = Reading(name)
    BY <1>1, <1>5
<1>n. name = Reads[k]
    BY DEF name
<1>7. DOMAIN evidence' = {Reads[i] : i \in 1..driver'.read}
    <2>1. DOMAIN evidence = {Reads[i] : i \in 1..(k - 1)}
        BY <1>3, <1>t DEF EvidenceInv
    <2>2. 1..k = 1..(k - 1) \cup {k}
        BY <1>3
    <2> QED BY <1>3, <1>6, <1>n, <2>1, <2>2
<1>8. \A i \in 1..(k - 1) : Reads[i] \in DOMAIN evidence /\ evidence'[Reads[i]] = evidence[Reads[i]]
    BY <1>3, <1>6, <1>t DEF EvidenceInv
<1>9. /\ Reads[1] = "accepted" /\ Reads[2] = "participants" /\ Reads[3] = "rows" /\ Reads[4] = "stream"
      /\ Reads[5] = "group" /\ Reads[6] = "dbStock" /\ Reads[7] = "stock" /\ Reads[8] = "dead"
    BY DEF Reads
<1>10. /\ k > 1 => evidence'["accepted"] = evidence["accepted"]
       /\ k > 3 => evidence'["rows"] = evidence["rows"]
       /\ k > 4 => evidence'["stream"] = evidence["stream"]
       /\ k > 5 => evidence'["group"] = evidence["group"]
       /\ k > 6 => evidence'["dbStock"] = evidence["dbStock"]
       /\ k > 7 => evidence'["stock"] = evidence["stock"]
    BY <1>3, <1>8, <1>9
<1>11. /\ k = 1 => evidence'["accepted"] = sale.request
       /\ k = 3 => evidence'["rows"] = sale.rows
       /\ k = 4 => evidence'["stream"] = sale.stream
       /\ k = 5 => evidence'["group"] = [pending |-> Cardinality(sale.pending), last |-> sale.delivered]
       /\ k = 6 => evidence'["dbStock"] = sale.dbStock
       /\ k = 7 => evidence'["stock"] = sale.stock
       /\ k = 8 => evidence'["dead"] = sale.dead
    BY <1>6, <1>9, <1>n DEF Reading
<1>12. Cardinality(sale.pending) = 0 => sale.pending = {}
    <2>1. sale.pending = {} \/ sale.pending = {sale.delivered}
        BY <1>t DEF CohortTypeOK
    <2>2. Cardinality({sale.delivered}) = 1
        BY FS_Singleton
    <2> QED BY <2>1, <2>2
<1>13. EvidenceInv'
    <2>1. k >= 1 => evidence'["accepted"] = sale.request
        BY <1>3, <1>10, <1>11, <1>t DEF EvidenceInv
    <2>2. k >= 3 => /\ evidence'["rows"] \subseteq sale.rows
                    /\ RowsComplete' => sale.rows = evidence'["rows"]
        <3>1. CASE k = 3
            BY <1>11, <3>1
        <3>2. CASE k > 3
            <4>1. RowsComplete' = RowsComplete
                BY <1>1, <1>10, <3>2 DEF RowsComplete
            <4> QED BY <1>3, <1>10, <1>t, <3>2, <4>1 DEF EvidenceInv
        <3> QED BY <1>3, <3>1, <3>2
    <2>3. k >= 4 => evidence'["stream"] = sale.stream
        BY <1>3, <1>10, <1>11, <1>t DEF EvidenceInv
    <2>4. k >= 5 /\ GroupQuiet' =>
            /\ sale.pending = {} /\ sale.delivered = Len(sale.stream)
            /\ k >= 6 => evidence'["dbStock"] = sale.dbStock
            /\ k >= 8 => evidence'["dead"] = sale.dead
        <3>1. CASE k = 5
            BY <1>1, <1>11, <1>12, <3>1 DEF GroupQuiet
        <3>2. CASE k > 5
            <4>1. GroupQuiet' = GroupQuiet
                BY <1>1, <1>10, <3>2 DEF GroupQuiet
            <4> QED BY <1>3, <1>10, <1>11, <1>t, <3>2, <4>1 DEF EvidenceInv
        <3> QED BY <1>3, <3>1, <3>2
    <2>5. k >= 7 => evidence'["stock"] = sale.stock
        BY <1>3, <1>10, <1>11, <1>t DEF EvidenceInv
    <2> QED BY <1>1, <1>3, <1>7, <2>1, <2>2, <2>3, <2>4, <2>5 DEF EvidenceInv
<1>14. CohortTypeOK'
    BY <1>1, <1>3, <1>t DEF CohortTypeOK
<1>15. AnswersInv' /\ LoadedInv' /\ PassedInv'
    BY <1>1, <1>3, <1>t DEF CohortInv, AnswersInv, LoadedInv, PassedInv, Summary, Expected, FirstAnswers
<1> QED BY <1>1, <1>13, <1>14, <1>15 DEF CohortInv

\* Steps of others, and the verdict: nothing of the cohort changes.
LEMMA JudgingKeeps ==
    ASSUME CohortInv, UNCHANGED <<script, cohortVars>>,
           script = "flashSale" => verdict' \in {verdict, "raised"} \/ Judge
    PROVE  CohortInv'
<1>1. UNCHANGED <<driver, answers, sale, evidence, script>>
    BY DEF cohortVars
<1>2. CohortTypeOK' /\ AnswersInv' /\ EvidenceInv'
    BY <1>1 DEF CohortInv, CohortTypeOK, AnswersInv, EvidenceInv, RowsComplete, GroupQuiet
<1>3. LoadedInv'
    BY <1>1 DEF CohortInv, LoadedInv, Summary, Expected, FirstAnswers
<1>4. Witness' = Witness /\ Ledger' = Ledger
    BY <1>1 DEF Witness, Ledger, Mapping
<1>5. PassedInv'
    <2> SUFFICES ASSUME script' = "flashSale", verdict' = "passed"
                 PROVE  driver.read = 8 /\ Witness /\ Ledger
        BY <1>1, <1>4 DEF PassedInv
    <2>1. CASE verdict' = verdict
        BY <1>1, <2>1 DEF CohortInv, PassedInv
    <2>2. CASE Judge
        BY <2>2 DEF Judge, Reads
    <2> QED BY <1>1, <2>1, <2>2
<1> QED BY <1>1, <1>2, <1>3, <1>5 DEF CohortInv

LEMMA CohortNextInv == CohortInv /\ [ScriptsNext]_scriptsVars => CohortInv'
<1> SUFFICES ASSUME CohortInv, [ScriptsNext]_scriptsVars PROVE CohortInv'
    OBVIOUS
<1>1. CASE ScriptsNext
    <2>1. CASE Sale
        <3>1. CASE Judge
            BY <3>1, JudgingKeeps DEF Judge
        <3> QED BY <2>1, <3>1, AskTwiceKeeps, ConsumerKeeps, DrivingKeeps, ReadKeeps DEF Sale, CohortStep
    <2>2. CASE ~Sale
        <3>1. UNCHANGED <<script, cohortVars>> /\ (script = "flashSale" => verdict' \in {verdict, "raised"})
            BY <1>1, <2>2, StepsAreOwned, AroundBodyKeeps
               DEF bodyVars, Checking, Diagnosing, Observing, Measuring
        <3> QED BY <3>1, JudgingKeeps
    <2> QED BY <2>1, <2>2
<1>2. CASE UNCHANGED scriptsVars
    BY <1>2, JudgingKeeps DEF scriptsVars, harnessVars, bodyVars
<1> QED BY <1>1, <1>2

\* What passed is exact: the readings agree, nothing was left to consume after the rows were
\* read, and so the sale is still what they say.
LEMMA PassedIsExact ==
    ASSUME CohortInv
    PROVE  PassedMeansExact
<1> SUFFICES ASSUME script = "flashSale", verdict = "passed" PROVE PassedMeansExact
    BY DEF PassedMeansExact
<1> DEFINE orders == {Event(b, sale.request[b]) : b \in Accepted}
<1>1. /\ CohortTypeOK /\ AnswersInv /\ EvidenceInv /\ driver.read = 8 /\ Witness /\ Ledger
      /\ Summary /\ \A b \in Buyers : Len(answers[b]) = 2
    BY DEF CohortInv, PassedInv, LoadedInv
<1>2. /\ evidence["accepted"] = sale.request /\ evidence["stream"] = sale.stream
      /\ evidence["stock"] = sale.stock
      /\ RowsComplete => sale.rows = evidence["rows"]
      /\ GroupQuiet => /\ sale.pending = {} /\ evidence["dbStock"] = sale.dbStock
                       /\ evidence["dead"] = sale.dead
    BY <1>1 DEF EvidenceInv
<1>3. Mapping = orders
    BY <1>2 DEF Mapping, Accepted
<1>4. ToSet(sale.stream) = orders /\ Len(sale.stream) = Stock /\ evidence["rows"] = orders
    BY <1>1, <1>2, <1>3 DEF Ledger
<1>5. sale.rows = orders
    <2>1. RowsComplete
        <3> SUFFICES ASSUME NEW i \in 1..Len(sale.stream)
                     PROVE  \E r \in evidence["rows"] : r.order = sale.stream[i].order
            BY DEF RowsComplete
        <3>1. sale.stream[i] \in ToSet(sale.stream)
            BY <1>1 DEF ToSet, CohortTypeOK
        <3> QED BY <1>4, <3>1
    <2> QED BY <1>2, <1>4, <2>1
<1>6. sale.pending = {} /\ sale.dbStock = 0 /\ sale.dead = 0 /\ sale.stock = 0
    <2>1. GroupQuiet
        BY <1>1, <1>2 DEF Ledger, GroupQuiet
    <2> QED BY <1>1, <1>2, <2>1 DEF Ledger
<1>7. Cardinality(Accepted) = Stock
    <2>1. IsFiniteSet(Accepted)
        <3>1. Accepted \in SUBSET Buyers
            BY DEF Accepted
        <3> QED BY <3>1, StockIsNat, FS_Subset
    <2> DEFINE f == [b \in Accepted |-> Event(b, sale.request[b])]
    <2>2. f \in Bijection(Accepted, orders)
        <3>1. f \in [Accepted -> orders]
            OBVIOUS
        <3>2. \A b, c \in Accepted : f[b] = f[c] => b = c
            BY DEF Event
        <3>3. \A o \in orders : \E b \in Accepted : f[b] = o
            OBVIOUS
        <3> HIDE DEF f, orders
        <3> QED BY <3>1, <3>2, <3>3 DEF Bijection, Injection, IsInjective, Surjection
    <2>3. ExistsBijection(Accepted, orders)
        BY <2>2 DEF ExistsBijection
    <2>4. Cardinality(orders) = Cardinality(Accepted)
        <3> HIDE DEF orders
        <3> QED BY <2>1, <2>3, FS_Bijection
    <2> QED BY <1>1, <1>3, <2>4 DEF Ledger
<1>8. ASSUME NEW b \in Buyers
      PROVE  answers[b] = IF b \in Accepted
                          THEN <<[outcome |-> "new", id |-> sale.request[b]],
                                 [outcome |-> "replayed", id |-> sale.request[b]]>>
                          ELSE <<SoldOut, SoldOut>>
    <2>1. /\ answers[b] \in Seq(AnswerRecords) /\ Len(answers[b]) = 2 /\ Expected(b)
          /\ IF answers[b][1].outcome = "new" THEN sale.request[b] = answers[b][1].id
             ELSE sale.request[b] = NoId
          /\ answers[b][1].outcome = "new" => answers[b][1].id # NoId
        <3>1. answers[b] \in Seq(AnswerRecords)
            BY <1>1 DEF CohortTypeOK
        <3> HIDE DEF AnswerRecords
        <3> QED BY <1>1, <1>2, <3>1 DEF Summary, Witness, AnswersInv
    <2>2. b \in Accepted <=> answers[b][1].outcome = "new"
        BY <2>1 DEF Accepted
    <2>3. /\ answers[b][1] \in AnswerRecords /\ answers[b][2] \in AnswerRecords
          /\ answers[b] = <<answers[b][1], answers[b][2]>>
        <3> HIDE DEF AnswerRecords
        <3> QED BY <2>1
    <2>4. CASE answers[b][1].outcome = "new"
        <3>1. answers[b] # <<SoldOut, SoldOut>>
            BY <2>4 DEF SoldOut
        <3>2. /\ answers[b][2].outcome = "replayed"
              /\ answers[b][1].id = sale.request[b] /\ answers[b][2].id = sale.request[b]
            BY <2>1, <2>4, <3>1 DEF Expected
        <3>3. /\ answers[b][1] = [outcome |-> "new", id |-> sale.request[b]]
              /\ answers[b][2] = [outcome |-> "replayed", id |-> sale.request[b]]
            BY <2>3, <2>4, <3>2 DEF AnswerRecords
        <3> QED BY <2>2, <2>3, <2>4, <3>3
    <2>5. CASE answers[b][1].outcome # "new"
        BY <2>1, <2>2, <2>5 DEF Expected
    <2> QED BY <2>4, <2>5
<1> QED BY <1>4, <1>5, <1>6, <1>7, <1>8 DEF PassedMeansExact

\* A cohort that passes is exact at that moment, for any number of buyers and whatever a broken
\* sale does: what run-flash-sale-baseline.py reads bit by bit holds together.
THEOREM PassedCohortIsExact == ScriptsSpec => []PassedMeansExact
BY CohortInitInv, CohortNextInv, PassedIsExact, PTL DEF ScriptsSpec
-----------------------------------------------------------------------------
(* The measurements that are kept                                          *)

CountRecords == [hits : Nat, others : Nat]
Windows == [requests : Nat, strays : Nat, before : CountRecords]

TrialTypeOK ==
    /\ trial \in [number : Nat, window : Windows,
                  at : {"prepare", "warming", "before", "measuring", "after"}]
    /\ kept \in Seq(Windows)
    /\ process \in Nat \ {0}
    /\ counted \in CountRecords
    /\ sample \in [later : BOOLEAN, up : BOOLEAN, from : Nat, seen : CountRecords]

\* What counters tell of the window: those of a process that was replaced meanwhile have too few
\* hits for its requests, and the others lack one hit for every stray.
Explained(c) ==
    \/ c.hits + trial.window.strays <= trial.window.requests
    \/ c.hits + trial.window.strays = trial.window.before.hits + trial.window.requests

WindowInv ==
    /\ trial.window.strays <= trial.window.requests
    /\ trial.window.strays = 0 \/ Detail
    /\ trial.at = "before" /\ sample.later => counted = sample.seen \/ counted.hits = 0
    /\ trial.at \in {"measuring", "after"} /\ Detail => Explained(counted)
    /\ trial.at = "after" /\ sample.later /\ Detail => Explained(sample.seen)

TrialInv ==
    IF script = "performance" THEN TrialTypeOK /\ WindowInv /\ WindowIsExact ELSE kept = <<>>

LEMMA TrialInitInv == ScriptsInit => TrialInv
<1> SUFFICES ASSUME ScriptsInit PROVE TrialInv
    OBVIOUS
<1>1. /\ trial = [number |-> 1, at |-> "prepare", window |-> Window]
      /\ kept = <<>> /\ process = 1
      /\ script = "performance" => counted = NoCounts
      /\ sample = [later |-> FALSE, up |-> FALSE, from |-> 0, seen |-> counted]
    BY DEF ScriptsInit, TrialInit, NoSample
<1>2. CASE script = "performance"
    <2>1. TrialTypeOK
        BY <1>1, <1>2 DEF TrialTypeOK, Windows, CountRecords, Window, NoCounts
    <2>2. WindowInv /\ WindowIsExact
        BY <1>1, <1>2 DEF WindowInv, WindowIsExact, Window, NoCounts
    <2> QED BY <1>2, <2>1, <2>2 DEF TrialInv
<1>3. CASE script # "performance"
    BY <1>1, <1>3 DEF TrialInv
<1> QED BY <1>2, <1>3

\* A request of the load adds itself to its window, and as a stray if it missed the cache.
LEMMA LoadRequestMoves ==
    ASSUME TrialTypeOK, LoadRequest
    PROVE  /\ trial'.number = trial.number /\ trial'.at = trial.at
           /\ trial'.window.before = trial.window.before
           /\ trial'.window.requests = trial.window.requests + 1
           /\ trial'.window.strays = IF Detail /\ ~cached THEN trial.window.strays + 1
                                     ELSE trial.window.strays
           /\ trial.window \in Windows /\ trial' = [trial EXCEPT !.window = trial'.window]
           /\ trial'.window \in Windows
<1> DEFINE stray == Detail /\ ~cached
           n == IF stray THEN trial.window.strays + 1 ELSE trial.window.strays
           w == [trial.window EXCEPT !.requests = @ + 1, !.strays = n]
<1>0. trial' = [trial EXCEPT !.window.requests = @ + 1,
                             !.window.strays = @ + IF stray THEN 1 ELSE 0]
    BY DEF LoadRequest
<1>1. trial.window \in Windows
    BY DEF TrialTypeOK
<1>n. n \in Nat
    BY <1>1 DEF Windows
<1> HIDE DEF n
<1>2. /\ w \in Windows /\ w.before = trial.window.before
      /\ w.requests = trial.window.requests + 1 /\ w.strays = n
    <2>1. /\ trial.window.requests + 1 \in Nat
          /\ trial.window \in [requests : Nat, strays : Nat, before : CountRecords]
        BY <1>1 DEF Windows
    <2> QED BY <1>n, <2>1 DEF Windows
<1>3. w = [trial.window EXCEPT !.requests = @ + 1, !.strays = @ + IF stray THEN 1 ELSE 0]
    <2> HIDE DEF stray
    <2> DEFINE more == IF stray THEN 1 ELSE 0
    <2>1. trial.window.strays + more = n
        BY <1>1 DEF Windows, n
    <2> HIDE DEF more
    <2>2. w = [trial.window EXCEPT !.requests = @ + 1, !.strays = @ + more]
        BY <2>1
    <2> QED BY <2>2 DEF more
<1>4. trial' = [trial EXCEPT !.window = w]
    <2> HIDE DEF stray
    <2>1. trial' = [trial EXCEPT !.window = [trial.window EXCEPT
                        !.requests = @ + 1, !.strays = @ + IF stray THEN 1 ELSE 0]]
        BY <1>0
    <2> QED BY <1>3, <2>1
<1>5. trial'.window = w /\ trial'.number = trial.number /\ trial'.at = trial.at
    <2> HIDE DEF w
    <2> QED BY <1>4 DEF TrialTypeOK
<1> HIDE DEF w
<1> QED BY <1>1, <1>2, <1>4, <1>5 DEF n

LEMMA LoadRequestKeeps ==
    ASSUME TrialInv, LoadRequest
    PROVE  TrialInv'
<1> DEFINE stray == Detail /\ ~cached
<1>1. /\ script = "performance" /\ UNCHANGED <<script, verdict, kept, process, sample>>
      /\ trial.at \in {"warming", "measuring"}
      /\ counted' = IF ~Detail THEN counted
                    ELSE IF cached THEN [counted EXCEPT !.hits = @ + 1]
                    ELSE [counted EXCEPT !.others = @ + 1]
    BY DEF LoadRequest, Running, StaysCalm
<1>t. TrialTypeOK /\ WindowInv /\ WindowIsExact
    BY <1>1 DEF TrialInv
<1>2. /\ trial'.number = trial.number /\ trial'.at = trial.at
      /\ trial'.window.before = trial.window.before
      /\ trial'.window.requests = trial.window.requests + 1
      /\ trial'.window.strays = IF stray THEN trial.window.strays + 1 ELSE trial.window.strays
      /\ trial.window \in Windows /\ trial' = [trial EXCEPT !.window = trial'.window]
      /\ trial'.window \in Windows
    BY <1>t, LoadRequestMoves
<1>3. /\ counted' \in CountRecords /\ counted \in CountRecords
      /\ counted'.hits = IF Detail /\ cached THEN counted.hits + 1 ELSE counted.hits
    BY <1>1, <1>t DEF TrialTypeOK, CountRecords
<1>4. Detail' = Detail
    BY <1>2 DEF Detail
<1>5. TrialTypeOK'
    BY <1>1, <1>2, <1>3, <1>t DEF TrialTypeOK
<1>6. /\ trial.window.strays \in Nat /\ trial.window.requests \in Nat
      /\ trial.window.before.hits \in Nat /\ counted.hits \in Nat
    BY <1>2, <1>3 DEF Windows, CountRecords
<1>7. trial.at = "measuring" /\ Detail => Explained(counted)'
    <2>1. trial.at = "measuring" /\ Detail => Explained(counted)
        BY <1>t DEF WindowInv
    <2> QED BY <1>2, <1>3, <1>6, <2>1 DEF Explained
<1>8. WindowInv'
    <2>1. (trial.window.strays <= trial.window.requests)'
        BY <1>2, <1>6, <1>t DEF WindowInv
    <2>2. ~Detail' => trial'.window.strays = 0
        BY <1>2, <1>4, <1>t DEF WindowInv
    <2> QED BY <1>1, <1>2, <1>4, <1>7, <2>1, <2>2 DEF WindowInv
<1>9. WindowIsExact'
    BY <1>1, <1>t DEF WindowIsExact
<1> QED BY <1>1, <1>5, <1>8, <1>9 DEF TrialInv

\* A measurement is kept only when no request of its window strayed.
LEMMA SnapshotAfterKeeps ==
    ASSUME TrialInv, SnapshotAfter
    PROVE  TrialInv'
<1>1. /\ script = "performance" /\ trial.at = "after" /\ sample.later
      /\ UNCHANGED <<script, scrapeVars>>
      /\ \/ /\ Exclusive /\ kept' = Append(kept, trial.window)
            /\ trial' = [number |-> trial.number + 1, at |-> "prepare", window |-> Window]
         \/ UNCHANGED <<kept, trial>>
    BY DEF SnapshotAfter, Measures, Running, Fresh
<1>t. TrialTypeOK /\ WindowInv /\ WindowIsExact
    BY <1>1 DEF TrialInv
<1>2. CASE UNCHANGED <<kept, trial>>
    BY <1>1, <1>2, <1>t DEF TrialInv, TrialTypeOK, WindowInv, WindowIsExact, Explained, Detail, scrapeVars
<1>3. CASE /\ Exclusive /\ kept' = Append(kept, trial.window)
           /\ trial' = [number |-> trial.number + 1, at |-> "prepare", window |-> Window]
    <2>1. /\ trial.window \in Windows
          /\ trial.window.strays \in Nat /\ trial.window.requests \in Nat
          /\ trial.window.before.hits \in Nat /\ sample.seen.hits \in Nat
        BY <1>t DEF TrialTypeOK, Windows, CountRecords
    <2>2. trial.window.strays = 0
        <3>1. CASE Detail
            <4>1. sample.seen.hits - trial.window.before.hits = trial.window.requests
                BY <1>3, <3>1 DEF Exclusive, Delta
            <4>2. Explained(sample.seen)
                BY <1>1, <1>t, <3>1 DEF WindowInv
            <4> QED BY <2>1, <4>1, <4>2 DEF Explained
        <3>2. CASE ~Detail
            BY <1>t, <3>2 DEF WindowInv
        <3> QED BY <3>1, <3>2
    <2>3. kept \in Seq(Windows)
        BY <1>t DEF TrialTypeOK
    <2>4. /\ kept' \in Seq(Windows) /\ Len(kept') = Len(kept) + 1
          /\ \A i \in 1..Len(kept) : kept'[i] = kept[i]
          /\ kept'[Len(kept) + 1] = trial.window
        BY <1>3, <2>1, <2>3, AppendProperties
    <2>5. WindowIsExact'
        BY <1>t, <2>2, <2>3, <2>4 DEF WindowIsExact
    <2>6. TrialTypeOK'
        <3>1. Window \in Windows
            BY DEF Window, Windows, NoCounts, CountRecords
        <3> QED BY <1>1, <1>3, <1>t, <2>4, <3>1 DEF TrialTypeOK, scrapeVars
    <2>7. WindowInv'
        BY <1>3 DEF WindowInv, Window
    <2> QED BY <1>1, <2>5, <2>6, <2>7 DEF TrialInv
<1> QED BY <1>1, <1>2, <1>3

\* The other steps of a trial, and of the application and Prometheus meanwhile.
LEMMA MeasuringKeeps ==
    ASSUME TrialInv, Measurement
    PROVE  TrialInv'
<1>1. script = "performance" /\ script' = script
    BY MeasurementIsOwned
<1>t. TrialTypeOK /\ WindowInv /\ WindowIsExact
    BY <1>1 DEF TrialInv
<1>2. CASE Prepare
    <2>1. /\ UNCHANGED <<kept, process, sample>> /\ trial.at = "prepare"
          /\ trial' = [trial EXCEPT !.at = "warming"]
          /\ counted' \in {counted, [counted EXCEPT !.others = @ + 1]}
        BY <1>2 DEF Prepare, Measures, To
    <2>2. trial'.at = "warming" /\ trial'.window = trial.window /\ trial'.number = trial.number
        BY <1>t, <2>1 DEF TrialTypeOK
    <2>3. counted' \in CountRecords
        BY <1>t, <2>1 DEF TrialTypeOK, CountRecords
    <2>4. TrialTypeOK'
        BY <1>t, <2>1, <2>3 DEF TrialTypeOK
    <2>5. WindowInv' /\ WindowIsExact'
        BY <1>t, <2>1, <2>2 DEF WindowInv, WindowIsExact, Detail
    <2> QED BY <1>1, <2>4, <2>5 DEF TrialInv
<1>3. CASE LoadEnds
    <2>1. /\ UNCHANGED <<kept, process, counted>>
          /\ trial.at \in {"warming", "measuring"}
          /\ trial' = [trial EXCEPT !.at = IF trial.at = "warming" THEN "before" ELSE "after"]
          /\ sample' = [sample EXCEPT !.later = FALSE]
        BY <1>3 DEF LoadEnds, To, TakeTime
    <2>2. /\ trial'.at = IF trial.at = "warming" THEN "before" ELSE "after"
          /\ trial'.window = trial.window /\ trial'.number = trial.number
          /\ sample'.later = FALSE
        BY <1>t, <2>1 DEF TrialTypeOK
    <2>3. TrialTypeOK'
        BY <1>t, <2>1, <2>2 DEF TrialTypeOK
    <2>4. WindowInv' /\ WindowIsExact'
        BY <1>t, <2>1, <2>2 DEF WindowInv, WindowIsExact, Detail, Explained
    <2> QED BY <1>1, <2>3, <2>4 DEF TrialInv
<1>4. CASE SnapshotBefore
    <2>1. /\ UNCHANGED <<kept, process, counted, sample>> /\ trial.at = "before" /\ sample.later
          /\ trial' = [trial EXCEPT !.at = "measuring",
                                    !.window = [Window EXCEPT !.before = sample.seen]]
        BY <1>4 DEF SnapshotBefore, Measures, Fresh, scrapeVars
    <2>2. /\ trial'.at = "measuring" /\ trial'.number = trial.number
          /\ trial'.window = [requests |-> 0, strays |-> 0, before |-> sample.seen]
        BY <1>t, <2>1 DEF TrialTypeOK, Window
    <2>3. sample.seen \in CountRecords /\ counted \in CountRecords /\ trial'.window \in Windows
        BY <1>t, <2>2 DEF TrialTypeOK, Windows
    <2>4. TrialTypeOK'
        BY <1>t, <2>1, <2>2, <2>3 DEF TrialTypeOK
    <2>5. counted.hits <= 0 \/ counted.hits = sample.seen.hits
        BY <1>t, <2>1 DEF WindowInv
    <2>6. WindowInv' /\ WindowIsExact'
        BY <1>t, <2>1, <2>2, <2>3, <2>5 DEF WindowInv, WindowIsExact, Explained, CountRecords
    <2> QED BY <1>1, <2>4, <2>6 DEF TrialInv
<1>5. CASE Disturbance
    <2>1. /\ UNCHANGED <<trial, kept, sample>>
          /\ process' \in {process, process + 1}
          /\ counted' = counted \/ counted' = NoCounts
        BY <1>5 DEF Disturbance
    <2>2. TrialTypeOK'
        BY <1>t, <2>1 DEF TrialTypeOK, NoCounts, CountRecords
    <2>3. trial.window.strays \in Nat /\ trial.window.requests \in Nat
        BY <1>t DEF TrialTypeOK, Windows
    <2>4. WindowInv' /\ WindowIsExact'
        BY <1>t, <2>1, <2>3 DEF WindowInv, WindowIsExact, Explained, Detail, NoCounts
    <2> QED BY <1>1, <2>2, <2>4 DEF TrialInv
<1>6. CASE ScrapeTrials
    <2>1. /\ UNCHANGED <<trial, kept, process, counted>>
          /\ sample' = [later |-> TRUE, up |-> TRUE, from |-> process, seen |-> counted]
        BY <1>6, <1>t DEF ScrapeTrials, Scrape, trialVars, TrialTypeOK
    <2>2. TrialTypeOK'
        BY <1>t, <2>1 DEF TrialTypeOK
    <2>3. WindowInv' /\ WindowIsExact'
        BY <1>t, <2>1 DEF WindowInv, WindowIsExact, Explained, Detail
    <2> QED BY <1>1, <2>2, <2>3 DEF TrialInv
<1>7. CASE TrialFails
    BY <1>1, <1>7, <1>t DEF TrialFails, TrialInv, TrialTypeOK, WindowInv, WindowIsExact, Explained, Detail,
                        trialVars, scrapeVars
<1> QED BY <1>2, <1>3, <1>4, <1>5, <1>6, <1>7, LoadRequestKeeps, SnapshotAfterKeeps
        DEF Measurement, TrialStep

LEMMA TrialNextInv == TrialInv /\ [ScriptsNext]_scriptsVars => TrialInv'
<1> SUFFICES ASSUME TrialInv, [ScriptsNext]_scriptsVars PROVE TrialInv'
    OBVIOUS
<1>1. CASE UNCHANGED <<script, trialVars>> /\ (script = "performance" => UNCHANGED scrapeVars)
    BY <1>1 DEF TrialInv, TrialTypeOK, WindowInv, WindowIsExact, Explained, Detail, trialVars, scrapeVars
<1>2. CASE ScriptsNext
    BY <1>1, <1>2, StepsAreOwned, MeasuringKeeps
       DEF bodyVars, Checking, Diagnosing, Observing, Selling
<1>3. CASE UNCHANGED scriptsVars
    BY <1>1, <1>3 DEF scriptsVars, harnessVars, bodyVars
<1> QED BY <1>2, <1>3
-----------------------------------------------------------------------------
(* The restart of the diagnosed application                                *)

LEMMA TupleIsSeq ==
    ASSUME NEW n \in Nat, NEW S, NEW s, s = [i \in 1..n |-> s[i]], \A i \in 1..n : s[i] \in S
    PROVE  s \in Seq(S)
BY IsASeq

\* The scenario is what happens until the restart and what is read behind it.
LEMMA ScenarioIsBoth ==
    /\ Len(Scenario) = 36 /\ Len(UntilRestart) = 30
    /\ \A i \in 1..30 : Scenario[i] = UntilRestart[i]
    /\ \A i \in 1..6 : Scenario[30 + i] = BehindRestart[i]
<1> DEFINE S == {UntilRestart[i] : i \in 1..30} \cup {BehindRestart[i] : i \in 1..6}
<1>1. UntilRestart = [i \in 1..30 |-> UntilRestart[i]] /\ Len(UntilRestart) = 30
    BY DEF UntilRestart
<1>2. BehindRestart = [i \in 1..6 |-> BehindRestart[i]] /\ Len(BehindRestart) = 6
    BY DEF BehindRestart
<1>3. (\A i \in 1..30 : UntilRestart[i] \in S) /\ (\A i \in 1..6 : BehindRestart[i] \in S)
    OBVIOUS
<1> HIDE DEF S
<1>4. UntilRestart \in Seq(S) /\ BehindRestart \in Seq(S)
    BY <1>1, <1>2, <1>3, TupleIsSeq
<1>5. /\ Len(Scenario) = Len(UntilRestart) + Len(BehindRestart)
      /\ \A i \in 1..(Len(UntilRestart) + Len(BehindRestart)) :
            Scenario[i] = IF i <= Len(UntilRestart) THEN UntilRestart[i]
                          ELSE BehindRestart[i - Len(UntilRestart)]
    BY <1>4, ConcatProperties DEF Scenario
<1> QED BY <1>1, <1>2, <1>5

LEMMA RestartInScenario ==
    /\ FreshStage = 31 /\ Len(Scenario) = 36
    /\ Scenario[30] = Do("start") /\ Scenario[31] = Await("fresh")
    /\ \A i \in 31..36 : Scenario[i].kind # "do"
<1>1. UntilRestart[30] = Do("start")
    BY DEF UntilRestart
<1>2. BehindRestart[1] = Await("fresh")
    BY DEF BehindRestart
<1>3. \A i \in 1..6 : BehindRestart[i].kind # "do"
    <2>1. /\ BehindRestart[1].kind # "do" /\ BehindRestart[2].kind # "do"
          /\ BehindRestart[3].kind # "do" /\ BehindRestart[4].kind # "do"
          /\ BehindRestart[5].kind # "do" /\ BehindRestart[6].kind # "do"
        BY DEF BehindRestart, Await, AwaitMetric, Require
    <2> QED BY <2>1
<1>4. Scenario[30] = UntilRestart[30] /\ \A i \in 31..36 : Scenario[i] = BehindRestart[i - 30]
    BY ScenarioIsBoth
<1>5. \A i \in 31..36 : i - 30 \in 1..6
    OBVIOUS
<1>6. Scenario[31] = BehindRestart[1]
    BY <1>4
<1> QED BY <1>1, <1>2, <1>3, <1>4, <1>5, <1>6, ScenarioIsBoth DEF FreshStage

\* Behind the start there is one process, and what is later than it is of that process.
ScenarioInv ==
    IF script = "diagnostics"
    THEN /\ stage \in Nat
         /\ DOMAIN sample = {"later", "up", "from", "seen"}
         /\ stage > 30 => process = 2 /\ (sample.later => sample.from = 2)
         /\ stage > 31 => sample.from = 2
    ELSE stage = 1

LEMMA ScenarioInitInv == ScriptsInit => ScenarioInv
BY DEF ScriptsInit, DiagnosticsInit, ScenarioInv, NoSample

LEMMA DiagnosingKeeps ==
    ASSUME ScenarioInv, Diagnostics
    PROVE  ScenarioInv'
<1>1. script = "diagnostics" /\ script' = script
    BY DiagnosticsIsOwned
<1>t. /\ stage \in Nat
      /\ DOMAIN sample = {"later", "up", "from", "seen"}
      /\ stage > 30 => process = 2 /\ (sample.later => sample.from = 2)
      /\ stage > 31 => sample.from = 2
    BY <1>1 DEF ScenarioInv
<1>2. CASE Carry
    <2>1. /\ stage <= 36 /\ Scenario[stage].kind = "do" /\ stage' = stage + 1 /\ Effect(Scenario[stage].what)
        BY <1>2, RestartInScenario DEF Carry, OnStage, What, Advance
    <2>2. stage <= 30
        BY <1>t, <2>1, RestartInScenario
    <2>3. DOMAIN sample' = {"later", "up", "from", "seen"}
        <3>1. sample' = sample \/ sample' = [sample EXCEPT !.later = FALSE]
            BY <2>1 DEF Effect, Keeps, scrapeVars, TakeTime
        <3> QED BY <1>t, <3>1
    <2>4. CASE stage = 30
        <3>1. process' = 2 /\ sample' = [sample EXCEPT !.later = FALSE]
            BY <2>1, <2>4, RestartInScenario DEF Effect, Do, TakeTime
        <3> QED BY <1>1, <1>t, <2>1, <2>3, <2>4, <3>1 DEF ScenarioInv
    <2>5. CASE stage < 30
        BY <1>1, <1>t, <2>1, <2>3, <2>5 DEF ScenarioInv
    <2> QED BY <1>t, <2>2, <2>4, <2>5
<1>3. CASE Observe
    <2>1. /\ UNCHANGED <<process, sample>> /\ stage' = stage + 1
          /\ stage = 31 => Fresh
        <3>1. UNCHANGED <<process, sample>> /\ stage' = stage + 1
            BY <1>3 DEF Observe, Advance, scrapeVars
        <3>2. ASSUME stage = 31 PROVE Fresh
            <4>1. What = "fresh" /\ Scenario[stage].kind = "await"
                BY <3>2, RestartInScenario DEF What, Await
            <4>2. True("fresh")
                BY <1>3, <4>1 DEF Observe, OnStage
            <4> QED BY <4>2 DEF True
        <3> QED BY <3>1, <3>2
    <2>2. stage' > 30 => process' = 2 /\ (sample'.later => sample'.from = 2)
        <3>1. stage # 30
            BY <1>3, RestartInScenario DEF Observe, OnStage, Do
        <3> QED BY <1>t, <2>1, <3>1
    <2>3. stage' > 31 => sample'.from = 2
        BY <1>t, <2>1 DEF Fresh
    <2> QED BY <1>1, <1>t, <2>1, <2>2, <2>3 DEF ScenarioInv
<1>4. CASE GiveUp \/ AssertNow
    <2>1. /\ UNCHANGED <<process, sample>> /\ stage' \in {stage, stage + 1}
          /\ stage' = stage \/ stage # 31
          /\ stage' = stage \/ stage # 30
        BY <1>4, RestartInScenario DEF GiveUp, AssertNow, Advance, OnStage, Do, Await, scrapeVars
    <2> QED BY <1>1, <1>t, <2>1 DEF ScenarioInv
<1>5. CASE ScrapePrometheus
    <2>1. /\ UNCHANGED <<stage, process>>
          /\ sample' = IF process # 0
                       THEN [later |-> TRUE, up |-> TRUE, from |-> process, seen |-> counted]
                       ELSE [sample EXCEPT !.later = TRUE, !.up = FALSE]
        BY <1>5 DEF ScrapePrometheus, Scrape
    <2>2. DOMAIN sample' = {"later", "up", "from", "seen"}
        BY <1>t, <2>1
    <2> QED BY <1>1, <1>t, <2>1, <2>2 DEF ScenarioInv
<1>6. CASE PlantStep /\ ~ScrapePrometheus
    <2>1. UNCHANGED <<stage, process, sample>>
        BY <1>6 DEF PlantStep, RecoverShop, Persist, Acknowledge, Release, Complete, LeaseEnds, BudgetEnds,
                    SystemMoves, scrapeVars
    <2> QED BY <1>1, <1>t, <2>1 DEF ScenarioInv
<1> QED BY <1>2, <1>3, <1>4, <1>5, <1>6 DEF Diagnostics, InspectionStep

LEMMA ScenarioNextInv == ScenarioInv /\ [ScriptsNext]_scriptsVars => ScenarioInv'
<1> SUFFICES ASSUME ScenarioInv, [ScriptsNext]_scriptsVars PROVE ScenarioInv'
    OBVIOUS
<1>1. CASE UNCHANGED <<script, stage>> /\ (script = "diagnostics" => UNCHANGED scrapeVars)
    BY <1>1 DEF ScenarioInv, scrapeVars
<1>2. CASE ScriptsNext
    BY <1>1, <1>2, StepsAreOwned, DiagnosingKeeps
       DEF bodyVars, diagnosticsVars, Checking, Observing, Measuring, Selling
<1>3. CASE UNCHANGED scriptsVars
    BY <1>1, <1>3 DEF scriptsVars, harnessVars, bodyVars, diagnosticsVars
<1> QED BY <1>2, <1>3

\* What a script concludes from scraped counters, of run-performance-baseline.py and
\* verify-business-diagnostics.py: a measurement of a warm trial is kept only if every request of
\* its window hit the cache, and what is read behind the restart is of the restarted process,
\* however old the scrapes and however often the application was replaced meanwhile.
THEOREM FreshScrapesAreEvidence == ScriptsSpec => []EvidenceIsFresh
<1>1. TrialInv => WindowIsExact
    BY DEF TrialInv, WindowIsExact
<1>2. ScenarioInv => RestartIsSeen
    BY RestartInScenario DEF ScenarioInv, RestartIsSeen
<1> QED BY <1>1, <1>2, TrialInitInv, TrialNextInv, ScenarioInitInv, ScenarioNextInv, PTL
        DEF ScriptsSpec, EvidenceIsFresh
-----------------------------------------------------------------------------
(* What the scripts assert, while nothing goes wrong outside of them       *)

\* verify-observability.py: the one process goes on, so every later scrape reached it.
OutageInv ==
    /\ DOMAIN sample = {"later", "up", "from", "seen"}
    /\ process = 1 /\ (sample.later => sample.up)

\* run-performance-baseline.py: the shop stays cached once it was loaded, the counters moved
\* by the requests of the window, and a later scrape has them as they are.
WarmInv ==
    /\ TrialTypeOK
    /\ trial.at # "prepare" /\ Detail => cached
    /\ trial.at \in {"before", "after"} /\ sample.later => sample.seen = counted
    /\ trial.at \in {"measuring", "after"} =>
        /\ counted.others = trial.window.before.others
        /\ counted.hits = trial.window.before.hits + IF Detail THEN trial.window.requests ELSE 0

\* run-flash-sale-baseline.py: the admission numbers the accepted buyers by the units they
\* took, which are the positions of their events.
AdmissionInv ==
    /\ IF driver.at = "create" THEN Accepted = {} /\ sale.stock = 0
       ELSE sale.stock + Cardinality(Accepted) = Stock
    /\ sale.participants = Accepted
    /\ Len(sale.stream) = Cardinality(Accepted)
    /\ \A i \in 1..Len(sale.stream) :
        sale.stream[i].order = i /\ sale.request[sale.stream[i].user] = i
    /\ \A b \in Accepted :
        /\ sale.request[b] \in 1..Len(sale.stream)
        /\ sale.stream[sale.request[b]] = Event(b, sale.request[b])

\* A buyer who was turned away asked when no unit was left.
AnsweredInv ==
    \A b \in Buyers :
        /\ Len(answers[b]) \in 0..2
        /\ b \in Accepted =>
            /\ Len(answers[b]) > 0 /\ answers[b][1] = [outcome |-> "new", id |-> sale.request[b]]
            /\ Len(answers[b]) = 2 => answers[b][2] = [outcome |-> "replayed", id |-> sale.request[b]]
        /\ b \notin Accepted =>
            /\ \A i \in 1..Len(answers[b]) : answers[b][i] = SoldOut
            /\ Len(answers[b]) > 0 => driver.at # "create" /\ sale.stock = 0

\* The first n events; those delivered and not pending have their orders, which took one unit each.
FirstEvents(n) == {sale.stream[i] : i \in 1..n}

PersistedInv ==
    /\ sale.rows \subseteq FirstEvents(sale.delivered)
    /\ \A i \in (1..sale.delivered) \ sale.pending : sale.stream[i] \in sale.rows
    /\ sale.dbStock + Cardinality(sale.rows) = IF driver.at = "create" THEN 0 ELSE Stock
    /\ sale.dead = 0

\* Behind the polls the system has come to rest, so each reading is of one moment.
ReconciledInv ==
    /\ driver.at \in {"poll", "pending", "read"} => sale.stock = 0
    /\ driver.at \in {"pending", "read"} => Cardinality(sale.rows) = Stock
    /\ driver.at = "read" => sale.pending = {} /\ \A x \in DOMAIN evidence : evidence[x] = Reading(x)

ExactInv == AdmissionInv /\ AnsweredInv /\ PersistedInv /\ ReconciledInv

OrderStates == {"none", "admitted", "persisted", "acknowledged", "dead"}
Cancellations == {"none", "due", "releasing", "again", "leased", "completed", "review"}
Plants == [epochSound : BOOLEAN, outbox : {"none", "queued", "tried"},
           faults : SUBSET {"completion", "insert"}, order : [Orders -> OrderStates],
           cancellation : Cancellations, released : BOOLEAN, dbStock : Int, redisStock : Int]

PlantTypeOK == plant \in Plants /\ DOMAIN sample = {"later", "up", "from", "seen"}

\* verify-business-diagnostics.py: what is broken and admitted at which step ...
PlannedInv ==
    /\ stage \in 1..37
    /\ process = IF stage <= 28 THEN 1 ELSE IF stage <= 30 THEN 0 ELSE 2
    /\ IF stage \in 3..8 THEN ~plant.epochSound ELSE plant.epochSound
    /\ plant.faults = IF stage \in 16..20 THEN {"completion"} ELSE IF stage \in 25..29 THEN {"insert"} ELSE {}
    /\ stage <= 3 => plant.outbox = "none"
    /\ IF stage <= 11 THEN plant.order["first"] = "none"
       ELSE plant.order["first"] = "admitted" \/ Persisted("first")
    /\ stage > 12 => Persisted("first")
    /\ IF stage <= 25 THEN plant.order["second"] = "none"
       ELSE plant.order["second"] = "admitted" \/ (stage >= 30 /\ Persisted("second"))
    /\ stage > 32 => Persisted("second")
    /\ stage <= 16 => plant.cancellation = "none" /\ ~plant.released
    /\ stage \in 17..20 => plant.cancellation \in {"due", "releasing", "again", "leased"}
    /\ stage > 17 => plant.released

\* ... where the units are ...
One(holds) == IF holds THEN 1 ELSE 0

UnitsInv ==
    /\ plant.redisStock = 2 - One(stage > 11) + One(plant.released) - One(stage > 25)
    /\ plant.dbStock = 2 - One(Persisted("first")) + One(stage > 16) - One(Persisted("second"))

\* ... and what the first process has counted, of which Prometheus shows no more.
SeenInv ==
    /\ stage <= 28 => sample.seen \subseteq counted
    /\ sample.from = 0 => sample.seen = {}
    /\ stage > 5 => sample.from # 0
    /\ stage <= 8 => "completed" \notin counted
    /\ stage <= 20 => "released" \notin counted

CalmInv ==
    /\ script \in Scripts /\ mishaps \in Nat
    /\ mishaps = 0 /\ script # "acceptance" => verdict # "contradicted"
    /\ mishaps = 0 /\ script = "observability" => OutageInv
    /\ mishaps = 0 /\ script = "performance" => WarmInv
    /\ mishaps = 0 /\ script = "flashSale" => ExactInv
    /\ mishaps = 0 /\ script = "diagnostics" => PlantTypeOK /\ PlannedInv /\ UnitsInv /\ SeenInv

\* A step takes no mishap back, and only a mishap counts as one.
LEMMA MishapsGrow ==
    ASSUME ScriptsNext, mishaps \in Nat
    PROVE  mishaps' \in Nat /\ (mishaps' = 0 => mishaps = 0)
<1>1. CASE AroundBody
    BY <1>1 DEF AroundBody, ProjectStep, ProjectMishap, Refuse, Begin, StartUp, EndBody, ReadLogs, Down,
           Verify, Digest, ReadExports, Gate, WriteRaws, WriteManifest, StartFails, Interrupt, WriteFails,
           Killed, ExportChanges, Calm, Mishap
<1>2. CASE Acceptance
    BY <1>2 DEF Acceptance, ChecksStep, ArrangeStep, AskStep, HoldsStep, UntilStep, DenyStep, AllowStep,
           NextCheck, CallFails, ChecksTtlEnds, WorkerRecovers, AppBoots, CheckTimesOut, Calm, Mishap
<1>3. CASE Diagnostics
    <2>1. CASE InspectionStep
        BY <2>1 DEF InspectionStep, Carry, Observe, GiveUp, AssertNow, Advance, Calm
    <2>2. CASE BudgetEnds
        BY <2>2 DEF BudgetEnds, Mishap
    <2>3. CASE PlantStep /\ ~BudgetEnds
        BY <2>3 DEF PlantStep, RecoverShop, Persist, Acknowledge, Release, Complete, LeaseEnds,
               ScrapePrometheus, SystemMoves, harnessVars
    <2> QED BY <1>3, <2>1, <2>2, <2>3 DEF Diagnostics
<1>4. CASE Observation
    BY <1>4 DEF Observation, ObservabilityStep, AwaitUp, Request, AwaitSeries, StopRedis, AskHealth,
           OutageScrape, StartRedis, AwaitReady, ApplicationDies, ScrapeWatched, WatchTimesOut, Turns,
           harnessVars, Calm, Mishap
<1>5. CASE Measurement
    BY <1>5 DEF Measurement, TrialStep, Prepare, LoadRequest, LoadEnds, SnapshotBefore, SnapshotAfter,
           TrialFails, Disturbance, ScrapeTrials, StaysCalm, harnessVars, Calm, Mishap
<1>6. CASE Sale
    <2>1. CASE CohortStep
        BY <2>1 DEF CohortStep, CreateActivity, LoadDone, PollRows, PollPending, Read, Judge, Calm
    <2>2. CASE ConsumerStep
        <3>1. CASE PersistEvent
            <4>1. Calm \/ Mishap
                BY <3>1 DEF PersistEvent
            <4> QED BY <4>1 DEF Calm, Mishap
        <3>2. CASE AcknowledgeEvent
            BY <3>2 DEF AcknowledgeEvent, Calm, Mishap
        <3> QED BY <2>2, <3>1, <3>2 DEF ConsumerStep, Deliver, Calm
    <2>3. CASE CohortTimesOut \/ \E b \in Buyers : AskTwice(b)
        BY <2>3 DEF AskTwice, CohortTimesOut, Calm, Mishap
    <2> QED BY <1>6, <2>1, <2>2, <2>3 DEF Sale
<1> QED BY <1>1, <1>2, <1>3, <1>4, <1>5, <1>6, StepsAreOwned

LEMMA OutageKeeps ==
    ASSUME OutageInv, Observation, mishaps \in Nat, mishaps' = 0
    PROVE  OutageInv' /\ verdict' # "contradicted"
<1>1. CASE OutageScrape
    BY <1>1 DEF OutageInv, OutageScrape, Fresh, Turns, Watching, Running, scrapeVars
<1>2. CASE ScrapeWatched
    BY <1>2 DEF OutageInv, ScrapeWatched, Scrape, Running, harnessVars
<1>3. CASE ApplicationDies
    BY <1>3 DEF ApplicationDies, Mishap
<1>4. CASE StopRedis
    <2>1. sample' = [sample EXCEPT !.later = FALSE] /\ process' = process /\ verdict' = "running"
        BY <1>4 DEF StopRedis, TakeTime, Turns, Watching, Running
    <2> QED BY <2>1 DEF OutageInv
<1>5. CASE AwaitUp \/ Request \/ AwaitSeries \/ AskHealth \/ StartRedis \/ AwaitReady \/ WatchTimesOut
    BY <1>5 DEF OutageInv, AwaitUp, Request, AwaitSeries, AskHealth, StartRedis, AwaitReady, WatchTimesOut,
           Turns, Watching, Running, Raised, scrapeVars
<1> QED BY <1>1, <1>2, <1>3, <1>4, <1>5 DEF Observation, ObservabilityStep

LEMMA WarmKeeps ==
    ASSUME TrialInv, WarmInv, Measurement, mishaps \in Nat, mishaps' = 0
    PROVE  WarmInv' /\ verdict' # "contradicted"
<1>1. script = "performance" /\ script' = script
    BY MeasurementIsOwned
<1>t. TrialTypeOK /\ TrialTypeOK'
    BY <1>1, MeasuringKeeps DEF TrialInv
<1>u. /\ trial.window \in Windows /\ trial.window.requests \in Nat
      /\ trial.window.before \in CountRecords
      /\ trial.window.before.hits \in Nat /\ trial.window.before.others \in Nat
      /\ counted.hits \in Nat /\ counted.others \in Nat
      /\ counted = [hits |-> counted.hits, others |-> counted.others]
    BY <1>t DEF TrialTypeOK, Windows, CountRecords
<1>2. CASE Prepare
    <2>1. /\ verdict' = "running" /\ trial' = [trial EXCEPT !.at = "warming"]
          /\ Detail => cached'
        BY <1>2 DEF Prepare, Measures, To, StaysCalm, Running
    <2>2. trial'.at = "warming" /\ Detail' = Detail
        BY <1>t, <2>1 DEF TrialTypeOK, Detail
    <2> QED BY <1>t, <2>1, <2>2 DEF WarmInv
<1>3. CASE LoadRequest
    <2>1. /\ verdict' = "running" /\ trial.at \in {"warming", "measuring"}
          /\ counted' = IF ~Detail THEN counted
                        ELSE IF cached THEN [counted EXCEPT !.hits = @ + 1]
                        ELSE [counted EXCEPT !.others = @ + 1]
          /\ cached' = (cached \/ Detail)
        BY <1>3 DEF LoadRequest, Running, StaysCalm
    <2>2. /\ trial'.number = trial.number /\ trial'.at = trial.at
          /\ trial'.window.before = trial.window.before
          /\ trial'.window.requests = trial.window.requests + 1
        BY <1>3, <1>t, LoadRequestMoves
    <2>3. Detail' = Detail
        BY <2>2 DEF Detail
    <2>4. trial.at = "measuring" =>
            /\ counted'.others = trial'.window.before.others
            /\ counted'.hits = trial'.window.before.hits + IF Detail THEN trial'.window.requests ELSE 0
        <3>1. CASE Detail
            <4>1. cached /\ counted' = [counted EXCEPT !.hits = @ + 1]
                BY <2>1, <3>1 DEF WarmInv
            <4>2. counted'.hits = counted.hits + 1 /\ counted'.others = counted.others
                BY <1>u, <4>1
            <4> QED BY <1>u, <2>2, <3>1, <4>2 DEF WarmInv
        <3>2. CASE ~Detail
            BY <1>u, <2>1, <2>2, <3>2 DEF WarmInv
        <3> QED BY <3>1, <3>2
    <2> QED BY <1>t, <2>1, <2>2, <2>3, <2>4 DEF WarmInv
<1>4. CASE LoadEnds
    <2>1. /\ verdict' = "running" /\ UNCHANGED <<cached, counted>>
          /\ trial.at \in {"warming", "measuring"}
          /\ trial' = [trial EXCEPT !.at = IF trial.at = "warming" THEN "before" ELSE "after"]
          /\ sample' = [sample EXCEPT !.later = FALSE]
        BY <1>4 DEF LoadEnds, To, TakeTime, StaysCalm, Running
    <2>2. /\ trial'.at = IF trial.at = "warming" THEN "before" ELSE "after"
          /\ trial'.window = trial.window /\ trial'.number = trial.number
          /\ sample'.later = FALSE
        BY <1>t, <2>1 DEF TrialTypeOK
    <2> QED BY <1>t, <2>1, <2>2 DEF WarmInv, Detail
<1>5. CASE SnapshotBefore
    <2>1. /\ verdict' = "running" /\ UNCHANGED <<cached, counted, sample>>
          /\ trial.at = "before" /\ sample.later
          /\ trial' = [trial EXCEPT !.at = "measuring",
                                    !.window = [Window EXCEPT !.before = sample.seen]]
        BY <1>5 DEF SnapshotBefore, Measures, Fresh, StaysCalm, Running, scrapeVars
    <2>2. /\ trial'.at = "measuring" /\ trial'.number = trial.number
          /\ trial'.window = [requests |-> 0, strays |-> 0, before |-> sample.seen]
        BY <1>t, <2>1 DEF TrialTypeOK, Window
    <2>3. trial'.window.before = counted /\ trial'.window.requests = 0 /\ Detail' = Detail
        BY <2>1, <2>2 DEF WarmInv, Detail
    <2> QED BY <1>t, <1>u, <2>1, <2>2, <2>3 DEF WarmInv
<1>6. CASE SnapshotAfter
    <2>1. /\ trial.at = "after" /\ sample.later /\ verdict = "running"
          /\ UNCHANGED <<cached, scrapeVars>>
          /\ Exclusive => /\ trial' = [number |-> trial.number + 1, at |-> "prepare", window |-> Window]
                          /\ verdict' \in {"passed", "running"}
        BY <1>6 DEF SnapshotAfter, Measures, Running, Fresh
    <2>2. Exclusive
        BY <1>u, <2>1 DEF WarmInv, Exclusive, Delta
    <2> QED BY <1>t, <2>1, <2>2 DEF WarmInv, scrapeVars
<1>7. CASE Disturbance
    BY <1>7 DEF Disturbance, Mishap
<1>8. CASE ScrapeTrials
    <2>1. /\ UNCHANGED <<trial, cached, counted>> /\ verdict' = "running"
          /\ sample'.seen = counted
        BY <1>8, <1>t DEF ScrapeTrials, Scrape, trialVars, harnessVars, TrialTypeOK, Running
    <2> QED BY <1>t, <2>1 DEF WarmInv, Detail
<1>9. CASE TrialFails
    BY <1>9, <1>t DEF TrialFails, WarmInv, Detail, Raised, trialVars, scrapeVars
<1> QED BY <1>2, <1>3, <1>4, <1>5, <1>6, <1>7, <1>8, <1>9 DEF Measurement, TrialStep

\* The steps of verify-business-diagnostics.py by their numbers.
LEMMA ScenarioSteps ==
    /\ Scenario[1] = Await("up")
    /\ Scenario[2] = Do("break_epoch") /\ Scenario[3] = Do("update_shop")
    /\ Scenario[4] = Await("retried") /\ Scenario[5] = AwaitMetric("callback_failed")
    /\ Scenario[6] = AwaitMetric("retry_recorded") /\ Scenario[7] = Require("not_completed")
    /\ Scenario[8] = Do("repair_epoch") /\ Scenario[9] = Await("outbox_empty")
    /\ Scenario[10] = AwaitMetric("completed") /\ Scenario[11] = Do("admit_first")
    /\ Scenario[12] = Await("first_persisted") /\ Scenario[13] = AwaitMetric("handler_returned")
    /\ Scenario[14] = AwaitMetric("acknowledged") /\ Scenario[15] = Do("break_completion")
    /\ Scenario[16] = Do("cancel_first") /\ Scenario[17] = Await("released")
    /\ Scenario[18] = AwaitMetric("entry_failure")
    /\ Scenario[19] = Require("unit_back_row_pending") /\ Scenario[20] = Do("repair_completion")
    /\ Scenario[21] = Await("completed") /\ Scenario[22] = AwaitMetric("already_released")
    /\ Scenario[23] = Require("unit_back_once") /\ Scenario[24] = Do("break_insert")
    /\ Scenario[25] = Do("admit_second") /\ Scenario[26] = AwaitMetric("deferred")
    /\ Scenario[27] = Require("second_pending") /\ Scenario[28] = Do("stop")
    /\ Scenario[29] = Do("repair_insert") /\ Scenario[30] = Do("start")
    /\ Scenario[31] = Await("fresh") /\ Scenario[32] = Await("second_persisted")
    /\ Scenario[33] = Require("one_unit_sold") /\ Scenario[34] = Await("second_acknowledged")
    /\ Scenario[35] = AwaitMetric("acknowledged") /\ Scenario[36] = Await("counters_reset")
<1>1. /\ \A i \in 1..30 : Scenario[i] = UntilRestart[i]
      /\ \A i \in 1..6 : Scenario[30 + i] = BehindRestart[i]
    BY ScenarioIsBoth
<1>2. /\ Scenario[1] = UntilRestart[1] /\ Scenario[2] = UntilRestart[2] /\ Scenario[3] = UntilRestart[3]
      /\ Scenario[4] = UntilRestart[4] /\ Scenario[5] = UntilRestart[5] /\ Scenario[6] = UntilRestart[6]
      /\ Scenario[7] = UntilRestart[7] /\ Scenario[8] = UntilRestart[8] /\ Scenario[9] = UntilRestart[9]
      /\ Scenario[10] = UntilRestart[10] /\ Scenario[11] = UntilRestart[11]
      /\ Scenario[12] = UntilRestart[12] /\ Scenario[13] = UntilRestart[13]
      /\ Scenario[14] = UntilRestart[14] /\ Scenario[15] = UntilRestart[15]
    BY <1>1
<1>3. /\ Scenario[16] = UntilRestart[16] /\ Scenario[17] = UntilRestart[17]
      /\ Scenario[18] = UntilRestart[18] /\ Scenario[19] = UntilRestart[19]
      /\ Scenario[20] = UntilRestart[20] /\ Scenario[21] = UntilRestart[21]
      /\ Scenario[22] = UntilRestart[22] /\ Scenario[23] = UntilRestart[23]
      /\ Scenario[24] = UntilRestart[24] /\ Scenario[25] = UntilRestart[25]
      /\ Scenario[26] = UntilRestart[26] /\ Scenario[27] = UntilRestart[27]
      /\ Scenario[28] = UntilRestart[28] /\ Scenario[29] = UntilRestart[29]
      /\ Scenario[30] = UntilRestart[30]
    BY <1>1
<1>4. /\ Scenario[31] = BehindRestart[1] /\ Scenario[32] = BehindRestart[2]
      /\ Scenario[33] = BehindRestart[3] /\ Scenario[34] = BehindRestart[4]
      /\ Scenario[35] = BehindRestart[5] /\ Scenario[36] = BehindRestart[6]
    BY <1>1
<1> QED BY <1>2, <1>3, <1>4 DEF UntilRestart, BehindRestart

\* An assertion of the scenario finds what it asserts.
LEMMA AssertionsHold ==
    ASSUME PlannedInv, UnitsInv, SeenInv, OnStage("assert")
    PROVE  True(What)
<1>1. stage \in {7, 19, 23, 27, 33}
    BY ScenarioSteps, ScenarioIsBoth DEF PlannedInv, OnStage, Do, Await, AwaitMetric, Require
<1>2. CASE stage = 7
    <2>1. Zero("completed")
        BY <1>2 DEF SeenInv, Zero, Metric
    <2>2. What = "not_completed"
        BY <1>2, ScenarioSteps DEF What, Require
    <2> QED BY <2>1, <2>2 DEF True
<1>3. CASE stage = 19
    <2>1. Zero("released")
        BY <1>3 DEF SeenInv, Zero, Metric
    <2>2. plant.cancellation \in {"due", "releasing", "again", "leased"} /\ plant.redisStock = 2
        BY <1>3 DEF PlannedInv, UnitsInv, One
    <2>3. What = "unit_back_row_pending"
        BY <1>3, ScenarioSteps DEF What, Require
    <2> QED BY <2>1, <2>2, <2>3 DEF True
<1>4. CASE stage = 23
    <2>1. plant.redisStock = 2 /\ plant.dbStock = 2
        BY <1>4 DEF PlannedInv, UnitsInv, One, Persisted
    <2>2. What = "unit_back_once"
        BY <1>4, ScenarioSteps DEF What, Require
    <2> QED BY <2>1, <2>2 DEF True
<1>5. CASE stage = 27
    <2>1. plant.order["second"] = "admitted"
        BY <1>5 DEF PlannedInv
    <2>2. What = "second_pending"
        BY <1>5, ScenarioSteps DEF What, Require
    <2> QED BY <2>1, <2>2 DEF True
<1>6. CASE stage = 33
    <2>1. plant.redisStock = 1 /\ plant.dbStock = 1
        BY <1>6 DEF PlannedInv, UnitsInv, One
    <2>2. What = "one_unit_sold"
        BY <1>6, ScenarioSteps DEF What, Require
    <2> QED BY <2>1, <2>2 DEF True
<1> QED BY <1>1, <1>2, <1>3, <1>4, <1>5, <1>6

\* What the steps of the scenario and of the system replace in the plant is of its kind.
LEMMA OrderPuts ==
    ASSUME NEW p \in Plants, NEW o \in Orders, NEW s \in OrderStates, NEW n \in Int
    PROVE  /\ [p EXCEPT !.order[o] = s, !.redisStock = n] \in Plants
           /\ [p EXCEPT !.order[o] = s, !.dbStock = n] \in Plants
           /\ [p EXCEPT !.order[o] = s] \in Plants
<1> DEFINE orders == [p.order EXCEPT ![o] = s]
<1>1. orders \in [Orders -> OrderStates]
    BY DEF Plants
<1>2. /\ [p EXCEPT !.order[o] = s] = [p EXCEPT !.order = orders]
      /\ [p EXCEPT !.order[o] = s, !.redisStock = n] = [p EXCEPT !.order = orders, !.redisStock = n]
      /\ [p EXCEPT !.order[o] = s, !.dbStock = n] = [p EXCEPT !.order = orders, !.dbStock = n]
    OBVIOUS
<1> HIDE DEF orders, OrderStates
<1>3. /\ [p EXCEPT !.order = orders] \in Plants
      /\ [p EXCEPT !.order = orders, !.redisStock = n] \in Plants
      /\ [p EXCEPT !.order = orders, !.dbStock = n] \in Plants
    BY <1>1 DEF Plants
<1> QED BY <1>2, <1>3

LEMMA CancellationPuts ==
    ASSUME NEW p \in Plants, NEW c \in Cancellations, NEW n \in Int
    PROVE  /\ [p EXCEPT !.cancellation = c] \in Plants
           /\ [p EXCEPT !.cancellation = c, !.dbStock = n] \in Plants
           /\ [p EXCEPT !.redisStock = n, !.released = TRUE, !.cancellation = c] \in Plants
           /\ [p EXCEPT !.faults = {}, !.cancellation = c] \in Plants
           /\ [p EXCEPT !.faults = {}] \in Plants
<1>1. [p EXCEPT !.cancellation = c] \in Plants
    BY DEF Plants
<1>2. [p EXCEPT !.cancellation = c, !.dbStock = n] \in Plants
    BY DEF Plants
<1>3. [p EXCEPT !.redisStock = n, !.released = TRUE, !.cancellation = c] \in Plants
    BY DEF Plants
<1>4. [p EXCEPT !.faults = {}, !.cancellation = c] \in Plants
    BY DEF Plants
<1>5. [p EXCEPT !.faults = {}] \in Plants
    BY DEF Plants
<1> QED BY <1>1, <1>2, <1>3, <1>4, <1>5

\* A request or statement of the scenario moves the plan on by what it breaks, repairs or admits.
LEMMA CarryKeeps ==
    ASSUME PlantTypeOK, PlannedInv, UnitsInv, SeenInv, Carry
    PROVE  PlantTypeOK' /\ PlannedInv' /\ UnitsInv' /\ SeenInv' /\ verdict' # "contradicted"
<1>1. /\ stage \in {2, 3, 8, 11, 15, 16, 20, 24, 25, 28, 29, 30} /\ stage' = stage + 1
      /\ verdict' = "running" /\ Effect(What) /\ What = Scenario[stage].what
    <2>1. OnStage("do") /\ Effect(What) /\ Advance
        BY DEF Carry
    <2>2. stage \in {2, 3, 8, 11, 15, 16, 20, 24, 25, 28, 29, 30}
        BY <2>1, ScenarioSteps, ScenarioIsBoth DEF PlannedInv, OnStage, Do, Await, AwaitMetric, Require
    <2> QED BY <2>1, <2>2, ScenarioIsBoth DEF Advance, What, OnStage, Inspects, Running
<1>t. plant \in Plants /\ plant.dbStock + 1 \in Int /\ plant.redisStock - 1 \in Int
    BY DEF PlantTypeOK, Plants
<1> USE DEF PlantTypeOK, PlannedInv, UnitsInv, SeenInv, One, Persisted, Orders, Plants, OrderStates,
            Cancellations
<1>2. CASE stage = 2
    <2>1. plant' = [plant EXCEPT !.epochSound = FALSE] /\ UNCHANGED scrapeVars
        BY <1>1, <1>2, ScenarioSteps DEF Effect, Do, Keeps
    <2>2. PlantTypeOK'
        BY <1>1, <1>2, <2>1 DEF scrapeVars
    <2>3. PlannedInv'
        BY <1>1, <1>2, <2>1 DEF scrapeVars
    <2>4. UnitsInv'
        BY <1>1, <1>2, <2>1 DEF scrapeVars
    <2>5. SeenInv'
        BY <1>1, <1>2, <2>1 DEF scrapeVars
    <2> QED BY <1>1, <2>2, <2>3, <2>4, <2>5
<1>3. CASE stage = 3
    <2>1. /\ plant' = [plant EXCEPT !.outbox = "queued"]
          /\ counted' = counted \cup {"callback_failed"} /\ UNCHANGED <<process, sample>>
        BY <1>1, <1>3, ScenarioSteps DEF Effect, Do, Keeps, Count
    <2> QED BY <1>1, <1>3, <2>1
<1>4. CASE stage = 8
    <2>1. plant' = [plant EXCEPT !.epochSound = TRUE] /\ UNCHANGED scrapeVars
        BY <1>1, <1>4, ScenarioSteps DEF Effect, Do, Keeps
    <2>2. PlantTypeOK'
        BY <1>1, <1>4, <2>1 DEF scrapeVars
    <2>3. PlannedInv'
        BY <1>1, <1>4, <2>1 DEF scrapeVars
    <2>4. UnitsInv'
        BY <1>1, <1>4, <2>1 DEF scrapeVars
    <2>5. SeenInv'
        BY <1>1, <1>4, <2>1 DEF scrapeVars
    <2> QED BY <1>1, <2>2, <2>3, <2>4, <2>5
<1>5. CASE stage = 11
    <2>1. /\ plant' = [plant EXCEPT !.order["first"] = "admitted", !.redisStock = @ - 1]
          /\ UNCHANGED scrapeVars
        BY <1>1, <1>5, ScenarioSteps DEF Effect, Do, Keeps
    <2>2. PlantTypeOK'
        <3> HIDE DEF Plants, PlannedInv, UnitsInv, SeenInv
        <3> QED BY <1>t, <2>1, OrderPuts, CancellationPuts DEF scrapeVars
    <2>3. PlannedInv'
        BY <1>1, <1>5, <2>1 DEF scrapeVars
    <2>4. UnitsInv'
        BY <1>1, <1>5, <2>1 DEF scrapeVars
    <2>5. SeenInv'
        BY <1>1, <1>5, <2>1 DEF scrapeVars
    <2> QED BY <1>1, <2>2, <2>3, <2>4, <2>5
<1>6. CASE stage = 15
    <2>1. plant' = [plant EXCEPT !.faults = {"completion"}] /\ UNCHANGED scrapeVars
        BY <1>1, <1>6, ScenarioSteps DEF Effect, Do, Keeps
    <2> QED BY <1>1, <1>6, <2>1 DEF scrapeVars
<1>7. CASE stage = 16
    <2>1. /\ plant' = [plant EXCEPT !.cancellation = "due", !.dbStock = @ + 1]
          /\ UNCHANGED scrapeVars
        BY <1>1, <1>7, ScenarioSteps DEF Effect, Do, Keeps
    <2>2. PlantTypeOK'
        <3> HIDE DEF Plants, PlannedInv, UnitsInv, SeenInv
        <3> QED BY <1>t, <2>1, OrderPuts, CancellationPuts DEF scrapeVars
    <2>3. PlannedInv'
        BY <1>1, <1>7, <2>1 DEF scrapeVars
    <2>4. UnitsInv'
        BY <1>1, <1>7, <2>1 DEF scrapeVars
    <2>5. SeenInv'
        BY <1>1, <1>7, <2>1 DEF scrapeVars
    <2> QED BY <1>1, <2>2, <2>3, <2>4, <2>5
<1>8. CASE stage = 20
    <2>1. /\ \/ plant' = [plant EXCEPT !.faults = {}, !.cancellation = "due"]
             \/ plant' = [plant EXCEPT !.faults = {}]
          /\ UNCHANGED scrapeVars
        <3>1. /\ plant' = [plant EXCEPT !.faults = {}, !.cancellation = IF @ = "leased" THEN "due" ELSE @]
              /\ UNCHANGED scrapeVars
            BY <1>1, <1>8, ScenarioSteps DEF Effect, Do, Keeps
        <3> QED BY <3>1
    <2>2. PlantTypeOK'
        <3> HIDE DEF Plants, PlannedInv, UnitsInv, SeenInv
        <3> QED BY <1>t, <2>1, OrderPuts, CancellationPuts DEF scrapeVars
    <2>v. /\ plant'.faults = {} /\ plant'.cancellation \in {plant.cancellation, "due"}
          /\ plant'.epochSound = plant.epochSound /\ plant'.outbox = plant.outbox
          /\ plant'.order = plant.order /\ plant'.released = plant.released
          /\ plant'.dbStock = plant.dbStock /\ plant'.redisStock = plant.redisStock
        <3> HIDE DEF PlannedInv, UnitsInv, SeenInv
        <3> QED BY <2>1
    <2>3. PlannedInv'
        BY <1>1, <1>8, <2>1, <2>v DEF scrapeVars
    <2>4. UnitsInv'
        BY <1>1, <1>8, <2>v
    <2>5. SeenInv'
        <3> HIDE DEF Plants, PlannedInv, UnitsInv
        <3> QED BY <1>1, <1>8, <2>1 DEF scrapeVars
    <2> QED BY <1>1, <2>2, <2>3, <2>4, <2>5
<1>9. CASE stage = 24
    <2>1. plant' = [plant EXCEPT !.faults = {"insert"}] /\ UNCHANGED scrapeVars
        BY <1>1, <1>9, ScenarioSteps DEF Effect, Do, Keeps
    <2> QED BY <1>1, <1>9, <2>1 DEF scrapeVars
<1>10. CASE stage = 25
    <2>1. /\ plant' = [plant EXCEPT !.order["second"] = "admitted", !.redisStock = @ - 1]
          /\ UNCHANGED scrapeVars
        BY <1>1, <1>10, ScenarioSteps DEF Effect, Do, Keeps
    <2>2. PlantTypeOK'
        <3> HIDE DEF Plants, PlannedInv, UnitsInv, SeenInv
        <3> QED BY <1>t, <2>1, OrderPuts, CancellationPuts DEF scrapeVars
    <2>3. PlannedInv'
        BY <1>1, <1>10, <2>1 DEF scrapeVars
    <2>4. UnitsInv'
        BY <1>1, <1>10, <2>1 DEF scrapeVars
    <2>5. SeenInv'
        BY <1>1, <1>10, <2>1 DEF scrapeVars
    <2> QED BY <1>1, <2>2, <2>3, <2>4, <2>5
<1>11. CASE stage = 28
    <2>1. process' = 0 /\ UNCHANGED <<plant, counted, sample>>
        BY <1>1, <1>11, ScenarioSteps DEF Effect, Do, Keeps
    <2> QED BY <1>1, <1>11, <2>1
<1>12. CASE stage = 29
    <2>1. plant' = [plant EXCEPT !.faults = {}] /\ UNCHANGED scrapeVars
        BY <1>1, <1>12, ScenarioSteps DEF Effect, Do, Keeps
    <2> QED BY <1>1, <1>12, <2>1 DEF scrapeVars
<1>13. CASE stage = 30
    <2>1. process' = 2 /\ counted' = {} /\ sample' = [sample EXCEPT !.later = FALSE] /\ UNCHANGED plant
        BY <1>1, <1>13, ScenarioSteps DEF Effect, Do, Keeps, TakeTime
    <2> QED BY <1>1, <1>13, <2>1
<1> QED BY <1>1, <1>2, <1>3, <1>4, <1>5, <1>6, <1>7, <1>8, <1>9, <1>10, <1>11, <1>12, <1>13

\* An awaited state or metric is what the next steps rely on.
LEMMA ObserveKeeps ==
    ASSUME PlantTypeOK, PlannedInv, UnitsInv, SeenInv, Observe
    PROVE  PlantTypeOK' /\ PlannedInv' /\ UnitsInv' /\ SeenInv' /\ verdict' # "contradicted"
<1>1. /\ stage' = stage + 1 /\ UNCHANGED <<scrapeVars, plant>> /\ verdict' # "contradicted"
      /\ \/ OnStage("await") /\ True(What)
         \/ OnStage("awaitMetric") /\ Metric(What)
    <2>1. verdict = "running"
        BY DEF Observe, OnStage, Inspects, Running
    <2> QED BY <2>1 DEF Observe, Advance
<1>2. stage \in 1..36 /\ stage \notin {2, 3, 8, 11, 15, 16, 20, 24, 25, 28, 29, 30}
    BY <1>1, ScenarioSteps, ScenarioIsBoth DEF PlannedInv, OnStage, Do
<1>3. stage = 5 => sample.from # 0
    <2> SUFFICES ASSUME stage = 5 PROVE sample.from # 0
        OBVIOUS
    <2>1. ~OnStage("await")
        BY ScenarioSteps DEF OnStage, AwaitMetric
    <2>2. Metric(What)
        BY <1>1, <2>1
    <2> QED BY <2>2 DEF Metric, SeenInv
<1>4. stage = 12 => Persisted("first")
    <2> SUFFICES ASSUME stage = 12 PROVE Persisted("first")
        OBVIOUS
    <2>1. ~OnStage("awaitMetric") /\ What = "first_persisted"
        BY ScenarioSteps DEF OnStage, Await, What
    <2> QED BY <1>1, <2>1 DEF True
<1>5. stage = 17 => plant.released
    <2> SUFFICES ASSUME stage = 17 PROVE plant.released
        OBVIOUS
    <2>1. ~OnStage("awaitMetric") /\ What = "released"
        BY ScenarioSteps DEF OnStage, Await, What
    <2>2. True("released")
        BY <1>1, <2>1
    <2> QED BY <2>2 DEF True
<1>6. stage = 32 => Persisted("second")
    <2> SUFFICES ASSUME stage = 32 PROVE Persisted("second")
        OBVIOUS
    <2>1. ~OnStage("awaitMetric") /\ What = "second_persisted"
        BY ScenarioSteps DEF OnStage, Await, What
    <2> QED BY <1>1, <2>1 DEF True
<1>7. PlannedInv'
    BY <1>1, <1>2, <1>4, <1>5, <1>6 DEF PlannedInv, Persisted, scrapeVars
<1>8. UnitsInv'
    BY <1>1, <1>2 DEF PlannedInv, UnitsInv, One, Persisted
<1>9. SeenInv'
    BY <1>1, <1>2, <1>3 DEF PlannedInv, SeenInv, scrapeVars
<1> QED BY <1>1, <1>7, <1>8, <1>9 DEF PlantTypeOK, scrapeVars

\* An assertion that holds, or an awaited state that does not come, changes nothing else.
LEMMA AssertOrGiveUpKeeps ==
    ASSUME PlantTypeOK, PlannedInv, UnitsInv, SeenInv, AssertNow \/ GiveUp
    PROVE  PlantTypeOK' /\ PlannedInv' /\ UnitsInv' /\ SeenInv' /\ verdict' # "contradicted"
<1>1. CASE AssertNow
    <2>1. /\ stage' = stage + 1 /\ UNCHANGED <<scrapeVars, plant>> /\ verdict' # "contradicted"
          /\ OnStage("assert")
        BY <1>1, AssertionsHold DEF AssertNow, Advance, OnStage, Inspects, Running
    <2>2. stage \in {7, 19, 23, 27, 33}
        BY <2>1, ScenarioSteps, ScenarioIsBoth DEF PlannedInv, OnStage, Do, Await, AwaitMetric
    <2>3. PlannedInv'
        BY <2>1, <2>2 DEF PlannedInv, Persisted, scrapeVars
    <2>4. UnitsInv'
        BY <2>1, <2>2 DEF UnitsInv, One, Persisted
    <2>5. SeenInv'
        BY <2>1, <2>2 DEF SeenInv, scrapeVars
    <2> QED BY <2>1, <2>3, <2>4, <2>5 DEF PlantTypeOK, scrapeVars
<1>2. CASE GiveUp
    BY <1>2 DEF GiveUp, Raised, PlantTypeOK, PlannedInv, UnitsInv, SeenInv, Persisted, scrapeVars
<1> QED BY <1>1, <1>2

\* The recovery worker, the consumer, the reconciler and Prometheus, at any step of the scenario.
LEMMA PlantKeeps ==
    ASSUME PlantTypeOK, PlannedInv, UnitsInv, SeenInv, PlantStep, mishaps \in Nat, mishaps' = 0
    PROVE  PlantTypeOK' /\ PlannedInv' /\ UnitsInv' /\ SeenInv' /\ verdict' # "contradicted"
<1>t. plant \in Plants /\ plant.dbStock - 1 \in Int /\ plant.redisStock + 1 \in Int
    BY DEF PlantTypeOK, Plants
<1>r. Inspects => verdict = "running"
    BY DEF Inspects, Running
<1> USE DEF SystemMoves, harnessVars, Up
<1>1. CASE RecoverShop
    <2>1. /\ plant.outbox # "none" /\ UNCHANGED <<process, sample, stage>> /\ verdict' = "running"
          /\ plant' = [plant EXCEPT !.outbox = IF plant.epochSound THEN "none" ELSE "tried"]
          /\ counted' = counted \cup {IF plant.epochSound THEN "completed" ELSE "retry_recorded"}
        BY <1>1, <1>r DEF RecoverShop, Count
    <2>2. stage > 3 /\ (stage <= 8 => ~plant.epochSound)
        BY <2>1 DEF PlannedInv
    <2>3. PlantTypeOK'
        BY <2>1 DEF PlantTypeOK, Plants
    <2>4. PlannedInv'
        BY <1>t, <2>1, <2>2 DEF PlannedInv, Persisted, Plants
    <2>5. UnitsInv'
        BY <1>t, <2>1 DEF UnitsInv, One, Persisted, Plants
    <2>6. SeenInv'
        BY <2>1, <2>2 DEF SeenInv
    <2> QED BY <2>1, <2>3, <2>4, <2>5, <2>6
<1>2. ASSUME NEW o \in Orders, Persist(o)
      PROVE  PlantTypeOK' /\ PlannedInv' /\ UnitsInv' /\ SeenInv' /\ verdict' # "contradicted"
    <2>1. /\ plant.order[o] = "admitted" /\ UNCHANGED <<process, sample, stage>> /\ verdict' = "running"
          /\ \/ /\ plant' = plant /\ counted' = counted \cup {"deferred"}
             \/ /\ "insert" \notin plant.faults /\ counted' = counted \cup {"handler_returned"}
                /\ plant' = [plant EXCEPT !.order[o] = "persisted", !.dbStock = @ - 1]
        BY <1>2, <1>r DEF Persist, Count
    <2>2. CASE plant' = plant
        BY <2>1, <2>2 DEF PlantTypeOK, PlannedInv, UnitsInv, SeenInv, Persisted
    <2>3. CASE /\ "insert" \notin plant.faults
               /\ plant' = [plant EXCEPT !.order[o] = "persisted", !.dbStock = @ - 1]
        <3>1. /\ plant'.order = [plant.order EXCEPT ![o] = "persisted"]
              /\ plant'.dbStock = plant.dbStock - 1
              /\ plant'.epochSound = plant.epochSound /\ plant'.outbox = plant.outbox
              /\ plant'.faults = plant.faults /\ plant'.cancellation = plant.cancellation
              /\ plant'.released = plant.released /\ plant'.redisStock = plant.redisStock
            BY <1>t, <2>3 DEF Plants
        <3>2. /\ plant'.order[o] = "persisted"
              /\ \A x \in Orders \ {o} : plant'.order[x] = plant.order[x]
            BY <1>t, <3>1 DEF Plants
        <3>3. PlantTypeOK'
            <4>1. "persisted" \in OrderStates
                BY DEF OrderStates
            <4>2. [plant EXCEPT !.order[o] = "persisted", !.dbStock = plant.dbStock - 1] \in Plants
                BY <1>t, <4>1, OrderPuts
            <4> QED BY <2>1, <2>3, <4>2 DEF PlantTypeOK
        <3>4. o = "first" \/ o = "second"
            BY DEF Orders
        <3>5. PlannedInv'
            BY <2>1, <2>3, <3>1, <3>2, <3>4 DEF PlannedInv, Persisted, Orders
        <3>6. UnitsInv'
            BY <1>t, <2>1, <3>1, <3>2, <3>4 DEF UnitsInv, One, Persisted, Orders, Plants
        <3>7. SeenInv'
            BY <2>1 DEF SeenInv
        <3> QED BY <2>1, <3>3, <3>5, <3>6, <3>7
    <2> QED BY <2>1, <2>2, <2>3
<1>3. ASSUME NEW o \in Orders, Acknowledge(o)
      PROVE  PlantTypeOK' /\ PlannedInv' /\ UnitsInv' /\ SeenInv' /\ verdict' # "contradicted"
    <2>1. /\ plant.order[o] = "persisted" /\ UNCHANGED <<process, sample, stage>> /\ verdict' = "running"
          /\ plant' = [plant EXCEPT !.order[o] = "acknowledged"]
          /\ counted' = counted \cup {"acknowledged"}
        BY <1>3, <1>r DEF Acknowledge, Count
    <2>2. /\ plant'.order = [plant.order EXCEPT ![o] = "acknowledged"]
          /\ plant'.dbStock = plant.dbStock
          /\ plant'.epochSound = plant.epochSound /\ plant'.outbox = plant.outbox
          /\ plant'.faults = plant.faults /\ plant'.cancellation = plant.cancellation
          /\ plant'.released = plant.released /\ plant'.redisStock = plant.redisStock
        BY <1>t, <2>1 DEF Plants
    <2>3. /\ plant'.order[o] = "acknowledged"
          /\ \A x \in Orders \ {o} : plant'.order[x] = plant.order[x]
        BY <1>t, <2>2 DEF Plants
    <2>4. PlantTypeOK'
        <3>1. "acknowledged" \in OrderStates
            BY DEF OrderStates
        <3>2. [plant EXCEPT !.order[o] = "acknowledged"] \in Plants
            BY <1>t, <3>1, OrderPuts
        <3> QED BY <2>1, <3>2 DEF PlantTypeOK
    <2>5. o = "first" \/ o = "second"
        BY DEF Orders
    <2>6. PlannedInv'
        BY <2>1, <2>2, <2>3, <2>5 DEF PlannedInv, Persisted, Orders
    <2>7. UnitsInv'
        BY <1>t, <2>1, <2>2, <2>3, <2>5 DEF UnitsInv, One, Persisted, Orders, Plants
    <2>8. SeenInv'
        BY <2>1 DEF SeenInv
    <2> QED BY <2>1, <2>4, <2>6, <2>7, <2>8
<1>4. CASE Release
    <2>1. /\ plant.cancellation = "due" /\ UNCHANGED <<process, sample, stage, counted>>
          /\ verdict' = "running"
          /\ \/ plant.released /\ plant' = [plant EXCEPT !.cancellation = "again"]
             \/ /\ ~plant.released
                /\ plant' = [plant EXCEPT !.redisStock = @ + 1, !.released = TRUE,
                                          !.cancellation = "releasing"]
        BY <1>4, <1>r DEF Release, ReleaseOnce
    <2>2. stage > 16
        BY <2>1 DEF PlannedInv
    <2>3. /\ plant'.cancellation \in {"again", "releasing"} /\ plant'.released = TRUE
          /\ plant'.redisStock + One(plant.released) = plant.redisStock + One(plant'.released)
          /\ plant'.epochSound = plant.epochSound /\ plant'.outbox = plant.outbox
          /\ plant'.faults = plant.faults /\ plant'.order = plant.order
          /\ plant'.dbStock = plant.dbStock
        <3>1. CASE plant.released /\ plant' = [plant EXCEPT !.cancellation = "again"]
            BY <1>t, <3>1 DEF Plants, One
        <3>2. CASE /\ ~plant.released
                   /\ plant' = [plant EXCEPT !.redisStock = @ + 1, !.released = TRUE,
                                             !.cancellation = "releasing"]
            <4>1. /\ plant'.cancellation = "releasing" /\ plant'.released = TRUE
                  /\ plant'.redisStock = plant.redisStock + 1
                  /\ plant'.epochSound = plant.epochSound /\ plant'.outbox = plant.outbox
                  /\ plant'.faults = plant.faults /\ plant'.order = plant.order
                  /\ plant'.dbStock = plant.dbStock
                BY <1>t, <3>2 DEF Plants
            <4> QED BY <1>t, <3>2, <4>1 DEF One
        <3> QED BY <2>1, <3>1, <3>2
    <2>4. PlantTypeOK'
        <3>1. "again" \in Cancellations /\ "releasing" \in Cancellations
            BY DEF Cancellations
        <3>2. /\ [plant EXCEPT !.cancellation = "again"] \in Plants
              /\ [plant EXCEPT !.redisStock = plant.redisStock + 1, !.released = TRUE,
                               !.cancellation = "releasing"] \in Plants
            BY <1>t, <3>1, CancellationPuts
        <3> QED BY <2>1, <3>2 DEF PlantTypeOK
    <2>5. PlannedInv'
        BY <2>1, <2>2, <2>3 DEF PlannedInv, Persisted
    <2>6. UnitsInv'
        <3>1. plant'.redisStock \in Int /\ plant.redisStock \in Int
            BY <2>4 DEF PlantTypeOK, Plants
        <3> QED BY <2>1, <2>3, <3>1 DEF UnitsInv, One, Persisted
    <2>7. SeenInv'
        BY <2>1 DEF SeenInv
    <2> QED BY <2>1, <2>4, <2>5, <2>6, <2>7
<1>5. CASE Complete
    <2>1. /\ plant.cancellation \in {"releasing", "again"} /\ UNCHANGED <<process, sample, stage>>
          /\ verdict' = "running"
          /\ \/ counted' = counted \cup {"entry_failure"} /\ plant' = [plant EXCEPT !.cancellation = "leased"]
             \/ /\ "completion" \notin plant.faults
                /\ \E outcome \in {"already_released", "released"} : counted' = counted \cup {outcome}
                /\ plant' = [plant EXCEPT !.cancellation = "completed"]
        BY <1>5, <1>r DEF Complete, Count
    <2>2. stage > 16 /\ (stage <= 20 => "completion" \in plant.faults)
        BY <2>1 DEF PlannedInv
    <2>3. /\ \/ plant'.cancellation = "leased"
             \/ stage > 20 /\ plant'.cancellation = "completed"
          /\ plant'.released = plant.released /\ plant'.redisStock = plant.redisStock
          /\ plant'.epochSound = plant.epochSound /\ plant'.outbox = plant.outbox
          /\ plant'.faults = plant.faults /\ plant'.order = plant.order
          /\ plant'.dbStock = plant.dbStock
        <3>1. CASE plant' = [plant EXCEPT !.cancellation = "leased"]
            BY <1>t, <3>1 DEF Plants
        <3>2. CASE "completion" \notin plant.faults /\ plant' = [plant EXCEPT !.cancellation = "completed"]
            <4>1. stage > 20
                BY <2>2, <3>2 DEF PlannedInv
            <4> QED BY <1>t, <3>2, <4>1 DEF Plants
        <3> QED BY <2>1, <3>1, <3>2
    <2>4. PlantTypeOK'
        <3>1. "leased" \in Cancellations /\ "completed" \in Cancellations
            BY DEF Cancellations
        <3> QED BY <1>t, <2>1, <3>1, CancellationPuts DEF PlantTypeOK
    <2>5. PlannedInv'
        BY <2>1, <2>2, <2>3 DEF PlannedInv, Persisted
    <2>6. UnitsInv'
        BY <2>1, <2>3 DEF UnitsInv, One, Persisted
    <2>7. SeenInv'
        BY <2>1, <2>2 DEF SeenInv, PlannedInv
    <2> QED BY <2>1, <2>4, <2>5, <2>6, <2>7
<1>6. CASE LeaseEnds
    <2>1. /\ plant.cancellation = "leased" /\ UNCHANGED <<process, sample, stage, counted>>
          /\ verdict' = "running" /\ plant' = [plant EXCEPT !.cancellation = "due"]
        BY <1>6, <1>r DEF LeaseEnds
    <2>2. stage > 16
        BY <2>1 DEF PlannedInv
    <2>3. /\ plant'.cancellation = "due"
          /\ plant'.released = plant.released /\ plant'.redisStock = plant.redisStock
          /\ plant'.epochSound = plant.epochSound /\ plant'.outbox = plant.outbox
          /\ plant'.faults = plant.faults /\ plant'.order = plant.order
          /\ plant'.dbStock = plant.dbStock
        BY <1>t, <2>1 DEF Plants
    <2>4. PlantTypeOK'
        <3>1. "due" \in Cancellations
            BY DEF Cancellations
        <3> QED BY <1>t, <2>1, <3>1, CancellationPuts DEF PlantTypeOK
    <2>5. PlannedInv'
        BY <2>1, <2>2, <2>3 DEF PlannedInv, Persisted
    <2>6. UnitsInv'
        BY <2>1, <2>3 DEF UnitsInv, One, Persisted
    <2>7. SeenInv'
        BY <2>1 DEF SeenInv
    <2> QED BY <2>1, <2>4, <2>5, <2>6, <2>7
<1>7. CASE ScrapePrometheus
    <2>1. /\ UNCHANGED <<stage, plant, process, counted>> /\ verdict' = "running"
          /\ sample' = IF process # 0
                       THEN [later |-> TRUE, up |-> TRUE, from |-> process, seen |-> counted]
                       ELSE [sample EXCEPT !.later = TRUE, !.up = FALSE]
        BY <1>7, <1>r DEF ScrapePrometheus, Scrape
    <2>2. /\ DOMAIN sample' = {"later", "up", "from", "seen"}
          /\ \/ sample'.seen = counted /\ sample'.from = process /\ process # 0
             \/ sample'.seen = sample.seen /\ sample'.from = sample.from
        BY <2>1 DEF PlantTypeOK
    <2> QED BY <2>1, <2>2 DEF PlantTypeOK, PlannedInv, UnitsInv, SeenInv, Persisted
<1>8. CASE BudgetEnds
    BY <1>8 DEF BudgetEnds, Mishap
<1> QED BY <1>1, <1>2, <1>3, <1>4, <1>5, <1>6, <1>7, <1>8 DEF PlantStep

LEMMA AcceptedIsFinite ==
    /\ Accepted \subseteq Buyers /\ IsFiniteSet(Accepted) /\ Cardinality(Accepted) \in Nat
    /\ Cardinality(Accepted) <= Cardinality(Buyers)
<1>1. Accepted \in SUBSET Buyers
    BY DEF Accepted
<1> QED BY <1>1, StockIsNat, FS_Subset, FS_CardinalityType

\* The numbers of the orders tell the events apart.
LEMMA EventsAreDistinct ==
    ASSUME CohortTypeOK, AdmissionInv, NEW n \in 0..Len(sale.stream)
    PROVE  IsFiniteSet(FirstEvents(n)) /\ Cardinality(FirstEvents(n)) = n
<1> DEFINE f == [i \in 1..n |-> sale.stream[i]]
<1>1. n \in Nat /\ \A i \in 1..n : i \in 1..Len(sale.stream)
    BY DEF CohortTypeOK
<1>2. f \in Bijection(1..n, FirstEvents(n))
    <2>1. f \in [1..n -> FirstEvents(n)] /\ \A e \in FirstEvents(n) : \E i \in 1..n : f[i] = e
        BY DEF FirstEvents
    <2>2. \A i, j \in 1..n : f[i] = f[j] => i = j
        BY <1>1 DEF AdmissionInv
    <2> HIDE DEF f
    <2> QED BY <2>1, <2>2 DEF Bijection, Injection, IsInjective, Surjection
<1>3. IsFiniteSet(1..n) /\ Cardinality(1..n) = n
    BY <1>1, FS_Interval
<1>4. ExistsBijection(1..n, FirstEvents(n))
    BY <1>2 DEF ExistsBijection
<1> QED BY <1>3, <1>4, FS_Bijection

\* There are no more orders than deliveries, and as many only when everything was delivered.
LEMMA RowsAreDelivered ==
    ASSUME CohortTypeOK, AdmissionInv, PersistedInv
    PROVE  /\ Len(sale.stream) \in Nat /\ sale.delivered \in 0..Len(sale.stream)
           /\ IsFiniteSet(sale.rows) /\ Cardinality(sale.rows) \in Nat
           /\ Cardinality(sale.rows) <= sale.delivered
           /\ Cardinality(sale.rows) = Len(sale.stream) =>
                sale.delivered = Len(sale.stream) /\ sale.rows = FirstEvents(Len(sale.stream))
<1>1. Len(sale.stream) \in Nat /\ sale.delivered \in 0..Len(sale.stream)
    BY DEF CohortTypeOK
<1>2. IsFiniteSet(FirstEvents(sale.delivered)) /\ Cardinality(FirstEvents(sale.delivered)) = sale.delivered
    BY <1>1, EventsAreDistinct
<1>3. /\ IsFiniteSet(sale.rows) /\ Cardinality(sale.rows) \in Nat
      /\ Cardinality(sale.rows) <= sale.delivered
      /\ Cardinality(sale.rows) = sale.delivered => sale.rows = FirstEvents(sale.delivered)
    <2>1. sale.rows \in SUBSET FirstEvents(sale.delivered)
        BY DEF PersistedInv
    <2> QED BY <1>2, <2>1, FS_Subset, FS_CardinalityType
<1> QED BY <1>1, <1>3

LEMMA TellAppends ==
    ASSUME CohortTypeOK, NEW b \in Buyers, NEW outcome \in {"new", "replayed", "sold_out"}, NEW id \in Nat,
           Tell(b, outcome, id)
    PROVE  /\ \A c \in Buyers : c # b => answers'[c] = answers[c]
           /\ Len(answers[b]) \in Nat /\ Len(answers'[b]) = Len(answers[b]) + 1
           /\ \A i \in 1..Len(answers[b]) : answers'[b][i] = answers[b][i]
           /\ answers'[b][Len(answers[b]) + 1] = [outcome |-> outcome, id |-> id]
<1> DEFINE a == [outcome |-> outcome, id |-> id]
<1>1. a \in AnswerRecords
    BY DEF AnswerRecords
<1>2. answers \in [Buyers -> Seq(AnswerRecords)] /\ answers' = [answers EXCEPT ![b] = Append(@, a)]
    BY DEF CohortTypeOK, Tell
<1> HIDE DEF a, AnswerRecords
<1>3. answers[b] \in Seq(AnswerRecords) /\ answers'[b] = Append(answers[b], a)
    BY <1>2
<1>4. \A c \in Buyers : c # b => answers'[c] = answers[c]
    BY <1>2
<1> QED BY <1>1, <1>3, <1>4, AppendProperties DEF a

\* A buyer is admitted while units are left, told its order again, or turned away.
LEMMA AdmitKeeps ==
    ASSUME CohortInv, ExactInv, NEW b \in Buyers, AskTwice(b), mishaps \in Nat, mishaps' = 0
    PROVE  ExactInv' /\ verdict' # "contradicted"
<1>1. /\ driver.at = "load" /\ verdict' = "running" /\ UNCHANGED <<driver, evidence>>
      /\ Len(answers[b]) < 2 /\ Admit(b)
    BY DEF AskTwice, Mishap, Drives, DriverStays, Running
<1>t. /\ CohortTypeOK /\ AdmissionInv /\ AnsweredInv /\ PersistedInv
      /\ sale.stock \in Nat /\ sale.request \in [Buyers -> Nat] /\ Len(sale.stream) \in Nat
    BY DEF CohortInv, ExactInv, CohortTypeOK
<1>r. ReconciledInv'
    BY <1>1 DEF ReconciledInv
<1>2. ASSUME UNCHANGED sale PROVE AdmissionInv' /\ PersistedInv' /\ Accepted' = Accepted
    <2>1. Accepted' = Accepted
        BY <1>2 DEF Accepted
    <2>2. AdmissionInv'
        BY <1>1, <1>2, <1>t, <2>1 DEF AdmissionInv
    <2>3. PersistedInv'
        BY <1>1, <1>2, <1>t DEF PersistedInv, FirstEvents
    <2> QED BY <2>1, <2>2, <2>3
<1>3. CASE b \in Accepted /\ Tell(b, "replayed", sale.request[b]) /\ UNCHANGED sale
    <2>1. sale.request[b] \in Nat
        BY <1>t
    <2>2. /\ \A c \in Buyers : c # b => answers'[c] = answers[c]
          /\ Len(answers[b]) = 1 /\ Len(answers'[b]) = 2 /\ answers'[b][1] = answers[b][1]
          /\ answers'[b][2] = [outcome |-> "replayed", id |-> sale.request[b]]
        <3>1. Len(answers[b]) > 0 /\ Len(answers[b]) \in Nat
            BY <1>3, <1>t, <2>1, TellAppends DEF AnsweredInv
        <3> DEFINE k == Len(answers[b])
        <3>2. k \in Nat /\ k > 0 /\ k < 2
            BY <1>1, <3>1
        <3> HIDE DEF k
        <3>3. k = 1
            BY <3>2
        <3>4. /\ \A c \in Buyers : c # b => answers'[c] = answers[c]
              /\ Len(answers'[b]) = k + 1
              /\ \A i \in 1..k : answers'[b][i] = answers[b][i]
              /\ answers'[b][k + 1] = [outcome |-> "replayed", id |-> sale.request[b]]
            BY <1>3, <1>t, <2>1, TellAppends DEF k
        <3>5. Len(answers'[b]) = 2 /\ answers'[b][1] = answers[b][1]
            BY <3>3, <3>4
        <3>6. answers'[b][2] = [outcome |-> "replayed", id |-> sale.request[b]]
            BY <3>3, <3>4
        <3> QED BY <3>3, <3>4, <3>5, <3>6 DEF k
    <2>3. AnsweredInv'
        BY <1>1, <1>2, <1>3, <1>t, <2>2 DEF AnsweredInv
    <2> QED BY <1>1, <1>2, <1>3, <1>r, <2>3 DEF ExactInv
<1>4. CASE b \notin Accepted /\ sale.stock = 0 /\ Tell(b, "sold_out", NoId) /\ UNCHANGED sale
    <2>1. NoId \in Nat
        BY DEF NoId
    <2>2. /\ \A c \in Buyers : c # b => answers'[c] = answers[c]
          /\ Len(answers'[b]) \in 0..2 /\ Len(answers[b]) \in Nat /\ Len(answers'[b]) = Len(answers[b]) + 1
          /\ \A i \in 1..Len(answers[b]) : answers'[b][i] = answers[b][i]
          /\ answers'[b][Len(answers[b]) + 1] = SoldOut
        <3> DEFINE k == Len(answers[b])
        <3>1. /\ \A c \in Buyers : c # b => answers'[c] = answers[c]
              /\ k \in Nat /\ Len(answers'[b]) = k + 1
              /\ \A i \in 1..k : answers'[b][i] = answers[b][i]
              /\ answers'[b][k + 1] = SoldOut
            BY <1>4, <1>t, <2>1, TellAppends DEF SoldOut
        <3>2. k < 2
            BY <1>1
        <3> HIDE DEF k
        <3>3. Len(answers'[b]) \in 0..2
            BY <3>1, <3>2
        <3> QED BY <3>1, <3>3 DEF k
    <2>3. \A i \in 1..Len(answers'[b]) : answers'[b][i] = SoldOut
        <3>1. \A i \in 1..Len(answers'[b]) : i \in 1..Len(answers[b]) \/ i = Len(answers[b]) + 1
            BY <2>2
        <3> QED BY <1>4, <1>t, <2>2, <3>1 DEF AnsweredInv
    <2>4. AnsweredInv'
        <3>1. b \notin Accepted' /\ UNCHANGED <<sale, driver>> /\ Accepted' = Accepted
            BY <1>1, <1>2, <1>4
        <3> HIDE DEF Accepted
        <3> SUFFICES ASSUME NEW c \in Buyers
                     PROVE  /\ Len(answers'[c]) \in 0..2
                            /\ c \in Accepted =>
                                /\ Len(answers'[c]) > 0
                                /\ answers'[c][1] = [outcome |-> "new", id |-> sale.request[c]]
                                /\ Len(answers'[c]) = 2 =>
                                    answers'[c][2] = [outcome |-> "replayed", id |-> sale.request[c]]
                            /\ c \notin Accepted =>
                                /\ \A i \in 1..Len(answers'[c]) : answers'[c][i] = SoldOut
                                /\ Len(answers'[c]) > 0 => driver.at # "create" /\ sale.stock = 0
            BY <3>1 DEF AnsweredInv
        <3>2. CASE c = b
            BY <1>1, <1>4, <2>2, <2>3, <3>2
        <3>3. CASE c # b
            <4>1. answers'[c] = answers[c]
                BY <2>2, <3>3
            <4> QED BY <1>t, <4>1 DEF AnsweredInv
        <3> QED BY <3>2, <3>3
    <2> QED BY <1>1, <1>2, <1>4, <1>r, <2>4 DEF ExactInv
<1>5. CASE /\ b \notin Accepted /\ sale.stock > 0
           /\ Tell(b, "new", NextId) /\ sale' = Reserve(b, <<Event(b, NextId)>>)
    <2> DEFINE n == Len(sale.stream) + 1
    <2>1. NextId = n /\ n \in Nat /\ n # 0 /\ NextId \in Nat
        BY <1>t DEF AdmissionInv, NextId
    <2>2. /\ sale'.request = [sale.request EXCEPT ![b] = n]
          /\ sale'.participants = sale.participants \cup {b} /\ sale'.stock = sale.stock - 1
          /\ sale'.stream = sale.stream \o <<Event(b, n)>>
          /\ sale'.rows = sale.rows /\ sale'.delivered = sale.delivered /\ sale'.pending = sale.pending
          /\ sale'.dbStock = sale.dbStock /\ sale'.dead = sale.dead
        <3> DEFINE requests == [sale.request EXCEPT ![b] = NextId]
                   stream == sale.stream \o <<Event(b, NextId)>>
        <3>1. sale' = [sale EXCEPT !.request = requests, !.participants = @ \cup {b},
                                   !.stock = sale.stock - 1, !.stream = stream]
            BY <1>5, <1>t DEF Reserve, CohortTypeOK
        <3> HIDE DEF requests, stream
        <3>2. /\ sale'.request = requests
              /\ sale'.participants = sale.participants \cup {b} /\ sale'.stock = sale.stock - 1
              /\ sale'.stream = stream
              /\ sale'.rows = sale.rows /\ sale'.delivered = sale.delivered
              /\ sale'.pending = sale.pending /\ sale'.dbStock = sale.dbStock /\ sale'.dead = sale.dead
            BY <1>t, <3>1 DEF CohortTypeOK
        <3> QED BY <2>1, <3>2 DEF requests, stream
    <2>3. /\ Len(sale'.stream) = n /\ sale'.stream[n] = Event(b, n)
          /\ \A i \in 1..Len(sale.stream) : sale'.stream[i] = sale.stream[i]
        <3>1. Event(b, n) \in EventRecords /\ sale.stream \in Seq(EventRecords)
            BY <1>t, <2>1 DEF Event, EventRecords, CohortTypeOK
        <3> HIDE DEF EventRecords, n
        <3>2. sale'.stream = Append(sale.stream, Event(b, n))
            BY <2>2, <3>1
        <3> QED BY <3>1, <3>2, AppendProperties DEF n
    <2> HIDE DEF n
    <2>4. /\ sale'.request[b] = n
          /\ \A c \in Buyers : c # b => sale'.request[c] = sale.request[c]
        BY <1>t, <2>2
    <2>5. Accepted' = Accepted \cup {b}
        BY <2>1, <2>4 DEF Accepted, NoId
    <2>6. Cardinality(Accepted') = Cardinality(Accepted) + 1
        BY <1>5, <2>5, AcceptedIsFinite, FS_AddElement
    <2>7. \A i \in 1..n : i \in 1..Len(sale.stream) \/ i = n
        BY <1>t DEF n
    <2>8. AdmissionInv'
        <3>1. sale'.stock + Cardinality(Accepted') = Stock /\ Len(sale'.stream) = Cardinality(Accepted')
            <4> DEFINE accepted == Cardinality(Accepted)
            <4>1. /\ accepted \in Nat /\ sale.stock + accepted = Stock /\ n = accepted + 1
                  /\ Cardinality(Accepted') = accepted + 1
                BY <1>1, <1>t, <2>6, AcceptedIsFinite DEF AdmissionInv, n
            <4> HIDE DEF accepted, n
            <4> QED BY <1>t, <2>2, <2>3, <4>1
        <3>2. sale'.participants = Accepted'
            BY <1>t, <2>2, <2>5 DEF AdmissionInv
        <3>3. ASSUME NEW i \in 1..Len(sale'.stream)
              PROVE  sale'.stream[i].order = i /\ sale'.request[sale'.stream[i].user] = i
            <4>1. CASE i = n
                BY <2>3, <2>4, <4>1 DEF Event
            <4>2. CASE i \in 1..Len(sale.stream)
                <5>1. sale.stream[i] \in EventRecords
                    <6> HIDE DEF EventRecords
                    <6> QED BY <1>t, <4>2 DEF CohortTypeOK
                <5>2. sale.stream[i].user \in Buyers
                    BY <5>1 DEF EventRecords
                <5>3. sale.stream[i].order = i /\ sale.request[sale.stream[i].user] = i /\ i # 0
                    BY <1>t, <4>2 DEF AdmissionInv
                <5>4. sale.stream[i].user # b
                    BY <1>5, <5>2, <5>3 DEF Accepted, NoId
                <5> QED BY <2>3, <2>4, <4>2, <5>2, <5>3, <5>4
            <4> QED BY <2>3, <2>7, <4>1, <4>2
        <3>4. ASSUME NEW c \in Accepted'
              PROVE  /\ sale'.request[c] \in 1..Len(sale'.stream)
                     /\ sale'.stream[sale'.request[c]] = Event(c, sale'.request[c])
            <4>1. CASE c = b
                BY <2>1, <2>3, <2>4, <4>1
            <4>2. CASE c \in Accepted /\ c # b
                <5>1. c \in Buyers /\ sale'.request[c] = sale.request[c]
                    BY <2>4, <4>2, AcceptedIsFinite
                <5>2. /\ sale.request[c] \in 1..Len(sale.stream)
                      /\ sale.stream[sale.request[c]] = Event(c, sale.request[c])
                    BY <1>t, <4>2 DEF AdmissionInv
                <5>3. sale.request[c] \in 1..n
                    BY <1>t, <5>2 DEF n
                <5> QED BY <2>3, <5>1, <5>2, <5>3
            <4> QED BY <2>5, <4>1, <4>2
        <3> QED BY <1>1, <3>1, <3>2, <3>3, <3>4 DEF AdmissionInv
    <2>9. AnsweredInv'
        <3>1. ASSUME NEW c \in Buyers, c \notin Accepted PROVE Len(answers[c]) = 0
            <4> DEFINE k == Len(answers[c])
            <4>1. k \in 0..2 /\ (k > 0 => sale.stock = 0)
                BY <1>t, <3>1 DEF AnsweredInv
            <4> HIDE DEF k
            <4>2. k = 0
                BY <1>5, <4>1
            <4> QED BY <4>2 DEF k
        <3>2. /\ \A c \in Buyers : c # b => answers'[c] = answers[c]
              /\ Len(answers'[b]) = 1 /\ answers'[b][1] = [outcome |-> "new", id |-> sale'.request[b]]
            <4>1. Len(answers[b]) = 0 /\ NextId = sale'.request[b]
                BY <1>5, <2>1, <2>4, <3>1
            <4>2. /\ \A c \in Buyers : c # b => answers'[c] = answers[c]
                  /\ Len(answers'[b]) = Len(answers[b]) + 1
                  /\ answers'[b][Len(answers[b]) + 1] = [outcome |-> "new", id |-> NextId]
                BY <1>5, <1>t, <2>1, TellAppends
            <4> QED BY <4>1, <4>2
        <3>3. ASSUME NEW c \in Buyers
              PROVE  /\ Len(answers'[c]) \in 0..2
                     /\ c \in Accepted' =>
                        /\ Len(answers'[c]) > 0
                        /\ answers'[c][1] = [outcome |-> "new", id |-> sale'.request[c]]
                        /\ Len(answers'[c]) = 2 =>
                            answers'[c][2] = [outcome |-> "replayed", id |-> sale'.request[c]]
                     /\ c \notin Accepted' => Len(answers'[c]) = 0
            <4>1. CASE c = b
                BY <2>5, <3>2, <4>1
            <4>2. CASE c # b
                <5>1. /\ answers'[c] = answers[c] /\ sale'.request[c] = sale.request[c]
                      /\ c \in Accepted' <=> c \in Accepted
                    BY <2>4, <2>5, <3>2, <4>2
                <5> QED BY <1>t, <3>1, <5>1 DEF AnsweredInv
            <4> QED BY <4>1, <4>2
        <3>4. ASSUME NEW c \in Buyers, c \notin Accepted'
              PROVE  /\ \A i \in 1..Len(answers'[c]) : answers'[c][i] = SoldOut
                     /\ ~(Len(answers'[c]) > 0)
            <4> DEFINE k == Len(answers'[c])
            <4>1. k = 0
                BY <3>3, <3>4
            <4> HIDE DEF k
            <4>2. 1..k = {} /\ ~(k > 0)
                BY <4>1
            <4> QED BY <4>2 DEF k
        <3> QED BY <3>3, <3>4 DEF AnsweredInv
    <2>10. PersistedInv'
        <3>1. \A i \in 1..sale.delivered : sale'.stream[i] = sale.stream[i]
            BY <1>t, <2>3 DEF CohortTypeOK
        <3>2. FirstEvents(sale.delivered)' = FirstEvents(sale.delivered)
            BY <2>2, <3>1 DEF FirstEvents
        <3> QED BY <1>1, <1>t, <2>2, <3>1, <3>2 DEF PersistedInv
    <2> QED BY <1>1, <1>r, <2>8, <2>9, <2>10 DEF ExactInv
<1> QED BY <1>1, <1>3, <1>4, <1>5 DEF Admit

LEMMA StockIsHalf == Stock \in Nat /\ Stock > 0 /\ Cardinality(Buyers) = 2 * Stock
<1> DEFINE n == Cardinality(Buyers)
<1>1. n \in Nat /\ n % 2 = 0 /\ n # 0
    <2>1. IsFiniteSet(Buyers) /\ n \in Nat /\ n % 2 = 0
        BY CohortAssumption, FS_CardinalityType
    <2>2. n # 0
        BY <2>1, CohortAssumption, FS_EmptySet
    <2> QED BY <2>1, <2>2
<1>2. Stock = n \div 2
    BY DEF Stock
<1> HIDE DEF n
<1>3. n \div 2 \in Nat /\ n \div 2 > 0 /\ n = 2 * (n \div 2)
    BY <1>1
<1> QED BY <1>2, <1>3 DEF n

\* When no unit is left and as many orders were written, every event was delivered and has its order.
LEMMA SoldMeansDelivered ==
    ASSUME CohortTypeOK, AdmissionInv, PersistedInv, driver.at # "create", sale.stock = 0
    PROVE  /\ Cardinality(Accepted) = Stock /\ Len(sale.stream) = Stock
           /\ Cardinality(sale.rows) = Stock =>
                /\ sale.delivered = Stock /\ sale.dbStock = 0
                /\ sale.rows = FirstEvents(Stock)
                /\ \A i \in sale.pending : sale.stream[i] \in sale.rows
<1>1. Cardinality(Accepted) = Stock /\ Len(sale.stream) = Stock
    BY AcceptedIsFinite, StockIsHalf DEF AdmissionInv
<1> SUFFICES ASSUME Cardinality(sale.rows) = Stock
             PROVE  /\ sale.delivered = Stock /\ sale.dbStock = 0
                    /\ sale.rows = FirstEvents(Stock)
                    /\ \A i \in sale.pending : sale.stream[i] \in sale.rows
    BY <1>1
<1>2. sale.delivered = Stock /\ sale.rows = FirstEvents(Stock)
    BY <1>1, RowsAreDelivered
<1>3. sale.dbStock \in Int /\ sale.dbStock + Cardinality(sale.rows) = Stock
    BY DEF PersistedInv, CohortTypeOK
<1>4. sale.dbStock = 0
    BY <1>3, StockIsHalf
<1>5. \A i \in sale.pending : i \in 1..Stock
    BY <1>1 DEF CohortTypeOK
<1> QED BY <1>2, <1>4, <1>5 DEF FirstEvents

LEMMA ConsumerStaysExact ==
    ASSUME CohortInv, ExactInv, ConsumerStep, mishaps \in Nat, mishaps' = 0
    PROVE  ExactInv' /\ verdict' # "contradicted"
<1>1. verdict' = "running" /\ UNCHANGED <<driver, evidence, answers>>
    BY DEF ConsumerStep, Deliver, PersistEvent, AcknowledgeEvent, Running, DriverStays
<1>t. /\ CohortTypeOK /\ AdmissionInv /\ AnsweredInv /\ PersistedInv /\ ReconciledInv
      /\ sale.stock \in Nat /\ sale.dbStock \in Int /\ Len(sale.stream) \in Nat
      /\ sale.delivered \in 0..Len(sale.stream)
      /\ \A i \in sale.pending : i = sale.delivered /\ i \in 1..sale.delivered
    BY DEF CohortInv, ExactInv, CohortTypeOK
<1>c. driver.at = "create" => Len(sale.stream) = 0
    <2>1. Cardinality({}) = 0
        BY FS_EmptySet
    <2> QED BY <1>t, <2>1 DEF AdmissionInv
<1>2. ASSUME sale'.stock = sale.stock, sale'.participants = sale.participants,
             sale'.stream = sale.stream, sale'.request = sale.request
      PROVE  AdmissionInv' /\ AnsweredInv' /\ \A n : FirstEvents(n)' = FirstEvents(n)
    <2>1. Accepted' = Accepted
        BY <1>2 DEF Accepted
    <2>2. AdmissionInv'
        BY <1>1, <1>2, <1>t, <2>1 DEF AdmissionInv
    <2>3. AnsweredInv'
        BY <1>1, <1>2, <1>t, <2>1 DEF AnsweredInv
    <2> QED BY <1>2, <2>2, <2>3 DEF FirstEvents
<1>3. CASE Deliver
    <2>1. /\ sale.pending = {} /\ sale.delivered < Len(sale.stream)
          /\ sale' = [sale EXCEPT !.delivered = @ + 1, !.pending = {sale.delivered + 1}]
        BY <1>3 DEF Deliver
    <2>2. /\ sale'.stock = sale.stock /\ sale'.participants = sale.participants
          /\ sale'.stream = sale.stream /\ sale'.request = sale.request
          /\ sale'.rows = sale.rows /\ sale'.dbStock = sale.dbStock /\ sale'.dead = sale.dead
          /\ sale'.delivered = sale.delivered + 1 /\ sale'.pending = {sale.delivered + 1}
        BY <1>t, <2>1 DEF CohortTypeOK
    <2>3. AdmissionInv' /\ AnsweredInv'
        BY <1>2, <2>2
    <2>4. PersistedInv'
        <3>1. FirstEvents(sale.delivered) \subseteq FirstEvents(sale.delivered + 1)
            BY <1>t DEF FirstEvents
        <3>2. FirstEvents(sale.delivered)' = FirstEvents(sale.delivered + 1)
            BY <2>2 DEF FirstEvents
        <3>3. \A i \in (1..(sale.delivered + 1)) \ {sale.delivered + 1} : i \in 1..sale.delivered
            BY <1>t
        <3> QED BY <1>1, <1>t, <2>1, <2>2, <3>1, <3>2, <3>3 DEF PersistedInv
    <2>5. driver.at # "read"
        BY <1>t, <2>1, SoldMeansDelivered DEF ReconciledInv
    <2>6. ReconciledInv'
        BY <1>1, <1>t, <2>2, <2>5 DEF ReconciledInv
    <2> QED BY <1>1, <2>3, <2>4, <2>6 DEF ExactInv
<1>4. CASE PersistEvent
    <2>1. PICK i \in sale.pending :
            /\ ~Persistent(sale.stream[i])
            /\ sale' = [sale EXCEPT !.rows = @ \cup {sale.stream[i]}, !.dbStock = @ - 1]
        <3>1. ~Mishap
            BY DEF Mishap
        <3> QED BY <1>4, <3>1 DEF PersistEvent
    <2>2. /\ sale'.stock = sale.stock /\ sale'.participants = sale.participants
          /\ sale'.stream = sale.stream /\ sale'.request = sale.request
          /\ sale'.rows = sale.rows \cup {sale.stream[i]} /\ sale'.dbStock = sale.dbStock - 1
          /\ sale'.delivered = sale.delivered /\ sale'.pending = sale.pending /\ sale'.dead = sale.dead
        BY <1>t, <2>1 DEF CohortTypeOK
    <2>3. AdmissionInv' /\ AnsweredInv'
        BY <1>2, <2>2
    <2>4. sale.stream[i] \notin sale.rows
        BY <2>1 DEF Persistent
    <2>5. Cardinality(sale'.rows) = Cardinality(sale.rows) + 1 /\ Cardinality(sale.rows) \in Nat
        <3>1. IsFiniteSet(sale.rows) /\ Cardinality(sale.rows) \in Nat
            BY <1>t, RowsAreDelivered
        <3>2. Cardinality(sale.rows \cup {sale.stream[i]}) = Cardinality(sale.rows) + 1
            BY <2>4, <3>1, FS_AddElement
        <3> QED BY <2>2, <3>1, <3>2
    <2>6. driver.at # "create"
        BY <1>t, <1>c
    <2>7. PersistedInv'
        <3>1. sale.stream[i] \in FirstEvents(sale.delivered)
            BY <1>t DEF FirstEvents
        <3>2. FirstEvents(sale.delivered)' = FirstEvents(sale.delivered)
            BY <2>2 DEF FirstEvents
        <3>3. sale'.dbStock + Cardinality(sale'.rows) = Stock
            BY <1>t, <2>2, <2>5, <2>6 DEF PersistedInv
        <3>4. sale'.rows \subseteq FirstEvents(sale.delivered)
            BY <1>t, <2>2, <3>1 DEF PersistedInv
        <3> QED BY <1>1, <1>t, <2>2, <2>6, <3>2, <3>3, <3>4 DEF PersistedInv
    <2>8. driver.at \notin {"pending", "read"}
        BY <1>t, <2>4, SoldMeansDelivered DEF ReconciledInv
    <2>9. ReconciledInv'
        BY <1>1, <1>t, <2>2, <2>8 DEF ReconciledInv
    <2> QED BY <1>1, <2>3, <2>7, <2>9 DEF ExactInv
<1>5. CASE AcknowledgeEvent
    <2>1. PICK i \in sale.pending : /\ Persistent(sale.stream[i]) /\ sale' = [sale EXCEPT !.pending = {}]
        BY <1>5 DEF AcknowledgeEvent, Mishap
    <2>2. /\ sale'.stock = sale.stock /\ sale'.participants = sale.participants
          /\ sale'.stream = sale.stream /\ sale'.request = sale.request
          /\ sale'.rows = sale.rows /\ sale'.dbStock = sale.dbStock
          /\ sale'.delivered = sale.delivered /\ sale'.pending = {} /\ sale'.dead = sale.dead
        BY <1>t, <2>1 DEF CohortTypeOK
    <2>3. AdmissionInv' /\ AnsweredInv'
        BY <1>2, <2>2
    <2>4. sale.stream[i] \in sale.rows
        <3>1. PICK r \in sale.rows : r.order = sale.stream[i].order
            BY <2>1 DEF Persistent
        <3>2. PICK j \in 1..sale.delivered : r = sale.stream[j]
            BY <1>t DEF PersistedInv, FirstEvents
        <3>3. i \in 1..Len(sale.stream) /\ j \in 1..Len(sale.stream)
            BY <1>t
        <3>4. sale.stream[i].order = i /\ sale.stream[j].order = j
            BY <1>t, <3>3 DEF AdmissionInv
        <3> QED BY <3>1, <3>2, <3>4
    <2>5. PersistedInv'
        <3>1. FirstEvents(sale.delivered)' = FirstEvents(sale.delivered)
            BY <2>2 DEF FirstEvents
        <3>2. \A j \in 1..sale.delivered : sale.stream[j] \in sale.rows
            BY <1>t, <2>4 DEF PersistedInv
        <3> QED BY <1>1, <1>t, <2>2, <3>1, <3>2 DEF PersistedInv
    <2>6. driver.at # "read"
        BY <1>t DEF ReconciledInv
    <2>7. ReconciledInv'
        BY <1>1, <1>t, <2>2, <2>6 DEF ReconciledInv
    <2> QED BY <1>1, <2>3, <2>5, <2>7 DEF ExactInv
<1> QED BY <1>3, <1>4, <1>5 DEF ConsumerStep

\* k6's summary is as expected: had a unit been left, nobody would have been turned away, and
\* there are more buyers than units.
LEMMA LoadIsAsExpected ==
    ASSUME CohortTypeOK, AdmissionInv, AnsweredInv, driver.at # "create",
           \A b \in Buyers : Len(answers[b]) = 2
    PROVE  sale.stock = 0 /\ Summary
<1>1. sale.stock = 0
    <2>1. CASE Accepted = Buyers
        <3>1. sale.stock \in Nat /\ sale.stock + Cardinality(Buyers) = Stock
            BY <2>1 DEF AdmissionInv, CohortTypeOK
        <3> QED BY <3>1, StockIsHalf
    <2>2. CASE Accepted # Buyers
        <3>1. PICK b \in Buyers : b \notin Accepted
            BY <2>2 DEF Accepted
        <3>2. Len(answers[b]) > 0
            BY <3>1
        <3> QED BY <3>1, <3>2 DEF AnsweredInv
    <2> QED BY <2>1, <2>2
<1>2. ASSUME NEW b \in Buyers
      PROVE  Expected(b) /\ answers[b][1].outcome = IF b \in Accepted THEN "new" ELSE "sold_out"
    <2>1. Len(answers[b]) = 2 /\ 1 \in 1..2 /\ 2 \in 1..2
        OBVIOUS
    <2>2. CASE b \in Accepted
        <3>1. /\ answers[b][1] = [outcome |-> "new", id |-> sale.request[b]]
              /\ answers[b][2] = [outcome |-> "replayed", id |-> sale.request[b]]
            BY <2>1, <2>2 DEF AnsweredInv
        <3> QED BY <2>2, <3>1 DEF Expected
    <2>3. CASE b \notin Accepted
        <3>1. answers[b][1] = SoldOut /\ answers[b][2] = SoldOut
            BY <2>1, <2>3 DEF AnsweredInv
        <3>2. answers[b] = <<SoldOut, SoldOut>>
            <4>1. answers[b] \in Seq(AnswerRecords)
                BY DEF CohortTypeOK
            <4> HIDE DEF AnswerRecords
            <4> QED BY <2>1, <3>1, <4>1
        <3> QED BY <2>3, <3>1, <3>2 DEF Expected, SoldOut
    <2> QED BY <2>2, <2>3
<1>3. Cardinality(Accepted) = Stock /\ Cardinality(Buyers \ Accepted) = Stock
    <2>1. Cardinality(Accepted) = Stock
        BY <1>1, AcceptedIsFinite, StockIsHalf DEF AdmissionInv
    <2>2. Accepted \cap Buyers = Accepted /\ Buyers \cap Accepted = Accepted
        BY AcceptedIsFinite
    <2>3. Cardinality(Buyers \ Accepted) = Cardinality(Buyers) - Cardinality(Accepted)
        <3>1. Cardinality(Buyers \ Accepted) = Cardinality(Buyers) - Cardinality(Buyers \cap Accepted)
            BY StockIsNat, FS_Difference
        <3> QED BY <2>2, <3>1
    <2> QED BY <2>1, <2>3, StockIsHalf
<1>4. FirstAnswers("new") = Stock
    <2>1. {b \in Buyers : answers[b][1].outcome = "new"} = Accepted
        BY <1>2, AcceptedIsFinite
    <2> QED BY <1>3, <2>1 DEF FirstAnswers
<1>5. FirstAnswers("sold_out") = Stock
    <2>1. {b \in Buyers : answers[b][1].outcome = "sold_out"} = Buyers \ Accepted
        BY <1>2, AcceptedIsFinite
    <2> QED BY <1>3, <2>1 DEF FirstAnswers
<1> QED BY <1>1, <1>2, <1>4, <1>5, StockIsHalf DEF Summary

LEMMA DrivingStaysExact ==
    ASSUME CohortInv, ExactInv, CreateActivity \/ LoadDone \/ PollRows \/ PollPending \/ CohortTimesOut
    PROVE  ExactInv' /\ verdict' # "contradicted"
<1>t. /\ CohortTypeOK /\ AdmissionInv /\ AnsweredInv /\ PersistedInv /\ ReconciledInv
      /\ driver.at # "read" => DOMAIN evidence = {}
    <2>1. driver.at # "read" => driver.read = 0
        BY DEF CohortInv, LoadedInv, CohortTypeOK
    <2>2. driver.at # "read" => 1..driver.read = {}
        BY <2>1
    <2>3. DOMAIN evidence = {Reads[i] : i \in 1..driver.read}
        BY DEF CohortInv, EvidenceInv
    <2> QED BY <2>2, <2>3 DEF CohortInv, ExactInv
<1>1. UNCHANGED <<answers, evidence>>
    BY DEF CreateActivity, LoadDone, PollRows, PollPending, CohortTimesOut, cohortVars
<1>2. ASSUME UNCHANGED sale, driver.at # "create", driver'.at # "create", verdict' # "contradicted",
             driver'.at \in {"poll", "pending", "read"} => sale.stock = 0,
             driver'.at \in {"pending", "read"} => Cardinality(sale.rows) = Stock,
             driver'.at = "read" => sale.pending = {} /\ DOMAIN evidence = {}
      PROVE  ExactInv' /\ verdict' # "contradicted"
    <2>1. Accepted' = Accepted
        BY <1>2 DEF Accepted
    <2>2. AdmissionInv'
        BY <1>2, <1>t, <2>1 DEF AdmissionInv
    <2>3. AnsweredInv'
        BY <1>1, <1>2, <1>t, <2>1 DEF AnsweredInv
    <2>4. PersistedInv'
        BY <1>2, <1>t DEF PersistedInv, FirstEvents
    <2>5. ReconciledInv'
        BY <1>1, <1>2 DEF ReconciledInv
    <2> QED BY <1>2, <2>2, <2>3, <2>4, <2>5 DEF ExactInv
<1>3. CASE CreateActivity
    <2>1. /\ driver.at = "create" /\ verdict' = "running" /\ driver' = [driver EXCEPT !.at = "load"]
          /\ sale' = [sale EXCEPT !.stock = Stock, !.dbStock = Stock]
        BY <1>3 DEF CreateActivity, Drives, Drive, Running
    <2>2. /\ driver'.at = "load" /\ sale'.stock = Stock /\ sale'.dbStock = Stock
          /\ sale'.participants = sale.participants /\ sale'.stream = sale.stream
          /\ sale'.request = sale.request /\ sale'.rows = sale.rows /\ sale'.dead = sale.dead
          /\ sale'.delivered = sale.delivered /\ sale'.pending = sale.pending
        BY <1>t, <2>1 DEF CohortTypeOK
    <2>3. Accepted' = {} /\ Accepted = {} /\ Cardinality({}) = 0
        BY <1>t, <2>1, <2>2, FS_EmptySet DEF Accepted, AdmissionInv
    <2>4. AdmissionInv'
        <3>1. sale'.stock + Cardinality(Accepted') = Stock
            BY <2>2, <2>3, StockIsHalf
        <3> QED BY <1>t, <2>2, <2>3, <3>1 DEF AdmissionInv
    <2>5. AnsweredInv'
        <3>1. \A b \in Buyers : ~(Len(answers[b]) > 0)
            BY <1>t, <2>1, <2>3 DEF AnsweredInv
        <3> QED BY <1>1, <1>t, <2>3, <3>1 DEF AnsweredInv
    <2>6. PersistedInv'
        <3>1. Len(sale.stream) = 0
            BY <1>t, <2>3 DEF AdmissionInv
        <3>2. Cardinality(sale.rows) = 0
            BY <1>t, <3>1, RowsAreDelivered
        <3>3. FirstEvents(sale.delivered)' = FirstEvents(sale.delivered)
            BY <2>2 DEF FirstEvents
        <3> QED BY <1>t, <2>2, <3>2, <3>3, StockIsHalf DEF PersistedInv
    <2>7. ReconciledInv'
        BY <2>2 DEF ReconciledInv
    <2> QED BY <2>1, <2>4, <2>5, <2>6, <2>7 DEF ExactInv
<1>4. CASE LoadDone
    <2>1. driver.at = "load" /\ verdict = "running" /\ sale.stock = 0 /\ Summary
        BY <1>4, <1>t, LoadIsAsExpected DEF LoadDone, Drives, Running
    <2>2. verdict' = verdict /\ UNCHANGED sale /\ driver' = [driver EXCEPT !.at = "poll"]
        BY <1>4, <2>1 DEF LoadDone, Drive
    <2>3. driver'.at = "poll"
        BY <1>t, <2>2 DEF CohortTypeOK
    <2> QED BY <1>2, <2>1, <2>2, <2>3
<1>5. CASE PollRows
    <2>1. /\ driver.at = "poll" /\ verdict' = "running" /\ UNCHANGED sale /\ sale.stock = 0
          /\ IF Cardinality(sale.rows) = Stock THEN driver' = [driver EXCEPT !.at = "pending"]
             ELSE UNCHANGED driver
        BY <1>5, <1>t DEF PollRows, Drives, Running, Drive, ReconciledInv
    <2>2. driver'.at = IF Cardinality(sale.rows) = Stock THEN "pending" ELSE "poll"
        BY <1>t, <2>1 DEF CohortTypeOK
    <2> QED BY <1>2, <2>1, <2>2
<1>6. CASE PollPending
    <2>1. /\ driver.at = "pending" /\ verdict' = "running" /\ UNCHANGED sale
          /\ sale.stock = 0 /\ Cardinality(sale.rows) = Stock
          /\ driver' = [driver EXCEPT !.at = IF sale.pending = {} THEN "read" ELSE "poll"]
        BY <1>6, <1>t DEF PollPending, Drives, Running, Drive, ReconciledInv
    <2>2. driver'.at = IF sale.pending = {} THEN "read" ELSE "poll"
        BY <1>t, <2>1 DEF CohortTypeOK
    <2> QED BY <1>2, <1>t, <2>1, <2>2
<1>7. CASE CohortTimesOut
    <2>1. UNCHANGED <<sale, driver>> /\ verdict' = "raised" /\ driver.at \in {"load", "poll", "pending"}
        BY <1>7 DEF CohortTimesOut, OutOfTime, Drives, Raised, cohortVars
    <2> QED BY <1>2, <1>t, <2>1 DEF ReconciledInv
<1> QED BY <1>3, <1>4, <1>5, <1>6, <1>7

LEMMA ReadStaysExact ==
    ASSUME CohortInv, ExactInv, Read
    PROVE  ExactInv' /\ verdict' # "contradicted"
<1> DEFINE name == Reads[driver.read + 1]
<1>t. /\ CohortTypeOK /\ AdmissionInv /\ AnsweredInv /\ PersistedInv /\ ReconciledInv
    BY DEF CohortInv, ExactInv
<1>1. /\ driver.at = "read" /\ verdict' = "running" /\ UNCHANGED <<answers, sale>>
      /\ driver' = [driver EXCEPT !.read = @ + 1]
      /\ evidence' = [x \in DOMAIN evidence \cup {name} |->
                         IF x = name THEN Reading(name) ELSE evidence[x]]
    BY DEF Read, Drives, Running
<1> HIDE DEF name
<1>2. driver'.at = "read"
    BY <1>1, <1>t DEF CohortTypeOK
<1>3. \A x \in DOMAIN evidence' : evidence'[x] = Reading(x)
    BY <1>1, <1>t DEF ReconciledInv
<1>4. \A x : Reading(x)' = Reading(x)
    BY <1>1 DEF Reading
<1>5. Accepted' = Accepted
    BY <1>1 DEF Accepted
<1>6. AdmissionInv'
    BY <1>1, <1>2, <1>5, <1>t DEF AdmissionInv
<1>7. AnsweredInv'
    BY <1>1, <1>2, <1>5, <1>t DEF AnsweredInv
<1>8. PersistedInv'
    BY <1>1, <1>2, <1>t DEF PersistedInv, FirstEvents
<1>9. ReconciledInv'
    BY <1>1, <1>2, <1>3, <1>4, <1>t DEF ReconciledInv
<1> QED BY <1>1, <1>6, <1>7, <1>8, <1>9 DEF ExactInv

\* What was read accounts for every unit.
LEMMA JudgedIsExact ==
    ASSUME CohortInv, ExactInv, driver.at = "read", driver.read = 8
    PROVE  Witness /\ Ledger
<1>t. /\ CohortTypeOK /\ AdmissionInv /\ AnsweredInv /\ PersistedInv /\ ReconciledInv
    BY DEF CohortInv, ExactInv
<1>1. /\ Cardinality(Accepted) = Stock /\ Len(sale.stream) = Stock /\ Stock \in Nat
      /\ sale.stock = 0 /\ sale.dbStock = 0 /\ sale.dead = 0 /\ sale.pending = {}
      /\ sale.delivered = Stock /\ sale.rows = FirstEvents(Stock)
    BY <1>t, SoldMeansDelivered, StockIsHalf DEF ReconciledInv, PersistedInv
<1>2. /\ evidence["accepted"] = sale.request /\ evidence["participants"] = sale.participants
      /\ evidence["rows"] = sale.rows /\ evidence["stream"] = sale.stream
      /\ evidence["group"] = [pending |-> Cardinality(sale.pending), last |-> sale.delivered]
      /\ evidence["dbStock"] = sale.dbStock /\ evidence["stock"] = sale.stock
      /\ evidence["dead"] = sale.dead
    <2>1. DOMAIN evidence = {Reads[i] : i \in 1..8}
        BY DEF CohortInv, EvidenceInv
    <2>2. /\ Reads[1] = "accepted" /\ Reads[2] = "participants" /\ Reads[3] = "rows"
          /\ Reads[4] = "stream" /\ Reads[5] = "group" /\ Reads[6] = "dbStock"
          /\ Reads[7] = "stock" /\ Reads[8] = "dead"
        BY DEF Reads
    <2>3. \A i \in 1..8 : evidence[Reads[i]] = Reading(Reads[i])
        BY <1>t, <2>1 DEF ReconciledInv
    <2>4. /\ evidence["accepted"] = Reading("accepted")
          /\ evidence["participants"] = Reading("participants")
          /\ evidence["rows"] = Reading("rows") /\ evidence["stream"] = Reading("stream")
          /\ evidence["group"] = Reading("group") /\ evidence["dbStock"] = Reading("dbStock")
          /\ evidence["stock"] = Reading("stock") /\ evidence["dead"] = Reading("dead")
        <3>1. /\ 1 \in 1..8 /\ 2 \in 1..8 /\ 3 \in 1..8 /\ 4 \in 1..8
              /\ 5 \in 1..8 /\ 6 \in 1..8 /\ 7 \in 1..8 /\ 8 \in 1..8
            OBVIOUS
        <3> QED BY <2>2, <2>3, <3>1
    <2> QED BY <2>4 DEF Reading
<1>3. Mapping = {Event(b, sale.request[b]) : b \in Accepted}
    BY <1>2 DEF Mapping, Accepted
<1>4. Mapping = FirstEvents(Stock)
    <2>1. ASSUME NEW b \in Accepted PROVE Event(b, sale.request[b]) \in FirstEvents(Stock)
        <3>1. sale.request[b] \in 1..Stock /\ sale.stream[sale.request[b]] = Event(b, sale.request[b])
            BY <1>1, <1>t DEF AdmissionInv
        <3> QED BY <3>1 DEF FirstEvents
    <2>2. ASSUME NEW i \in 1..Stock
          PROVE  \E b \in Accepted : sale.stream[i] = Event(b, sale.request[b])
        <3>1. i \in 1..Len(sale.stream) /\ i # 0
            BY <1>1
        <3>2. sale.stream[i].user \in Buyers
            <4>1. sale.stream[i] \in EventRecords
                <5> HIDE DEF EventRecords
                <5> QED BY <1>t, <3>1 DEF CohortTypeOK
            <4> QED BY <4>1 DEF EventRecords
        <3>3. sale.request[sale.stream[i].user] = i
            BY <1>t, <3>1 DEF AdmissionInv
        <3>4. sale.stream[i].user \in Accepted
            BY <3>1, <3>2, <3>3 DEF Accepted, NoId
        <3> QED BY <1>t, <3>3, <3>4 DEF AdmissionInv
    <2> QED BY <1>3, <2>1, <2>2 DEF FirstEvents
<1>5. \A i \in 1..Stock : sale.stream[i].order = i
    BY <1>1, <1>t DEF AdmissionInv
<1>6. {m.order : m \in Mapping} = 1..Stock
    BY <1>4, <1>5 DEF FirstEvents
<1>7. Cardinality(1..Stock) = Stock /\ Cardinality(FirstEvents(Stock)) = Stock
    BY <1>1, <1>t, FS_Interval, EventsAreDistinct
<1>8. {m.user : m \in Mapping} = Accepted
    <2>1. \A b \in Accepted : Event(b, sale.request[b]).user = b
        BY DEF Event
    <2> QED BY <1>3, <2>1
<1>9. ToSet(sale.stream) = FirstEvents(Stock)
    BY <1>1, <1>t DEF ToSet, FirstEvents, CohortTypeOK
<1>10. Cardinality({}) = 0
    BY FS_EmptySet
<1>11. Ledger
    BY <1>1, <1>2, <1>4, <1>6, <1>7, <1>8, <1>9, <1>10, <1>t DEF Ledger, AdmissionInv
<1>12. Witness
    <2> SUFFICES ASSUME NEW b \in Buyers
                 PROVE  IF answers[b][1].outcome = "new" THEN sale.request[b] = answers[b][1].id
                        ELSE sale.request[b] = NoId
        BY <1>2 DEF Witness
    <2>1. CASE b \in Accepted
        <3>1. answers[b][1] = [outcome |-> "new", id |-> sale.request[b]]
            BY <1>t, <2>1 DEF AnsweredInv
        <3> QED BY <3>1
    <2>2. CASE b \notin Accepted
        <3>1. Len(answers[b]) = 2 /\ 1 \in 1..2
            BY DEF CohortInv, LoadedInv
        <3>2. answers[b][1] = SoldOut
            BY <1>t, <2>2, <3>1 DEF AnsweredInv
        <3> QED BY <2>2, <3>2 DEF SoldOut, Accepted
    <2> QED BY <2>1, <2>2
<1> QED BY <1>11, <1>12

\* Steps of others and the judgement leave the sale as it is.
LEMMA UntouchedStaysExact ==
    ASSUME ExactInv, UNCHANGED cohortVars
    PROVE  ExactInv'
<1>1. Accepted' = Accepted /\ UNCHANGED <<driver, answers, sale, evidence>>
    BY DEF Accepted, cohortVars
<1>2. AdmissionInv'
    BY <1>1 DEF ExactInv, AdmissionInv
<1>3. AnsweredInv'
    BY <1>1 DEF ExactInv, AnsweredInv
<1>4. PersistedInv'
    BY <1>1 DEF ExactInv, PersistedInv, FirstEvents
<1>5. ReconciledInv'
    BY <1>1 DEF ExactInv, ReconciledInv, Reading
<1> QED BY <1>2, <1>3, <1>4, <1>5 DEF ExactInv

LEMMA SaleStaysExact ==
    ASSUME CohortInv, ExactInv, Sale, mishaps \in Nat, mishaps' = 0
    PROVE  ExactInv' /\ verdict' # "contradicted"
<1>1. CASE Judge
    <2>1. Witness /\ Ledger
        BY <1>1, JudgedIsExact DEF Judge, Drives, Reads
    <2> QED BY <1>1, <2>1, UntouchedStaysExact DEF Judge
<1>2. CASE ~Judge
    BY <1>2, AdmitKeeps, ConsumerStaysExact, DrivingStaysExact, ReadStaysExact DEF Sale, CohortStep
<1> QED BY <1>1, <1>2
-----------------------------------------------------------------------------
LEMMA CalmInitInv == ScriptsInit => CalmInv
<1> SUFFICES ASSUME ScriptsInit PROVE CalmInv
    OBVIOUS
<1>1. script \in Scripts /\ mishaps = 0 /\ verdict = "running" /\ process = 1
    BY DEF ScriptsInit, ProjectInit
<1>2. /\ counted = IF script = "performance" THEN NoCounts ELSE {}
      /\ sample = [later |-> FALSE, up |-> FALSE, from |-> 0, seen |-> counted]
    BY DEF ScriptsInit, NoSample
<1>3. OutageInv
    BY <1>1, <1>2 DEF OutageInv
<1>4. ASSUME script = "performance" PROVE WarmInv
    <2>1. TrialTypeOK
        BY <1>4, TrialInitInv DEF TrialInv
    <2>2. trial.at = "prepare"
        BY DEF ScriptsInit, TrialInit
    <2> QED BY <2>1, <2>2 DEF WarmInv
<1>5. ExactInv
    <2>1. /\ driver.at = "create" /\ answers = [b \in Buyers |-> <<>>] /\ evidence = <<>>
          /\ sale = [stock |-> 0, dbStock |-> 0, request |-> [b \in Buyers |-> NoId],
                     participants |-> {}, stream |-> <<>>, rows |-> {},
                     delivered |-> 0, pending |-> {}, dead |-> 0]
        BY DEF ScriptsInit, CohortInit
    <2>2. Accepted = {} /\ Cardinality({}) = 0
        BY <2>1, FS_EmptySet DEF Accepted
    <2>3. AdmissionInv
        BY <2>1, <2>2 DEF AdmissionInv
    <2>4. AnsweredInv
        BY <2>1, <2>2 DEF AnsweredInv
    <2>5. PersistedInv
        BY <2>1, <2>2 DEF PersistedInv
    <2>6. ReconciledInv
        BY <2>1 DEF ReconciledInv
    <2> QED BY <2>3, <2>4, <2>5, <2>6 DEF ExactInv
<1>6. ASSUME script = "diagnostics" PROVE PlantTypeOK /\ PlannedInv /\ UnitsInv /\ SeenInv
    <2>1. /\ stage = 1
          /\ plant = [epochSound |-> TRUE, outbox |-> "none", faults |-> {},
                      order |-> [o \in Orders |-> "none"], cancellation |-> "none",
                      released |-> FALSE, dbStock |-> 2, redisStock |-> 2]
        BY DEF ScriptsInit, DiagnosticsInit
    <2>2. plant.order["first"] = "none" /\ plant.order["second"] = "none"
        BY <2>1 DEF Orders
    <2>3. PlantTypeOK
        BY <1>2, <2>1 DEF PlantTypeOK, Plants, OrderStates, Cancellations
    <2>4. PlannedInv
        BY <1>1, <2>1, <2>2 DEF PlannedInv
    <2>5. UnitsInv
        BY <2>1, <2>2 DEF UnitsInv, One, Persisted
    <2>6. SeenInv
        BY <1>2, <1>6, <2>1 DEF SeenInv
    <2> QED BY <2>3, <2>4, <2>5, <2>6
<1> QED BY <1>1, <1>3, <1>4, <1>5, <1>6 DEF CalmInv

\* What goes on around a body leaves it as it is.
LEMMA AroundStaysCalm ==
    ASSUME CalmInv, script' = script, verdict' \in {verdict, "raised"}, UNCHANGED bodyVars,
           mishaps' \in Nat, mishaps' = 0 => mishaps = 0
    PROVE  CalmInv'
<1>1. /\ UNCHANGED <<process, counted, sample, trial, stage, plant>> /\ UNCHANGED cohortVars
      /\ UNCHANGED <<cached, kept>>
    BY DEF bodyVars, diagnosticsVars, observabilityVars, trialVars, scrapeVars
<1>2. OutageInv => OutageInv'
    BY <1>1 DEF OutageInv
<1>3. WarmInv => WarmInv'
    BY <1>1 DEF WarmInv, TrialTypeOK, Detail
<1>4. ExactInv => ExactInv'
    BY <1>1, UntouchedStaysExact
<1>5. PlantTypeOK => PlantTypeOK'
    BY <1>1 DEF PlantTypeOK
<1>6. PlannedInv => PlannedInv'
    BY <1>1 DEF PlannedInv, Persisted
<1>7. UnitsInv => UnitsInv'
    BY <1>1 DEF UnitsInv, Persisted
<1>8. SeenInv => SeenInv'
    BY <1>1 DEF SeenInv
<1> QED BY <1>2, <1>3, <1>4, <1>5, <1>6, <1>7, <1>8 DEF CalmInv

LEMMA CalmNextInv == CalmInv /\ TrialInv /\ CohortInv /\ [ScriptsNext]_scriptsVars => CalmInv'
<1> SUFFICES ASSUME CalmInv, TrialInv, CohortInv, [ScriptsNext]_scriptsVars PROVE CalmInv'
    OBVIOUS
<1>1. CASE ScriptsNext
    <2>1. /\ script' = script /\ mishaps \in Nat /\ mishaps' \in Nat
          /\ mishaps' = 0 => mishaps = 0
        BY <1>1, StepsAreOwned, MishapsGrow DEF CalmInv
    <2>2. CASE AroundBody /\ UNCHANGED bodyVars
        BY <2>1, <2>2, AroundBodyKeeps, AroundStaysCalm
    <2>3. CASE script = "acceptance" \/ mishaps' # 0
        BY <2>1, <2>3 DEF CalmInv
    <2>4. CASE Diagnostics /\ script = "diagnostics" /\ mishaps' = 0
        <3>1. PlantTypeOK /\ PlannedInv /\ UnitsInv /\ SeenInv
            BY <2>1, <2>4 DEF CalmInv
        <3>2. PlantTypeOK' /\ PlannedInv' /\ UnitsInv' /\ SeenInv' /\ verdict' # "contradicted"
            BY <2>1, <2>4, <3>1, CarryKeeps, ObserveKeeps, AssertOrGiveUpKeeps, PlantKeeps
               DEF Diagnostics, InspectionStep
        <3> QED BY <2>1, <2>4, <3>2 DEF CalmInv
    <2>5. CASE Observation /\ script = "observability" /\ mishaps' = 0
        <3>1. OutageInv' /\ verdict' # "contradicted"
            BY <2>1, <2>5, OutageKeeps DEF CalmInv
        <3> QED BY <2>1, <2>5, <3>1 DEF CalmInv
    <2>6. CASE Measurement /\ script = "performance" /\ mishaps' = 0
        <3>1. WarmInv' /\ verdict' # "contradicted"
            BY <2>1, <2>6, WarmKeeps DEF CalmInv
        <3> QED BY <2>1, <2>6, <3>1 DEF CalmInv
    <2>7. CASE Sale /\ script = "flashSale" /\ mishaps' = 0
        <3>1. ExactInv' /\ verdict' # "contradicted"
            BY <2>1, <2>7, SaleStaysExact DEF CalmInv
        <3> QED BY <2>1, <2>7, <3>1 DEF CalmInv
    <2> QED BY <1>1, <2>2, <2>3, <2>4, <2>5, <2>6, <2>7, StepsAreOwned
<1>2. CASE UNCHANGED scriptsVars
    <2>1. UNCHANGED <<script, verdict, mishaps>> /\ UNCHANGED bodyVars
        BY <1>2 DEF scriptsVars, harnessVars
    <2> QED BY <2>1, AroundStaysCalm DEF CalmInv
<1> QED BY <1>1, <1>2

\* As long as nothing goes wrong outside of them, verify-observability.py, verify-business-
\* diagnostics.py and both baselines find the system as they expect it, in every interleaving of
\* its requests, consumers, scrapes and recoveries and for any number of buyers.
THEOREM OnlyMishapsContradict ==
    ScriptsSpec => [](script # "acceptance" => ContradictedOnlyByMishap)
<1>1. CalmInv => (script # "acceptance" => ContradictedOnlyByMishap)
    BY DEF CalmInv, ContradictedOnlyByMishap
<1> QED BY <1>1, CalmInitInv, CalmNextInv, TrialInitInv, TrialNextInv, CohortInitInv, CohortNextInv,
           PTL DEF ScriptsSpec
-----------------------------------------------------------------------------
(* Refused commands                                                        *)

SessionRecords == [id : {"absent", "blank", "own"}, ttl : Ttl]

AccountRecords ==
    [account : {"active", "none", "disabled"}, code : BOOLEAN, cooldown : BOOLEAN,
     failures : 0..FailureLimit, failureTtl : Ttl, mistyped : {FALSE},
     sessions : [Tokens -> SessionRecords], broken : {"none"},
     row : BOOLEAN, score : {"none", "new"}, projectionTyped : BOOLEAN, table : BOOLEAN]

SoundSession(x) == x \in SessionRecords /\ (x.id = "own" => x.ttl # "none")

\* A store in which every identity has a TTL, and what leaves the counter of such a store alone.
Sound(s) == s \in AccountRecords /\ \A t \in Tokens : SoundSession(s.sessions[t])
Counter(s) == <<s.failures, s.failureTtl>>
Keeping(s, r) == Sound(r) /\ Counter(r) = Counter(s)

DeniedInv ==
    /\ Sound(account) /\ refused \subseteq Commands
    /\ account.failures > 0 /\ account.failureTtl = "none" => uncounted

LEMMA SessionPut ==
    ASSUME NEW s, Sound(s), NEW t, NEW x, SoundSession(x)
    PROVE  Keeping(s, [s EXCEPT !.sessions[t] = x])
<1> DEFINE all == [s.sessions EXCEPT ![t] = x]
           r == [s EXCEPT !.sessions = all]
<1>1. s \in AccountRecords /\ s.sessions \in [Tokens -> SessionRecords] /\ x \in SessionRecords
    BY DEF Sound, AccountRecords, SoundSession
<1>2. /\ all \in [Tokens -> SessionRecords]
      /\ \A u \in Tokens : all[u] = x \/ all[u] = s.sessions[u]
    BY <1>1
<1>3. \A u \in Tokens : SoundSession(all[u])
    BY <1>2 DEF Sound
<1> HIDE DEF all
<1>4. r \in AccountRecords /\ r.sessions = all
    BY <1>1, <1>2 DEF AccountRecords
<1>5. r.failures = s.failures /\ r.failureTtl = s.failureTtl
    BY <1>1 DEF AccountRecords
<1>6. Keeping(s, r)
    <2> HIDE DEF r
    <2> QED BY <1>3, <1>4, <1>5 DEF Keeping, Sound, Counter
<1> QED BY <1>6 DEF all

LEMMA FieldPut ==
    ASSUME NEW s, Sound(s), NEW b \in BOOLEAN
    PROVE  /\ Keeping(s, [s EXCEPT !.code = b]) /\ Keeping(s, [s EXCEPT !.cooldown = b])
           /\ Keeping(s, [s EXCEPT !.code = b, !.cooldown = b])
<1>1. s \in AccountRecords
    BY DEF Sound
<1>2. /\ [s EXCEPT !.code = b] \in AccountRecords /\ [s EXCEPT !.cooldown = b] \in AccountRecords
      /\ [s EXCEPT !.code = b, !.cooldown = b] \in AccountRecords
    BY <1>1 DEF AccountRecords
<1>3. ASSUME NEW r \in {[s EXCEPT !.code = b], [s EXCEPT !.cooldown = b],
                        [s EXCEPT !.code = b, !.cooldown = b]}
      PROVE  r.sessions = s.sessions /\ r.failures = s.failures /\ r.failureTtl = s.failureTtl
    BY <1>1, <1>3 DEF AccountRecords
<1> QED BY <1>2, <1>3 DEF Keeping, Sound, Counter

LEMMA KnownSessions ==
    /\ SoundSession(NoSession) /\ SoundSession(Session("own", "full"))
    /\ SoundSession(Session("blank", "none"))
BY DEF SoundSession, SessionRecords, NoSession, Session, Ttl

\* login-session-publish.lua: the placeholder is blank, the identity comes with its TTL.
LEMMA PublishKeeps ==
    ASSUME NEW s, Sound(s), NEW commands, NEW t
    PROVE  Keeping(s, Publish(s, commands, t).store)
<1>1. Publish(s, commands, t).store \in
        {s, [s EXCEPT !.sessions[t] = Session("own", "full")],
         [s EXCEPT !.sessions[t] = Session("blank", "none")]}
    BY DEF Publish, Answer
<1>2. Keeping(s, s)
    BY DEF Keeping
<1> QED BY <1>1, <1>2, SessionPut, KnownSessions

\* The filter discards a session or renews the TTL of one that has a TTL.
LEMMA AuthenticateKeeps ==
    ASSUME NEW s, Sound(s), NEW commands, NEW t \in Tokens
    PROVE  Keeping(s, Authenticate(s, commands, t).store)
<1>1. Keeping(s, s)
    BY DEF Keeping
<1>2. Keeping(s, Discard(s, commands, t))
    BY <1>1, SessionPut, KnownSessions DEF Discard
<1>3. Keeping(s, Renew(s, commands, t).store)
    <2>1. CASE Renew(s, commands, t).store = [s EXCEPT !.sessions[t].ttl = "full"]
        <3>1. s.sessions[t] \in SessionRecords
            BY DEF Sound, SoundSession
        <3>2. SoundSession([s.sessions[t] EXCEPT !.ttl = "full"])
            BY <3>1 DEF SoundSession, SessionRecords, Ttl
        <3>3. [s EXCEPT !.sessions[t].ttl = "full"]
                = [s EXCEPT !.sessions[t] = [s.sessions[t] EXCEPT !.ttl = "full"]]
            OBVIOUS
        <3> QED BY <2>1, <3>2, <3>3, SessionPut
    <2>2. CASE Renew(s, commands, t).store \in {s, Discard(s, commands, t)}
        BY <1>1, <1>2, <2>2
    <2> QED BY <2>1, <2>2 DEF Renew, Answer
<1>4. Authenticate(s, commands, t).store \in
        {s, Discard(s, commands, t), Renew(s, commands, t).store}
    BY DEF Authenticate, Answer
<1> QED BY <1>1, <1>2, <1>3, <1>4

LEMMA PresentKeeps ==
    ASSUME NEW s, Sound(s), NEW commands, NEW t \in Tokens
    PROVE  Keeping(s, Me(s, commands, t).store) /\ Keeping(s, Logout(s, commands, t).store)
<1> DEFINE a == Authenticate(s, commands, t).store
<1>1. Keeping(s, a)
    BY AuthenticateKeeps
<1>2. Me(s, commands, t).store = a
    BY DEF Me, Answer
<1>3. Logout(s, commands, t).store \in {a, [a EXCEPT !.sessions[t] = NoSession]}
    BY DEF Logout, Answer
<1> HIDE DEF a
<1>4. Keeping(a, [a EXCEPT !.sessions[t] = NoSession])
    BY <1>1, SessionPut, KnownSessions DEF Keeping
<1> QED BY <1>1, <1>2, <1>3, <1>4 DEF Keeping

\* login-failure-increment.lua counts one failure below the limit.
LEMMA FailureIsCounted ==
    ASSUME NEW s, Sound(s), s.failures < FailureLimit, NEW commands, NEW r,
           r = CountFailure(s, commands).store
    PROVE  /\ Sound(r)
           /\ \/ Counter(r) = Counter(s)
              \/ r.failures = s.failures + 1 /\ s.failures > 0 /\ r.failureTtl = s.failureTtl
              \/ /\ r.failures = 1 /\ s.failures = 0
                 /\ r.failureTtl = "full" \/ (r.failureTtl = s.failureTtl /\ "expire" \in commands)
<1> DEFINE counting == [s EXCEPT !.failures = @ + 1]
<1>1. r \in {s, counting, [counting EXCEPT !.failureTtl = "full"]}
    BY DEF CountFailure, Answer
<1>2. \/ r = s
      \/ r = counting /\ (s.failures > 0 \/ "expire" \in commands)
      \/ r = [counting EXCEPT !.failureTtl = "full"] /\ ~(s.failures > 0)
    BY DEF CountFailure, Answer
<1>3. /\ s \in AccountRecords /\ s.failures \in 0..FailureLimit /\ FailureLimit \in Nat
      /\ \A t \in Tokens : SoundSession(s.sessions[t])
    BY SyntheticAssumption DEF Sound, AccountRecords
<1>4. s.failures + 1 \in 0..FailureLimit
    BY <1>3
<1>5. /\ counting \in AccountRecords /\ counting.failures = s.failures + 1
      /\ counting.failureTtl = s.failureTtl /\ counting.sessions = s.sessions
    BY <1>3, <1>4 DEF AccountRecords
<1> HIDE DEF counting
<1> DEFINE full == [counting EXCEPT !.failureTtl = "full"]
<1>6. /\ full \in AccountRecords /\ full.failures = s.failures + 1
      /\ full.failureTtl = "full" /\ full.sessions = s.sessions
    BY <1>5 DEF AccountRecords, Ttl
<1> HIDE DEF full
<1>7. Sound(r)
    BY <1>1, <1>3, <1>5, <1>6 DEF Sound, full
<1>8. CASE r = s
    BY <1>7, <1>8
<1>9. CASE r = counting /\ (s.failures > 0 \/ "expire" \in commands)
    BY <1>3, <1>5, <1>7, <1>9
<1>10. CASE r = full /\ ~(s.failures > 0)
    BY <1>3, <1>6, <1>7, <1>10
<1> QED BY <1>2, <1>8, <1>9, <1>10 DEF full

\* /user/login: the counter is left alone, counts one more, or is cleared.
LEMMA LoginIsContained ==
    ASSUME NEW s, Sound(s), NEW commands, NEW guess, NEW r, r = Login(s, commands, guess).store
    PROVE  /\ Sound(r)
           /\ \/ Counter(r) = Counter(s)
              \/ r.failures = s.failures + 1 /\ s.failures > 0 /\ r.failureTtl = s.failureTtl
              \/ /\ r.failures = 1 /\ s.failures = 0
                 /\ r.failureTtl = "full" \/ (r.failureTtl = s.failureTtl /\ "expire" \in commands)
              \/ r.failures = 0
<1> DEFINE u == [s EXCEPT !.code = FALSE]
           issued == Publish(u, commands, NextToken(u)).store
           cleared == [issued EXCEPT !.account = IF @ = "none" THEN "active" ELSE @,
                                        !.failures = 0, !.failureTtl = "none"]
<1>1. \/ r = s
      \/ s.failures < FailureLimit /\ r = CountFailure(s, commands).store
      \/ r \in {u, issued, cleared}
    <2>1. IssueSession(u, commands).store \in {u, issued, cleared}
        BY DEF IssueSession, Answer
    <2>2. s.failures \in Nat /\ FailureLimit \in Nat
        BY SyntheticAssumption DEF Sound, AccountRecords
    <2> HIDE DEF u, issued, cleared
    <2>3. \/ r = s
          \/ ~(s.failures >= FailureLimit) /\ r = CountFailure(s, commands).store
          \/ r = IssueSession([s EXCEPT !.code = FALSE], commands).store
        BY DEF Login, Answer
    <2> QED BY <2>1, <2>2, <2>3 DEF u
<1>2. Keeping(s, u)
    BY FieldPut
<1> HIDE DEF u
<1>3. Keeping(s, issued)
    BY <1>2, PublishKeeps DEF Keeping
<1> HIDE DEF issued
<1>4. Sound(cleared) /\ cleared.failures = 0
    <2>1. /\ issued \in AccountRecords /\ FailureLimit \in Nat
          /\ \A t \in Tokens : SoundSession(issued.sessions[t])
        BY <1>3, SyntheticAssumption DEF Keeping, Sound
    <2> DEFINE a == IF issued.account = "none" THEN "active" ELSE issued.account
    <2>2. a \in {"active", "none", "disabled"}
        BY <2>1 DEF AccountRecords
    <2> HIDE DEF a
    <2> DEFINE c == [issued EXCEPT !.account = a, !.failures = 0, !.failureTtl = "none"]
    <2>3. c \in AccountRecords /\ c.sessions = issued.sessions /\ c.failures = 0
        <3>1. 0 \in 0..FailureLimit /\ "none" \in Ttl
            BY <2>1 DEF Ttl
        <3> QED BY <2>1, <2>2, <3>1 DEF AccountRecords
    <2>4. cleared = c
        BY DEF a
    <2> HIDE DEF c, cleared
    <2> QED BY <2>1, <2>3, <2>4 DEF Sound
<1> HIDE DEF cleared
<1>5. CASE s.failures < FailureLimit /\ r = CountFailure(s, commands).store
    BY <1>5, FailureIsCounted
<1> QED BY <1>1, <1>2, <1>3, <1>4, <1>5 DEF Keeping

LEMMA DeniedInitInv == DeniedInit => DeniedInv
<1> SUFFICES ASSUME DeniedInit PROVE DeniedInv
    OBVIOUS
<1>1. PICK a \in {"active", "none", "disabled"} : account = [EmptyStore EXCEPT !.account = a]
    BY DEF DeniedInit
<1>2. /\ account = [account |-> a, code |-> FALSE, cooldown |-> FALSE,
                    failures |-> 0, failureTtl |-> "none", mistyped |-> FALSE,
                    sessions |-> NoSessions, broken |-> "none",
                    row |-> FALSE, score |-> "none", projectionTyped |-> TRUE, table |-> TRUE]
    BY <1>1 DEF EmptyStore
<1>3. NoSessions \in [Tokens -> SessionRecords] /\ \A t \in Tokens : SoundSession(NoSessions[t])
    BY KnownSessions DEF NoSessions, SoundSession
<1>4. 0 \in 0..FailureLimit
    BY SyntheticAssumption
<1>5. account \in AccountRecords
    BY <1>2, <1>3, <1>4 DEF AccountRecords, Ttl
<1> QED BY <1>2, <1>3, <1>5 DEF DeniedInv, Sound, DeniedInit

LEMMA DeniedNextInv == DeniedInv /\ [DeniedNext]_deniedVars => DeniedInv'
<1> SUFFICES ASSUME DeniedInv, [DeniedNext]_deniedVars PROVE DeniedInv'
    OBVIOUS
<1>t. /\ Sound(account) /\ refused \subseteq Commands
      /\ account.failures > 0 /\ account.failureTtl = "none" => uncounted
      /\ account \in AccountRecords /\ account.failures \in Nat
    <2>1. /\ Sound(account) /\ refused \subseteq Commands
          /\ account.failures > 0 /\ account.failureTtl = "none" => uncounted
        BY DEF DeniedInv
    <2>2. account \in AccountRecords
        BY <2>1 DEF Sound
    <2>3. account.failures \in 0..FailureLimit
        BY <2>2 DEF AccountRecords
    <2> QED BY <2>1, <2>2, <2>3, SyntheticAssumption
\* Handlers that leave the counter alone.
<1>k. ASSUME Keeping(account, account'), uncounted' = uncounted, refused' = refused PROVE DeniedInv'
    BY <1>t, <1>k DEF DeniedInv, Keeping, Counter
<1>1. ASSUME NEW c \in Commands, Deny(c) \/ Allow(c) PROVE DeniedInv'
    BY <1>t, <1>1 DEF DeniedInv, Deny, Allow, Sound
<1>2. ASSUME NEW guess, TryLogin(guess) PROVE DeniedInv'
    <2>1. /\ account' = Login(account, refused, guess).store
          /\ uncounted \/ (account.failures = 0 /\ "expire" \in refused) =>
                (account'.failures > 0 => uncounted')
          /\ refused' = refused
        <3>1. account' = Login(account, refused, guess).store /\ refused' = refused
            BY <1>2 DEF TryLogin, Handles
        <3>2. uncounted' = ((uncounted \/ (account.failures = 0 /\ "expire" \in refused))
                             /\ Login(account, refused, guess).store.failures > 0)
            BY <1>2, Zenon DEF TryLogin, Counts
        <3>3. ASSUME uncounted \/ (account.failures = 0 /\ "expire" \in refused),
                     account'.failures > 0
              PROVE  uncounted'
            BY <3>1, <3>2, <3>3, Zenon
        <3> QED BY <3>1, <3>3
    <2>2. /\ Sound(account')
          /\ \/ Counter(account') = Counter(account)
             \/ account'.failures = account.failures + 1 /\ account.failures > 0
                    /\ account'.failureTtl = account.failureTtl
             \/ /\ account'.failures = 1 /\ account.failures = 0
                /\ \/ account'.failureTtl = "full"
                   \/ account'.failureTtl = account.failureTtl /\ "expire" \in refused
             \/ account'.failures = 0
        BY <1>t, <2>1, LoginIsContained
    <2>3. account'.failures \in Nat
        BY <2>2, SyntheticAssumption DEF Sound, AccountRecords
    <2>4. account'.failures > 0 /\ account'.failureTtl = "none" => uncounted'
        <3>1. CASE Counter(account') = Counter(account)
            BY <1>t, <2>1, <3>1 DEF Counter
        <3>2. CASE Counter(account') # Counter(account)
            BY <1>t, <2>1, <2>2, <2>3, <3>2
        <3> QED BY <3>1, <3>2
    <2> QED BY <1>t, <2>1, <2>2, <2>4 DEF DeniedInv, Sound
<1>3. CASE AskCode
    <2>1. SendCode(account, refused).store \in
            {account, [account EXCEPT !.cooldown = TRUE], [account EXCEPT !.cooldown = FALSE],
             [account EXCEPT !.code = TRUE, !.cooldown = TRUE]}
        <3>1. ("del" \in refused) \in BOOLEAN
            OBVIOUS
        <3>2. GiveCooldownBack(account, refused) \in
                {[account EXCEPT !.cooldown = TRUE], [account EXCEPT !.cooldown = FALSE]}
            BY <3>1 DEF GiveCooldownBack
        <3> QED BY <3>2 DEF SendCode, Answer
    <2>2. Keeping(account, account) /\ account' = SendCode(account, refused).store
          /\ UNCHANGED <<refused, uncounted>>
        BY <1>3, <1>t DEF AskCode, Handles, Keeping
    <2> QED BY <1>k, <1>t, <2>1, <2>2, FieldPut
<1>4. CASE PublishLate
    BY <1>4, <1>k, <1>t, PublishKeeps DEF PublishLate, Handles
<1>5. ASSUME NEW t \in Tokens, Present(t) PROVE DeniedInv'
    BY <1>5, <1>k, <1>t, PresentKeeps DEF Present, Handles
<1>6. CASE TtlEnds
    <2>1. CASE \/ account' = [account EXCEPT !["code"] = FALSE] /\ UNCHANGED <<refused, uncounted>>
               \/ account' = [account EXCEPT !["cooldown"] = FALSE] /\ UNCHANGED <<refused, uncounted>>
        BY <1>k, <1>t, <2>1, FieldPut
    <2>2. CASE /\ account' = [account EXCEPT !.failures = 0, !.failureTtl = "none"]
               /\ UNCHANGED refused
        <3>1. 0 \in 0..FailureLimit /\ "none" \in Ttl
            BY SyntheticAssumption DEF Ttl
        <3>2. account' \in AccountRecords /\ account'.sessions = account.sessions
              /\ account'.failures = 0
            BY <1>t, <2>2, <3>1 DEF AccountRecords
        <3> QED BY <1>t, <2>2, <3>2 DEF DeniedInv, Sound
    <2>3. CASE \E t \in Tokens : account' = [account EXCEPT !.sessions[t] = NoSession]
                                 /\ UNCHANGED <<refused, uncounted>>
        BY <1>k, <1>t, <2>3, SessionPut, KnownSessions
    <2> QED BY <1>6, <2>1, <2>2, <2>3 DEF TtlEnds, Elapse
<1>7. CASE UNCHANGED deniedVars
    BY <1>7, <1>t DEF deniedVars, DeniedInv, Sound
<1> QED BY <1>1, <1>2, <1>3, <1>4, <1>5, <1>6, <1>7 DEF DeniedNext

\* What the handlers leave behind when Redis refuses any of their commands at any moment: the
\* failure counter stays without a TTL only when its first EXPIRE was refused, and no session
\* carries an identity without a TTL, for any failure limit and any number of sessions.
THEOREM RefusedCommandsAreContained == DeniedSpec => []RefusalsAreContained
<1>1. DeniedInv => RefusalsAreContained
    BY DEF DeniedInv, RefusalsAreContained, DeniedTypeOK, Sound, SoundSession, AccountRecords,
           SessionRecords
<1> QED BY <1>1, DeniedInitInv, DeniedNextInv, PTL DEF DeniedSpec
=============================================================================
