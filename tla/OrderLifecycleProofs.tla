------------------------- MODULE OrderLifecycleProofs -------------------------
(***************************************************************************)
(* Proofs about OrderLifecycle, for any users, order IDs and reconcilers,  *)
(* any stock and any number of releases.                                   *)
(***************************************************************************)
EXTENDS OrderLifecycle, FiniteSetTheorems, TLAPS

USE VoucherAssumption, LedgerAssumption DEF VoucherAssumption, LedgerAssumption

Results == {"none", "RELEASED", "ALREADY_RELEASED", "EXPIRED", "INVALID", "UNMATCHED", "ERROR"}

OutboxRow == [status : {"NONE", "PENDING", "COMPLETED", "REQUIRES_REVIEW"},
              attempts : 0..MaxReleases, token : 0..MaxReleases,
              leased : BOOLEAN, backoff : BOOLEAN]

JobState == [at : {"idle", "picked", "claimed", "answered"},
             order : Orders \cup {NoOrder}, spent : BOOLEAN, token : 0..MaxReleases,
             result : Results]

\* A reconciler that is busy has an order in hand.
BusyInv == \A r \in Reconcilers : job[r].at # "idle" => job[r].order \in Orders

TypeInv == LifecycleTypeOK /\ BusyInv

LEMMA TypeInit == LifecycleInit => TypeInv
BY DEF LifecycleInit, ActivityInit, LedgerInit, NoRequests, NoMarkers, NoEntry, NoJob,
       TypeInv, LifecycleTypeOK, BusyInv

LEMMA RowsAndJobs ==
    LifecycleTypeOK => outbox \in [Orders -> OutboxRow] /\ job \in [Reconcilers -> JobState]
BY DEF LifecycleTypeOK, OutboxRow, JobState, Results

\* What every UPDATE of the outbox leaves.
LEMMA UpdateType ==
    ASSUME TypeInv, NEW o \in Orders, NEW entry \in OutboxRow, UpdateOutbox(o, entry),
           UNCHANGED <<activityVars, events, told>>, job' \in [Reconcilers -> JobState],
           BusyInv'
    PROVE  TypeInv'
<1>1. outbox' \in [Orders -> OutboxRow]
    BY RowsAndJobs DEF UpdateOutbox, TypeInv
<1> QED BY <1>1 DEF UpdateOutbox, TypeInv, LifecycleTypeOK, OutboxRow, JobState, Results,
                    activityVars

\* A claim writes all three columns of the lease, everybody else two.
LEMMA LeaseColumns ==
    ASSUME NEW e \in OutboxRow, NEW n \in 0..MaxReleases, NEW t \in 0..MaxReleases,
           NEW l \in BOOLEAN
    PROVE  LET unleased == [e EXCEPT !.token = t, !.leased = l]
               claimed == [e EXCEPT !.attempts = n, !.token = t, !.leased = l]
           IN  /\ unleased \in OutboxRow /\ unleased.leased = l
               /\ claimed \in OutboxRow /\ claimed.status = e.status
BY DEF OutboxRow

\* The rows the statements of OrderCancellationMapper write.
LEMMA WrittenRows ==
    ASSUME TypeInv, NEW o \in Orders
    PROVE  /\ outbox[o] \in OutboxRow
           /\ Unleased(o) \in OutboxRow /\ ~Unleased(o).leased
           /\ \A s \in {"COMPLETED", "REQUIRES_REVIEW"} :
                 [Unleased(o) EXCEPT !.status = s] \in OutboxRow
           /\ \A s \in {"PENDING", "REQUIRES_REVIEW"} :
                 [Unleased(o) EXCEPT !.status = s, !.backoff = TRUE] \in OutboxRow
           /\ CanClaim(o) => [outbox[o] EXCEPT !.attempts = @ + 1,
                                  !.token = outbox[o].attempts + 1,
                                  !.leased = TRUE] \in OutboxRow
           /\ [outbox[o] EXCEPT !.leased = FALSE] \in OutboxRow
           /\ [outbox[o] EXCEPT !.backoff = FALSE] \in OutboxRow
<1>1. outbox[o] \in OutboxRow
    BY RowsAndJobs DEF TypeInv
<1>2. Unleased(o) \in OutboxRow /\ ~Unleased(o).leased
    <2>1. 0 \in 0..MaxReleases
        OBVIOUS
    <2> QED BY <1>1, <2>1, LeaseColumns DEF Unleased
<1>3. \A s \in {"COMPLETED", "REQUIRES_REVIEW"} : [Unleased(o) EXCEPT !.status = s] \in OutboxRow
    BY <1>2 DEF OutboxRow
<1>4. \A s \in {"PENDING", "REQUIRES_REVIEW"} :
          [Unleased(o) EXCEPT !.status = s, !.backoff = TRUE] \in OutboxRow
    BY <1>2 DEF OutboxRow
<1>5. CanClaim(o) => [outbox[o] EXCEPT !.attempts = @ + 1,
                          !.token = outbox[o].attempts + 1,
                          !.leased = TRUE] \in OutboxRow
    <2>1. CanClaim(o) => outbox[o].attempts + 1 \in 0..MaxReleases
        BY <1>1 DEF OutboxRow, CanClaim
    <2> QED BY <1>1, <2>1, LeaseColumns
<1>6. /\ [outbox[o] EXCEPT !.leased = FALSE] \in OutboxRow
      /\ [outbox[o] EXCEPT !.backoff = FALSE] \in OutboxRow
    BY <1>1 DEF OutboxRow
<1> QED BY <1>1, <1>2, <1>3, <1>4, <1>5, <1>6

\* What a job becomes when its reconciler drops it, or is handed something.
LEMMA DroppedJob ==
    ASSUME TypeInv, NEW r \in Reconcilers, job' = [job EXCEPT ![r] = NoJob]
    PROVE  job' \in [Reconcilers -> JobState] /\ BusyInv'
BY RowsAndJobs DEF TypeInv, NoJob, JobState, Results, BusyInv

LEMMA PickedJob ==
    ASSUME NEW j \in JobState, NEW o \in Orders, NEW spent \in BOOLEAN
    PROVE  LET picked == [j EXCEPT !.at = "picked", !.order = o, !.spent = spent]
           IN  picked \in JobState /\ picked.order = o
BY DEF JobState

\* seckill.lua and release-cancelled-order.lua stay inside the types.
LEMMA ReleaseType ==
    ASSUME TypeInv, NEW o \in Orders, NEW u, Release(u, o) \/ ReleaseDies(u, o)
    PROVE  /\ stock' \in 0..StockLimit
           /\ released' \in [Orders -> {"none", "PENDING", "DONE"}]
           /\ UNCHANGED <<clock, activity, participants, request>>
<1>1. stock \in 0..StockLimit /\ released \in [Orders -> {"none", "PENDING", "DONE"}]
    BY DEF TypeInv, LifecycleTypeOK
<1>2. ReleaseResult(u, o) = "RELEASED" => stock < StockLimit
    BY <1>1 DEF ReleaseResult
<1>3. CASE Release(u, o)
    BY <1>1, <1>2, <1>3 DEF Release
<1>4. CASE ReleaseDies(u, o)
    BY <1>1, <1>2, <1>4 DEF ReleaseDies
<1> QED BY <1>3, <1>4
-----------------------------------------------------------------------------
LEMMA ReconcileType ==
    ASSUME TypeInv, NEW r \in Reconcilers, ReconcileStep(r) \/ Abandon(r)
    PROVE  TypeInv'
<1> USE DEF TypeInv
<1>1. outbox \in [Orders -> OutboxRow] /\ job \in [Reconcilers -> JobState]
    BY RowsAndJobs
<1> DEFINE o == job[r].order
<1>2. job[r].at # "idle" => o \in Orders
    BY DEF BusyInv
<1>3. ASSUME NEW p \in Orders, Pick(r, p) PROVE TypeInv'
    <2>1. job' \in [Reconcilers -> JobState] /\ BusyInv'
        <3> DEFINE picked == [NoJob EXCEPT !.at = "picked", !.order = p,
                                 !.spent = outbox[p].attempts >= MaxReleases]
        <3>1. NoJob \in JobState
            BY DEF NoJob, JobState, Results
        <3>2. picked \in JobState /\ picked.order = p
            <4>1. (outbox[p].attempts >= MaxReleases) \in BOOLEAN
                OBVIOUS
            <4> QED BY <3>1, <4>1, PickedJob
        <3>3. job' = [job EXCEPT ![r] = picked]
            BY <1>3 DEF Pick
        <3> HIDE DEF picked
        <3> QED BY <1>1, <3>2, <3>3 DEF BusyInv
    <2> QED BY <1>3, <2>1 DEF Pick, activityVars, ledgerVars, LifecycleTypeOK, JobState, Results
<1>4. CASE Exhaust(r) \/ RecordOutcome(r)
    <2>1. job' \in [Reconcilers -> JobState] /\ BusyInv'
        BY <1>4, DroppedJob DEF Exhaust, RecordOutcome
    <2>2. UNCHANGED <<activityVars, events, told>> /\ o \in Orders
        BY <1>2, <1>4 DEF Exhaust, RecordOutcome, At
    <2>3. CASE UNCHANGED ledgerVars
        BY <2>1, <2>2, <2>3 DEF activityVars, ledgerVars, LifecycleTypeOK, JobState, Results
    <2>4. CASE \E entry \in OutboxRow : UpdateOutbox(o, entry)
        BY <2>1, <2>2, <2>4, UpdateType
    <2>5. UNCHANGED ledgerVars \/ \E entry \in OutboxRow : UpdateOutbox(o, entry)
        <3>1. CASE Exhaust(r)
            BY <2>2, <3>1, WrittenRows DEF Exhaust, ExhaustEntry
        <3>2. CASE CompleteEntry(o, job[r].token) \/ ReviewEntry(o, job[r].token)
            BY <2>2, <3>2, WrittenRows DEF CompleteEntry, ReviewEntry
        <3>3. CASE RetryEntry(o, job[r].token)
            BY <2>2, <3>3, WrittenRows DEF RetryEntry
        <3> QED BY <1>4, <3>1, <3>2, <3>3 DEF RecordOutcome
    <2> QED BY <2>3, <2>4, <2>5
<1>5. CASE ClaimJob(r)
    <2>1. CASE ClaimEntry(o)
        <3>1. \E entry \in OutboxRow : UpdateOutbox(o, entry)
            BY <1>2, <1>5, <2>1, WrittenRows DEF ClaimEntry, ClaimJob, At
        <3>2. outbox' \in [Orders -> OutboxRow]
            BY <1>1, <1>2, <3>1 DEF UpdateOutbox
        <3>3. outbox'[o].token \in 0..MaxReleases
            BY <1>2, <1>5, <3>2 DEF ClaimJob, At, OutboxRow
        <3>4. job' \in [Reconcilers -> JobState] /\ BusyInv'
            BY <1>1, <1>5, <2>1, <3>3 DEF ClaimJob, ClaimEntry, At, JobState, BusyInv
        <3> QED BY <1>2, <1>5, <3>1, <3>4, UpdateType DEF ClaimJob, At
    <2>2. CASE ~CanClaim(o)
        <3>1. job' \in [Reconcilers -> JobState] /\ BusyInv' /\ UNCHANGED ledgerVars
            BY <1>5, <2>2, DroppedJob DEF ClaimJob, ClaimEntry
        <3> QED BY <1>5, <3>1 DEF ClaimJob, activityVars, ledgerVars, LifecycleTypeOK,
                                  JobState, Results
    <2> QED BY <1>5, <2>1, <2>2 DEF ClaimJob
<1>6. CASE CallRelease(r) \/ CallReleaseFails(r)
    <2>1. /\ stock' \in 0..StockLimit
          /\ released' \in [Orders -> {"none", "PENDING", "DONE"}]
          /\ UNCHANGED <<clock, activity, participants, request>>
        <3>1. CASE UNCHANGED activityVars
            BY <3>1 DEF activityVars, LifecycleTypeOK
        <3>2. CASE Release(buyer[o], o) \/ ReleaseDies(buyer[o], o)
            BY <1>2, <1>6, <3>2, ReleaseType DEF CallRelease, CallReleaseFails, At
        <3> QED BY <1>6, <3>1, <3>2 DEF CallRelease, CallReleaseFails
    <2>2. job' \in [Reconcilers -> JobState] /\ BusyInv'
        <3>1. \E outcome \in Results : Answered(r, outcome)
            BY <1>6 DEF CallRelease, CallReleaseFails, ReleaseResult, Results
        <3>2. job[r].at # "idle"
            BY <1>6 DEF CallRelease, CallReleaseFails, At
        <3>3. PICK outcome \in Results :
                    job' = [job EXCEPT ![r].at = "answered", ![r].result = outcome]
            BY <3>1 DEF Answered
        <3> DEFINE answered == [job[r] EXCEPT !.at = "answered", !.result = outcome]
        <3>4. job' = [job EXCEPT ![r] = answered]
            BY <1>1, <3>3
        <3>5. answered \in JobState /\ answered.order = o
            BY <1>1 DEF JobState
        <3> HIDE DEF answered
        <3> QED BY <1>1, <1>2, <3>2, <3>4, <3>5 DEF BusyInv
    <2> QED BY <1>6, <2>1, <2>2 DEF CallRelease, CallReleaseFails, ledgerVars, LifecycleTypeOK,
                                    JobState, Results
<1>7. CASE Abandon(r)
    <2>1. job' \in [Reconcilers -> JobState] /\ BusyInv'
        BY <1>7, DroppedJob DEF Abandon
    <2> QED BY <1>7, <2>1 DEF Abandon, activityVars, ledgerVars, LifecycleTypeOK, JobState, Results
<1> QED BY <1>3, <1>4, <1>5, <1>6, <1>7 DEF ReconcileStep

LEMMA TypeStep == TypeInv /\ [LifecycleNext]_lifecycleVars => TypeInv'
<1> SUFFICES ASSUME TypeInv, [LifecycleNext]_lifecycleVars PROVE TypeInv'
    OBVIOUS
<1> USE DEF TypeInv
<1>1. CASE UNCHANGED lifecycleVars
    BY <1>1 DEF lifecycleVars, activityVars, ledgerVars, LifecycleTypeOK, BusyInv
<1>2. CASE ActivityStep
    BY <1>2 DEF ActivityStep, Publish, PublishFails, Tick, activityKeys, ledgerVars, NoRequests,
                NoMarkers, LifecycleTypeOK, BusyInv
<1>3. ASSUME NEW u \in Users, AdmitReplay(u) PROVE TypeInv'
    BY <1>3 DEF AdmitReplay, Replays, activityVars, ledgerVars, LifecycleTypeOK, BusyInv
<1>4. ASSUME NEW u \in Users, NEW o \in Orders, AdmitNew(u, o) PROVE TypeInv'
    <2>1. told' \in [Users -> SUBSET Orders]
        <3>1. told' = told \/ told' = [told EXCEPT ![u] = told[u] \cup {o}]
            BY <1>4 DEF AdmitNew, Answer
        <3> QED BY <3>1 DEF LifecycleTypeOK
    <2>2. stock' \in 0..StockLimit
        BY <1>4 DEF AdmitNew, Reserve, Accepts, LifecycleTypeOK
    <2>3. /\ events' \subseteq Users \X Orders
          /\ participants' \subseteq Users
          /\ request' \in [Users -> Orders \cup {NoOrder}]
        BY <1>4 DEF AdmitNew, Reserve, LifecycleTypeOK
    <2> QED BY <1>4, <2>1, <2>2, <2>3 DEF AdmitNew, Reserve, ledgerVars, LifecycleTypeOK, BusyInv
<1>5. ASSUME NEW u \in Users, NEW o \in Orders, Persist(u, o) PROVE TypeInv'
    <2>1. dbStock' \in 0..StockLimit
        BY <1>5 DEF Persist, InsertOrder, CanInsert, LifecycleTypeOK
    <2> QED BY <1>5, <2>1 DEF Persist, InsertOrder, activityVars, LifecycleTypeOK, BusyInv
<1>6. ASSUME NEW u \in Users, NEW o \in Orders, CancelMine(u, o) PROVE TypeInv'
    <2>1. outbox' \in [Orders -> OutboxRow]
        <3>1. [NoEntry EXCEPT !.status = "PENDING"] \in OutboxRow
            <4>1. NoEntry \in OutboxRow
                BY DEF NoEntry, OutboxRow
            <4> QED BY <4>1 DEF OutboxRow
        <3> QED BY <1>6, <3>1, RowsAndJobs DEF CancelMine, CancelOrder
    <2>2. dbStock' \in 0..StockLimit
        BY <1>6 DEF CancelMine, CancelOrder, LifecycleTypeOK
    <2> QED BY <1>6, <2>1, <2>2 DEF CancelMine, CancelOrder, activityVars, LifecycleTypeOK, BusyInv,
                                    OutboxRow
<1>7. ASSUME NEW o \in Orders, Pay(o) PROVE TypeInv'
    BY <1>7 DEF Pay, PayOrder, activityVars, LifecycleTypeOK, BusyInv
<1>8. ASSUME NEW o \in Orders, OutboxTime(o) PROVE TypeInv'
    <2>1. \E entry \in OutboxRow : UpdateOutbox(o, entry)
        BY <1>8, WrittenRows DEF OutboxTime, LeaseExpires, BackoffEnds
    <2>2. job' \in [Reconcilers -> JobState] /\ BusyInv'
        BY <1>8, RowsAndJobs DEF OutboxTime, BusyInv
    <2> QED BY <1>8, <2>1, <2>2, UpdateType DEF OutboxTime
<1>9. ASSUME NEW r \in Reconcilers, ReconcileStep(r) \/ Abandon(r) PROVE TypeInv'
    BY <1>9, ReconcileType
<1> QED BY <1>1, <1>2, <1>3, <1>4, <1>5, <1>6, <1>7, <1>8, <1>9 DEF LifecycleNext
-----------------------------------------------------------------------------
(* Typing does not say that the two stores tell the same story.  These     *)
(* invariants do; the properties of OrderLifecycle follow from them.       *)

\* One user per order, one order per user, and a row only for an event.
IdentityInv ==
    /\ \A o \in Orders : buyer[o] = NoUser <=> status[o] = "absent"
    /\ \A o \in Orders : buyer[o] # NoUser => <<buyer[o], o>> \in events
    /\ \A u, v \in Users, o \in Orders : <<u, o>> \in events /\ <<v, o>> \in events => u = v
    /\ \A u \in Users, o, p \in Orders : <<u, o>> \in events /\ <<u, p>> \in events => o = p
    /\ \A u \in Users : \A o \in told[u] : <<u, o>> \in events

\* While the activity lives its requests are the events, before it there is
\* nothing, after it Redis has nothing.
ActivityInv ==
    /\ activity # "live" => request = NoRequests /\ released = NoMarkers
    /\ activity \in {"committed", "failed"} => events = {} /\ stock = 0
    /\ activity = "live" =>
        \A u \in Users, o \in Orders : <<u, o>> \in events <=> request[u] = o

\* A reconciler works on a cancelled order, and what it was answered is so.
SettlementInv ==
    /\ \A o \in Orders : outbox[o].status # "NONE" => status[o] = "cancelled"
    /\ \A o \in Orders : outbox[o].leased => outbox[o].status = "PENDING"
    /\ \A r \in Reconcilers : job[r].at # "idle" => status[job[r].order] = "cancelled"
    /\ \A r \in Reconcilers :
        /\ job[r].at = "answered"
        /\ job[r].result \in {"RELEASED", "ALREADY_RELEASED", "EXPIRED"}
        => released[job[r].order] = "DONE" \/ clock = "expired"
    /\ CompletedMeansReleased

Cancelled == {o \in Orders : status[o] = "cancelled"}
Waiting == {o \in Orders : buyer[o] = NoUser /\ \E u \in Users : <<u, o>> \in events}

\* Every event is waiting, active or cancelled, and Redis has promised no unit
\* twice unless it was cancelled meanwhile.
CountInv ==
    /\ DatabaseStockConserved
    /\ Cardinality(Waiting) + Cardinality(Active) + Cardinality(Cancelled) = Cardinality(events)
    /\ activity = "live" => Cardinality(Reserved) = Cardinality(events)
    /\ RedisStockConserved
    /\ Cardinality(events) <= InitialStock + Cardinality(Cancelled)

StoriesInv == IdentityInv /\ ActivityInv /\ SettlementInv

\* What a release does to Redis, whoever calls it and however it ends.
LEMMA ReleaseEffect ==
    ASSUME TypeInv, NEW o \in Orders, NEW u, Release(u, o) \/ ReleaseDies(u, o)
    PROVE  \/ UNCHANGED <<stock, released>>
           \/ /\ activity = "live" /\ released[o] = "none" /\ clock # "expired"
              /\ \/ stock' = stock + 1 /\ released' = [released EXCEPT ![o] = "DONE"]
                 \/ stock' \in {stock, stock + 1} /\ released' = [released EXCEPT ![o] = "PENDING"]
<1>1. ReleaseResult(u, o) = "RELEASED" =>
        activity = "live" /\ released[o] = "none" /\ clock # "expired"
    BY DEF ReleaseResult
<1> QED BY <1>1 DEF Release, ReleaseDies

\* A reconciler writes nothing but the outbox and, through the release script,
\* the stock and the marker of the cancelled order it has in hand.
LEMMA ReconcilerEffect ==
    ASSUME TypeInv, NEW r \in Reconcilers, ReconcileStep(r) \/ Abandon(r)
    PROVE  /\ UNCHANGED <<dbStock, buyer, status, events, told, clock, activity, request>>
           /\ \/ UNCHANGED <<stock, released>>
              \/ /\ job[r].at = "claimed" /\ job[r].order \in Orders
                 /\ activity = "live" /\ released[job[r].order] = "none" /\ clock # "expired"
                 /\ \/ /\ stock' = stock + 1
                       /\ released' = [released EXCEPT ![job[r].order] = "DONE"]
                    \/ /\ stock' \in {stock, stock + 1}
                       /\ released' = [released EXCEPT ![job[r].order] = "PENDING"]
<1>1. CASE Exhaust(r) \/ ClaimJob(r) \/ RecordOutcome(r) \/ Abandon(r) \/ \E o \in Orders : Pick(r, o)
    BY <1>1 DEF Exhaust, ClaimJob, RecordOutcome, Abandon, Pick, activityVars, ledgerVars,
                ExhaustEntry, ClaimEntry, CompleteEntry, ReviewEntry, RetryEntry, UpdateOutbox
<1>2. CASE CallRelease(r) \/ CallReleaseFails(r)
    <2>1. job[r].at = "claimed" /\ job[r].order \in Orders
        BY <1>2 DEF CallRelease, CallReleaseFails, At, TypeInv, BusyInv
    <2>2. UNCHANGED <<dbStock, buyer, status, events, told>>
        BY <1>2 DEF CallRelease, CallReleaseFails, ledgerVars
    <2>3. \/ UNCHANGED activityVars
          \/ Release(buyer[job[r].order], job[r].order)
          \/ ReleaseDies(buyer[job[r].order], job[r].order)
        BY <1>2 DEF CallRelease, CallReleaseFails
    <2>4. UNCHANGED <<clock, activity, request>>
        BY <2>3 DEF activityVars, Release, ReleaseDies
    <2> QED BY <2>1, <2>2, <2>3, <2>4, ReleaseEffect DEF activityVars
<1> QED BY <1>1, <1>2 DEF ReconcileStep

LEMMA StoriesInit == LifecycleInit => StoriesInv
BY DEF LifecycleInit, ActivityInit, LedgerInit, NoEntry, NoJob, NoMarkers, StoriesInv,
       IdentityInv, ActivityInv, SettlementInv, CompletedMeansReleased

LEMMA IdentityStep ==
    TypeInv /\ IdentityInv /\ ActivityInv /\ [LifecycleNext]_lifecycleVars => IdentityInv'
<1> SUFFICES ASSUME TypeInv, IdentityInv, ActivityInv, [LifecycleNext]_lifecycleVars
             PROVE  IdentityInv'
    OBVIOUS
<1>0. /\ buyer \in [Orders -> Users \cup {NoUser}]
      /\ status \in [Orders -> {"absent", "unpaid", "paid", "cancelled"}]
      /\ request \in [Users -> Orders \cup {NoOrder}]
      /\ told \in [Users -> SUBSET Orders]
    BY DEF TypeInv, LifecycleTypeOK
<1>1. CASE UNCHANGED <<buyer, status, events, told>>
    BY <1>1 DEF IdentityInv
<1>2. ASSUME NEW u \in Users, AdmitReplay(u) PROVE IdentityInv'
    <2>1. activity = "live" /\ request[u] \in Orders
        BY <1>0, <1>2 DEF AdmitReplay, Replays, ActivityInv, NoRequests
    <2>2. <<u, request[u]>> \in events
        BY <2>1 DEF ActivityInv
    <2>3. \A v \in Users : \A o \in told'[v] : <<v, o>> \in events
        BY <1>0, <1>2, <2>2 DEF AdmitReplay, IdentityInv
    <2> QED BY <1>2, <2>3 DEF AdmitReplay, ledgerVars, IdentityInv
<1>3. ASSUME NEW u \in Users, NEW o \in Orders, AdmitNew(u, o) PROVE IdentityInv'
    <2>1. /\ \A v \in Users : <<v, o>> \notin events
          /\ events' = events \cup {<<u, o>>}
          /\ told' \in {told, [told EXCEPT ![u] = @ \cup {o}]}
          /\ UNCHANGED <<buyer, status>>
        BY <1>3 DEF AdmitNew, Answer, ledgerVars
    <2>2. \A p \in Orders : <<u, p>> \notin events
        BY <1>3 DEF AdmitNew, Reserve, Accepts, ActivityInv
    <2>3. \A v \in Users : \A p \in told'[v] : p \in told[v] \/ (v = u /\ p = o)
        <3>1. told' = told \/ told' = [told EXCEPT ![u] = told[u] \cup {o}]
            BY <2>1
        <3> QED BY <1>0, <3>1
    <2>4. \A v \in Users : \A p \in told'[v] : <<v, p>> \in events'
        BY <2>1, <2>3 DEF IdentityInv
    <2> QED BY <2>1, <2>2, <2>4 DEF IdentityInv
<1>4. ASSUME NEW u \in Users, NEW o \in Orders, Persist(u, o) PROVE IdentityInv'
    BY <1>0, <1>4 DEF Persist, InsertOrder, IdentityInv
<1>5. ASSUME NEW u \in Users, NEW o \in Orders, CancelMine(u, o) PROVE IdentityInv'
    BY <1>0, <1>5 DEF CancelMine, CancelOrder, IdentityInv
<1>6. ASSUME NEW o \in Orders, Pay(o) PROVE IdentityInv'
    BY <1>0, <1>6 DEF Pay, PayOrder, IdentityInv
<1>7. ASSUME NEW r \in Reconcilers, ReconcileStep(r) \/ Abandon(r) PROVE IdentityInv'
    BY <1>1, <1>7, ReconcilerEffect
<1>8. CASE ActivityStep \/ \E o \in Orders : OutboxTime(o)
    BY <1>1, <1>8 DEF ActivityStep, OutboxTime, LeaseExpires, BackoffEnds, UpdateOutbox, ledgerVars
<1>9. CASE UNCHANGED lifecycleVars
    BY <1>1, <1>9 DEF lifecycleVars, ledgerVars
<1> QED BY <1>2, <1>3, <1>4, <1>5, <1>6, <1>7, <1>8, <1>9 DEF LifecycleNext

LEMMA ActivityInvStep ==
    TypeInv /\ ActivityInv /\ [LifecycleNext]_lifecycleVars => ActivityInv'
<1> SUFFICES ASSUME TypeInv, ActivityInv, [LifecycleNext]_lifecycleVars
             PROVE  ActivityInv'
    OBVIOUS
<1>0. request \in [Users -> Orders \cup {NoOrder}]
    BY DEF TypeInv, LifecycleTypeOK
<1>1. CASE UNCHANGED <<activity, stock, request, released, events>>
    BY <1>1 DEF ActivityInv
<1>2. CASE ActivityStep
    <2>1. CASE Publish
        BY <1>2, <2>1 DEF ActivityStep, Publish, ActivityInv, NoRequests
    <2>2. CASE PublishFails
        BY <1>2, <2>2 DEF ActivityStep, PublishFails, activityKeys, ActivityInv
    <2>3. CASE Tick
        BY <1>2, <2>3 DEF ActivityStep, Tick, activityKeys, ActivityInv
    <2> QED BY <1>2, <2>1, <2>2, <2>3 DEF ActivityStep
<1>3. ASSUME NEW u \in Users, NEW o \in Orders, AdmitNew(u, o) PROVE ActivityInv'
    <2>1. /\ activity = "live" /\ activity' = "live" /\ request[u] = NoOrder
          /\ request' = [request EXCEPT ![u] = o] /\ events' = events \cup {<<u, o>>}
        BY <1>3 DEF AdmitNew, Reserve, Accepts
    <2>2. \A v \in Users, p \in Orders : <<v, p>> \in events' <=> request'[v] = p
        BY <1>0, <2>1 DEF ActivityInv
    <2> QED BY <2>1, <2>2 DEF ActivityInv
<1>4. ASSUME NEW r \in Reconcilers, ReconcileStep(r) \/ Abandon(r) PROVE ActivityInv'
    BY <1>4, ReconcilerEffect DEF ActivityInv
<1>5. CASE \/ \E u \in Users : AdmitReplay(u)
           \/ \E u \in Users, o \in Orders : Persist(u, o) \/ CancelMine(u, o)
           \/ \E o \in Orders : Pay(o) \/ OutboxTime(o)
           \/ UNCHANGED lifecycleVars
    BY <1>1, <1>5 DEF AdmitReplay, Persist, CancelMine, Pay, OutboxTime, lifecycleVars,
                      activityVars
<1> QED BY <1>2, <1>3, <1>4, <1>5 DEF LifecycleNext
-----------------------------------------------------------------------------
LEMMA SettlementStep ==
    TypeInv /\ IdentityInv /\ SettlementInv /\ [LifecycleNext]_lifecycleVars => SettlementInv'
<1> SUFFICES ASSUME TypeInv, IdentityInv, SettlementInv, [LifecycleNext]_lifecycleVars
             PROVE  SettlementInv'
    OBVIOUS
<1>0. /\ status \in [Orders -> {"absent", "unpaid", "paid", "cancelled"}]
      /\ released \in [Orders -> {"none", "PENDING", "DONE"}]
      /\ outbox \in [Orders -> OutboxRow]
      /\ job \in [Reconcilers -> JobState]
      /\ \A r \in Reconcilers : job[r].at # "idle" => job[r].order \in Orders
    BY RowsAndJobs DEF TypeInv, LifecycleTypeOK, BusyInv
<1>1. CASE UNCHANGED <<status, outbox, job, released, clock>>
    BY <1>1 DEF SettlementInv, CompletedMeansReleased
<1>2. CASE ActivityStep
    <2>1. CASE Tick /\ clock' = "expired"
        BY <1>2, <2>1 DEF ActivityStep, Tick, ledgerVars, NoMarkers, SettlementInv,
                          CompletedMeansReleased
    <2>2. CASE clock' # "expired"
        BY <1>2, <2>2 DEF ActivityStep, Publish, PublishFails, Tick, activityKeys, ledgerVars,
                          SettlementInv, CompletedMeansReleased
    <2>3. CASE clock' = clock
        BY <1>1, <1>2, <2>3 DEF ActivityStep, Publish, PublishFails, Tick, activityKeys, ledgerVars
    <2> QED BY <1>2, <2>1, <2>2, <2>3 DEF ActivityStep, Publish, PublishFails
<1>3. ASSUME NEW u \in Users, NEW o \in Orders, AdmitNew(u, o) PROVE SettlementInv'
    BY <1>1, <1>3 DEF AdmitNew, Reserve, ledgerVars
<1>4. ASSUME NEW u \in Users, AdmitReplay(u) PROVE SettlementInv'
    BY <1>1, <1>4 DEF AdmitReplay, activityVars, ledgerVars
<1>5. ASSUME NEW o \in Orders, status[o] # "cancelled", UNCHANGED <<outbox, job, released, clock>>,
             status' = [status EXCEPT ![o] = status'[o]]
      PROVE  SettlementInv'
    BY <1>0, <1>5 DEF SettlementInv, CompletedMeansReleased
<1>6. ASSUME NEW u \in Users, NEW o \in Orders, Persist(u, o) PROVE SettlementInv'
    BY <1>0, <1>5, <1>6 DEF Persist, InsertOrder, CanInsert, activityVars, IdentityInv
<1>7. ASSUME NEW u \in Users, NEW o \in Orders, CancelMine(u, o) PROVE SettlementInv'
    <2>1. /\ status' = [status EXCEPT ![o] = "cancelled"]
          /\ outbox' = [outbox EXCEPT ![o] = [NoEntry EXCEPT !.status = "PENDING"]]
          /\ UNCHANGED <<job, released, clock>>
          /\ status[o] = "unpaid"
        BY <1>7 DEF CancelMine, CancelOrder, activityVars
    <2>2. /\ outbox'[o].status = "PENDING"
          /\ \A p \in Orders \ {o} : outbox'[p] = outbox[p]
        BY <1>0, <2>1 DEF NoEntry
    <2> QED BY <1>0, <2>1, <2>2 DEF SettlementInv, CompletedMeansReleased
<1>8. ASSUME NEW o \in Orders, Pay(o) PROVE SettlementInv'
    BY <1>0, <1>5, <1>8 DEF Pay, PayOrder, activityVars
<1>9. ASSUME NEW o \in Orders, NEW entry \in OutboxRow, UpdateOutbox(o, entry),
             UNCHANGED <<clock, released>>, outbox[o].status # "NONE",
             entry.status # "NONE", entry.leased => entry.status = "PENDING",
             entry.status = "COMPLETED" =>
                outbox[o].status = "COMPLETED" \/ released[o] = "DONE" \/ clock = "expired",
             \A r \in Reconcilers :
                \/ job'[r] = job[r] \/ job'[r].at = "idle"
                \/ job'[r].at = "claimed" /\ job[r].at # "idle" /\ job'[r].order = job[r].order
      PROVE  SettlementInv'
    <2>1. UNCHANGED status /\ outbox' = [outbox EXCEPT ![o] = entry]
        BY <1>9 DEF UpdateOutbox
    <2> QED BY <1>0, <1>9, <2>1 DEF SettlementInv, CompletedMeansReleased
<1>10. ASSUME NEW o \in Orders, OutboxTime(o) PROVE SettlementInv'
    <2>1. PICK entry \in OutboxRow :
            /\ UpdateOutbox(o, entry)
            /\ entry.status = outbox[o].status
            /\ entry.leased => outbox[o].leased
        <3>1. CASE LeaseExpires(o)
            <4> DEFINE row == [outbox[o] EXCEPT !.leased = FALSE]
            <4>1. row \in OutboxRow /\ row.status = outbox[o].status /\ ~row.leased
                BY <1>0 DEF OutboxRow
            <4> QED BY <3>1, <4>1 DEF LeaseExpires
        <3>2. CASE BackoffEnds(o)
            <4> DEFINE row == [outbox[o] EXCEPT !.backoff = FALSE]
            <4>1. row \in OutboxRow /\ row.status = outbox[o].status
                    /\ row.leased = outbox[o].leased
                BY <1>0 DEF OutboxRow
            <4> QED BY <3>2, <4>1 DEF BackoffEnds
        <3> QED BY <1>10, <3>1, <3>2 DEF OutboxTime
    <2>2. outbox[o].status = "PENDING"
        BY <1>10 DEF OutboxTime, LeaseExpires, BackoffEnds, SettlementInv
    <2> QED BY <1>9, <1>10, <2>1, <2>2 DEF OutboxTime, activityVars
<1>11. ASSUME NEW r \in Reconcilers, ReconcileStep(r) \/ Abandon(r) PROVE SettlementInv'
    <2> DEFINE o == job[r].order
    <2>1. ASSUME NEW p \in Orders, Pick(r, p) PROVE SettlementInv'
        <3>1. /\ UNCHANGED <<status, outbox, released, clock>>
              /\ status[p] = "cancelled"
            BY <2>1 DEF Pick, Due, activityVars, ledgerVars, SettlementInv
        <3>2. /\ job'[r].at = "picked" /\ job'[r].order = p
              /\ \A k \in Reconcilers \ {r} : job'[k] = job[k]
            BY <1>0, <2>1 DEF Pick, NoJob
        <3> QED BY <3>1, <3>2 DEF SettlementInv, CompletedMeansReleased
    <2>2. CASE UNCHANGED <<activityVars, ledgerVars>> /\ job' = [job EXCEPT ![r] = NoJob]
        <3>1. job'[r].at = "idle" /\ \A k \in Reconcilers \ {r} : job'[k] = job[k]
            BY <1>0, <2>2 DEF NoJob
        <3> QED BY <2>2, <3>1 DEF activityVars, ledgerVars, SettlementInv, CompletedMeansReleased
    <2>3. ASSUME job[r].at # "idle", NEW s \in {"PENDING", "COMPLETED", "REQUIRES_REVIEW"},
                 NEW entry \in OutboxRow, UpdateOutbox(o, entry),
                 outbox[o].status = "PENDING", entry.status = s, ~entry.leased,
                 s = "COMPLETED" => job[r].at = "answered" /\
                     job[r].result \in {"RELEASED", "ALREADY_RELEASED", "EXPIRED"},
                 UNCHANGED activityVars, job' = [job EXCEPT ![r] = NoJob]
          PROVE  SettlementInv'
        <3>1. job'[r].at = "idle" /\ \A k \in Reconcilers \ {r} : job'[k] = job[k]
            BY <1>0, <2>3 DEF NoJob
        <3>2. s = "COMPLETED" => released[o] = "DONE" \/ clock = "expired"
            BY <2>3 DEF SettlementInv
        <3> QED BY <1>0, <1>9, <2>3, <3>1, <3>2 DEF activityVars
    <2>4. ASSUME At(r, "picked") \/ At(r, "answered"),
                 NEW s \in {"COMPLETED", "REQUIRES_REVIEW"}, outbox[o].status = "PENDING",
                 UpdateOutbox(o, [Unleased(o) EXCEPT !.status = s]),
                 s = "COMPLETED" => job[r].at = "answered" /\
                     job[r].result \in {"RELEASED", "ALREADY_RELEASED", "EXPIRED"},
                 UNCHANGED activityVars, job' = [job EXCEPT ![r] = NoJob]
          PROVE  SettlementInv'
        <3> DEFINE row == [Unleased(o) EXCEPT !.status = s]
        <3>1. job[r].at # "idle" /\ o \in Orders
            BY <1>0, <2>4 DEF At
        <3>2. row \in OutboxRow /\ row.status = s /\ ~row.leased
            BY <3>1, WrittenRows DEF Unleased, OutboxRow
        <3>3. UpdateOutbox(o, row)
            BY <2>4
        <3> HIDE DEF row
        <3> QED BY <2>3, <2>4, <3>1, <3>2, <3>3
    <2>5. CASE RecordOutcome(r) /\ RetryEntry(o, job[r].token)
        <3> DEFINE s == IF outbox[o].attempts >= MaxReleases THEN "REQUIRES_REVIEW" ELSE "PENDING"
                   row == [Unleased(o) EXCEPT !.status = s, !.backoff = TRUE]
        <3>1. job[r].at # "idle" /\ o \in Orders /\ outbox[o].status = "PENDING"
            BY <1>0, <2>5 DEF RecordOutcome, At, RetryEntry, Holds
        <3>2. row \in OutboxRow
            BY <3>1, WrittenRows
        <3>3. row.status = s /\ ~row.leased
            BY <3>1, WrittenRows DEF OutboxRow
        <3>4. UpdateOutbox(o, row) /\ UNCHANGED activityVars /\ job' = [job EXCEPT ![r] = NoJob]
            BY <2>5 DEF RecordOutcome, RetryEntry
        <3> HIDE DEF row
        <3> QED BY <2>3, <3>1, <3>2, <3>3, <3>4
    <2>6. CASE ClaimJob(r) /\ ClaimEntry(o)
        <3> DEFINE row == [outbox[o] EXCEPT !.attempts = @ + 1,
                                            !.token = outbox[o].attempts + 1,
                                            !.leased = TRUE]
        <3>1. job[r].at # "idle" /\ o \in Orders /\ outbox[o].status = "PENDING" /\ CanClaim(o)
            BY <1>0, <2>6 DEF ClaimJob, ClaimEntry, CanClaim, Due, At
        <3>2. row \in OutboxRow /\ row.status = "PENDING"
            <4>1. row \in OutboxRow
                BY <3>1, WrittenRows
            <4>2. row.status = outbox[o].status
                <5>1. outbox[o] \in OutboxRow
                    BY <1>0, <3>1
                <5> QED BY <5>1 DEF OutboxRow
            <4> QED BY <3>1, <4>1, <4>2
        <3>3. UpdateOutbox(o, row) /\ UNCHANGED activityVars
            BY <2>6 DEF ClaimJob, ClaimEntry
        <3>4. /\ job'[r].at \in {"idle", "claimed"}
              /\ job'[r].at = "claimed" => job'[r].order = o
              /\ \A k \in Reconcilers \ {r} : job'[k] = job[k]
            BY <1>0, <2>6 DEF ClaimJob, NoJob, JobState
        <3> HIDE DEF row
        <3> QED BY <1>9, <3>1, <3>2, <3>3, <3>4 DEF activityVars
    <2>7. CASE CallRelease(r) \/ CallReleaseFails(r)
        <3>1. /\ UNCHANGED <<status, outbox, clock>> /\ job[r].at # "idle" /\ o \in Orders
              /\ \A p \in Orders \ {o} : released'[p] = released[p]
              /\ released[o] = "DONE" => released'[o] = "DONE"
            BY <1>0, <1>11, <2>7, ReconcilerEffect DEF CallRelease, CallReleaseFails, ledgerVars, At
        <3>2. status[o] = "cancelled"
            BY <3>1 DEF SettlementInv
        <3>3. PICK outcome \in Results :
                /\ Answered(r, outcome)
                /\ \/ outcome = "ERROR"
                   \/ outcome = ReleaseResult(buyer[o], o) /\ Release(buyer[o], o)
            <4>1. ReleaseResult(buyer[o], o) \in Results /\ "ERROR" \in Results
                BY DEF ReleaseResult, Results
            <4>2. CASE CallRelease(r)
                <5>1. Answered(r, ReleaseResult(buyer[o], o)) /\ Release(buyer[o], o)
                    BY <4>2 DEF CallRelease
                <5> QED BY <4>1, <5>1
            <4>3. CASE CallReleaseFails(r)
                <5>1. Answered(r, "ERROR")
                    BY <4>3 DEF CallReleaseFails
                <5> QED BY <4>1, <5>1
            <4> QED BY <2>7, <4>2, <4>3
        <3>4. /\ job'[r].at = "answered" /\ job'[r].order = o /\ job'[r].result = outcome
              /\ \A k \in Reconcilers \ {r} : job'[k] = job[k]
            BY <1>0, <3>3 DEF JobState, Answered
        <3>5. outcome \in {"RELEASED", "ALREADY_RELEASED", "EXPIRED"} =>
                released'[o] = "DONE" \/ clock' = "expired"
            BY <1>0, <3>1, <3>3 DEF Release, ReleaseResult
        <3>6. CompletedMeansReleased'
            BY <3>1, <3>2 DEF SettlementInv, CompletedMeansReleased
        <3>7. \A k \in Reconcilers :
                /\ job'[k].at = "answered"
                /\ job'[k].result \in {"RELEASED", "ALREADY_RELEASED", "EXPIRED"}
                => released'[job'[k].order] = "DONE" \/ clock' = "expired"
            BY <1>0, <3>1, <3>4, <3>5 DEF SettlementInv
        <3> QED BY <3>1, <3>2, <3>4, <3>6, <3>7 DEF SettlementInv
    <2>8. CASE Exhaust(r) /\ ExhaustEntry(o)
        BY <2>4, <2>8 DEF Exhaust, ExhaustEntry, CanExhaust
    <2>9. CASE /\ RecordOutcome(r)
               /\ \/ /\ job[r].result \in {"RELEASED", "ALREADY_RELEASED", "EXPIRED"}
                     /\ CompleteEntry(o, job[r].token)
                  \/ ReviewEntry(o, job[r].token)
        BY <2>4, <2>9 DEF RecordOutcome, At, CompleteEntry, ReviewEntry, Holds
    <2> QED BY <1>11, <2>1, <2>2, <2>5, <2>6, <2>7, <2>8, <2>9
            DEF ReconcileStep, Exhaust, ClaimJob, RecordOutcome, Abandon
<1>12. CASE UNCHANGED lifecycleVars
    BY <1>1, <1>12 DEF lifecycleVars, ledgerVars, activityVars
<1> QED BY <1>2, <1>3, <1>4, <1>6, <1>7, <1>8, <1>10, <1>11, <1>12 DEF LifecycleNext
-----------------------------------------------------------------------------
(* Counting.  Each store counts its own sets of orders; every step moves   *)
(* at most one order from one set to another.                              *)

LEMMA AllFinite ==
    ASSUME TypeInv
    PROVE  \A S \in {Waiting, Active, Cancelled, Reserved, Marked("DONE"), Marked("PENDING"), events} :
              IsFiniteSet(S) /\ Cardinality(S) \in Nat
<1>1. \A S \in SUBSET Orders : IsFiniteSet(S) /\ Cardinality(S) \in Nat
    BY FS_Subset, FS_CardinalityType
<1>2. \A S \in SUBSET Users : IsFiniteSet(S) /\ Cardinality(S) \in Nat
    BY FS_Subset, FS_CardinalityType
<1>3. IsFiniteSet(events) /\ Cardinality(events) \in Nat
    BY FS_Product, FS_Subset, FS_CardinalityType DEF TypeInv, LifecycleTypeOK
<1>4. /\ {Waiting, Active, Cancelled, Marked("DONE"), Marked("PENDING")} \subseteq SUBSET Orders
      /\ Reserved \in SUBSET Users
    BY DEF Waiting, Active, Cancelled, Marked, Reserved
<1> QED BY <1>1, <1>2, <1>3, <1>4

LEMMA CountInit == LifecycleInit => CountInv
<1> SUFFICES ASSUME LifecycleInit PROVE CountInv
    OBVIOUS
<1>1. Waiting = {} /\ Active = {} /\ Cancelled = {} /\ events = {}
    BY DEF LifecycleInit, LedgerInit, Waiting, Active, Cancelled
<1>2. activity = "committed" /\ dbStock = InitialStock
    BY DEF LifecycleInit, LedgerInit, ActivityInit
<1> QED BY <1>1, <1>2, FS_EmptySet DEF CountInv, DatabaseStockConserved, RedisStockConserved

\* The sets MySQL and the stream are counted by, and those of Redis.
LEMMA CountsMoved ==
    ASSUME UNCHANGED <<buyer, status, events>>
    PROVE  UNCHANGED <<Waiting, Active, Cancelled>>
BY DEF Waiting, Active, Cancelled

LEMMA RedisCountsMoved ==
    ASSUME UNCHANGED <<request, released>>
    PROVE  UNCHANGED <<Reserved, Marked("DONE"), Marked("PENDING")>>
BY DEF Reserved, Marked

\* Publishing, failing to, and the passing of time.
LEMMA CountActivity ==
    ASSUME TypeInv, ActivityInv, CountInv, ActivityStep
    PROVE  CountInv'
<1>1. UNCHANGED <<dbStock, buyer, status, events, Waiting, Active, Cancelled>>
    BY CountsMoved DEF ActivityStep, ledgerVars
<1>2. CASE Publish
    <2>1. Reserved' = {} /\ Marked("DONE")' = {} /\ Marked("PENDING")' = {} /\ events' = {}
        BY <1>1, <1>2 DEF Publish, ActivityInv, Reserved, Marked, NoRequests, NoMarkers
    <2>2. stock' = InitialStock
        BY <1>2 DEF Publish
    <2>3. RedisStockConserved'
        BY <2>1, <2>2, FS_EmptySet DEF RedisStockConserved
    <2>4. Cardinality(Reserved') = Cardinality(events')
        BY <2>1
    <2> QED BY <1>1, <2>3, <2>4 DEF CountInv, DatabaseStockConserved
<1>3. CASE activity' # "live"
    BY <1>1, <1>3 DEF CountInv, DatabaseStockConserved, RedisStockConserved
<1>4. CASE UNCHANGED <<activity, stock, request, released>>
    BY <1>1, <1>4, RedisCountsMoved DEF CountInv, DatabaseStockConserved, RedisStockConserved
<1> QED BY <1>2, <1>3, <1>4 DEF ActivityStep, PublishFails, Tick, activityKeys

\* Marks are on cancelled orders, one each; an order without one is left over.
LEMMA MarkedAreCancelled ==
    ASSUME TypeInv, SettlementInv
    PROVE  /\ Cardinality(Marked("DONE")) + Cardinality(Marked("PENDING")) <= Cardinality(Cancelled)
           /\ \A o \in Cancelled : released[o] = "none" =>
                Cardinality(Marked("DONE")) + Cardinality(Marked("PENDING")) < Cardinality(Cancelled)
<1> DEFINE marked == Marked("DONE") \cup Marked("PENDING")
<1>1. Marked("DONE") \cap Marked("PENDING") = {}
    BY DEF Marked
<1>2. marked \subseteq Cancelled
    BY DEF SettlementInv, CompletedMeansReleased, Marked, Cancelled
<1>3. /\ IsFiniteSet(Marked("DONE")) /\ Cardinality(Marked("DONE")) \in Nat
      /\ IsFiniteSet(Marked("PENDING")) /\ Cardinality(Marked("PENDING")) \in Nat
      /\ IsFiniteSet(Cancelled) /\ Cardinality(Cancelled) \in Nat
    BY AllFinite
<1>4. Cardinality(marked) = Cardinality(Marked("DONE")) + Cardinality(Marked("PENDING"))
    <2>1. Cardinality(marked)
            = Cardinality(Marked("DONE")) + Cardinality(Marked("PENDING"))
              - Cardinality(Marked("DONE") \cap Marked("PENDING"))
        BY <1>3, FS_Union
    <2> QED BY <1>1, <1>3, <2>1, FS_EmptySet
<1>5. \A o \in Cancelled : released[o] = "none" => o \notin marked
    BY DEF Marked
<1> HIDE DEF marked
<1> QED BY <1>2, <1>3, <1>4, <1>5, FS_Subset

\* A unit that may be reserved is one no event holds: what was ever given back
\* belongs to cancelled orders, confirmed or not.
LEMMA CountAdmit ==
    ASSUME TypeInv, StoriesInv, CountInv, NEW u \in Users, NEW o \in Orders, AdmitNew(u, o)
    PROVE  CountInv'
<1>1. /\ UNCHANGED <<dbStock, buyer, status, activity, released>>
      /\ events' = events \cup {<<u, o>>} /\ <<u, o>> \notin events
      /\ activity = "live" /\ stock > 0 /\ stock' = stock - 1
      /\ request[u] = NoOrder /\ request' = [request EXCEPT ![u] = o]
    BY DEF AdmitNew, ledgerVars, Reserve, Accepts
<1>2. request \in [Users -> Orders \cup {NoOrder}] /\ stock \in Nat
    BY DEF TypeInv, LifecycleTypeOK
<1>3. UNCHANGED <<Active, Cancelled, Marked("DONE"), Marked("PENDING")>>
    BY <1>1 DEF Active, Cancelled, Marked
<1>4. Reserved' = Reserved \cup {u} /\ u \notin Reserved
    BY <1>1, <1>2 DEF Reserved
<1>5. Waiting' = Waiting \cup {o} /\ o \notin Waiting
    <2>1. \A v \in Users : <<v, o>> \notin events
        BY DEF AdmitNew
    <2>2. buyer[o] = NoUser
        <3>1. buyer[o] \in Users \cup {NoUser}
            BY DEF TypeInv, LifecycleTypeOK
        <3> QED BY <2>1, <3>1 DEF StoriesInv, IdentityInv
    <2> QED BY <1>1, <2>1, <2>2 DEF Waiting
<1>6. /\ Cardinality(events') = Cardinality(events) + 1
      /\ Cardinality(Waiting') = Cardinality(Waiting) + 1
      /\ Cardinality(Reserved') = Cardinality(Reserved) + 1
    BY <1>1, <1>4, <1>5, AllFinite, FS_AddElement
<1>7. Cardinality(Marked("DONE")) + Cardinality(Marked("PENDING")) <= Cardinality(Cancelled)
    BY MarkedAreCancelled DEF StoriesInv
<1>8. /\ Cardinality(Reserved) = Cardinality(events)
      /\ stock <= InitialStock - Cardinality(Reserved) + Cardinality(Marked("DONE"))
                    + Cardinality(Marked("PENDING"))
    BY <1>1, AllFinite DEF CountInv, RedisStockConserved
<1>9. RedisStockConserved'
    BY <1>1, <1>2, <1>3, <1>6, AllFinite DEF CountInv, RedisStockConserved
<1>10. Cardinality(events') <= InitialStock + Cardinality(Cancelled')
    BY <1>1, <1>2, <1>3, <1>6, <1>7, <1>8, AllFinite
<1> QED BY <1>1, <1>3, <1>6, <1>9, <1>10, AllFinite DEF CountInv, DatabaseStockConserved

\* An order moves from waiting to active to cancelled, with the unit of MySQL.
LEMMA CountLedger ==
    ASSUME TypeInv, StoriesInv, CountInv, NEW u \in Users, NEW o \in Orders,
           Persist(u, o) \/ CancelMine(u, o)
    PROVE  CountInv'
<1>1. UNCHANGED <<activity, stock, request, released, events>>
    BY DEF Persist, CancelMine, activityVars
<1>2. UNCHANGED <<Reserved, Marked("DONE"), Marked("PENDING")>>
    BY <1>1, RedisCountsMoved
<1>3. /\ buyer \in [Orders -> Users \cup {NoUser}]
      /\ status \in [Orders -> {"absent", "unpaid", "paid", "cancelled"}]
      /\ dbStock \in Nat
      /\ \A p \in Orders : buyer[p] = NoUser <=> status[p] = "absent"
    BY DEF TypeInv, LifecycleTypeOK, StoriesInv, IdentityInv
<1>4. RedisStockConserved'
    BY <1>1, <1>2 DEF CountInv, RedisStockConserved
<1>5. CASE Persist(u, o)
    <2>1. /\ Waiting' = Waiting \ {o} /\ o \in Waiting
          /\ Active' = Active \cup {o} /\ o \notin Active
          /\ Cancelled' = Cancelled
        BY <1>1, <1>3, <1>5 DEF Persist, InsertOrder, CanInsert, Waiting, Active, Cancelled
    <2>2. /\ Cardinality(Waiting') = Cardinality(Waiting) - 1
          /\ Cardinality(Active') = Cardinality(Active) + 1
        BY <2>1, AllFinite, FS_AddElement, FS_RemoveElement
    <2>3. dbStock' = dbStock - 1
        BY <1>5 DEF Persist, InsertOrder
    <2> QED BY <1>1, <1>2, <1>3, <1>4, <2>1, <2>2, <2>3, AllFinite
            DEF CountInv, DatabaseStockConserved
<1>6. CASE CancelMine(u, o)
    <2>1. /\ Waiting' = Waiting
          /\ Active' = Active \ {o} /\ o \in Active
          /\ Cancelled' = Cancelled \cup {o} /\ o \notin Cancelled
        BY <1>1, <1>3, <1>6 DEF CancelMine, CancelOrder, Waiting, Active, Cancelled
    <2>2. /\ Cardinality(Active') = Cardinality(Active) - 1
          /\ Cardinality(Cancelled') = Cardinality(Cancelled) + 1
        BY <2>1, AllFinite, FS_AddElement, FS_RemoveElement
    <2>3. dbStock' = dbStock + 1
        BY <1>6 DEF CancelMine, CancelOrder
    <2> QED BY <1>1, <1>2, <1>3, <1>4, <2>1, <2>2, <2>3, AllFinite
            DEF CountInv, DatabaseStockConserved
<1> QED BY <1>5, <1>6

LEMMA CountPay ==
    ASSUME TypeInv, CountInv, NEW o \in Orders, Pay(o)
    PROVE  CountInv'
<1>1. UNCHANGED <<dbStock, activity, stock, request, released, events>>
    BY DEF Pay, PayOrder, activityVars
<1>2. UNCHANGED <<Waiting, Active, Cancelled>>
    BY <1>1 DEF Pay, PayOrder, Waiting, Active, Cancelled, TypeInv, LifecycleTypeOK
<1> QED BY <1>1, <1>2, RedisCountsMoved DEF CountInv, DatabaseStockConserved,
                                            RedisStockConserved

\* A release gives back one unit and marks the order, a script that died marks
\* it and gives back one unit or none.
LEMMA CountRelease ==
    ASSUME TypeInv, CountInv, NEW r \in Reconcilers, ReconcileStep(r) \/ Abandon(r)
    PROVE  CountInv'
<1>1. UNCHANGED <<dbStock, buyer, status, events, activity, request,
                  Waiting, Active, Cancelled, Reserved>>
    BY ReconcilerEffect, CountsMoved DEF Reserved
<1>2. RedisStockConserved'
    <2>1. CASE UNCHANGED <<stock, released>>
        BY <1>1, <2>1, RedisCountsMoved DEF CountInv, RedisStockConserved
    <2>2. ASSUME NEW o \in Orders, released[o] = "none", activity = "live",
                 \/ stock' = stock + 1 /\ released' = [released EXCEPT ![o] = "DONE"]
                 \/ stock' \in {stock, stock + 1} /\ released' = [released EXCEPT ![o] = "PENDING"]
          PROVE  RedisStockConserved'
        <3>1. released \in [Orders -> {"none", "PENDING", "DONE"}] /\ stock \in Nat
            BY DEF TypeInv, LifecycleTypeOK
        <3>2. o \notin Marked("DONE") /\ o \notin Marked("PENDING")
            BY <2>2 DEF Marked
        <3>3. CASE stock' = stock + 1 /\ released' = [released EXCEPT ![o] = "DONE"]
            <4>1. Marked("DONE")' = Marked("DONE") \cup {o} /\ Marked("PENDING")' = Marked("PENDING")
                BY <2>2, <3>1, <3>3 DEF Marked
            <4>2. Cardinality(Marked("DONE")') = Cardinality(Marked("DONE")) + 1
                BY <3>2, <4>1, AllFinite, FS_AddElement
            <4> QED BY <1>1, <2>2, <3>1, <3>3, <4>1, <4>2, AllFinite
                    DEF CountInv, RedisStockConserved
        <3>4. CASE /\ stock' \in {stock, stock + 1}
                   /\ released' = [released EXCEPT ![o] = "PENDING"]
            <4>1. Marked("PENDING")' = Marked("PENDING") \cup {o} /\ Marked("DONE")' = Marked("DONE")
                BY <2>2, <3>1, <3>4 DEF Marked
            <4>2. Cardinality(Marked("PENDING")') = Cardinality(Marked("PENDING")) + 1
                BY <3>2, <4>1, AllFinite, FS_AddElement
            <4> QED BY <1>1, <2>2, <3>1, <3>4, <4>1, <4>2, AllFinite
                    DEF CountInv, RedisStockConserved
        <3> QED BY <2>2, <3>3, <3>4
    <2> QED BY <2>1, <2>2, ReconcilerEffect
<1> QED BY <1>1, <1>2 DEF CountInv, DatabaseStockConserved

LEMMA CountStep ==
    TypeInv /\ StoriesInv /\ CountInv /\ [LifecycleNext]_lifecycleVars => CountInv'
<1> SUFFICES ASSUME TypeInv, StoriesInv, CountInv, [LifecycleNext]_lifecycleVars
             PROVE  CountInv'
    OBVIOUS
<1>1. CASE UNCHANGED <<dbStock, buyer, status, events, activity, stock, request, released>>
    BY <1>1, CountsMoved, RedisCountsMoved DEF CountInv, DatabaseStockConserved,
       RedisStockConserved
<1>2. CASE ActivityStep
    BY <1>2, CountActivity DEF StoriesInv
<1>3. CASE \/ \E u \in Users : AdmitReplay(u)
           \/ \E o \in Orders : OutboxTime(o)
           \/ UNCHANGED lifecycleVars
    BY <1>1, <1>3 DEF AdmitReplay, OutboxTime, LeaseExpires, BackoffEnds, UpdateOutbox,
                      lifecycleVars, activityVars, ledgerVars
<1>4. ASSUME NEW u \in Users, NEW o \in Orders, AdmitNew(u, o) PROVE CountInv'
    BY <1>4, CountAdmit
<1>5. ASSUME NEW u \in Users, NEW o \in Orders, Persist(u, o) \/ CancelMine(u, o) PROVE CountInv'
    BY <1>5, CountLedger
<1>6. ASSUME NEW o \in Orders, Pay(o) PROVE CountInv'
    BY <1>6, CountPay
<1>7. ASSUME NEW r \in Reconcilers, ReconcileStep(r) \/ Abandon(r) PROVE CountInv'
    BY <1>7, CountRelease
<1> QED BY <1>2, <1>3, <1>4, <1>5, <1>6, <1>7 DEF LifecycleNext
-----------------------------------------------------------------------------
LifecycleInv == TypeInv /\ StoriesInv /\ CountInv

\* What every theorem below rests on: the stores tell one story and count it
\* the same way.
THEOREM LifecycleInvariant == LifecycleSpec => []LifecycleInv
<1>1. LifecycleInit => LifecycleInv
    BY TypeInit, StoriesInit, CountInit DEF LifecycleInv
<1>2. LifecycleInv /\ [LifecycleNext]_lifecycleVars => LifecycleInv'
    BY TypeStep, IdentityStep, ActivityInvStep, SettlementStep, CountStep
       DEF LifecycleInv, StoriesInv
<1> QED BY <1>1, <1>2, PTL DEF LifecycleSpec

\* A user has one order, so the events without a row are as many as the orders.
LEMMA UnpersistedAreWaiting ==
    ASSUME TypeInv, IdentityInv
    PROVE  Cardinality(Unpersisted) <= Cardinality(Waiting)
<1> DEFINE orderOf == [e \in Unpersisted |-> e[2]]
<1>1. \A e \in events : e[1] \in Users /\ e[2] \in Orders /\ e = <<e[1], e[2]>>
    BY DEF TypeInv, LifecycleTypeOK
<1>2. \A e, d \in events : e[2] = d[2] => e = d
    BY <1>1 DEF IdentityInv
<1>3. \A e \in Unpersisted : e[2] \in Waiting
    BY <1>1 DEF Unpersisted, Waiting
<1>4. orderOf \in Injection(Unpersisted, Waiting)
    BY <1>2, <1>3 DEF Injection, IsInjective, Unpersisted
<1> QED BY <1>4, AllFinite, FS_Injection

\* The stock rows of MySQL, for any number of users, orders and reconcilers: a
\* unit is taken once per order and given back once per cancellation, and one
\* is left for every order Redis accepted and MySQL has not seen yet.
THEOREM DatabaseStock == LifecycleSpec => []DatabaseStockIsSound
<1>1. LifecycleInv => DatabaseStockIsSound
    <2> SUFFICES ASSUME LifecycleInv PROVE DatabaseStockIsSound
        OBVIOUS
    <2>1. Cardinality(Unpersisted) <= Cardinality(Waiting)
        BY UnpersistedAreWaiting DEF LifecycleInv, StoriesInv
    <2>2. Cardinality(Unpersisted) \in Nat
        <3>1. IsFiniteSet(events) /\ Unpersisted \in SUBSET events
            BY AllFinite DEF LifecycleInv, Unpersisted
        <3> QED BY <3>1, FS_Subset, FS_CardinalityType
    <2>3. AcceptedFindsStock
        BY <2>1, <2>2, AllFinite
           DEF LifecycleInv, CountInv, TypeInv, LifecycleTypeOK, DatabaseStockConserved,
               AcceptedFindsStock
    <2> QED BY <2>3 DEF LifecycleInv, TypeInv, CountInv, DatabaseStockIsSound
<1> QED BY <1>1, LifecycleInvariant, PTL

\* The stock key of Redis never exceeds what was offered less what was taken,
\* but for confirmed releases and one unit per release that was cut short.
THEOREM RedisStock == LifecycleSpec => []RedisStockConserved
<1>1. LifecycleInv => RedisStockConserved
    BY DEF LifecycleInv, CountInv
<1> QED BY <1>1, LifecycleInvariant, PTL

\* One order ID per user in the answers, the stream and the order table,
\* however often they ask again and whichever answers are lost.
THEOREM OneIdentity == LifecycleSpec => []OneIdentityPerUser
<1>1. LifecycleInv => OneIdentityPerUser
    <2> SUFFICES ASSUME LifecycleInv, NEW u \in Users
                 PROVE  LET ids == {o \in Orders : <<u, o>> \in events}
                        IN  /\ Cardinality(ids) <= 1
                            /\ told[u] \subseteq ids
                            /\ OrdersOf(u) \subseteq ids
        BY DEF OneIdentityPerUser
    <2> DEFINE ids == {o \in Orders : <<u, o>> \in events}
    <2>1. told[u] \subseteq Orders
        BY DEF LifecycleInv, TypeInv, LifecycleTypeOK
    <2>2. told[u] \subseteq ids /\ OrdersOf(u) \subseteq ids
        BY <2>1 DEF LifecycleInv, StoriesInv, IdentityInv, OrdersOf
    <2>3. \A o, p \in ids : o = p
        BY DEF LifecycleInv, StoriesInv, IdentityInv
    <2>4. ids = {} \/ \E o : ids = {o}
        BY <2>3
    <2>5. Cardinality(ids) <= 1
        <3> HIDE DEF ids
        <3>1. CASE ids = {}
            BY <3>1, FS_EmptySet
        <3>2. ASSUME NEW o, ids = {o} PROVE Cardinality(ids) <= 1
            <4>1. Cardinality({o}) = 1
                BY FS_Singleton
            <4> QED BY <3>2, <4>1
        <3> QED BY <2>4, <3>1, <3>2
    <2> QED BY <2>2, <2>5
<1> QED BY <1>1, LifecycleInvariant, PTL

\* The outbox never reports a release that Redis does not confirm, and nothing
\* is released for an order that still holds its unit.
THEOREM CompletionIsHonest == LifecycleSpec => []CompletedMeansReleased
<1>1. LifecycleInv => CompletedMeansReleased
    BY DEF LifecycleInv, StoriesInv, SettlementInv
<1> QED BY <1>1, LifecycleInvariant, PTL

\* No late answer, expired lease or repeated command rewrites a settled order
\* or a settled outbox entry.
THEOREM SettledForGood == LifecycleSpec => SettledOrdersStay
<1> DEFINE Stays == \A o \in Orders :
                /\ status[o] \in {"paid", "cancelled"} => status'[o] = status[o]
                /\ outbox[o].status \in {"COMPLETED", "REQUIRES_REVIEW"} =>
                      outbox'[o] = outbox[o]
<1>1. LifecycleInv /\ [LifecycleNext]_lifecycleVars => [Stays]_lifecycleVars
    <2> SUFFICES ASSUME LifecycleInv, LifecycleNext PROVE Stays
        OBVIOUS
    <2>0. /\ status \in [Orders -> {"absent", "unpaid", "paid", "cancelled"}]
          /\ outbox \in [Orders -> OutboxRow]
          /\ IdentityInv /\ SettlementInv
        BY RowsAndJobs DEF LifecycleInv, TypeInv, LifecycleTypeOK, StoriesInv
    <2>1. ASSUME NEW o \in Orders, outbox[o].status = "PENDING", NEW entry,
                 UpdateOutbox(o, entry)
          PROVE  Stays
        BY <2>0, <2>1 DEF UpdateOutbox
    <2>2. CASE UNCHANGED <<status, outbox>>
        BY <2>2
    <2>3. ASSUME NEW u \in Users, NEW o \in Orders, Persist(u, o) PROVE Stays
        BY <2>0, <2>3 DEF Persist, InsertOrder, CanInsert, IdentityInv
    <2>4. ASSUME NEW u \in Users, NEW o \in Orders, CancelMine(u, o) PROVE Stays
        BY <2>0, <2>4 DEF CancelMine, CancelOrder
    <2>5. ASSUME NEW o \in Orders, Pay(o) PROVE Stays
        BY <2>0, <2>5 DEF Pay, PayOrder
    <2>6. ASSUME NEW o \in Orders, OutboxTime(o) PROVE Stays
        BY <2>0, <2>1, <2>6 DEF OutboxTime, LeaseExpires, BackoffEnds, SettlementInv
    <2>7. ASSUME NEW r \in Reconcilers, ReconcileStep(r) \/ Abandon(r) PROVE Stays
        <3> DEFINE o == job[r].order
        <3>1. job[r].at # "idle" => o \in Orders
            BY DEF LifecycleInv, TypeInv, BusyInv
        <3>2. CASE Exhaust(r) \/ ClaimJob(r) \/ RecordOutcome(r)
            <4>1. o \in Orders
                BY <3>1, <3>2 DEF Exhaust, ClaimJob, RecordOutcome, At
            <4> QED BY <2>1, <2>2, <3>2, <4>1
                    DEF Exhaust, ClaimJob, RecordOutcome, ExhaustEntry, CanExhaust, ClaimEntry,
                        CanClaim, Due, CompleteEntry, ReviewEntry, RetryEntry, Holds, ledgerVars
        <3>3. CASE UNCHANGED ledgerVars
            BY <2>2, <3>3 DEF ledgerVars
        <3> QED BY <2>7, <3>2, <3>3 DEF ReconcileStep, Pick, CallRelease, CallReleaseFails, Abandon
    <2>8. CASE ActivityStep \/ \E u \in Users : AdmitReplay(u) \/ \E o \in Orders : AdmitNew(u, o)
        BY <2>2, <2>8 DEF ActivityStep, AdmitReplay, AdmitNew, ledgerVars
    <2> QED BY <2>3, <2>4, <2>5, <2>6, <2>7, <2>8 DEF LifecycleNext
<1> QED BY <1>1, LifecycleInvariant, PTL DEF LifecycleSpec, SettledOrdersStay
-----------------------------------------------------------------------------
(* The promise.  A buyer sees an order as accepted from the event on, as   *)
(* its row says once there is one.                                         *)

HolderOf(o) ==
    IF \E u \in Users : <<u, o>> \in events
    THEN CHOOSE u \in Users : <<u, o>> \in events ELSE NoUser

StateOf(o) ==
    IF \E u \in Users : <<u, o>> \in events
    THEN IF buyer[o] = NoUser THEN "accepted" ELSE status[o] ELSE "none"

Kept == [o \in Orders |-> HolderOf(o)]
Seen == [o \in Orders |-> StateOf(o)]

\* The one user an order was accepted for.
LEMMA OneHolder ==
    ASSUME NEW E, NEW o, NEW u \in Users, <<u, o>> \in E,
           \A v \in Users : <<v, o>> \in E => v = u
    PROVE  u = IF \E v \in Users : <<v, o>> \in E
               THEN CHOOSE v \in Users : <<v, o>> \in E ELSE NoUser
OBVIOUS

LEMMA PromiseInits == LifecycleInit => Promise!PromiseInit
BY DEF LifecycleInit, ActivityInit, Promise!PromiseInit

\* Who has nothing to do with the stock and the orders does nothing here.
LEMMA PromiseStutters ==
    ASSUME UNCHANGED <<stock, buyer, status, events>>
    PROVE  UNCHANGED Promise!promiseVars
BY DEF Promise!promiseVars

LEMMA PromiseOpens ==
    ASSUME TypeInv, ActivityInv, ActivityStep
    PROVE  [Promise!PromiseNext]_(Promise!promiseVars)
<1>1. UNCHANGED <<buyer, status, events>>
    BY DEF ActivityStep, ledgerVars
<1>2. CASE Publish
    <2>1. stock = 0 /\ events = {} /\ stock' = InitialStock
        BY <1>2 DEF Publish, ActivityInv
    <2> QED BY <1>1, <2>1 DEF Promise!PromiseNext, Promise!Open
<1>3. CASE stock' = 0
    BY <1>1, <1>3 DEF Promise!PromiseNext, Promise!Close
<1>4. CASE UNCHANGED stock
    BY <1>1, <1>4, PromiseStutters
<1> QED BY <1>2, <1>3, <1>4 DEF ActivityStep, PublishFails, Tick, activityKeys

\* The promise counts as the stores do.
LEMMA PromiseCounts == \A S : Promise!Cardinality(S) = Cardinality(S)
BY DEF Promise!Cardinality, Cardinality

\* The script accepts: nobody held the order, and the user held none.
LEMMA PromiseAccepts ==
    ASSUME TypeInv, StoriesInv, NEW u \in Users, NEW o \in Orders, AdmitNew(u, o)
    PROVE  Promise!Accept(u, o)
<1>1. /\ UNCHANGED <<buyer, status>>
      /\ events' = events \cup {<<u, o>>}
      /\ \A v \in Users : <<v, o>> \notin events
      /\ activity = "live" /\ stock > 0 /\ stock' = stock - 1 /\ request[u] = NoOrder
    BY DEF AdmitNew, ledgerVars, Reserve, Accepts
<1>2. /\ \A p \in Orders : <<u, p>> \notin events
      /\ \A v, w \in Users, p \in Orders : <<v, p>> \in events /\ <<w, p>> \in events => v = w
      /\ buyer[o] \in Users \cup {NoUser}
      /\ buyer[o] # NoUser => <<buyer[o], o>> \in events
    BY <1>1 DEF StoriesInv, ActivityInv, IdentityInv, TypeInv, LifecycleTypeOK
<1>3. \A p \in Orders : HolderOf(p) # u
    BY <1>2 DEF HolderOf
<1>4. \A p \in Orders : HolderOf(p)' = IF p = o THEN u ELSE HolderOf(p)
    <2> SUFFICES ASSUME NEW p \in Orders
                 PROVE  HolderOf(p)' = IF p = o THEN u ELSE HolderOf(p)
        OBVIOUS
    <2>1. CASE p = o
        BY <1>1, <2>1, OneHolder DEF HolderOf
    <2>2. ASSUME p # o, NEW v \in Users, <<v, p>> \in events PROVE HolderOf(p)' = HolderOf(p)
        <3>1. HolderOf(p) = v
            BY <1>2, <2>2, OneHolder DEF HolderOf
        <3>2. HolderOf(p)' = v
            BY <1>1, <1>2, <2>2, OneHolder DEF HolderOf
        <3> QED BY <3>1, <3>2
    <2>3. CASE p # o /\ \A v \in Users : <<v, p>> \notin events
        BY <1>1, <2>3 DEF HolderOf
    <2> QED BY <2>1, <2>2, <2>3
<1>5. \A p \in Orders : StateOf(p)' = IF p = o THEN "accepted" ELSE StateOf(p)
    BY <1>1, <1>2 DEF StateOf
<1>6. StateOf(o) = "none"
    BY <1>1 DEF StateOf
<1>7. Kept' = [Kept EXCEPT ![o] = u] /\ Seen' = [Seen EXCEPT ![o] = "accepted"]
    BY <1>4, <1>5 DEF Kept, Seen
<1> QED BY <1>1, <1>3, <1>6, <1>7 DEF Promise!Accept, Kept, Seen, HolderOf, StateOf

\* MySQL decides what becomes of an accepted order.
LEMMA PromiseBecomes ==
    ASSUME TypeInv, IdentityInv, NEW o \in Orders,
           (\E u \in Users : Persist(u, o) \/ CancelMine(u, o)) \/ Pay(o)
    PROVE  \/ Promise!Become(o, "accepted", "unpaid")
           \/ Promise!Become(o, "unpaid", "paid")
           \/ Promise!Become(o, "unpaid", "cancelled")
<1>0. /\ buyer \in [Orders -> Users \cup {NoUser}]
      /\ status \in [Orders -> {"absent", "unpaid", "paid", "cancelled"}]
    BY DEF TypeInv, LifecycleTypeOK
<1>1. UNCHANGED <<stock, events>>
    BY DEF Persist, CancelMine, Pay, activityVars
<1>2. ASSUME NEW before, NEW now, StateOf(o) = before,
             \A p \in Orders : StateOf(p)' = IF p = o THEN now ELSE StateOf(p)
      PROVE  Promise!Become(o, before, now)
    <2>1. Seen' = [Seen EXCEPT ![o] = now]
        BY <1>2 DEF Seen
    <2> QED BY <1>1, <1>2, <2>1 DEF Promise!Become, Seen, StateOf
<1>3. ASSUME NEW u \in Users, Persist(u, o) PROVE Promise!Become(o, "accepted", "unpaid")
    <2>1. StateOf(o) = "accepted"
        BY <1>3 DEF Persist, InsertOrder, CanInsert, StateOf
    <2>2. \A p \in Orders : StateOf(p)' = IF p = o THEN "unpaid" ELSE StateOf(p)
        BY <1>0, <1>1, <1>3 DEF Persist, InsertOrder, StateOf
    <2> QED BY <1>2, <2>1, <2>2
<1>4. ASSUME NEW u \in Users, CancelMine(u, o) PROVE Promise!Become(o, "unpaid", "cancelled")
    <2>1. StateOf(o) = "unpaid"
        BY <1>0, <1>4 DEF CancelMine, CancelOrder, StateOf, IdentityInv
    <2>2. \A p \in Orders : StateOf(p)' = IF p = o THEN "cancelled" ELSE StateOf(p)
        BY <1>0, <1>1, <1>4 DEF CancelMine, CancelOrder, StateOf, IdentityInv
    <2> QED BY <1>2, <2>1, <2>2
<1>5. ASSUME Pay(o) PROVE Promise!Become(o, "unpaid", "paid")
    <2>1. StateOf(o) = "unpaid"
        BY <1>0, <1>5 DEF Pay, PayOrder, StateOf, IdentityInv
    <2>2. \A p \in Orders : StateOf(p)' = IF p = o THEN "paid" ELSE StateOf(p)
        BY <1>0, <1>1, <1>5 DEF Pay, PayOrder, StateOf, IdentityInv
    <2> QED BY <1>2, <2>1, <2>2
<1> QED BY <1>3, <1>4, <1>5

\* The orders that hold a unit are those not cancelled, so what was marked as
\* given back has room for the unit of one more cancelled order.
LEMMA RoomToOffer ==
    ASSUME LifecycleInv, activity = "live", NEW o \in Orders, status[o] = "cancelled",
           released[o] = "none"
    PROVE  stock + Cardinality(Promise!Holding) < InitialStock
<1>1. TypeInv /\ IdentityInv /\ SettlementInv /\ CountInv
    BY DEF LifecycleInv, StoriesInv
<1>2. Promise!Holding = Waiting \cup Active
    <2>1. \A p \in Orders :
            StateOf(p) \in {"accepted", "unpaid", "paid"} <=> p \in Waiting \/ p \in Active
        <3> SUFFICES ASSUME NEW p \in Orders
                     PROVE  StateOf(p) \in {"accepted", "unpaid", "paid"}
                              <=> p \in Waiting \/ p \in Active
            OBVIOUS
        <3>1. /\ buyer[p] \in Users \cup {NoUser}
              /\ status[p] \in {"absent", "unpaid", "paid", "cancelled"}
              /\ buyer[p] = NoUser <=> status[p] = "absent"
              /\ buyer[p] # NoUser => <<buyer[p], p>> \in events
            BY <1>1 DEF TypeInv, LifecycleTypeOK, IdentityInv
        <3> QED BY <3>1 DEF StateOf, Waiting, Active
    <2>2. Promise!Holding = {p \in Orders : StateOf(p) \in {"accepted", "unpaid", "paid"}}
        BY DEF Promise!Holding, StateOf
    <2> QED BY <2>1, <2>2 DEF Waiting, Active
<1>3. Waiting \cap Active = {}
    BY <1>1 DEF Waiting, Active, IdentityInv
<1>4. Cardinality(Promise!Holding) = Cardinality(Waiting) + Cardinality(Active)
    <2>1. IsFiniteSet(Waiting) /\ IsFiniteSet(Active)
          /\ Cardinality(Waiting) \in Nat /\ Cardinality(Active) \in Nat
        BY <1>1, AllFinite
    <2>2. Cardinality(Waiting \cup Active)
            = Cardinality(Waiting) + Cardinality(Active) - Cardinality(Waiting \cap Active)
        BY <2>1, FS_Union
    <2>3. Cardinality(Waiting \cap Active) = 0
        BY <1>3, FS_EmptySet
    <2> QED BY <1>2, <2>1, <2>2, <2>3
<1>5. Cardinality(Marked("DONE")) + Cardinality(Marked("PENDING")) < Cardinality(Cancelled)
    BY <1>1, MarkedAreCancelled DEF Cancelled
<1>6. /\ Cardinality(Reserved) = Cardinality(events)
      /\ stock <= InitialStock - Cardinality(Reserved) + Cardinality(Marked("DONE"))
                    + Cardinality(Marked("PENDING"))
      /\ stock \in Nat
    BY <1>1, AllFinite DEF CountInv, RedisStockConserved, TypeInv, LifecycleTypeOK
<1> QED BY <1>1, <1>4, <1>5, <1>6, AllFinite DEF CountInv

LEMMA PromiseOffers ==
    ASSUME LifecycleInv, NEW r \in Reconcilers, ReconcileStep(r) \/ Abandon(r)
    PROVE  [Promise!PromiseNext]_(Promise!promiseVars)
<1>1. UNCHANGED <<buyer, status, events, activity>>
    BY ReconcilerEffect DEF LifecycleInv
<1>2. CASE UNCHANGED stock
    BY <1>1, <1>2, PromiseStutters
<1>3. CASE stock' = stock + 1
    <2> DEFINE o == job[r].order
    <2>1. stock \in Nat
        BY DEF LifecycleInv, TypeInv, LifecycleTypeOK
    <2>2. o \in Orders /\ activity = "live" /\ released[o] = "none" /\ job[r].at = "claimed"
        BY <1>3, <2>1, ReconcilerEffect DEF LifecycleInv
    <2>3. status[o] = "cancelled"
        BY <2>2 DEF LifecycleInv, StoriesInv, SettlementInv
    <2>4. stock + Cardinality(Promise!Holding) < InitialStock
        BY <2>2, <2>3, RoomToOffer
    <2>5. Promise!OfferAgain
        BY <1>1, <1>3, <2>4, PromiseCounts DEF Promise!OfferAgain
    <2> QED BY <2>5 DEF Promise!PromiseNext
<1> QED BY <1>2, <1>3, ReconcilerEffect DEF LifecycleInv

\* The two stores, the scripts and the reconcilers together keep the flash
\* sale's promise: one order per user, at most InitialStock orders holding a
\* unit, and no unit offered again while an order holds it.
THEOREM KeepsPromise == LifecycleSpec => ImplementsPromise
<1>1. LifecycleInit => Promise!PromiseInit
    BY PromiseInits
<1>2. LifecycleInv /\ [LifecycleNext]_lifecycleVars
        => [Promise!PromiseNext]_(Promise!promiseVars)
    <2> SUFFICES ASSUME LifecycleInv, [LifecycleNext]_lifecycleVars
                 PROVE  [Promise!PromiseNext]_(Promise!promiseVars)
        OBVIOUS
    <2> USE DEF LifecycleInv
    <2>1. CASE ActivityStep
        BY <2>1, PromiseOpens DEF StoriesInv
    <2>2. ASSUME NEW u \in Users, NEW o \in Orders, AdmitNew(u, o)
          PROVE  Promise!PromiseNext
        BY <2>2, PromiseAccepts DEF Promise!PromiseNext
    <2>3. ASSUME NEW o \in Orders, (\E u \in Users : Persist(u, o) \/ CancelMine(u, o)) \/ Pay(o)
          PROVE  Promise!PromiseNext
        BY <2>3, PromiseBecomes DEF Promise!PromiseNext, StoriesInv
    <2>4. ASSUME NEW r \in Reconcilers, ReconcileStep(r) \/ Abandon(r)
          PROVE  [Promise!PromiseNext]_(Promise!promiseVars)
        BY <2>4, PromiseOffers
    <2>5. CASE \/ \E u \in Users : AdmitReplay(u)
               \/ \E o \in Orders : OutboxTime(o)
               \/ UNCHANGED lifecycleVars
        BY <2>5, PromiseStutters
           DEF AdmitReplay, OutboxTime, LeaseExpires, BackoffEnds, UpdateOutbox, lifecycleVars,
               activityVars, ledgerVars
    <2> QED BY <2>1, <2>2, <2>3, <2>4, <2>5 DEF LifecycleNext
<1> QED BY <1>1, <1>2, LifecycleInvariant, PTL
        DEF LifecycleSpec, ImplementsPromise, Promise!PromiseSpec
=============================================================================
