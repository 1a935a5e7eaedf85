---------------------------- MODULE OrderLifecycle ----------------------------
(***************************************************************************)
(* The life of flash-sale orders across the two stores: reserved in Redis, *)
(* persisted in MySQL, cancelled there in one transaction, and given back  *)
(* to Redis by reconcilers that lease outbox entries.                      *)
(*                                                                         *)
(* What lies between the reservation and the row is left abstract here: an *)
(* accepted event is persisted at some moment, or never.  FlashSale puts   *)
(* the stream, its consumers and the user lock there and implements this   *)
(* specification.                                                          *)
(***************************************************************************)
EXTENDS FlashSaleActivity, OrderLedger

CONSTANT Reconcilers    \* OrderCancellationReconciler, one per process

VARIABLES
    events,     \* <<user, order>> of every event seckill.lua appended
    told,       \* history: the order IDs each user was answered
    job         \* what each reconciler is doing

lifecycleVars == <<activityVars, ledgerVars, events, told, job>>

NoJob == [at |-> "idle", order |-> NoOrder, spent |-> FALSE, token |-> 0, result |-> "none"]

LifecycleInit ==
    /\ ActivityInit
    /\ LedgerInit
    /\ events = {}
    /\ told = [u \in Users |-> {}]
    /\ job = [r \in Reconcilers |-> NoJob]

ActivityStep ==
    /\ Publish \/ PublishFails \/ Tick
    /\ UNCHANGED <<ledgerVars, events, told, job>>
-----------------------------------------------------------------------------
(* FlashSaleAdmissionService.admit.  The answer may get lost on its way, a *)
(* user asks again with a new candidate ID.                                *)

Answer(u, o) == told' \in {told, [told EXCEPT ![u] = @ \cup {o}]}

AdmitNew(u, o) ==
    /\ \A v \in Users : <<v, o>> \notin events
    /\ Reserve(u, o)
    /\ events' = events \cup {<<u, o>>}
    /\ Answer(u, o)
    /\ UNCHANGED <<ledgerVars, job>>

AdmitReplay(u) ==
    /\ Replays(u)
    /\ told' = [told EXCEPT ![u] = @ \cup {request[u]}]
    /\ UNCHANGED <<activityVars, ledgerVars, events, job>>

Persist(u, o) ==
    /\ <<u, o>> \in events
    /\ InsertOrder(u, o)
    /\ UNCHANGED <<activityVars, events, told, job>>

CancelMine(u, o) ==
    /\ CancelOrder(u, o)
    /\ UNCHANGED <<activityVars, events, told, job>>

Pay(o) ==
    /\ PayOrder(o)
    /\ UNCHANGED <<activityVars, events, told, job>>
-----------------------------------------------------------------------------
(* OrderCancellationReconciler.reconcile, for one entry of due().          *)

At(r, where) == job[r].at = where

\* due() returns the entry; reconcile works on this copy of it.
Pick(r, o) ==
    /\ At(r, "idle") /\ Due(o)
    /\ job' = [job EXCEPT ![r] = [NoJob EXCEPT !.at = "picked", !.order = o,
                                    !.spent = outbox[o].attempts >= MaxReleases]]
    /\ UNCHANGED <<activityVars, ledgerVars, events, told>>

Exhaust(r) ==
    /\ At(r, "picked") /\ job[r].spent
    /\ \/ ExhaustEntry(job[r].order)
       \/ ~CanExhaust(job[r].order) /\ UNCHANGED ledgerVars
    /\ job' = [job EXCEPT ![r] = NoJob]
    /\ UNCHANGED <<activityVars, events, told>>

ClaimJob(r) ==
    /\ At(r, "picked") /\ ~job[r].spent
    /\ \/ /\ ClaimEntry(job[r].order)
          /\ job' = [job EXCEPT ![r].at = "claimed",
                                ![r].token = outbox'[job[r].order].token]
       \/ /\ ~CanClaim(job[r].order)
          /\ job' = [job EXCEPT ![r] = NoJob]
          /\ UNCHANGED ledgerVars
    /\ UNCHANGED <<activityVars, events, told>>

Answered(r, outcome) ==
    job' = [job EXCEPT ![r].at = "answered", ![r].result = outcome]

CallRelease(r) ==
    LET o == job[r].order
    IN  /\ At(r, "claimed")
        /\ Release(buyer[o], o)
        /\ Answered(r, ReleaseResult(buyer[o], o))
        /\ UNCHANGED <<ledgerVars, events, told>>

\* The call raises: the script did not run, ran, or stopped in the middle.
CallReleaseFails(r) ==
    LET o == job[r].order
    IN  /\ At(r, "claimed")
        /\ \/ UNCHANGED activityVars
           \/ Release(buyer[o], o)
           \/ ReleaseDies(buyer[o], o)
        /\ Answered(r, "ERROR")
        /\ UNCHANGED <<ledgerVars, events, told>>

\* The outcome is recorded if the token still matches, else nothing is.
RecordOutcome(r) ==
    LET o == job[r].order
        t == job[r].token
        outcome == job[r].result
    IN  /\ At(r, "answered")
        /\ \/ /\ outcome \in {"RELEASED", "ALREADY_RELEASED", "EXPIRED"}
              /\ CompleteEntry(o, t)
           \/ outcome \in {"INVALID", "UNMATCHED"} /\ ReviewEntry(o, t)
           \/ outcome = "ERROR" /\ RetryEntry(o, t)
           \/ ~Holds(o, t) /\ UNCHANGED ledgerVars
        /\ job' = [job EXCEPT ![r] = NoJob]
        /\ UNCHANGED <<activityVars, events, told>>

\* The process dies, or its UPDATE raises: only the lease is left behind.
Abandon(r) ==
    /\ job[r].at \in {"claimed", "answered"}
    /\ job' = [job EXCEPT ![r] = NoJob]
    /\ UNCHANGED <<activityVars, ledgerVars, events, told>>

OutboxTime(o) ==
    /\ LeaseExpires(o) \/ BackoffEnds(o)
    /\ UNCHANGED <<activityVars, events, told, job>>
-----------------------------------------------------------------------------
ReconcileStep(r) ==
    \/ \E o \in Orders : Pick(r, o)
    \/ Exhaust(r) \/ ClaimJob(r)
    \/ CallRelease(r) \/ CallReleaseFails(r)
    \/ RecordOutcome(r)

LifecycleNext ==
    \/ ActivityStep
    \/ \E u \in Users : AdmitReplay(u)
    \/ \E u \in Users, o \in Orders : AdmitNew(u, o) \/ Persist(u, o) \/ CancelMine(u, o)
    \/ \E o \in Orders : Pay(o) \/ OutboxTime(o)
    \/ \E r \in Reconcilers : ReconcileStep(r) \/ Abandon(r)

LifecycleSpec == LifecycleInit /\ [][LifecycleNext]_lifecycleVars

\* The scheduled method runs every five seconds and time passes.
LifecycleFairness ==
    /\ \A r \in Reconcilers : WF_lifecycleVars(ReconcileStep(r))
    /\ \A o \in Orders : WF_lifecycleVars(OutboxTime(o))

FairLifecycleSpec == LifecycleSpec /\ LifecycleFairness
-----------------------------------------------------------------------------
LifecycleTypeOK ==
    /\ clock \in {"early", "open", "ended", "expired"}
    /\ activity \in {"committed", "live", "failed", "gone"}
    /\ stock \in 0..StockLimit
    /\ participants \subseteq Users
    /\ request \in [Users -> Orders \cup {NoOrder}]
    /\ released \in [Orders -> {"none", "PENDING", "DONE"}]
    /\ dbStock \in 0..StockLimit
    /\ buyer \in [Orders -> Users \cup {NoUser}]
    /\ status \in [Orders -> {"absent", "unpaid", "paid", "cancelled"}]
    /\ outbox \in [Orders -> [status : {"NONE", "PENDING", "COMPLETED", "REQUIRES_REVIEW"},
                              attempts : 0..MaxReleases, token : 0..MaxReleases,
                              leased : BOOLEAN, backoff : BOOLEAN]]
    /\ events \subseteq Users \X Orders
    /\ told \in [Users -> SUBSET Orders]
    /\ job \in [Reconcilers ->
                  [at : {"idle", "picked", "claimed", "answered"},
                   order : Orders \cup {NoOrder}, spent : BOOLEAN, token : 0..MaxReleases,
                   result : {"none", "RELEASED", "ALREADY_RELEASED", "EXPIRED",
                             "INVALID", "UNMATCHED", "ERROR"}]]

Active == {o \in Orders : status[o] \in {"unpaid", "paid"}}
Marked(marker) == {o \in Orders : released[o] = marker}
Reserved == {u \in Users : request[u] # NoOrder}

\* MySQL never oversells: its stock and the orders that hold a unit add up to
\* the initial stock after every transaction, so a unit is taken once per
\* order and given back once per cancellation.
DatabaseStockConserved == dbStock + Cardinality(Active) = InitialStock

\* Redis never oversells: while the activity lives, its stock is the initial
\* stock less the reservations plus the confirmed releases, and an unconfirmed
\* release (PENDING marker) accounts for at most one unit more.
RedisStockConserved ==
    activity = "live" =>
        LET known == InitialStock - Cardinality(Reserved) + Cardinality(Marked("DONE"))
        IN  stock \in known..(known + Cardinality(Marked("PENDING")))

\* An accepted order is never turned away for want of database stock: MySQL
\* holds a unit for every event not persisted yet, although the two stocks are
\* taken from and given back to in different orders.
Unpersisted == {e \in events : buyer[e[2]] = NoUser}

AcceptedFindsStock == Cardinality(Unpersisted) <= dbStock

\* MySQL sells every unit once and keeps one for everybody Redis has promised it.
DatabaseStockIsSound == LifecycleTypeOK /\ DatabaseStockConserved /\ AcceptedFindsStock

\* However often a user asks again, and whatever answers are lost, there is one
\* order ID: the one answered is the one appended and the one persisted.
OneIdentityPerUser ==
    \A u \in Users :
        LET ids == {o \in Orders : <<u, o>> \in events}
        IN  /\ Cardinality(ids) <= 1
            /\ told[u] \subseteq ids
            /\ OrdersOf(u) \subseteq ids

\* The outbox says COMPLETED only of a release that is confirmed in Redis, or
\* after the activity expired with nothing left to give back to; and a unit is
\* given back only for an order MySQL cancelled.
CompletedMeansReleased ==
    \A o \in Orders :
        /\ outbox[o].status = "COMPLETED" => released[o] = "DONE" \/ clock = "expired"
        /\ released[o] # "none" => status[o] = "cancelled"

\* A cancelled or paid order stays what it is, and a late or superseded
\* reconciler never reopens or rewrites a settled outbox entry.
SettledOrdersStay ==
    [][\A o \in Orders :
          /\ status[o] \in {"paid", "cancelled"} => status'[o] = status[o]
          /\ outbox[o].status \in {"COMPLETED", "REQUIRES_REVIEW"} =>
                outbox'[o] = outbox[o]]_lifecycleVars

\* The stores, scripts and reconcilers together keep the flash sale's promise.
Promise == INSTANCE FlashSalePromise WITH
    offered <- stock,
    holder <- [o \in Orders |->
                IF \E u \in Users : <<u, o>> \in events
                THEN CHOOSE u \in Users : <<u, o>> \in events ELSE NoUser],
    order <- [o \in Orders |->
                IF \E u \in Users : <<u, o>> \in events
                THEN IF buyer[o] = NoUser THEN "accepted" ELSE status[o] ELSE "none"]

ImplementsPromise == Promise!PromiseSpec

\* Every cancellation is finally completed or handed to a human, even if every
\* reconciler call fails and reconcilers die holding the lease.
CancellationSettles ==
    \A o \in Orders : outbox[o].status = "PENDING" ~> outbox[o].status # "PENDING"
=============================================================================
