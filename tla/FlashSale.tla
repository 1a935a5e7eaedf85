------------------------------- MODULE FlashSale -------------------------------
(***************************************************************************)
(* The whole flash sale: OrderLifecycle's stores and reconcilers, with     *)
(* OrderStream and VoucherOrderServiceImpl's handler between the           *)
(* reservation and the order row.  An accepted event is an entry of the    *)
(* stream; the handler holds a Redisson lock of the user around a          *)
(* transaction that reads first and writes later.                          *)
(***************************************************************************)
EXTENDS OrderStream, FlashSaleVoucher

CONSTANTS MaxReleases, Reconcilers

ASSUME FlashSaleAssumption ==
    /\ Payloads = Users \X Orders
    /\ MaxReleases \in Nat \ {0}

VARIABLES
    clock, activity, stock, participants, request, released,    \* Redis
    dbStock, buyer, status, outbox,                             \* MySQL
    told, job,
    lock,       \* lock:order:<user>, the consumer holding it
    tx          \* how far each consumer's handler is

appended == {stream[i] : i \in 1..Len(stream)}

LC == INSTANCE OrderLifecycle WITH events <- appended

storeVars == <<clock, activity, stock, participants, request, released,
               dbStock, buyer, status, outbox, told, job>>
handlerVars == <<lock, tx>>
vars == <<streamVars, storeVars, handlerVars>>

Buyer(i) == stream[i][1]
Order(i) == stream[i][2]

Init ==
    /\ StreamInit
    /\ LC!LifecycleInit
    /\ lock = [u \in Users |-> NoConsumer]
    /\ tx = [c \in Consumers |-> "none"]

\* seckill.lua accepts: the event is appended before anything is reserved.
Admit(u, o) ==
    /\ Produce(<<u, o>>)
    /\ LC!AdmitNew(u, o)
    /\ UNCHANGED handlerVars

\* Everything else that leaves the stream and the handlers alone.
StoreStep ==
    /\ UNCHANGED <<streamVars, handlerVars>>
    /\ \/ LC!ActivityStep
       \/ \E u \in Users : LC!AdmitReplay(u)
       \/ \E u \in Users, o \in Orders : LC!CancelMine(u, o)
       \/ \E o \in Orders : LC!Pay(o) \/ LC!OutboxTime(o)
       \/ \E r \in Reconcilers : LC!ReconcileStep(r) \/ LC!Abandon(r)
-----------------------------------------------------------------------------
(* handleVoucherOrder and persistVoucherOrder.                             *)

Handling(c, i) == pc[c] = "handling" /\ IsFirst(i, batch[c])

\* Mutant: a busy lock returns quietly.
LockBusyReturns(c, i) ==
    /\ Handling(c, i) /\ tx[c] = "none"
    /\ lock[Buyer(i)] # NoConsumer
    /\ pc' = [pc EXCEPT ![c] = "handled"]
    /\ UNCHANGED <<streamKeys, page, after, cursor, batch, fresh, handled, faults>>
    /\ UNCHANGED <<storeVars, handlerVars>>

LockBusy(c, i) ==
    /\ Handling(c, i) /\ tx[c] = "none"
    /\ lock[Buyer(i)] # NoConsumer
    /\ HandlerThrows(c)
    /\ UNCHANGED <<storeVars, handlerVars>>

TryLock(c, i) ==
    /\ Handling(c, i) /\ tx[c] = "none"
    /\ lock[Buyer(i)] = NoConsumer
    /\ lock' = [lock EXCEPT ![Buyer(i)] = c]
    /\ tx' = [tx EXCEPT ![c] = "locked"]
    /\ UNCHANGED <<streamVars, storeVars>>

\* The handler's effect on the entry, once however often it is repeated.
TakesEffect(i) ==
    /\ handled' = handled \cup {i}
    /\ UNCHANGED <<streamKeys, workerVars, faults>>

\* The SELECT of the transaction, which locks nothing.
FindExisting(c, i) ==
    /\ Handling(c, i) /\ tx[c] = "locked"
    /\ LET found == LC!OrdersOf(Buyer(i))
       IN  \/ /\ found = {}
              /\ tx' = [tx EXCEPT ![c] = "absent"]
              /\ UNCHANGED streamVars
           \/ /\ Order(i) \in found
              /\ tx' = [tx EXCEPT ![c] = "done"]
              /\ TakesEffect(i)
           \/ /\ found # {} /\ Order(i) \notin found
              /\ tx' = [tx EXCEPT ![c] = "aborted"]
              /\ UNCHANGED streamVars
    /\ UNCHANGED <<lock, storeVars>>

\* UPDATE, INSERT, COMMIT: no stock or a duplicate key rolls all of it back.
Write(c, i) ==
    /\ Handling(c, i) /\ tx[c] = "absent"
    /\ \/ /\ TakesEffect(i)
          /\ LC!Persist(Buyer(i), Order(i))
          /\ tx' = [tx EXCEPT ![c] = "done"]
       \/ /\ ~LC!CanInsert(Buyer(i), Order(i))
          /\ tx' = [tx EXCEPT ![c] = "aborted"]
          /\ UNCHANGED <<streamVars, storeVars>>
    /\ UNCHANGED lock

\* Mutant: the stock UPDATE survives the failure of the INSERT.
TransactionLeaksStock(c, i) ==
    /\ Handling(c, i) /\ tx[c] = "absent"
    /\ dbStock > 0 /\ dbStock' = dbStock - 1
    /\ tx' = [tx EXCEPT ![c] = "aborted"]
    /\ UNCHANGED <<streamVars, clock, activity, stock, participants, request, released,
                   buyer, status, outbox, told, job, lock>>

\* A database error or deadlock rolls back; or the commit's answer is lost.
TransactionRaises(c, i) ==
    /\ Handling(c, i) /\ tx[c] \in {"locked", "absent"}
    /\ \/ UNCHANGED <<streamVars, storeVars>>
       \/ /\ tx[c] = "absent"
          /\ TakesEffect(i)
          /\ LC!Persist(Buyer(i), Order(i))
    /\ tx' = [tx EXCEPT ![c] = "aborted"]
    /\ UNCHANGED lock

\* The finally block: unlocking a lock that expired raises as well.
Unlock(c, i) ==
    /\ Handling(c, i) /\ tx[c] \in {"done", "aborted"}
    /\ \/ /\ lock[Buyer(i)] = c /\ tx[c] = "done"
          /\ HandlerReturns(c, i)
       \/ /\ lock[Buyer(i)] # c \/ tx[c] = "aborted"
          /\ HandlerThrows(c)
    /\ lock' = IF lock[Buyer(i)] = c THEN [lock EXCEPT ![Buyer(i)] = NoConsumer] ELSE lock
    /\ tx' = [tx EXCEPT ![c] = "none"]
    /\ UNCHANGED storeVars

\* Redisson's watchdog stops renewing when the holder died, or was paused.
LockExpires(u) ==
    /\ lock[u] # NoConsumer
    /\ lock' = [lock EXCEPT ![u] = NoConsumer]
    /\ UNCHANGED <<streamVars, storeVars, tx>>

OrphanedLockExpires(u) == LockExpires(u) /\ pc[lock[u]] = "down"

\* A dying process rolls its transaction back and leaves the lock to expire.
ProcessDies(c) ==
    /\ Crash(c)
    /\ tx' = [tx EXCEPT ![c] = "none"]
    /\ UNCHANGED <<storeVars, lock>>
-----------------------------------------------------------------------------
OrderHandlerStep(c) ==
    \E i \in Ids : \/ LockBusy(c, i) \/ TryLock(c, i)
                   \/ FindExisting(c, i) \/ Write(c, i) \/ Unlock(c, i)

QueueStep(c) ==
    /\ PollStep(c) \/ TransitionStep(c)
    /\ UNCHANGED <<storeVars, handlerVars>>

QueueFault(c) ==
    /\ \/ PollFails(c) \/ ReadNewLost(c)
       \/ \E i \in Ids : BeginLost(c, i) \/ TransitionLost(c, i)
    /\ UNCHANGED <<storeVars, handlerVars>>

QueueTime(i) ==
    /\ Elapse(i) \/ Overrun(i)
    /\ UNCHANGED <<storeVars, handlerVars>>

OperatorRedrives(d) == Redrive(d) /\ UNCHANGED <<storeVars, handlerVars>>

Next ==
    \/ \E u \in Users, o \in Orders : Admit(u, o)
    \/ StoreStep
    \/ \E c \in Consumers : \/ QueueStep(c) \/ QueueFault(c)
                            \/ OrderHandlerStep(c) \/ ProcessDies(c)
    \/ \E c \in Consumers, i \in Ids : TransactionRaises(c, i)
    \/ \E i \in Ids : QueueTime(i) \/ OperatorRedrives(i)
    \/ \E u \in Users : LockExpires(u)

Spec == Init /\ [][Next]_vars

\* The consumer loop of a process that is up runs on, and time passes.
Fairness ==
    /\ \A c \in Consumers : WF_vars(QueueStep(c) \/ OrderHandlerStep(c))
    /\ \A i \in Ids : WF_vars(Elapse(i) /\ UNCHANGED <<storeVars, handlerVars>>)
    /\ \A u \in Users : WF_vars(OrphanedLockExpires(u))

FairSpec == Spec /\ Fairness
-----------------------------------------------------------------------------
TypeOK ==
    /\ StreamTypeOK
    /\ LC!LifecycleTypeOK
    /\ lock \in [Users -> Consumers \cup {NoConsumer}]
    /\ tx \in [Consumers -> {"none", "locked", "absent", "done", "aborted"}]

\* OrderLifecycleService.queryMine, for an unpersisted order.
AcceptanceStatus(u, o) ==
    IF request[u] # o THEN "NOT_FOUND"
    ELSE IF orderDead[<<u, o>>] # 0 /\ dead[orderDead[<<u, o>>]].redrive = 0
         THEN "REQUIRES_REVIEW" ELSE "ACCEPTED"

LiveEntries(p) == {i \in 1..Len(stream) : stream[i] = p /\ ~Settled(i)}

\* queryMine never strands a buyer: while Redis keeps the activity, an order
\* that was accepted and is not in MySQL is found, and is called ACCEPTED only
\* while some stream entry can still persist it; all others await review.
StatusIsHonest ==
    /\ TypeOK
    /\ activity = "live" =>
        \A p \in appended : buyer[p[2]] = NoUser =>
            /\ AcceptanceStatus(p[1], p[2]) # "NOT_FOUND"
            /\ AcceptanceStatus(p[1], p[2]) = "ACCEPTED" => LiveEntries(p) # {}

\* An entry is acknowledged only for an order that is really in MySQL, even if
\* the lock expired, two workers handled it, or the commit's answer was lost.
HandledMeansPersisted ==
    \A i \in 1..Len(stream) :
        IF i \in handled THEN buyer[Order(i)] = Buyer(i)
        ELSE Settled(i) => deadOf[i] # 0

\* The composition implements the queue and the order life cycle it is made of.
ImplementsOrderStream == StreamSpec
ImplementsOrderLifecycle == LC!LifecycleSpec

\* Every accepted order is finally persisted or handed to a human.
AcceptedOrderSettles ==
    \A p \in Payloads :
        p \in appended ~> buyer[p[2]] = p[1] \/ (orderDead[p] # 0 /\ LiveEntries(p) = {})
=============================================================================
