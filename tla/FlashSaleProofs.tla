---------------------------- MODULE FlashSaleProofs ----------------------------
(***************************************************************************)
(* Proofs about FlashSale, for any buyers, orders, consumers, reconcilers, *)
(* budgets and faults: the composition implements the queue and the order  *)
(* life cycle, and so has what OrderStreamProofs and OrderLifecycleProofs  *)
(* prove of them.                                                          *)
(***************************************************************************)
EXTENDS FlashSale, OrderStreamProofs

LP == INSTANCE OrderLifecycleProofs WITH events <- appended

USE FlashSaleAssumption, VoucherAssumption DEF FlashSaleAssumption, VoucherAssumption

-----------------------------------------------------------------------------
(* The queue.  The handler of FlashSale takes effect, returns or throws as *)
(* OrderStream's does; what it does before is no step of the queue.        *)

LEMMA StreamSim == [Next]_vars => [StreamNext]_streamVars
<1> SUFFICES ASSUME [Next]_vars PROVE [StreamNext]_streamVars
    OBVIOUS
<1>1. CASE UNCHANGED streamVars
    BY <1>1
<1>2. ASSUME NEW c \in Consumers, QueueStep(c) \/ QueueFault(c) PROVE StreamNext
    BY <1>2 DEF QueueStep, QueueFault, StreamNext, WorkerStep, WorkerFault
<1>3. ASSUME NEW c \in Consumers, ProcessDies(c) PROVE StreamNext
    BY <1>3 DEF ProcessDies, StreamNext, WorkerFault
<1>4. ASSUME NEW i \in Ids, QueueTime(i) \/ OperatorRedrives(i) PROVE StreamNext
    BY <1>4 DEF QueueTime, OperatorRedrives, StreamNext
<1>5. ASSUME NEW u \in Users, NEW o \in Orders, Admit(u, o) PROVE StreamNext
    BY <1>5 DEF Admit, StreamNext
<1>6. ASSUME NEW c \in Consumers, NEW i \in Ids, Handling(c, i), TakesEffect(i)
      PROVE  [StreamNext]_streamVars
    <2>1. CASE i \in handled
        BY <1>6, <2>1 DEF TakesEffect, streamVars
    <2>2. CASE i \notin handled
        BY <1>6, <2>2 DEF TakesEffect, Handling, HandlerCommits, HandlerStep, WorkerStep, StreamNext
    <2> QED BY <2>1, <2>2
<1>7. ASSUME NEW c \in Consumers, NEW i \in Ids, HandlerThrows(c) \/ HandlerReturns(c, i)
      PROVE  StreamNext
    BY <1>7 DEF HandlerStep, WorkerStep, StreamNext
<1>8. ASSUME NEW c \in Consumers, OrderHandlerStep(c) PROVE [StreamNext]_streamVars
    BY <1>1, <1>6, <1>7, <1>8
       DEF OrderHandlerStep, LockBusy, TryLock, FindExisting, Write, Unlock
<1>9. ASSUME NEW c \in Consumers, NEW i \in Ids, TransactionRaises(c, i)
      PROVE  [StreamNext]_streamVars
    BY <1>1, <1>6, <1>9 DEF TransactionRaises
<1> QED BY <1>1, <1>2, <1>3, <1>4, <1>5, <1>8, <1>9
        DEF Next, StoreStep, LockExpires, vars

\* The composition is an order stream: whatever the lock, the transaction and
\* its lost commits do, the queue sees a handler that takes effect once, returns
\* or throws.
THEOREM QueueIsKept == Spec => ImplementsOrderStream
<1>1. Init => StreamInit
    BY DEF Init
<1> QED BY <1>1, StreamSim, PTL DEF Spec, ImplementsOrderStream, StreamSpec

\* A thread works on entries that were delivered.
BatchInv == \A c \in Consumers : \A i \in batch[c] : i <= delivered

LEMMA BatchStep == TypeInv /\ BatchInv /\ [StreamNext]_streamVars => BatchInv'
<1> SUFFICES ASSUME TypeInv, BatchInv, [StreamNext]_streamVars PROVE BatchInv'
    OBVIOUS
<1>0. /\ delivered \in Nat /\ batch \in [Consumers -> SUBSET Ids]
      /\ \A i \in Ids : owner[i] # NoConsumer => i <= delivered
    BY Positions DEF TypeInv, StreamTypeOK, PositionsInv
<1>1. ASSUME UNCHANGED delivered, \A c \in Consumers : batch'[c] \subseteq batch[c]
      PROVE  BatchInv'
    BY <1>1 DEF BatchInv
<1>2. ASSUME NEW c \in Consumers, NEW i \in Ids, Claim(c, i) PROVE BatchInv'
    BY <1>0, <1>2 DEF Claim, Pending, BatchInv
<1>3. ASSUME NEW c \in Consumers, Deliver(c), UNCHANGED batch \/ ReadNew(c) PROVE BatchInv'
    <2>1. delivered' = delivered + 1
        BY <1>3 DEF Deliver
    <2>2. batch' = batch \/ batch' = [batch EXCEPT ![c] = {delivered + 1}]
        BY <1>3 DEF ReadNew
    <2>3. \A k \in Consumers : \A i \in batch'[k] :
            (i \in Ids /\ i <= delivered) \/ i = delivered + 1
        BY <1>0, <2>2 DEF BatchInv
    <2> QED BY <1>0, <2>1, <2>3 DEF BatchInv, Ids
<1>4. ASSUME NEW c \in Consumers, NEW i \in Ids, Finish(c, i), UNCHANGED delivered PROVE BatchInv'
    BY <1>0, <1>1, <1>4 DEF Finish
<1>5. ASSUME NEW c \in Consumers, Crash(c) \/ PollFails(c) PROVE BatchInv'
    BY <1>0, <1>1, <1>5 DEF Crash, PollFails, streamKeys
<1>6. CASE UNCHANGED <<delivered, batch>>
    BY <1>1, <1>6
<1>7. ASSUME NEW c \in Consumers, PollStep(c) PROVE BatchInv'
    BY <1>2, <1>3, <1>6, <1>7
       DEF PollStep, Start, ReadPage, EndPage, ReadNew, EndRound, streamKeys
<1>8. ASSUME NEW c \in Consumers, TransitionStep(c) \/ HandlerStep(c) PROVE BatchInv'
    BY <1>4, <1>6, <1>8
       DEF TransitionStep, HandlerStep, BeginStale, BeginExhausted, Begin, ReserveAttempt, Success,
           Failure, HandlerThrows, HandlerCommits, HandlerReturns, streamKeys, workerVars
<1>9. ASSUME NEW c \in Consumers, WorkerFault(c) PROVE BatchInv'
    BY <1>3, <1>4, <1>5, <1>9
       DEF WorkerFault, ReadNewLost, BeginLost, TransitionLost, ReserveAttempt, streamKeys
<1> QED BY <1>6, <1>7, <1>8, <1>9
        DEF StreamNext, WorkerStep, Produce, Redrive, Elapse, Overrun, streamVars, streamKeys,
            workerVars

QueueInv == TypeInv /\ LossInv /\ CopiesInv /\ BatchInv

LEMMA QueueInvariant == Spec => []QueueInv
<1>1. Spec => [](TypeInv /\ LossInv /\ CopiesInv)
    BY QueueIsKept, CopiesInvariant, PTL DEF ImplementsOrderStream
<1>2. Init => BatchInv
    BY DEF Init, StreamInit, BatchInv
<1>3. TypeInv /\ BatchInv /\ [Next]_vars => BatchInv'
    BY StreamSim, BatchStep
<1> QED BY <1>1, <1>2, <1>3, PTL DEF Spec, QueueInv
-----------------------------------------------------------------------------
(* The life cycle.  Its events are the payloads of the stream: Admit adds  *)
(* one, a redrive appends one that is there already.                       *)

LEMMA RedriveAppendsNothingNew ==
    ASSUME TypeInv, NEW d \in Ids, Redrive(d)
    PROVE  appended' = appended
<1>1. d \in 1..Len(dead) /\ stream' = Append(stream, stream[dead[d].source])
    BY DEF Redrive
<1>2. dead[d].source \in 1..Len(stream)
    BY <1>1, DeadLetter, Positions DEF TypeInv, PositionsInv, Ids
<1>3. /\ Len(stream) \in Nat /\ Len(stream') = Len(stream) + 1
      /\ stream'[Len(stream) + 1] = stream[dead[d].source]
      /\ \A i \in 1..Len(stream) : stream'[i] = stream[i]
    BY <1>1, <1>2 DEF TypeInv, StreamTypeOK
<1>4. \A i \in 1..Len(stream') : i \in 1..Len(stream) \/ i = Len(stream) + 1
    BY <1>3
<1>5. \A i \in 1..Len(stream) : i \in 1..Len(stream')
    BY <1>3
<1> QED BY <1>2, <1>3, <1>4, <1>5 DEF appended

LEMMA EntryInHand ==
    ASSUME TypeInv, BatchInv, NEW c \in Consumers, NEW i \in Ids, Handling(c, i)
    PROVE  /\ i \in 1..Len(stream) /\ stream[i] = <<Buyer(i), Order(i)>>
           /\ Buyer(i) \in Users /\ Order(i) \in Orders
<1>1. i \in 1..Len(stream)
    BY Positions DEF TypeInv, BatchInv, Handling, IsFirst, Ids
<1>2. stream[i] \in Users \X Orders
    BY <1>1 DEF TypeInv, StreamTypeOK
<1> QED BY <1>1, <1>2 DEF Buyer, Order

LEMMA LifecycleSim == TypeInv /\ BatchInv /\ [Next]_vars => [LC!LifecycleNext]_LC!lifecycleVars
<1> SUFFICES ASSUME TypeInv, BatchInv, [Next]_vars PROVE [LC!LifecycleNext]_LC!lifecycleVars
    OBVIOUS
<1>1. ASSUME UNCHANGED storeVars, appended' = appended
      PROVE  UNCHANGED LC!lifecycleVars
    BY <1>1 DEF storeVars, LC!lifecycleVars, LC!activityVars, LC!ledgerVars
<1>2. ASSUME UNCHANGED stream PROVE appended' = appended
    BY <1>2 DEF appended
<1>3. CASE UNCHANGED vars
    BY <1>1, <1>2, <1>3 DEF vars, streamVars, streamKeys
<1>4. ASSUME NEW u \in Users, NEW o \in Orders, Admit(u, o) PROVE LC!LifecycleNext
    BY <1>4 DEF Admit, LC!LifecycleNext
<1>5. CASE StoreStep
    BY <1>5 DEF StoreStep, LC!LifecycleNext
<1>6. ASSUME NEW c \in Consumers, QueueStep(c) \/ QueueFault(c) \/ ProcessDies(c)
      PROVE  UNCHANGED LC!lifecycleVars
    <2>1. UNCHANGED stream
        BY <1>6 DEF QueueStep, QueueFault, ProcessDies, PollStep, TransitionStep, Start, ReadPage,
                    Claim, EndPage, ReadNew, Deliver, EndRound, BeginStale, BeginExhausted, Begin,
                    ReserveAttempt, Success, Failure, Crash, PollFails, ReadNewLost, BeginLost,
                    TransitionLost, streamKeys
    <2> QED BY <1>1, <1>2, <1>6, <2>1 DEF QueueStep, QueueFault, ProcessDies
<1>7. ASSUME NEW i \in Ids, QueueTime(i) \/ OperatorRedrives(i) PROVE UNCHANGED LC!lifecycleVars
    BY <1>1, <1>2, <1>7, RedriveAppendsNothingNew
       DEF QueueTime, OperatorRedrives, Elapse, Overrun
<1>8. ASSUME NEW c \in Consumers, NEW i \in Ids, Handling(c, i), LC!Persist(Buyer(i), Order(i))
      PROVE  LC!LifecycleNext
    BY <1>8, EntryInHand DEF LC!LifecycleNext
<1>9. ASSUME NEW c \in Consumers, OrderHandlerStep(c) PROVE [LC!LifecycleNext]_LC!lifecycleVars
    <2>1. PICK i \in Ids : \/ LockBusy(c, i) \/ TryLock(c, i)
                           \/ FindExisting(c, i) \/ Write(c, i) \/ Unlock(c, i)
        BY <1>9 DEF OrderHandlerStep
    <2>2. CASE Write(c, i)
        BY <1>1, <1>2, <1>8, <2>2 DEF Write, streamVars, streamKeys
    <2>3. CASE LockBusy(c, i) \/ TryLock(c, i) \/ FindExisting(c, i) \/ Unlock(c, i)
        <3>1. UNCHANGED stream /\ UNCHANGED storeVars
            BY <2>3 DEF LockBusy, TryLock, FindExisting, Unlock, TakesEffect, HandlerThrows,
                        HandlerReturns, streamVars, streamKeys
        <3> QED BY <1>1, <1>2, <3>1
    <2> QED BY <2>1, <2>2, <2>3
<1>10. ASSUME NEW c \in Consumers, NEW i \in Ids, TransactionRaises(c, i)
       PROVE  [LC!LifecycleNext]_LC!lifecycleVars
    BY <1>1, <1>2, <1>8, <1>10 DEF TransactionRaises, streamVars, streamKeys
<1>11. ASSUME NEW u \in Users, LockExpires(u) PROVE UNCHANGED LC!lifecycleVars
    BY <1>1, <1>2, <1>11 DEF LockExpires, streamVars, streamKeys
<1> QED BY <1>3, <1>4, <1>5, <1>6, <1>7, <1>9, <1>10, <1>11 DEF Next

\* The composition is an order life cycle: every row it writes is that of an
\* accepted event, whichever copy of the event brought it, and redrives accept
\* nothing.
THEOREM LifecycleIsKept == Spec => ImplementsOrderLifecycle
<1>1. Init => LC!LifecycleInit
    BY DEF Init
<1> QED BY <1>1, QueueInvariant, LifecycleSim, PTL
        DEF Spec, ImplementsOrderLifecycle, LC!LifecycleSpec, QueueInv
-----------------------------------------------------------------------------
(* OrderLifecycleProofs, over the same events.  LP repeats LC's            *)
(* definitions; the assumptions of its theorems are those of FlashSale.    *)

LEMMA AssumptionsAgree == LP!VoucherAssumption /\ LP!LedgerAssumption
<1>1. \A S : LP!IsFiniteSet(S) <=> IsFiniteSet(S)
    BY DEF LP!IsFiniteSet, IsFiniteSet
<1> QED BY <1>1 DEF LP!VoucherAssumption, LP!LedgerAssumption

LEMMA InitsAgree == LC!LifecycleInit => LP!LifecycleInit
BY DEF LC!LifecycleInit, LC!ActivityInit, LC!LedgerInit, LC!NoRequests, LC!NoMarkers,
       LC!NoEntry, LC!NoJob, LP!LifecycleInit, LP!ActivityInit, LP!LedgerInit, LP!NoRequests,
       LP!NoMarkers, LP!NoEntry, LP!NoJob

LEMMA NextsAgree == [LC!LifecycleNext]_LC!lifecycleVars => [LP!LifecycleNext]_LP!lifecycleVars
<1>1. LC!ActivityStep <=> LP!ActivityStep
    BY DEF LC!ActivityStep, LP!ActivityStep, LC!Publish, LP!Publish, LC!PublishFails,
       LP!PublishFails, LC!Tick, LP!Tick, LC!NoRequests, LP!NoRequests, LC!NoMarkers,
       LP!NoMarkers, LC!activityKeys, LP!activityKeys, LC!ledgerVars, LP!ledgerVars
<1>2. \A u \in Users : LC!AdmitReplay(u) <=> LP!AdmitReplay(u)
    BY DEF LC!AdmitReplay, LP!AdmitReplay, LC!Replays, LP!Replays, LC!activityVars,
       LP!activityVars, LC!ledgerVars, LP!ledgerVars
<1>3. \A u \in Users, o \in Orders : LC!AdmitNew(u, o) <=> LP!AdmitNew(u, o)
    BY DEF LC!AdmitNew, LP!AdmitNew, LC!Reserve, LP!Reserve, LC!Accepts, LP!Accepts, LC!Answer,
       LP!Answer, LC!ledgerVars, LP!ledgerVars
<1>4. \A u \in Users, o \in Orders : LC!Persist(u, o) <=> LP!Persist(u, o)
    BY DEF LC!Persist, LP!Persist, LC!InsertOrder, LP!InsertOrder, LC!CanInsert, LP!CanInsert,
       LC!OrdersOf, LP!OrdersOf, LC!activityVars, LP!activityVars
<1>5. \A u \in Users, o \in Orders : LC!CancelMine(u, o) <=> LP!CancelMine(u, o)
    BY DEF LC!CancelMine, LP!CancelMine, LC!CancelOrder, LP!CancelOrder, LC!NoEntry,
       LP!NoEntry, LC!activityVars, LP!activityVars
<1>6. \A o \in Orders : LC!Pay(o) <=> LP!Pay(o)
    BY DEF LC!Pay, LP!Pay, LC!PayOrder, LP!PayOrder, LC!activityVars, LP!activityVars
<1>7. \A o \in Orders : LC!OutboxTime(o) <=> LP!OutboxTime(o)
    BY DEF LC!OutboxTime, LP!OutboxTime, LC!LeaseExpires, LP!LeaseExpires, LC!BackoffEnds,
       LP!BackoffEnds, LC!UpdateOutbox, LP!UpdateOutbox, LC!activityVars, LP!activityVars
<1>8. \A r \in Reconcilers, o \in Orders : LC!Pick(r, o) <=> LP!Pick(r, o)
    BY DEF LC!Pick, LP!Pick, LC!At, LP!At, LC!Due, LP!Due, LC!NoJob, LP!NoJob, LC!activityVars,
       LP!activityVars, LC!ledgerVars, LP!ledgerVars
<1>9. \A r \in Reconcilers : LC!Exhaust(r) <=> LP!Exhaust(r)
    BY DEF LC!Exhaust, LP!Exhaust, LC!At, LP!At, LC!ExhaustEntry, LP!ExhaustEntry,
       LC!CanExhaust, LP!CanExhaust, LC!UpdateOutbox, LP!UpdateOutbox, LC!Unleased,
       LP!Unleased, LC!NoJob, LP!NoJob, LC!activityVars, LP!activityVars, LC!ledgerVars,
       LP!ledgerVars
<1>10. \A r \in Reconcilers : LC!ClaimJob(r) <=> LP!ClaimJob(r)
    BY DEF LC!ClaimJob, LP!ClaimJob, LC!At, LP!At, LC!ClaimEntry, LP!ClaimEntry, LC!CanClaim,
       LP!CanClaim, LC!Due, LP!Due, LC!UpdateOutbox, LP!UpdateOutbox, LC!NoJob, LP!NoJob,
       LC!activityVars, LP!activityVars, LC!ledgerVars, LP!ledgerVars
<1>11. \A r \in Reconcilers : LC!CallRelease(r) <=> LP!CallRelease(r)
    BY DEF LC!CallRelease, LP!CallRelease, LC!At, LP!At, LC!Answered, LP!Answered, LC!Release,
       LP!Release, LC!ReleaseResult, LP!ReleaseResult, LC!NoRequests, LP!NoRequests,
       LC!ledgerVars, LP!ledgerVars
<1>12. \A r \in Reconcilers : LC!CallReleaseFails(r) <=> LP!CallReleaseFails(r)
    BY DEF LC!CallReleaseFails, LP!CallReleaseFails, LC!At, LP!At, LC!Answered, LP!Answered,
       LC!Release, LP!Release, LC!ReleaseDies, LP!ReleaseDies, LC!ReleaseResult,
       LP!ReleaseResult, LC!NoRequests, LP!NoRequests, LC!activityVars, LP!activityVars,
       LC!ledgerVars, LP!ledgerVars
<1>13. \A r \in Reconcilers : LC!RecordOutcome(r) <=> LP!RecordOutcome(r)
    BY DEF LC!RecordOutcome, LP!RecordOutcome, LC!At, LP!At, LC!CompleteEntry,
       LP!CompleteEntry, LC!ReviewEntry, LP!ReviewEntry, LC!RetryEntry, LP!RetryEntry,
       LC!Holds, LP!Holds, LC!UpdateOutbox, LP!UpdateOutbox, LC!Unleased, LP!Unleased,
       LC!NoJob, LP!NoJob, LC!activityVars, LP!activityVars, LC!ledgerVars, LP!ledgerVars
<1>14. \A r \in Reconcilers : LC!Abandon(r) <=> LP!Abandon(r)
    BY DEF LC!Abandon, LP!Abandon, LC!NoJob, LP!NoJob, LC!activityVars, LP!activityVars,
       LC!ledgerVars, LP!ledgerVars
<1>15. UNCHANGED LC!lifecycleVars => UNCHANGED LP!lifecycleVars
    BY DEF LC!lifecycleVars, LP!lifecycleVars, LC!activityVars, LP!activityVars,
           LC!ledgerVars, LP!ledgerVars
<1>16. \A r \in Reconcilers : LC!ReconcileStep(r) <=> LP!ReconcileStep(r)
    BY <1>8, <1>9, <1>10, <1>11, <1>12, <1>13 DEF LC!ReconcileStep, LP!ReconcileStep
<1>17. LC!LifecycleNext => LP!LifecycleNext
    BY <1>1, <1>2, <1>3, <1>4, <1>5, <1>6, <1>7, <1>14, <1>16
       DEF LC!LifecycleNext, LP!LifecycleNext
<1> QED BY <1>15, <1>17

LEMMA SpecsAgree == Spec => LP!LifecycleSpec
BY LifecycleIsKept, InitsAgree, NextsAgree, PTL
   DEF ImplementsOrderLifecycle, LC!LifecycleSpec, LP!LifecycleSpec

LEMMA StoresInvariant == Spec => []LP!LifecycleInv
BY SpecsAgree, AssumptionsAgree, LP!LifecycleInvariant, PTL

\* With the queue, the lock and the transaction in between, the two stores still
\* keep what they keep by themselves: MySQL holds a unit for every accepted order,
\* Redis's stock matches its reservations and releases, a buyer has one order, and a
\* cancellation is completed only when its unit was given back.
THEOREM StoresStaySound ==
    Spec => [](/\ LP!DatabaseStockIsSound /\ LP!RedisStockConserved
               /\ LP!OneIdentityPerUser /\ LP!CompletedMeansReleased)
BY SpecsAgree, AssumptionsAgree, LP!DatabaseStock, LP!RedisStock, LP!OneIdentity,
   LP!CompletionIsHonest, PTL

\* The whole flash sale, from the admission script to the reconcilers, keeps the
\* promise of FlashSalePromise: no more units in buyers' hands than there are, and
\* no accepted order forgotten.
THEOREM SaleKeepsPromise == Spec => LP!ImplementsPromise
BY SpecsAgree, AssumptionsAgree, LP!KeepsPromise, PTL
-----------------------------------------------------------------------------
(* Acknowledged means persisted.                                           *)

\* A handler took effect on an entry only by finding or writing its order, and
\* a row never changes hands.
PersistedInv ==
    \A i \in handled : i \in 1..Len(stream) /\ buyer[Order(i)] = Buyer(i)

LEMMA RowsStay ==
    ASSUME LP!LifecycleInv, TypeInv, BatchInv, [Next]_vars
    PROVE  \A o \in Orders : buyer[o] # NoUser => buyer'[o] = buyer[o]
<1>1. buyer \in [Orders -> Users \cup {NoUser}]
    BY DEF LP!LifecycleInv, LP!TypeInv, LP!LifecycleTypeOK
<1>2. [LC!LifecycleNext]_LC!lifecycleVars
    BY LifecycleSim
<1>3. ASSUME NEW u \in Users, NEW o \in Orders, LC!Persist(u, o)
      PROVE  \A p \in Orders : buyer[p] # NoUser => buyer'[p] = buyer[p]
    BY <1>1, <1>3 DEF LC!Persist, LC!InsertOrder, LC!CanInsert
<1>4. ASSUME NEW u \in Users, NEW o \in Orders, LC!AdmitNew(u, o) \/ LC!CancelMine(u, o)
      PROVE  UNCHANGED buyer
    BY <1>4 DEF LC!AdmitNew, LC!CancelMine, LC!CancelOrder, LC!ledgerVars
<1>5. ASSUME NEW r \in Reconcilers, LC!ReconcileStep(r) \/ LC!Abandon(r) PROVE UNCHANGED buyer
    BY <1>5
       DEF LC!ReconcileStep, LC!Abandon, LC!Pick, LC!Exhaust, LC!ExhaustEntry, LC!ClaimJob,
           LC!ClaimEntry, LC!CallRelease, LC!CallReleaseFails, LC!RecordOutcome,
           LC!CompleteEntry, LC!ReviewEntry, LC!RetryEntry, LC!UpdateOutbox, LC!ledgerVars
<1>6. ASSUME NEW o \in Orders, LC!Pay(o) \/ LC!OutboxTime(o) PROVE UNCHANGED buyer
    BY <1>6
       DEF LC!Pay, LC!PayOrder, LC!OutboxTime, LC!LeaseExpires, LC!BackoffEnds, LC!UpdateOutbox
<1>7. ASSUME NEW u \in Users, LC!AdmitReplay(u) PROVE UNCHANGED buyer
    BY <1>7 DEF LC!AdmitReplay, LC!ledgerVars
<1>8. CASE LC!ActivityStep \/ UNCHANGED LC!lifecycleVars
    BY <1>8 DEF LC!ActivityStep, LC!lifecycleVars, LC!ledgerVars
<1> QED BY <1>2, <1>3, <1>4, <1>5, <1>6, <1>7, <1>8 DEF LC!LifecycleNext

\* The stream only grows.
LEMMA EntriesStay ==
    ASSUME TypeInv, [Next]_vars
    PROVE  \A i \in 1..Len(stream) : i \in 1..Len(stream') /\ stream'[i] = stream[i]
<1>1. [StreamNext]_streamVars
    BY StreamSim
<1>2. ASSUME NEW p \in Payloads, stream' = Append(stream, p)
      PROVE  \A i \in 1..Len(stream) : i \in 1..Len(stream') /\ stream'[i] = stream[i]
    BY <1>2 DEF TypeInv, StreamTypeOK
<1>3. ASSUME NEW d \in Ids, Redrive(d)
      PROVE  \A i \in 1..Len(stream) : i \in 1..Len(stream') /\ stream'[i] = stream[i]
    <2>1. d \in 1..Len(dead) /\ stream' = Append(stream, stream[dead[d].source])
        BY <1>3 DEF Redrive
    <2>2. dead[d].source \in 1..Len(stream)
        BY <2>1, DeadLetter, Positions DEF TypeInv, PositionsInv, Ids
    <2>3. \A i \in 1..Len(stream) : stream[i] \in Payloads
        BY DEF TypeInv, StreamTypeOK
    <2> QED BY <1>2, <2>1, <2>2, <2>3
<1>4. ASSUME NEW c \in Consumers, WorkerStep(c) \/ WorkerFault(c) PROVE UNCHANGED stream
    BY <1>4 DEF WorkerStep, WorkerFault, PollStep, TransitionStep, HandlerStep, Start, ReadPage,
                Claim, EndPage, ReadNew, Deliver, EndRound, BeginStale, BeginExhausted, Begin,
                ReserveAttempt, HandlerCommits, HandlerReturns, HandlerThrows, Success, Failure,
                Crash, PollFails, ReadNewLost, BeginLost, TransitionLost, streamKeys
<1> QED BY <1>1, <1>2, <1>3, <1>4
        DEF StreamNext, Produce, Elapse, Overrun, streamVars, streamKeys

LEMMA PersistedStep ==
    LP!LifecycleInv /\ QueueInv /\ PersistedInv /\ [Next]_vars => PersistedInv'
<1> SUFFICES ASSUME LP!LifecycleInv, QueueInv, PersistedInv, [Next]_vars PROVE PersistedInv'
    OBVIOUS
<1>0. /\ TypeInv /\ BatchInv
      /\ buyer \in [Orders -> Users \cup {NoUser}] /\ NoUser \notin Users
      /\ \A i \in 1..Len(stream) : Buyer(i) \in Users /\ Order(i) \in Orders
    <2>1. \A i \in 1..Len(stream) : stream[i] \in Users \X Orders
        BY DEF QueueInv, TypeInv, StreamTypeOK
    <2> QED BY <2>1 DEF LP!LifecycleInv, LP!TypeInv, LP!LifecycleTypeOK, QueueInv, Buyer, Order
<1>1. ASSUME NEW i \in 1..Len(stream), buyer[Order(i)] = Buyer(i)
      PROVE  i \in 1..Len(stream') /\ buyer'[Order(i)'] = Buyer(i)'
    <2>1. i \in 1..Len(stream') /\ stream'[i] = stream[i]
        BY <1>0, EntriesStay
    <2>2. buyer'[Order(i)] = buyer[Order(i)]
        BY <1>0, <1>1, RowsStay
    <2> QED BY <1>1, <2>1, <2>2 DEF Buyer, Order
<1>2. CASE UNCHANGED handled
    BY <1>1, <1>2 DEF PersistedInv
<1>3. ASSUME NEW c \in Consumers, NEW i \in Ids, Handling(c, i), TakesEffect(i),
             buyer'[Order(i)] = Buyer(i)
      PROVE  PersistedInv'
    <2>1. i \in 1..Len(stream) /\ stream' = stream
        BY <1>0, <1>3, EntryInHand DEF TakesEffect, streamKeys
    <2>2. i \in 1..Len(stream') /\ buyer'[Order(i)'] = Buyer(i)'
        BY <1>3, <2>1 DEF Buyer, Order
    <2>3. handled' = handled \cup {i}
        BY <1>3 DEF TakesEffect
    <2> QED BY <1>1, <2>2, <2>3 DEF PersistedInv
<1>4. ASSUME NEW c \in Consumers, NEW i \in Ids, Handling(c, i), TakesEffect(i),
             LC!Persist(Buyer(i), Order(i))
      PROVE  PersistedInv'
    <2>1. buyer'[Order(i)] = Buyer(i)
        BY <1>0, <1>4, EntryInHand DEF LC!Persist, LC!InsertOrder
    <2> QED BY <1>3, <1>4, <2>1
<1>5. ASSUME NEW c \in Consumers, NEW i \in Ids, FindExisting(c, i) PROVE PersistedInv'
    <2>1. CASE Order(i) \in LC!OrdersOf(Buyer(i)) /\ TakesEffect(i)
        <3>1. buyer'[Order(i)] = Buyer(i) /\ Handling(c, i)
            BY <1>5, <2>1 DEF FindExisting, LC!OrdersOf, storeVars
        <3> QED BY <1>3, <2>1, <3>1
    <2>2. CASE UNCHANGED streamVars
        BY <1>2, <2>2 DEF streamVars
    <2> QED BY <1>5, <2>1, <2>2 DEF FindExisting
<1>6. ASSUME NEW c \in Consumers, OrderHandlerStep(c) PROVE PersistedInv'
    BY <1>2, <1>4, <1>5, <1>6
       DEF OrderHandlerStep, LockBusy, TryLock, Write, Unlock, HandlerThrows, HandlerReturns,
           streamVars
<1>7. ASSUME NEW c \in Consumers, NEW i \in Ids, TransactionRaises(c, i) PROVE PersistedInv'
    BY <1>2, <1>4, <1>7 DEF TransactionRaises, streamVars
<1>8. ASSUME NEW c \in Consumers, QueueStep(c) \/ QueueFault(c) \/ ProcessDies(c)
      PROVE  UNCHANGED handled
    BY <1>8 DEF QueueStep, QueueFault, ProcessDies, PollStep, TransitionStep, Start, ReadPage,
                Claim, EndPage, ReadNew, Deliver, EndRound, BeginStale, BeginExhausted, Begin,
                ReserveAttempt, Success, Failure, Crash, PollFails, ReadNewLost, BeginLost,
                TransitionLost
<1> QED BY <1>2, <1>6, <1>7, <1>8
        DEF Next, Admit, Produce, StoreStep, QueueTime, OperatorRedrives, Elapse, Overrun, Redrive,
            LockExpires, vars, streamVars

SaleInv == LP!LifecycleInv /\ QueueInv /\ PersistedInv

LEMMA SaleInvariant == Spec => []SaleInv
<1>1. Init => PersistedInv
    BY DEF Init, StreamInit, PersistedInv
<1> QED BY <1>1, StoresInvariant, QueueInvariant, PersistedStep, PTL DEF Spec, SaleInv

\* An acknowledged entry has its order in MySQL, or is in the dead letters, for
\* any number of copies, workers, expired locks and lost commits
\* (VoucherOrderServiceImpl.handleVoucherOrder, order-stream-transition.lua).
THEOREM HandledIsPersisted == Spec => []HandledMeansPersisted
<1>1. SaleInv => HandledMeansPersisted
    <2> SUFFICES ASSUME SaleInv, NEW i \in 1..Len(stream), i \notin handled, Settled(i)
                 PROVE  deadOf[i] # 0
        BY DEF SaleInv, PersistedInv, HandledMeansPersisted
    <2> QED BY Positions DEF SaleInv, QueueInv, LossInv, EvidenceInv, TypeInv, Settled
<1> QED BY <1>1, SaleInvariant, PTL
-----------------------------------------------------------------------------
(* What a buyer is told.                                                   *)

HandlerOK ==
    /\ lock \in [Users -> Consumers \cup {NoConsumer}]
    /\ tx \in [Consumers -> {"none", "locked", "absent", "done", "aborted"}]

LEMMA HandlerStepType == QueueInv /\ HandlerOK /\ [Next]_vars => HandlerOK'
<1> SUFFICES ASSUME QueueInv, HandlerOK, [Next]_vars PROVE HandlerOK'
    OBVIOUS
<1>1. CASE UNCHANGED handlerVars
    BY <1>1 DEF HandlerOK, handlerVars
<1>2. ASSUME NEW c \in Consumers, NEW i \in Ids,
             FindExisting(c, i) \/ Write(c, i) \/ TransactionRaises(c, i)
      PROVE  HandlerOK'
    BY <1>2 DEF FindExisting, Write, TransactionRaises, HandlerOK
<1>3. ASSUME NEW c \in Consumers, NEW i \in Ids, TryLock(c, i) \/ Unlock(c, i) PROVE HandlerOK'
    BY <1>3 DEF TryLock, Unlock, HandlerOK
<1>4. ASSUME NEW c \in Consumers, ProcessDies(c) PROVE HandlerOK'
    BY <1>4 DEF ProcessDies, HandlerOK
<1>5. ASSUME NEW u \in Users, LockExpires(u) PROVE HandlerOK'
    BY <1>5 DEF LockExpires, HandlerOK
<1>6. ASSUME NEW c \in Consumers, OrderHandlerStep(c) PROVE HandlerOK'
    BY <1>1, <1>2, <1>3, <1>6 DEF OrderHandlerStep, LockBusy
<1> QED BY <1>1, <1>2, <1>4, <1>5, <1>6
        DEF Next, Admit, StoreStep, QueueStep, QueueFault, QueueTime, OperatorRedrives, vars

LEMMA TypesAgree == LP!LifecycleTypeOK => LC!LifecycleTypeOK
BY DEF LP!LifecycleTypeOK, LC!LifecycleTypeOK

\* An accepted order that is not in MySQL is never NOT_FOUND while Redis keeps the
\* activity, and is called ACCEPTED only while an entry of the stream can still
\* persist it; otherwise its review is pending
\* (OrderLifecycleService.queryMine and failedAcceptance).
THEOREM BuyersAreToldTheTruth == Spec => []StatusIsHonest
<1>1. Init => HandlerOK
    BY DEF Init, HandlerOK
<1>2. Spec => []HandlerOK
    BY <1>1, HandlerStepType, QueueInvariant, PTL DEF Spec
<1>3. Spec => []AbandonedIsReviewable
    BY QueueIsKept, AbandonedIsFound, PTL DEF ImplementsOrderStream
<1>4. SaleInv /\ HandlerOK /\ AbandonedIsReviewable => StatusIsHonest
    <2> SUFFICES ASSUME SaleInv, HandlerOK, AbandonedIsReviewable
                 PROVE  StatusIsHonest
        OBVIOUS
    <2>1. TypeOK
        BY TypesAgree
           DEF SaleInv, QueueInv, TypeInv, LP!LifecycleInv, LP!TypeInv, HandlerOK, TypeOK
    <2>2. ASSUME activity = "live", NEW p \in appended, buyer[p[2]] = NoUser
          PROVE  /\ request[p[1]] = p[2]
                 /\ LiveEntries(p) = {} =>
                        orderDead[p] # 0 /\ dead[orderDead[p]].redrive = 0
                 /\ p = <<p[1], p[2]>>
        <3>1. PICK i \in 1..Len(stream) : p = stream[i]
            BY DEF appended
        <3>2. p \in Users \X Orders /\ p = <<p[1], p[2]>> /\ p[1] \in Users /\ p[2] \in Orders
            BY <3>1 DEF SaleInv, QueueInv, TypeInv, StreamTypeOK
        <3>3. request[p[1]] = p[2]
            BY <2>2, <3>2 DEF SaleInv, LP!LifecycleInv, LP!StoriesInv, LP!ActivityInv
        <3>4. ASSUME LiveEntries(p) = {}
              PROVE  orderDead[p] # 0 /\ dead[orderDead[p]].redrive = 0
            <4>1. \A j \in 1..Len(stream) : stream[j] = stream[i] => Settled(j) /\ j \notin handled
                BY <2>2, <3>1, <3>2, <3>4 DEF LiveEntries, SaleInv, PersistedInv, Buyer, Order
            <4>2. /\ orderDead[stream[i]] \in 1..Len(dead)
                  /\ dead[orderDead[stream[i]]].redrive = 0
                BY <4>1 DEF AbandonedIsReviewable
            <4> QED BY <3>1, <4>2
        <3> QED BY <3>2, <3>3, <3>4
    <2>3. ASSUME activity = "live", NEW p \in appended, buyer[p[2]] = NoUser
          PROVE  /\ AcceptanceStatus(p[1], p[2]) # "NOT_FOUND"
                 /\ AcceptanceStatus(p[1], p[2]) = "ACCEPTED" => LiveEntries(p) # {}
        <3>1. AcceptanceStatus(p[1], p[2]) =
                IF orderDead[p] # 0 /\ dead[orderDead[p]].redrive = 0
                THEN "REQUIRES_REVIEW" ELSE "ACCEPTED"
            BY <2>2, <2>3 DEF AcceptanceStatus
        <3> QED BY <2>2, <2>3, <3>1
    <2> QED BY <2>1, <2>3 DEF StatusIsHonest
<1> QED BY <1>2, <1>3, <1>4, SaleInvariant, PTL
=============================================================================
