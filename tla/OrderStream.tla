----------------------------- MODULE OrderStream -----------------------------
(***************************************************************************)
(* The Redis Stream "stream.orders", its consumer group "g1", the attempt  *)
(* hash, the dead-letter stream with its index, and the consumer processes *)
(* (OrderStreamConsumer over OrderStreamQueue).  Every Lua script is one   *)
(* atomic step; a consumer's Java code runs between them.                  *)
(*                                                                         *)
(* A stream ID is the position of the entry: IDs are issued in order and   *)
(* entries are never trimmed.  A dead-letter ID is likewise a position in  *)
(* dead.  The order handler is left open here (HandlerCommits,             *)
(* HandlerReturns, HandlerThrows); FlashSale gives it the database.        *)
(***************************************************************************)
EXTENDS Naturals, Sequences, FiniteSets

CONSTANTS
    Payloads,       \* order events: what seckill.lua appends
    Consumers,      \* consumer processes; a restarted process is a new one
    NoConsumer,     \* "not in the pending entries list"
    Reliable,       \* consumers that do not crash (liveness only)
    MaxAttempts,    \* campushub.order.max-attempts
    PageSize,       \* OrderStreamQueue.PAGE_SIZE
    MaxEntries,     \* bound: entries ever appended
    MaxFaults       \* bound: crashes, failed Redis calls and overruns

ASSUME StreamAssumption ==
    /\ NoConsumer \notin Consumers
    /\ Reliable \subseteq Consumers
    /\ MaxAttempts \in Nat \ {0}
    /\ PageSize \in Nat \ {0}
    /\ MaxEntries \in Nat
    /\ MaxFaults \in Nat

Ids == 1..MaxEntries

VARIABLES
    stream,         \* the entries of stream.orders
    delivered,      \* last-delivered-id of the group
    owner,          \* pending entries list: the owning consumer
    idle,           \* pending entries not delivered for claim-idle-ms
    attempts,       \* stream.orders.attempts
    dead,           \* stream.orders.dead, with stream.orders.redrives
    deadOf,         \* stream.orders.failures: source ID -> dead-letter ID
    orderDead,      \* stream.orders.failures: 'order:<id>' -> dead-letter ID
    pc,             \* where each consumer thread is
    page,           \* claims the thread still has to try
    after,          \* the cursor the thread stores when the page is done
    cursor,         \* pendingCursor
    batch,          \* records returned to consumeOnce, not yet finished
    fresh,          \* consumers whose batch came from readNew
    handled,        \* history: entries whose handler took effect
    faults          \* disturbances so far

streamKeys == <<stream, delivered, owner, idle, attempts, dead, deadOf, orderDead>>
workerVars == <<pc, page, after, cursor, batch, fresh>>
streamVars == <<streamKeys, workerVars, handled, faults>>

Pending == {i \in Ids : owner[i] # NoConsumer}
Settled(i) == i <= delivered /\ owner[i] = NoConsumer
IsFirst(i, S) == i \in S /\ \A j \in S : i <= j

\* XPENDING from an inclusive start: the first PageSize pending entries.
PendingPage(from) ==
    LET behind == {i \in Pending : i >= from}
    IN  {i \in behind : Cardinality({j \in behind : j < i}) < PageSize}

\* Mutant: the cursor never wraps to the start of the pending entries.
NextCursorOnward(next, entries) ==
    \/ entries = {} /\ next = MaxEntries + 1
    \/ next - 1 \in entries /\ \A j \in entries : j < next

\* A full page moves the cursor behind its last entry, a short one wraps.
NextCursor(next, entries) ==
    IF Cardinality(entries) < PageSize THEN next = 1
    ELSE next - 1 \in entries /\ \A j \in entries : j < next

InHand(i) == \E c \in Consumers : owner[i] = c /\ i \in batch[c] \cup page[c]

-----------------------------------------------------------------------------
StreamInit ==
    /\ stream = <<>>
    /\ delivered = 0
    /\ owner = [i \in Ids |-> NoConsumer]
    /\ idle = {}
    /\ attempts = [i \in Ids |-> 0]
    /\ dead = <<>>
    /\ deadOf = [i \in Ids |-> 0]
    /\ orderDead = [p \in Payloads |-> 0]
    /\ pc = [c \in Consumers |-> "new"]
    /\ page = [c \in Consumers |-> {}]
    /\ after = [c \in Consumers |-> 1]
    /\ cursor = [c \in Consumers |-> 1]
    /\ batch = [c \in Consumers |-> {}]
    /\ fresh = {}
    /\ handled = {}
    /\ faults = 0

Disturb == faults < MaxFaults /\ faults' = faults + 1

\* XADD of an accepted order; seckill.lua appends an order event once.
Produce(p) ==
    /\ Len(stream) < MaxEntries
    /\ \A i \in 1..Len(stream) : stream[i] # p
    /\ stream' = Append(stream, p)
    /\ UNCHANGED <<delivered, owner, idle, attempts, dead, deadOf, orderDead,
                   workerVars, handled, faults>>

\* The PostConstruct hook: the group exists from ID 0 on, then the loop runs.
Start(c) ==
    /\ pc[c] = "new"
    /\ pc' = [pc EXCEPT ![c] = "poll"]
    /\ UNCHANGED <<streamKeys, page, after, cursor, batch, fresh, handled, faults>>

\* recoverPending: one XPENDING page; entries idle long enough are claimed next.
ReadPage(c) ==
    /\ pc[c] = "poll"
    /\ pc' = [pc EXCEPT ![c] = "claim"]
    /\ page' = [page EXCEPT ![c] = PendingPage(cursor[c]) \cap idle]
    /\ \E next \in 1..(MaxEntries + 1) :
          /\ NextCursor(next, PendingPage(cursor[c]))
          /\ after' = [after EXCEPT ![c] = next]
    /\ UNCHANGED <<streamKeys, cursor, batch, fresh, handled, faults>>

\* XCLAIM of the next entry: Redis rechecks that it is pending and idle.
Claim(c, i) ==
    /\ pc[c] = "claim"
    /\ IsFirst(i, page[c])
    /\ page' = [page EXCEPT ![c] = @ \ {i}]
    /\ \/ /\ i \in Pending \cap idle
          /\ owner' = [owner EXCEPT ![i] = c]
          /\ idle' = idle \ {i}
          /\ batch' = [batch EXCEPT ![c] = @ \cup {i}]
       \/ /\ i \notin Pending \cap idle
          /\ UNCHANGED <<owner, idle, batch>>
    /\ UNCHANGED <<stream, delivered, attempts, dead, deadOf, orderDead,
                   pc, after, cursor, fresh, handled, faults>>

EndPage(c) ==
    /\ pc[c] = "claim"
    /\ page[c] = {}
    /\ pc' = [pc EXCEPT ![c] = "process"]
    /\ cursor' = [cursor EXCEPT ![c] = after[c]]
    /\ UNCHANGED <<streamKeys, page, after, batch, fresh, handled, faults>>

\* readNew once the recovered records are finished: the next undelivered entry.
Deliver(c) ==
    /\ pc[c] = "process" /\ batch[c] = {} /\ c \notin fresh
    /\ delivered < Len(stream)
    /\ delivered' = delivered + 1
    /\ owner' = [owner EXCEPT ![delivered + 1] = c]
    /\ UNCHANGED <<stream, idle, attempts, dead, deadOf, orderDead,
                   page, after, cursor, handled>>

ReadNew(c) ==
    /\ Deliver(c)
    /\ batch' = [batch EXCEPT ![c] = {delivered + 1}]
    /\ fresh' = fresh \cup {c}
    /\ UNCHANGED <<pc, faults>>

\* consumeOnce returns: nothing new arrived in two seconds, or it is done.
EndRound(c) ==
    /\ pc[c] = "process" /\ batch[c] = {}
    /\ c \in fresh \/ delivered = Len(stream)
    /\ pc' = [pc EXCEPT ![c] = "poll"]
    /\ fresh' = fresh \ {c}
    /\ UNCHANGED <<streamKeys, page, after, cursor, batch, handled, faults>>
-----------------------------------------------------------------------------
(* process: BEGIN, the handler, then SUCCESS or FAILURE.                   *)

Working(c, i) == pc[c] = "process" /\ IsFirst(i, batch[c])

\* The record is finished, whatever came of it.
Finish(c, i) ==
    /\ pc' = [pc EXCEPT ![c] = "process"]
    /\ batch' = [batch EXCEPT ![c] = @ \ {i}]
    /\ UNCHANGED <<page, after, cursor, fresh>>

BeginStale(c, i) ==
    /\ Working(c, i)
    /\ owner[i] # c
    /\ Finish(c, i)
    /\ UNCHANGED <<streamKeys, handled, faults>>

BeginExhausted(c, i) ==
    /\ Working(c, i)
    /\ owner[i] = c /\ attempts[i] >= MaxAttempts
    /\ pc' = [pc EXCEPT ![c] = "failed"]
    /\ UNCHANGED <<streamKeys, page, after, cursor, batch, fresh, handled, faults>>

\* HINCRBY of the attempt before any database work.
ReserveAttempt(c, i) ==
    /\ Working(c, i)
    /\ owner[i] = c /\ attempts[i] < MaxAttempts
    /\ attempts' = [attempts EXCEPT ![i] = @ + 1]
    /\ UNCHANGED <<stream, delivered, owner, idle, dead, deadOf, orderDead, handled>>

Begin(c, i) ==
    /\ ReserveAttempt(c, i)
    /\ pc' = [pc EXCEPT ![c] = "handling"]
    /\ UNCHANGED <<page, after, cursor, batch, fresh, faults>>

\* The handler's transaction commits, or finds the order already there.
HandlerCommits(c, i) ==
    /\ pc[c] = "handling" /\ IsFirst(i, batch[c])
    /\ i \notin handled
    /\ handled' = handled \cup {i}
    /\ UNCHANGED <<streamKeys, workerVars, faults>>

HandlerReturns(c, i) ==
    /\ pc[c] = "handling" /\ IsFirst(i, batch[c])
    /\ i \in handled
    /\ pc' = [pc EXCEPT ![c] = "handled"]
    /\ UNCHANGED <<streamKeys, page, after, cursor, batch, fresh, handled, faults>>

\* Mutant: the exception is swallowed, SUCCESS follows.
HandlerSwallows(c) ==
    /\ pc[c] = "handling"
    /\ pc' = [pc EXCEPT ![c] = "handled"]
    /\ UNCHANGED <<streamKeys, page, after, cursor, batch, fresh, handled, faults>>

\* Any exception: lock busy, conflict, no stock, a database failure.
HandlerThrows(c) ==
    /\ pc[c] = "handling"
    /\ pc' = [pc EXCEPT ![c] = "failed"]
    /\ UNCHANGED <<streamKeys, page, after, cursor, batch, fresh, handled, faults>>

\* Mutant: the attempt count is dropped before the owner is checked.
SuccessForgetsAttempts(c, i) ==
    /\ pc[c] = "handled" /\ IsFirst(i, batch[c])
    /\ Finish(c, i)
    /\ attempts' = [attempts EXCEPT ![i] = 0]
    /\ IF owner[i] = c THEN owner' = [owner EXCEPT ![i] = NoConsumer] ELSE UNCHANGED owner
    /\ UNCHANGED <<stream, delivered, idle, dead, deadOf, orderDead, handled, faults>>

\* SUCCESS: only the owner acknowledges; the attempt count is dropped.
Success(c, i) ==
    /\ pc[c] = "handled" /\ IsFirst(i, batch[c])
    /\ Finish(c, i)
    /\ \/ /\ owner[i] = c
          /\ owner' = [owner EXCEPT ![i] = NoConsumer]
          /\ idle' = idle \ {i}
          /\ attempts' = [attempts EXCEPT ![i] = 0]
       \/ /\ owner[i] # c
          /\ UNCHANGED <<owner, idle, attempts>>
    /\ UNCHANGED <<stream, delivered, dead, deadOf, orderDead, handled, faults>>

\* Mutant: the order index keeps the first dead letter of an order.
ArchiveIndexesOnce(i) ==
    /\ dead' = IF deadOf[i] = 0 THEN Append(dead, [source |-> i, redrive |-> 0]) ELSE dead
    /\ deadOf' = IF deadOf[i] = 0 THEN [deadOf EXCEPT ![i] = Len(dead) + 1] ELSE deadOf
    /\ orderDead' = [orderDead EXCEPT ![stream[i]] = IF @ = 0 THEN deadOf'[i] ELSE @]
    /\ owner' = [owner EXCEPT ![i] = NoConsumer]
    /\ idle' = idle \ {i}
    /\ attempts' = [attempts EXCEPT ![i] = 0]

\* The archived form of entry i: appended before the acknowledgement, indexed
\* by source ID and by order ID.
Archive(i) ==
    /\ dead' = IF deadOf[i] = 0 THEN Append(dead, [source |-> i, redrive |-> 0]) ELSE dead
    /\ deadOf' = IF deadOf[i] = 0 THEN [deadOf EXCEPT ![i] = Len(dead) + 1] ELSE deadOf
    /\ orderDead' = [orderDead EXCEPT ![stream[i]] = deadOf'[i]]
    /\ owner' = [owner EXCEPT ![i] = NoConsumer]
    /\ idle' = idle \ {i}
    /\ attempts' = [attempts EXCEPT ![i] = 0]

\* FAILURE: archive once the budget is spent, otherwise leave it pending.
Failure(c, i) ==
    /\ pc[c] = "failed" /\ IsFirst(i, batch[c])
    /\ Finish(c, i)
    /\ \/ owner[i] = c /\ attempts[i] >= MaxAttempts /\ Archive(i)
       \/ /\ owner[i] # c \/ attempts[i] < MaxAttempts
          /\ UNCHANGED <<dead, deadOf, orderDead, owner, idle, attempts>>
    /\ UNCHANGED <<stream, delivered, handled, faults>>
-----------------------------------------------------------------------------
\* Mutant: a dead letter can be redriven again.
RedriveAgain(d) ==
    /\ d \in 1..Len(dead)
    /\ Len(stream) < MaxEntries
    /\ stream' = Append(stream, stream[dead[d].source])
    /\ dead' = [dead EXCEPT ![d].redrive = Len(stream) + 1]
    /\ UNCHANGED <<delivered, owner, idle, attempts, deadOf, orderDead,
                   workerVars, handled, faults>>

\* redrive-order.lua: an operator appends the payload again, once per ID.
Redrive(d) ==
    /\ d \in 1..Len(dead)
    /\ dead[d].redrive = 0
    /\ Len(stream) < MaxEntries
    /\ stream' = Append(stream, stream[dead[d].source])
    /\ dead' = [dead EXCEPT ![d].redrive = Len(stream) + 1]
    /\ UNCHANGED <<delivered, owner, idle, attempts, deadOf, orderDead,
                   workerVars, handled, faults>>

\* Sixty seconds pass since the entry was last delivered.
Elapse(i) ==
    /\ i \in Pending \ idle
    /\ ~InHand(i)
    /\ idle' = idle \cup {i}
    /\ UNCHANGED <<stream, delivered, owner, attempts, dead, deadOf, orderDead,
                   workerVars, handled, faults>>

\* The same while its owner is alive and still has to finish it.
Overrun(i) ==
    /\ Disturb
    /\ i \in Pending \ idle
    /\ InHand(i)
    /\ idle' = idle \cup {i}
    /\ UNCHANGED <<stream, delivered, owner, attempts, dead, deadOf, orderDead,
                   workerVars, handled>>

\* The process dies or is stopped between two steps; nobody deletes its
\* consumer, so what it owned stays pending.
Crash(c) ==
    /\ Disturb
    /\ c \notin Reliable /\ pc[c] # "down"
    /\ pc' = [pc EXCEPT ![c] = "down"]
    /\ page' = [page EXCEPT ![c] = {}]
    /\ batch' = [batch EXCEPT ![c] = {}]
    /\ UNCHANGED <<streamKeys, after, cursor, fresh, handled>>

\* recoverPending raises: the round is abandoned, claims made so far included,
\* and the cursor stays where it was.
PollFails(c) ==
    /\ Disturb
    /\ pc[c] = "claim"
    /\ pc' = [pc EXCEPT ![c] = "poll"]
    /\ page' = [page EXCEPT ![c] = {}]
    /\ batch' = [batch EXCEPT ![c] = {}]
    /\ UNCHANGED <<streamKeys, after, cursor, fresh, handled>>

\* readNew raises after Redis delivered the entry: it is pending, not in hand.
ReadNewLost(c) ==
    /\ Disturb
    /\ Deliver(c)
    /\ pc' = [pc EXCEPT ![c] = "poll"]
    /\ UNCHANGED <<batch, fresh>>

\* BEGIN raises after the attempt was counted.
BeginLost(c, i) == Disturb /\ ReserveAttempt(c, i) /\ Finish(c, i)

\* A transition raises before Redis applied it; processSafely goes on.
TransitionLost(c, i) ==
    /\ Disturb
    /\ pc[c] \in {"process", "handled", "failed"} /\ IsFirst(i, batch[c])
    /\ Finish(c, i)
    /\ UNCHANGED <<streamKeys, handled>>
-----------------------------------------------------------------------------
\* What a consumer thread does by itself, faults excluded.
PollStep(c) ==
    \/ Start(c) \/ ReadPage(c) \/ EndPage(c) \/ ReadNew(c) \/ EndRound(c)
    \/ \E i \in Ids : Claim(c, i)

TransitionStep(c) ==
    \E i \in Ids : \/ BeginStale(c, i) \/ BeginExhausted(c, i) \/ Begin(c, i)
                   \/ Success(c, i) \/ Failure(c, i)

HandlerStep(c) ==
    \/ HandlerThrows(c)
    \/ \E i \in Ids : HandlerCommits(c, i) \/ HandlerReturns(c, i)

WorkerStep(c) == PollStep(c) \/ TransitionStep(c) \/ HandlerStep(c)

WorkerFault(c) ==
    \/ Crash(c) \/ PollFails(c) \/ ReadNewLost(c)
    \/ \E i \in Ids : BeginLost(c, i) \/ TransitionLost(c, i)

StreamNext ==
    \/ \E p \in Payloads : Produce(p)
    \/ \E c \in Consumers : WorkerStep(c) \/ WorkerFault(c)
    \/ \E i \in Ids : Redrive(i) \/ Elapse(i) \/ Overrun(i)

StreamSpec == StreamInit /\ [][StreamNext]_streamVars

\* The loop of a process that is up runs on, and time passes.  Nothing is
\* assumed of producers, operators, crashes or failed calls.
StreamFairness ==
    /\ \A c \in Consumers : WF_streamVars(WorkerStep(c))
    /\ \A i \in Ids : WF_streamVars(Elapse(i))

FairStreamSpec == StreamSpec /\ StreamFairness
-----------------------------------------------------------------------------
(* What the queue promises.                                                *)

\* Every variable keeps its type: stream positions stay inside the stream,
\* pending owners are consumers, thread states are those of the loop.
StreamTypeOK ==
    /\ stream \in Seq(Payloads) /\ Len(stream) <= MaxEntries
    /\ delivered \in 0..Len(stream)
    /\ owner \in [Ids -> Consumers \cup {NoConsumer}]
    /\ idle \subseteq Ids
    /\ attempts \in [Ids -> 0..MaxAttempts]
    /\ dead \in Seq([source : Ids, redrive : 0..MaxEntries])
    /\ deadOf \in [Ids -> Nat]
    /\ orderDead \in [Payloads -> Nat]
    /\ pc \in [Consumers -> {"new", "poll", "claim", "process", "handling",
                             "handled", "failed", "down"}]
    /\ page \in [Consumers -> SUBSET Ids]
    /\ after \in [Consumers -> Nat]
    /\ cursor \in [Consumers -> Nat]
    /\ batch \in [Consumers -> SUBSET Ids]
    /\ fresh \subseteq Consumers
    /\ handled \subseteq Ids
    /\ faults \in 0..MaxFaults

\* An accepted order event leaves the pending list only when its handler took
\* effect or its evidence is in the dead-letter stream, whatever crashes, stale
\* workers and lost replies come in between (order-stream-transition.lua).
NoEventLost ==
    \A i \in 1..delivered : owner[i] = NoConsumer =>
        \/ i \in handled
        \/ /\ deadOf[i] \in 1..Len(dead)
           /\ dead[deadOf[i]].source = i

\* Archiving and redriving never leave two live copies of one order event: an
\* order is retried through one entry at a time, however often it is archived.
OneLiveEntryPerOrder ==
    \A i, j \in 1..Len(stream) :
        stream[i] = stream[j] /\ ~Settled(i) /\ ~Settled(j) => i = j

\* An order nobody will process any more and whose handler never took effect
\* is reported as REQUIRES_REVIEW: its 'order:' index leads to a dead letter
\* not redriven yet.  (OrderLifecycleService.failedAcceptance reads the index.)
AbandonedIsReviewable ==
    \A i \in 1..Len(stream) :
        LET copies == {j \in 1..Len(stream) : stream[j] = stream[i]}
        IN  (\A j \in copies : Settled(j) /\ j \notin handled) =>
                /\ orderDead[stream[i]] \in 1..Len(dead)
                /\ dead[orderDead[stream[i]]].redrive = 0
                /\ dead[orderDead[stream[i]]].source \in copies

\* The budget counts executions, crashed and stale ones included: a handler
\* starts only on an unsettled entry and by spending one attempt, attempts are
\* not given back while the entry is unsettled, and settling is final.
KeepsBudget ==
    /\ \A i \in Ids : Settled(i) => Settled(i)'
    /\ \A i \in Ids : ~Settled(i)' => attempts'[i] >= attempts[i]
    /\ \A c \in Consumers : pc[c] # "handling" /\ pc'[c] = "handling" =>
          \E i \in Ids : /\ IsFirst(i, batch[c]) /\ ~Settled(i)
                         /\ attempts'[i] = attempts[i] + 1

\* No step of anybody breaks the retry budget as KeepsBudget states it.
BudgetCountsEveryRun == [][KeepsBudget]_streamVars

\* Every event is finally acknowledged or archived while one process stays up,
\* even behind entries that keep failing or belong to crashed processes.
EveryEventSettles == \A i \in Ids : i <= Len(stream) ~> Settled(i)
=============================================================================
