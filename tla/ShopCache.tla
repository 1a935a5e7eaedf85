------------------------------- MODULE ShopCache -------------------------------
(***************************************************************************)
(* The cached copy of one shop (CacheClient and its four Lua scripts), the *)
(* shop's row, and the outbox from which ShopCacheInvalidationService      *)
(* repeats invalidations.  A shop's contents are its version: 0 while it   *)
(* does not exist (cached as "empty"), one more with every write.          *)
(*                                                                         *)
(* Epochs are fresh UUIDs and are numbered here in the order they are set; *)
(* a generation of the outbox is named after the version it was written    *)
(* with; a lease token is named after its reader.                          *)
(***************************************************************************)
EXTENDS Integers

CONSTANTS
    Readers,        \* threads in queryShop
    Workers,        \* recoverPending, one per process
    NoReader,       \* "nobody holds the lease"
    MaxWrites,      \* bound: versions of the shop
    MaxFaults       \* bound: calls that fail and processes that die

ASSUME ShopCacheAssumption ==
    /\ NoReader \notin Readers
    /\ MaxWrites \in Nat
    /\ MaxFaults \in Nat

VARIABLES
    row,            \* the committed shop
    outbox,         \* generation waiting in tb_shop_cache_invalidation, or 0
    calls,          \* afterCommit callbacks still to run
    epoch, data,    \* cache:shop:epoch and cache:shop:v2 of the shop
    lease,          \* lock:shop:v2
    at, snap, val,  \* a reader: where it is, the epoch it saw, what it loaded
                    \* or, when idle, was answered last
    job,            \* a worker: where it is and the generation it works on
    faults,
    fenced,         \* history: the version committed when epoch was last set
    seen,           \* history: the highest version any reader was answered
    floor           \* history: what a reader must not fall behind

redis == <<epoch, data, lease>>
reader == <<at, snap, val, floor>>
vars == <<row, outbox, calls, redis, reader, job, faults, fenced, seen>>

Idle == [at |-> "idle", gen |-> 0]
NoData == [epoch |-> -1, value |-> 0]

\* read: an entry of another epoch is no entry.
Visible == data.epoch = epoch

Latest(a, b) == IF a >= b THEN a ELSE b

Init ==
    /\ row = 0 /\ outbox = 0 /\ calls = 0
    /\ epoch = 0 /\ data = NoData /\ lease = NoReader
    /\ at = [r \in Readers |-> "idle"]
    /\ snap = [r \in Readers |-> 0]
    /\ val = [r \in Readers |-> 0]
    /\ job = [w \in Workers |-> Idle]
    /\ faults = 0
    /\ fenced = 0 /\ seen = 0
    /\ floor = [r \in Readers |-> 0]

Disturb == faults < MaxFaults /\ faults' = faults + 1
-----------------------------------------------------------------------------
(* CacheClient.queryShop                                                   *)

Go(r, where) == at' = [at EXCEPT ![r] = where]

\* queryShop gives up: 503, no answer.
GiveUp(r) ==
    /\ Go(r, "idle")
    /\ floor' = [floor EXCEPT ![r] = 0]
    /\ val' = [val EXCEPT ![r] = 0]

\* The reader returns the visible entry, now or after its finally block.
Answer(r, where) ==
    /\ Visible
    /\ val' = [val EXCEPT ![r] = data.value]
    /\ seen' = Latest(seen, data.value)
    /\ Go(r, where)

FirstRead(r) ==
    /\ at[r] = "idle"
    /\ floor' = [floor EXCEPT ![r] = Latest(fenced, seen)]
    /\ \/ Answer(r, "idle")
       \/ /\ ~Visible
          /\ Go(r, "missed")
          /\ val' = [val EXCEPT ![r] = 0]
          /\ UNCHANGED seen
    /\ UNCHANGED <<row, outbox, calls, redis, snap, job, faults, fenced>>

\* SET NX with a fresh token.
TryLease(r) ==
    /\ at[r] = "missed"
    /\ \/ lease = NoReader /\ lease' = r /\ Go(r, "leased")
       \/ lease # NoReader /\ Go(r, "waiting") /\ UNCHANGED lease
    /\ UNCHANGED <<row, outbox, calls, epoch, data, snap, val, floor, job, faults,
                   fenced, seen>>

Recheck(r) ==
    /\ at[r] = "leased"
    /\ \/ Answer(r, "done") /\ UNCHANGED snap
       \/ /\ ~Visible
          /\ snap' = [snap EXCEPT ![r] = epoch]
          /\ Go(r, "checked")
          /\ UNCHANGED <<val, seen>>
    /\ UNCHANGED <<row, outbox, calls, redis, floor, job, faults, fenced>>

\* loader.apply: a SELECT outside any transaction.
Load(r) ==
    /\ at[r] = "checked"
    /\ val' = [val EXCEPT ![r] = row]
    /\ Go(r, "loaded")
    /\ UNCHANGED <<row, outbox, calls, redis, snap, floor, job, faults, fenced, seen>>

\* Mutant: the epoch alone fences, a lost lease does not.
PublishesWithoutLease(r) == snap[r] = epoch

\* shop-cache-publish.lua: both the lease and the epoch fence an old load.
CanPublish(r) == lease = r /\ snap[r] = epoch

Store(r) == data' = [epoch |-> snap[r], value |-> val[r]]

Publish(r) ==
    /\ at[r] = "loaded"
    /\ \/ /\ CanPublish(r)
          /\ Store(r)
          /\ seen' = Latest(seen, val[r])
          /\ Go(r, "done")
          /\ UNCHANGED val
       \/ /\ ~CanPublish(r)
          /\ Go(r, "rejected")
          /\ val' = [val EXCEPT ![r] = 0]
          /\ UNCHANGED <<data, seen>>
    /\ snap' = [snap EXCEPT ![r] = 0]
    /\ UNCHANGED <<row, outbox, calls, epoch, lease, floor, job, faults, fenced>>

\* The finally block deletes the lease if it still is this reader's; a failed
\* call is ignored.
Release(r) ==
    /\ at[r] \in {"done", "rejected", "failed"}
    /\ lease' \in IF lease = r THEN {lease, NoReader} ELSE {lease}
    /\ \/ at[r] = "done" /\ Go(r, "idle") /\ UNCHANGED <<val, floor>>
       \/ at[r] = "rejected" /\ Go(r, "waiting") /\ UNCHANGED <<val, floor>>
       \/ at[r] = "failed" /\ GiveUp(r)
    /\ UNCHANGED <<row, outbox, calls, epoch, data, snap, job, faults, fenced, seen>>

\* After the pause: read again, loop, or give up after 250 ms.
Reread(r) ==
    /\ at[r] = "waiting"
    /\ \/ Answer(r, "idle") /\ UNCHANGED floor
       \/ ~Visible /\ Go(r, "missed") /\ UNCHANGED <<val, floor, seen>>
       \/ ~Visible /\ GiveUp(r) /\ UNCHANGED seen
    /\ UNCHANGED <<row, outbox, calls, redis, snap, job, faults, fenced>>

\* Redis or the loader raises; a publication may have happened all the same.
ReaderFails(r) ==
    /\ \/ /\ at[r] \in {"leased", "checked", "loaded"}
          /\ \/ UNCHANGED data
             \/ at[r] = "loaded" /\ CanPublish(r) /\ Store(r)
          /\ snap' = [snap EXCEPT ![r] = 0]
          /\ val' = [val EXCEPT ![r] = 0]
          /\ Go(r, "failed")
          /\ UNCHANGED floor
       \/ /\ at[r] \in {"missed", "waiting"}
          /\ GiveUp(r)
          /\ UNCHANGED <<data, snap>>
    /\ UNCHANGED <<row, outbox, calls, epoch, lease, job, faults, fenced, seen>>

LeaseExpires ==
    /\ lease' = NoReader /\ lease # NoReader
    /\ UNCHANGED <<row, outbox, calls, epoch, data, reader, job, faults, fenced, seen>>

DataExpires ==
    /\ data' = NoData /\ data # NoData
    /\ UNCHANGED <<row, outbox, calls, epoch, lease, reader, job, faults, fenced, seen>>
-----------------------------------------------------------------------------
(* createShop, updateShop and ShopCacheInvalidationService.                *)

\* One transaction: the row and its generation in the outbox.
Write ==
    /\ row < MaxWrites
    /\ row' = row + 1
    /\ outbox' = row + 1
    /\ calls' = calls + 1
    /\ UNCHANGED <<redis, reader, job, faults, fenced, seen>>

\* shop-cache-invalidate.lua: the epoch first, then the entry.
Invalidate ==
    /\ epoch' = epoch + 1
    /\ data' = NoData
    /\ fenced' = row

\* A call that raised: not executed, executed, or stopped before the DEL.
InvalidateFails ==
    \/ UNCHANGED <<epoch, data, fenced>>
    \/ Invalidate
    \/ epoch' = epoch + 1 /\ fenced' = row /\ UNCHANGED data

\* afterCommit; a failure is logged, and a crash before it looks the same.
AfterCommit ==
    /\ calls > 0
    /\ calls' = calls - 1
    /\ \/ Invalidate /\ UNCHANGED faults
       \/ Disturb /\ InvalidateFails
    /\ UNCHANGED <<row, outbox, lease, reader, job, seen>>

Pick(w) ==
    /\ job[w].at = "idle" /\ outbox # 0
    /\ job' = [job EXCEPT ![w] = [at |-> "picked", gen |-> outbox]]
    /\ UNCHANGED <<row, outbox, calls, redis, reader, faults, fenced, seen>>

\* failed() only counts, it keeps the entry; a dying worker leaves it as well.
Recover(w) ==
    /\ job[w].at = "picked"
    /\ \/ Invalidate /\ job' = [job EXCEPT ![w].at = "invalidated"] /\ UNCHANGED faults
       \/ Disturb /\ InvalidateFails /\ job' = [job EXCEPT ![w] = Idle]
    /\ UNCHANGED <<row, outbox, calls, lease, reader, seen>>

\* Mutant: DELETE by shop alone.
CompletesAny(w) == TRUE

\* DELETE of the generation the worker read, not of a newer one.
Completes(w) == outbox = job[w].gen

Complete(w) ==
    /\ job[w].at = "invalidated"
    /\ \/ /\ outbox' = IF Completes(w) THEN 0 ELSE outbox
          /\ UNCHANGED faults
       \/ Disturb /\ UNCHANGED outbox
    /\ job' = [job EXCEPT ![w] = Idle]
    /\ UNCHANGED <<row, calls, redis, reader, fenced, seen>>
-----------------------------------------------------------------------------
ReaderStep(r) ==
    \/ FirstRead(r) \/ TryLease(r) \/ Recheck(r) \/ Load(r) \/ Publish(r)
    \/ Release(r) \/ Reread(r) \/ ReaderFails(r)

WorkerStep(w) == Pick(w) \/ Recover(w) \/ Complete(w)

Next ==
    \/ \E r \in Readers : ReaderStep(r)
    \/ LeaseExpires \/ DataExpires
    \/ Write \/ AfterCommit
    \/ \E w \in Workers : WorkerStep(w)

Spec == Init /\ [][Next]_vars

\* The scheduled recovery runs every five seconds.  Nothing is assumed of
\* readers, callbacks or expiries.
FairSpec == Spec /\ \A w \in Workers : WF_vars(WorkerStep(w))
-----------------------------------------------------------------------------
\* Every variable keeps its type.
TypeOK ==
    /\ row \in 0..MaxWrites
    /\ outbox \in 0..MaxWrites
    /\ calls \in Nat
    /\ epoch \in Nat
    /\ data \in [epoch : Int, value : Nat]
    /\ lease \in Readers \cup {NoReader}
    /\ at \in [Readers -> {"idle", "missed", "leased", "checked", "loaded", "done",
                           "rejected", "failed", "waiting"}]
    /\ snap \in [Readers -> Nat]
    /\ val \in [Readers -> Nat]
    /\ job \in [Workers -> [at : {"idle", "picked", "invalidated"}, gen : Nat]]
    /\ faults \in 0..MaxFaults
    /\ fenced \in Nat /\ seen \in Nat
    /\ floor \in [Readers -> Nat]

\* Readers never see time go back: an answer is at least as new as every write
\* invalidated, and as every version anybody was answered, before the read
\* began, whatever slow loaders, lost leases and failed calls come in between.
AnswersNeverGoBack ==
    \A r \in Readers : at[r] \in {"done", "idle"} => val[r] >= floor[r]

\* An entry behind the row can be served only while its invalidation still waits in the
\* outbox: an old worker or an old loader never makes it permanent.
StaleOnlyWhilePending == Visible /\ data.value # row => outbox # 0

\* When the writes end, the cache finally agrees with the row for good, even if
\* no entry ever expires and every afterCommit callback is lost.
CacheConverges == <>[](Visible => data.value = row)
=============================================================================
