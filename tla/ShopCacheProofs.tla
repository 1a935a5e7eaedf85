---------------------------- MODULE ShopCacheProofs ----------------------------
(***************************************************************************)
(* What holds of the shop cache for every number of readers, recovery      *)
(* workers, writes and failed calls.                                       *)
(*                                                                         *)
(* The argument: whatever is visible is at least as new as the version     *)
(* fenced when the epoch was set (an old load carries an old epoch), and   *)
(* at least as new as anything answered (the lease keeps a second load of  *)
(* the same epoch out).  Both bounds only grow, and they include the       *)
(* reader's own.  The outbox is emptied only by a worker that fenced the   *)
(* very generation it removes.                                             *)
(***************************************************************************)
EXTENDS ShopCache, TLAPS

\* The outbox and the workers: nothing pending means the row is fenced.
OutboxInv ==
    /\ fenced <= row
    /\ outbox \in {0, row}
    /\ outbox = 0 => fenced = row
    /\ \A w \in Workers :
         /\ job[w].gen <= row
         /\ job[w].at = "invalidated" /\ job[w].gen = row => fenced = row

\* What readers can see: not before the fence, nor behind an earlier answer.
EntryInv ==
    /\ seen <= row
    /\ data.epoch <= epoch
    /\ Visible => /\ fenced <= data.value
                  /\ seen <= data.value
                  /\ data.value <= row

\* A load the epoch still admits is not behind the fence; if its reader also
\* holds the lease, nothing has been published or answered since it looked.
LoadsInv ==
    \A r \in Readers :
        /\ snap[r] <= epoch
        /\ at[r] = "loaded" => val[r] <= row
        /\ at[r] = "loaded" /\ snap[r] = epoch => fenced <= val[r]
        /\ at[r] \in {"checked", "loaded"} /\ CanPublish(r) => ~Visible
        /\ at[r] = "loaded" /\ CanPublish(r) => seen <= val[r]

\* A reader's own bound is one of the two that hold for everybody.
FloorInv == \A r \in Readers : floor[r] <= fenced \/ floor[r] <= seen

CacheInv ==
    /\ TypeOK
    /\ OutboxInv
    /\ EntryInv
    /\ LoadsInv
    /\ FloorInv
    /\ AnswersNeverGoBack
-----------------------------------------------------------------------------
USE ShopCacheAssumption DEF ShopCacheAssumption

LEMMA CacheInit == Init => CacheInv
  BY DEF Init, CacheInv, TypeOK, OutboxInv, EntryInv, LoadsInv, FloorInv,
         AnswersNeverGoBack, Visible, NoData, Idle

\* Steps of readers leave the row, the outbox and the workers alone.
LEMMA ReaderKeepsOutbox ==
    ASSUME CacheInv, NEW r \in Readers, ReaderStep(r)
    PROVE  OutboxInv'
  BY DEF CacheInv, OutboxInv, ReaderStep, FirstRead, TryLease, Recheck, Load, Publish,
         Release, Reread, ReaderFails

LEMMA FirstReadKeeps ==
    ASSUME CacheInv, NEW r \in Readers, FirstRead(r)
    PROVE  CacheInv'
<1> USE DEF CacheInv, FirstRead, Answer, Go, redis
<1>1. TypeOK'
  BY DEF TypeOK, Latest, Visible
<1>2. OutboxInv'
  BY ReaderKeepsOutbox DEF ReaderStep
<1>3. EntryInv'
  BY DEF TypeOK, EntryInv, LoadsInv, Visible, Latest
<1>4. LoadsInv'
  BY DEF TypeOK, EntryInv, LoadsInv, Visible, Latest, CanPublish
<1>5. FloorInv'
  BY DEF TypeOK, FloorInv, EntryInv, Visible, Latest
<1>6. AnswersNeverGoBack'
  BY DEF TypeOK, AnswersNeverGoBack, FloorInv, EntryInv, LoadsInv, Visible, Latest
<1> QED BY <1>1, <1>2, <1>3, <1>4, <1>5, <1>6

LEMMA TryLeaseKeeps ==
    ASSUME CacheInv, NEW r \in Readers, TryLease(r)
    PROVE  CacheInv'
<1> USE DEF CacheInv, TryLease, Go, redis
<1>1. TypeOK'
  BY DEF TypeOK, Latest, Visible
<1>2. OutboxInv'
  BY ReaderKeepsOutbox DEF ReaderStep
<1>3. EntryInv'
  BY DEF TypeOK, EntryInv, LoadsInv, Visible, Latest
<1>4. LoadsInv'
  BY DEF TypeOK, EntryInv, LoadsInv, Visible, Latest, CanPublish
<1>5. FloorInv'
  BY DEF TypeOK, FloorInv, EntryInv, Visible, Latest
<1>6. AnswersNeverGoBack'
  BY DEF TypeOK, AnswersNeverGoBack, FloorInv, EntryInv, LoadsInv, Visible, Latest
<1> QED BY <1>1, <1>2, <1>3, <1>4, <1>5, <1>6

LEMMA RecheckKeeps ==
    ASSUME CacheInv, NEW r \in Readers, Recheck(r)
    PROVE  CacheInv'
<1> USE DEF CacheInv, Recheck, Answer, Go, redis
<1>1. TypeOK'
  BY DEF TypeOK, Latest, Visible
<1>2. OutboxInv'
  BY ReaderKeepsOutbox DEF ReaderStep
<1>3. EntryInv'
  BY DEF TypeOK, EntryInv, LoadsInv, Visible, Latest
<1>4. LoadsInv'
  BY DEF TypeOK, EntryInv, LoadsInv, Visible, Latest, CanPublish
<1>5. FloorInv'
  BY DEF TypeOK, FloorInv, EntryInv, Visible, Latest
<1>6. AnswersNeverGoBack'
  BY DEF TypeOK, AnswersNeverGoBack, FloorInv, EntryInv, LoadsInv, Visible, Latest
<1> QED BY <1>1, <1>2, <1>3, <1>4, <1>5, <1>6

LEMMA LoadKeeps ==
    ASSUME CacheInv, NEW r \in Readers, Load(r)
    PROVE  CacheInv'
<1> USE DEF CacheInv, Load, Go, redis
<1>1. TypeOK'
  BY DEF TypeOK, Latest, Visible
<1>2. OutboxInv'
  BY ReaderKeepsOutbox DEF ReaderStep
<1>3. EntryInv'
  BY DEF TypeOK, EntryInv, LoadsInv, Visible, Latest
<1>4. LoadsInv'
  BY DEF TypeOK, OutboxInv, EntryInv, LoadsInv, Visible, CanPublish
<1>5. FloorInv'
  BY DEF TypeOK, FloorInv, EntryInv, Visible, Latest
<1>6. AnswersNeverGoBack'
  BY DEF TypeOK, AnswersNeverGoBack, FloorInv, EntryInv, LoadsInv, Visible, Latest
<1> QED BY <1>1, <1>2, <1>3, <1>4, <1>5, <1>6

LEMMA PublishKeeps ==
    ASSUME CacheInv, NEW r \in Readers, Publish(r)
    PROVE  CacheInv'
<1> USE DEF CacheInv, Publish, CanPublish, Store, Go, redis
<1>1. TypeOK'
  BY DEF TypeOK, Latest, Visible
<1>2. OutboxInv'
  BY ReaderKeepsOutbox DEF ReaderStep
<1>3. EntryInv'
  BY DEF TypeOK, EntryInv, LoadsInv, Visible, Latest
<1>4. LoadsInv'
  <2> SUFFICES ASSUME NEW q \in Readers
               PROVE  /\ snap'[q] <= epoch'
                      /\ at'[q] = "loaded" => /\ val'[q] <= row'
                                              /\ snap'[q] = epoch' => fenced' <= val'[q]
                      /\ at'[q] \in {"checked", "loaded"} /\ CanPublish(q)' => ~Visible'
                      /\ at'[q] = "loaded" /\ CanPublish(q)' => seen' <= val'[q]
    BY DEF LoadsInv
  <2>1. CASE q = r
    BY <2>1 DEF TypeOK
  <2>2. CASE q # r
    <3>1. /\ at'[q] = at[q] /\ snap'[q] = snap[q] /\ val'[q] = val[q]
          /\ epoch' = epoch /\ row' = row /\ fenced' = fenced /\ lease' = lease
      BY <2>2 DEF TypeOK
    <3>2. CASE CanPublish(r)
      BY <2>2, <3>1, <3>2 DEF LoadsInv
    <3>3. CASE ~CanPublish(r)
      BY <3>1, <3>3 DEF LoadsInv, Visible
    <3> QED BY <3>2, <3>3
  <2> QED BY <2>1, <2>2
<1>5. FloorInv'
  BY DEF TypeOK, FloorInv, EntryInv, Visible, Latest
<1>6. AnswersNeverGoBack'
  BY DEF TypeOK, AnswersNeverGoBack, FloorInv, EntryInv, LoadsInv, Visible, Latest
<1> QED BY <1>1, <1>2, <1>3, <1>4, <1>5, <1>6

LEMMA ReleaseKeeps ==
    ASSUME CacheInv, NEW r \in Readers, Release(r)
    PROVE  CacheInv'
<1> USE DEF CacheInv, Release, GiveUp, Go, redis
<1>1. TypeOK'
  BY DEF TypeOK, Latest, Visible
<1>2. OutboxInv'
  BY ReaderKeepsOutbox DEF ReaderStep
<1>3. EntryInv'
  BY DEF TypeOK, EntryInv, LoadsInv, Visible, Latest
<1>4. LoadsInv'
  BY DEF TypeOK, EntryInv, LoadsInv, Visible, Latest, CanPublish
<1>5. FloorInv'
  BY DEF TypeOK, FloorInv, EntryInv, Visible, Latest
<1>6. AnswersNeverGoBack'
  BY DEF TypeOK, AnswersNeverGoBack, FloorInv, EntryInv, LoadsInv, Visible, Latest
<1> QED BY <1>1, <1>2, <1>3, <1>4, <1>5, <1>6

LEMMA RereadKeeps ==
    ASSUME CacheInv, NEW r \in Readers, Reread(r)
    PROVE  CacheInv'
<1> USE DEF CacheInv, Reread, Answer, GiveUp, Go, redis
<1>1. TypeOK'
  BY DEF TypeOK, Latest, Visible
<1>2. OutboxInv'
  BY ReaderKeepsOutbox DEF ReaderStep
<1>3. EntryInv'
  BY DEF TypeOK, EntryInv, LoadsInv, Visible, Latest
<1>4. LoadsInv'
  BY DEF TypeOK, EntryInv, LoadsInv, Visible, Latest, CanPublish
<1>5. FloorInv'
  BY DEF TypeOK, FloorInv, EntryInv, Visible, Latest
<1>6. AnswersNeverGoBack'
  BY DEF TypeOK, AnswersNeverGoBack, FloorInv, EntryInv, LoadsInv, Visible, Latest
<1> QED BY <1>1, <1>2, <1>3, <1>4, <1>5, <1>6

LEMMA ReaderFailsKeeps ==
    ASSUME CacheInv, NEW r \in Readers, ReaderFails(r)
    PROVE  CacheInv'
<1> USE DEF CacheInv, ReaderFails, CanPublish, Store, GiveUp, Go, redis
<1>1. TypeOK'
  BY DEF TypeOK, Latest, Visible
<1>2. OutboxInv'
  BY ReaderKeepsOutbox DEF ReaderStep
<1>3. EntryInv'
  BY DEF TypeOK, EntryInv, LoadsInv, Visible, Latest
<1>4. LoadsInv'
  BY DEF TypeOK, EntryInv, LoadsInv, Visible, Latest, CanPublish
<1>5. FloorInv'
  BY DEF TypeOK, FloorInv, EntryInv, Visible, Latest
<1>6. AnswersNeverGoBack'
  BY DEF TypeOK, AnswersNeverGoBack, FloorInv, EntryInv, LoadsInv, Visible, Latest
<1> QED BY <1>1, <1>2, <1>3, <1>4, <1>5, <1>6

LEMMA LeaseExpiresKeeps ==
    ASSUME CacheInv, LeaseExpires
    PROVE  CacheInv'
<1> USE DEF CacheInv, LeaseExpires, redis, reader
<1>1. TypeOK'
  BY DEF TypeOK
<1>2. OutboxInv'
  BY DEF TypeOK, OutboxInv
<1>3. EntryInv'
  BY DEF TypeOK, OutboxInv, EntryInv, Visible
<1>4. LoadsInv'
  BY DEF TypeOK, EntryInv, LoadsInv, Visible, CanPublish
<1>5. FloorInv'
  BY DEF TypeOK, OutboxInv, FloorInv
<1>6. AnswersNeverGoBack'
  BY DEF AnswersNeverGoBack
<1> QED BY <1>1, <1>2, <1>3, <1>4, <1>5, <1>6

LEMMA DataExpiresKeeps ==
    ASSUME CacheInv, DataExpires
    PROVE  CacheInv'
<1> USE DEF CacheInv, DataExpires, NoData, redis, reader
<1>1. TypeOK'
  BY DEF TypeOK
<1>2. OutboxInv'
  BY DEF TypeOK, OutboxInv
<1>3. EntryInv'
  BY DEF TypeOK, OutboxInv, EntryInv, Visible
<1>4. LoadsInv'
  BY DEF TypeOK, EntryInv, LoadsInv, Visible, CanPublish
<1>5. FloorInv'
  BY DEF TypeOK, OutboxInv, FloorInv
<1>6. AnswersNeverGoBack'
  BY DEF AnswersNeverGoBack
<1> QED BY <1>1, <1>2, <1>3, <1>4, <1>5, <1>6

LEMMA WriteKeeps ==
    ASSUME CacheInv, Write
    PROVE  CacheInv'
<1> USE DEF CacheInv, Write, redis, reader
<1>1. TypeOK'
  BY DEF TypeOK
<1>2. OutboxInv'
  BY DEF TypeOK, OutboxInv
<1>3. EntryInv'
  BY DEF TypeOK, OutboxInv, EntryInv, Visible
<1>4. LoadsInv'
  BY DEF TypeOK, EntryInv, LoadsInv, Visible, CanPublish
<1>5. FloorInv'
  BY DEF TypeOK, OutboxInv, FloorInv
<1>6. AnswersNeverGoBack'
  BY DEF AnswersNeverGoBack
<1> QED BY <1>1, <1>2, <1>3, <1>4, <1>5, <1>6

LEMMA AfterCommitKeeps ==
    ASSUME CacheInv, AfterCommit
    PROVE  CacheInv'
<1> USE DEF CacheInv, AfterCommit, Invalidate, InvalidateFails, Disturb, NoData, redis, reader
<1>1. TypeOK'
  BY DEF TypeOK
<1>2. OutboxInv'
  BY DEF TypeOK, OutboxInv
<1>3. EntryInv'
  BY DEF TypeOK, OutboxInv, EntryInv, Visible
<1>4. LoadsInv'
  BY DEF TypeOK, EntryInv, LoadsInv, Visible, CanPublish
<1>5. FloorInv'
  BY DEF TypeOK, OutboxInv, FloorInv
<1>6. AnswersNeverGoBack'
  BY DEF AnswersNeverGoBack
<1> QED BY <1>1, <1>2, <1>3, <1>4, <1>5, <1>6

LEMMA PickKeeps ==
    ASSUME CacheInv, NEW w \in Workers, Pick(w)
    PROVE  CacheInv'
<1> USE DEF CacheInv, Pick, redis, reader
<1>1. TypeOK'
  BY DEF TypeOK
<1>2. OutboxInv'
  BY DEF TypeOK, OutboxInv
<1>3. EntryInv'
  BY DEF TypeOK, OutboxInv, EntryInv, Visible
<1>4. LoadsInv'
  BY DEF TypeOK, EntryInv, LoadsInv, Visible, CanPublish
<1>5. FloorInv'
  BY DEF TypeOK, OutboxInv, FloorInv
<1>6. AnswersNeverGoBack'
  BY DEF AnswersNeverGoBack
<1> QED BY <1>1, <1>2, <1>3, <1>4, <1>5, <1>6

LEMMA RecoverKeeps ==
    ASSUME CacheInv, NEW w \in Workers, Recover(w)
    PROVE  CacheInv'
<1> USE DEF CacheInv, Recover, Invalidate, InvalidateFails, Disturb, NoData, Idle, redis, reader
<1>1. TypeOK'
  BY DEF TypeOK
<1>2. OutboxInv'
  BY DEF TypeOK, OutboxInv
<1>3. EntryInv'
  BY DEF TypeOK, OutboxInv, EntryInv, Visible
<1>4. LoadsInv'
  BY DEF TypeOK, EntryInv, LoadsInv, Visible, CanPublish
<1>5. FloorInv'
  BY DEF TypeOK, OutboxInv, FloorInv
<1>6. AnswersNeverGoBack'
  BY DEF AnswersNeverGoBack
<1> QED BY <1>1, <1>2, <1>3, <1>4, <1>5, <1>6

LEMMA CompleteKeeps ==
    ASSUME CacheInv, NEW w \in Workers, Complete(w)
    PROVE  CacheInv'
<1> USE DEF CacheInv, Complete, Completes, Disturb, Idle, redis, reader
<1>1. TypeOK'
  BY DEF TypeOK
<1>2. OutboxInv'
  BY DEF TypeOK, OutboxInv
<1>3. EntryInv'
  BY DEF TypeOK, OutboxInv, EntryInv, Visible
<1>4. LoadsInv'
  BY DEF TypeOK, EntryInv, LoadsInv, Visible, CanPublish
<1>5. FloorInv'
  BY DEF TypeOK, OutboxInv, FloorInv
<1>6. AnswersNeverGoBack'
  BY DEF AnswersNeverGoBack
<1> QED BY <1>1, <1>2, <1>3, <1>4, <1>5, <1>6

LEMMA StutterKeeps == CacheInv /\ UNCHANGED vars => CacheInv'
  BY DEF CacheInv, TypeOK, OutboxInv, EntryInv, LoadsInv, FloorInv, AnswersNeverGoBack,
         vars, redis, reader, Visible, CanPublish

LEMMA CacheStep == CacheInv /\ [Next]_vars => CacheInv'
<1> SUFFICES ASSUME CacheInv, [Next]_vars
             PROVE  CacheInv'
  OBVIOUS
<1>1. ASSUME NEW r \in Readers, ReaderStep(r) PROVE CacheInv'
  BY <1>1, FirstReadKeeps, TryLeaseKeeps, RecheckKeeps, LoadKeeps, PublishKeeps,
     ReleaseKeeps, RereadKeeps, ReaderFailsKeeps DEF ReaderStep
<1>2. ASSUME NEW w \in Workers, WorkerStep(w) PROVE CacheInv'
  BY <1>2, PickKeeps, RecoverKeeps, CompleteKeeps DEF WorkerStep
<1>3. CASE LeaseExpires \/ DataExpires \/ Write \/ AfterCommit
  BY <1>3, LeaseExpiresKeeps, DataExpiresKeeps, WriteKeeps, AfterCommitKeeps
<1>4. CASE UNCHANGED vars
  BY <1>4, StutterKeeps
<1> QED BY <1>1, <1>2, <1>3, <1>4 DEF Next
-----------------------------------------------------------------------------
LEMMA CacheInvariant == Spec => []CacheInv
<1>1. Init => CacheInv
  BY CacheInit
<1>2. CacheInv /\ [Next]_vars => CacheInv'
  BY CacheStep
<1> QED BY <1>1, <1>2, PTL DEF Spec

\* The variables of the cache keep their types: in particular the transaction
\* that writes the outbox and the worker that empties it agree on what a
\* generation is.
THEOREM ShopCacheTypeCorrect == Spec => []TypeOK
<1>1. CacheInv => TypeOK
  BY DEF CacheInv
<1> QED BY <1>1, CacheInvariant, PTL

\* queryShop never answers with a version older than one that had been fenced
\* or answered before it was called, however many readers, lost leases, slow
\* loaders and failed invalidations there are.
THEOREM ReadersNeverGoBack == Spec => []AnswersNeverGoBack
<1>1. CacheInv => AnswersNeverGoBack
  BY DEF CacheInv
<1> QED BY <1>1, CacheInvariant, PTL

\* An entry that differs from the row is visible only while the outbox still
\* holds an invalidation, so that recoverPending will repair it.
THEOREM NoStaleEntryIsForgotten == Spec => []StaleOnlyWhilePending
<1>1. CacheInv => StaleOnlyWhilePending
  BY DEF CacheInv, TypeOK, OutboxInv, EntryInv, StaleOnlyWhilePending
<1> QED BY <1>1, CacheInvariant, PTL
=============================================================================
